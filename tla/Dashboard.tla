------------------------------ MODULE Dashboard ------------------------------
(***************************************************************************)
(* What the dashboard of one mailbox is read from, and who writes it: a    *)
(* sync, edits of orders made in one tab or another, and fee edits, each a *)
(* transaction of its own; and the dashboard itself, whose statements see  *)
(* each what is committed when it runs (repository.ts).                    *)
(*                                                                         *)
(* Of the orders a dashboard carries their fees, for the form that edits   *)
(* them, and how many committed changes it has seen.                       *)
(***************************************************************************)
EXTENDS Integers

CONSTANTS
    Orders,
    Fees,        \* fee percentages; an order begins with 0
    Readers,     \* dashboard requests that may be under way at once
    MaxChanges,  \* bound on committed changes of orders
    None

ASSUME DashboardAssumption == 0 \in Fees /\ MaxChanges \in Nat

VARIABLES
    product,  \* workspaces.product_type
    fees,     \* orders.fee_basis_points
    status,   \* customers.sync_status
    changes,  \* committed changes of orders so far
    synced,   \* changes when the last sync ended
    read      \* dashboard requests

serverVars == <<product, fees, status, changes, synced, read>>

Statuses == {"synced", "syncing", "error"}

Closed == [pc |-> "closed"]
Reading == [pc |-> "sent"]
Read == {Closed, Reading}
          \cup [pc : {"half"}, syncing : BOOLEAN, synced : 0..MaxChanges]
          \cup [pc : {"ready"}, syncing : BOOLEAN, synced : 0..MaxChanges,
                fees : [Orders -> Fees], at : 0..MaxChanges]

DashboardInit ==
    /\ product \in {"solo", "aco"}
    /\ fees = [o \in Orders |-> 0]
    /\ status = "synced"
    /\ changes = 0
    /\ synced = 0
    /\ read = [r \in Readers |-> Closed]

(* An order is changed, by its mail or by hand.                            *)
Change ==
    /\ changes < MaxChanges
    /\ changes' = changes + 1

BeginSync ==
    /\ status # "syncing"
    /\ status' = "syncing"
    /\ UNCHANGED <<product, fees, changes, synced, read>>

RecordMail ==
    /\ status = "syncing"
    /\ Change
    /\ UNCHANGED <<product, fees, status, synced, read>>

(* A sync ends, or fails after some of its mail is recorded.               *)
FinishSync ==
    /\ status = "syncing"
    /\ status' \in {"synced", "error"}
    /\ synced' = changes
    /\ UNCHANGED <<product, fees, changes, read>>

(* Only the operator's workspaces have fees.                               *)
SetFee(o, fee) ==
    /\ product = "aco"
    /\ Change
    /\ fees' = [fees EXCEPT ![o] = fee]
    /\ UNCHANGED <<product, status, synced, read>>

(* Mutant of ReadStep: the orders are read before the customers.           *)
ReadStepReversed(r) ==
    /\ \/ /\ read[r] = Reading
          /\ read' = [read EXCEPT ![r] = [pc |-> "half", syncing |-> FALSE, synced |-> changes]]
       \/ /\ read[r].pc = "half"
          /\ read' = [read EXCEPT ![r] = [pc |-> "ready", syncing |-> status = "syncing",
                                          synced |-> synced, fees |-> fees, at |-> @.synced]]
    /\ UNCHANGED <<product, fees, status, changes, synced>>

(* dashboard: first the customers, then their orders.  Of the status the   *)
(* pages ask but whether the mailbox is syncing.                           *)
ReadStep(r) ==
    /\ \/ /\ read[r] = Reading
          /\ read' = [read EXCEPT ![r] = [pc |-> "half", syncing |-> status = "syncing",
                                          synced |-> synced]]
       \/ /\ read[r].pc = "half"
          /\ read' = [read EXCEPT ![r] = [pc |-> "ready", syncing |-> @.syncing,
                                          synced |-> @.synced, fees |-> fees, at |-> changes]]
    /\ UNCHANGED <<product, fees, status, changes, synced>>

(* What goes on without this page: the sync and other tabs.                *)
ServerStep ==
    \/ BeginSync \/ RecordMail \/ FinishSync
    \/ \E o \in Orders, fee \in Fees : SetFee(o, fee)
    \/ \E r \in Readers : ReadStep(r)

=============================================================================
