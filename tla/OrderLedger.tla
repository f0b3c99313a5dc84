----------------------------- MODULE OrderLedger -----------------------------
(***************************************************************************)
(* What invoice creation promises, with no transaction, lock or retry in   *)
(* sight: an order is claimed by one invoice, once and for good, all the   *)
(* orders of an invoice are claimed in the same instant, and a request key *)
(* names one invoice.  Billing.tla is shown to implement this.             *)
(***************************************************************************)
CONSTANTS
    Orders,     \* orders of the workspace
    Invoices,   \* invoice identifiers
    Keys,       \* idempotency keys of create requests
    NULL        \* "no invoice", "no key"

VARIABLES
    claim,      \* claim[o]: the invoice that bills order o, or NULL
    requestOf   \* requestOf[i]: the key invoice i was created under, or NULL

ledgerVars == <<claim, requestOf>>

Init ==
    /\ claim = [o \in Orders |-> NULL]
    /\ requestOf = [i \in Invoices |-> NULL]

(* One request claims a set of unclaimed orders for a new invoice.         *)
Claim(i, k, chosen) ==
    /\ requestOf[i] = NULL
    /\ \A j \in Invoices : requestOf[j] # k
    /\ \A o \in chosen : claim[o] = NULL
    /\ claim' = [o \in Orders |-> IF o \in chosen THEN i ELSE claim[o]]
    /\ requestOf' = [requestOf EXCEPT ![i] = k]

Next ==
    \E i \in Invoices, k \in Keys, chosen \in (SUBSET Orders) \ {{}} :
        Claim(i, k, chosen)

Spec == Init /\ [][Next]_ledgerVars
=============================================================================
