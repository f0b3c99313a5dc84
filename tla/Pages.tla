-------------------------------- MODULE Pages --------------------------------
(***************************************************************************)
(* A page in a browser and the dashboard it shows: the Solo Buyer page     *)
(* (SoloBuyerApp.tsx), which numbers its requests and drops the answers of *)
(* all but the last, or the operator's (App.tsx, OrderInspector.tsx),      *)
(* which shows whatever answer comes and has a form for the fee of the     *)
(* selected order.  Answers come in any order, a sync and other tabs write *)
(* all the while, and the session may end at any time.                     *)
(***************************************************************************)
EXTENDS Dashboard, FiniteSets

CONSTANTS
    MaxOpen,  \* bound on the page's requests under way, by product
    Savers    \* saves of fees that may be under way at once

(* What the page keeps of an answer of the dashboard.                      *)
Answers == [syncing : BOOLEAN, synced : 0..MaxChanges, fees : [Orders -> Fees],
            at : 0..MaxChanges]

ASSUME PagesAssumption ==
    /\ MaxOpen \in [{"solo", "aco"} -> Nat \ {0}]
    /\ None \notin Answers

VARIABLES
    page,     \* the state of the page's components
    sent,     \* what the page knows of each request it has made
    shown     \* the newest answer the Solo page has shown, by the changes it contains

pageVars == <<page, sent, shown>>
vars == <<serverVars, pageVars>>

Data == Answers \cup {None}
Form == [order : Orders, fee : Fees, typed : Fees, for : Orders] \cup {None}
Save == [pc : {"sent", "saved"}, order : Orders, fee : Fees, for : Orders]
          \cup [pc : {"shown"}, asks : Readers] \cup {None}
Page == [data : Data, screen : {"orders", "login", "error"}, leaving : BOOLEAN,
         selected : Orders \cup {None},
         form : Form,     \* the inspector: the order and fee shown, the fee typed
         saves : [Savers -> Save],        \* updateOrderFee, until its refresh ends
         saving : Orders \cup {None},     \* savingFeeOrderId
         act : {"none", "sent", "done"}]  \* act: an edit of the Solo page

(* latest: no request was numbered after it.  before: the sign-out was     *)
(* clicked after it was made.                                              *)
Sent == [latest : BOOLEAN, before : BOOLEAN]
Nothing == [latest |-> FALSE, before |-> FALSE]

Opened == [data |-> None, screen |-> "orders", leaving |-> FALSE, selected |-> None,
           form |-> None, saves |-> [s \in Savers |-> None], saving |-> None, act |-> "none"]

Init ==
    /\ DashboardInit
    /\ page = Opened
    /\ sent = [r \in Readers |-> Nothing]
    /\ shown = 0

-----------------------------------------------------------------------------
(* The inspector.  Its effect puts the fee on record into the form when    *)
(* the order or that fee is another than before; typing is left alone      *)
(* otherwise.                                                              *)

Fresh(o, data) == [order |-> o, fee |-> data.fees[o], typed |-> data.fees[o], for |-> o]

(* Mutant of SameForm: the effect does not depend on order.id.             *)
SameFormByFee(form, o, data) == form.fee = data.fees[o]

SameForm(form, o, data) == form.order = o /\ form.fee = data.fees[o]

(* Mutant of Formed: the form is filled in when it appears, and never      *)
(* again.                                                                  *)
FormedOnce(form, o, data) ==
    IF o = None \/ data = None THEN None
    ELSE IF form # None THEN form
    ELSE Fresh(o, data)

Formed(form, o, data) ==
    IF o = None \/ data = None THEN None
    ELSE IF form # None /\ SameForm(form, o, data) THEN [form EXCEPT !.order = o]
    ELSE Fresh(o, data)

WithData(data) ==
    [page EXCEPT !.data = data, !.form = Formed(@, page.selected, data)]

-----------------------------------------------------------------------------
(* refresh: ++requestSequence, and the request is made.                    *)

Ask(r) ==
    /\ read[r] = Closed
    /\ Cardinality({q \in Readers : read[q] # Closed}) < MaxOpen[product]
    /\ read' = [read EXCEPT ![r] = Reading]
    /\ sent' = [q \in Readers |->
                    IF q = r THEN [latest |-> TRUE, before |-> FALSE]
                    ELSE [sent[q] EXCEPT !.latest = FALSE]]

(* The Solo page is opened or tried again, or its timer runs.              *)
SoloAsks == product = "solo" /\ page.screen # "login" /\ ~page.leaving

(* The operator's page is opened or tried again, or its timer runs, on     *)
(* whatever screen, as long as a mailbox it was told of is syncing.        *)
OperatorAsks ==
    /\ product = "aco"
    /\ \/ page.screen = "error"
       \/ page.screen = "orders" /\ page.data = None
       \/ page.data # None /\ page.data.syncing

(* refresh runs.                                                           *)
Refresh(r) ==
    /\ SoloAsks \/ OperatorAsks
    /\ Ask(r)
    /\ UNCHANGED <<product, fees, status, changes, synced, page, shown>>

Close(r) ==
    /\ read' = [read EXCEPT ![r] = Closed]
    /\ sent' = [sent EXCEPT ![r] = Nothing]

(* Mutant of Heeded: the Solo page shows whatever answer comes, too.       *)
HeededAlways(r) == TRUE

Heeded(r) == product = "aco" \/ sent[r].latest

Answer(r) == [syncing |-> read[r].syncing, synced |-> read[r].synced, fees |-> read[r].fees,
              at |-> read[r].at]

(* A save that waited for this request ends, and no fee is being saved any *)
(* more, by what the page knows.                                           *)
Settle(p, r) ==
    LET ended == {s \in Savers : p.saves[s] = [pc |-> "shown", asks |-> r]}
    IN  [p EXCEPT !.saves = [s \in Savers |-> IF s \in ended THEN None ELSE @[s]],
                  !.saving = IF ended = {} THEN @ ELSE None]

(* An answer comes and is shown, or is dropped.                            *)
Deliver(r) ==
    /\ read[r].pc = "ready"
    /\ Close(r)
    /\ IF Heeded(r)
       THEN /\ page' = Settle([WithData(Answer(r)) EXCEPT !.screen = "orders"], r)
            /\ shown' = IF product = "solo" /\ read[r].at > shown THEN read[r].at ELSE shown
       ELSE UNCHANGED <<page, shown>>
    /\ UNCHANGED <<product, fees, status, changes, synced>>

(* 401: the session has ended, and the page turns to the login.  Sessions  *)
(* end, and begin, in other tabs too, so that any request may be denied,   *)
(* and any granted.                                                        *)
Denied(r) ==
    /\ read[r] = Reading
    /\ Close(r)
    /\ page' = IF ~Heeded(r) THEN page
               ELSE Settle([page EXCEPT !.screen = "login", !.form = None,
                                        !.data = IF product = "solo" THEN None ELSE @], r)
    /\ UNCHANGED <<product, fees, status, changes, synced, shown>>

(* Any other error: the Solo page goes on showing what it has.             *)
Lost(r) ==
    /\ read[r] # Closed
    /\ Close(r)
    /\ page' = IF product = "solo" THEN page
               ELSE IF page.screen = "login" THEN Settle(page, r)
               ELSE Settle([page EXCEPT !.screen = "error", !.form = None], r)
    /\ UNCHANGED <<product, fees, status, changes, synced, shown>>

-----------------------------------------------------------------------------
(* act, of the Solo page: an order is archived, an item corrected, a       *)
(* mailbox synced or removed.                                              *)

Shows == page.data # None /\ page.screen = "orders"

Act ==
    /\ product = "solo" /\ Shows /\ page.act = "none"
    /\ page' = [page EXCEPT !.act = "sent"]
    /\ UNCHANGED <<serverVars, sent, shown>>

Acted ==
    /\ page.act = "sent"
    /\ Change
    /\ page' = [page EXCEPT !.act = "done"]
    /\ UNCHANGED <<product, fees, status, synced, read, sent, shown>>

(* The page asks again, even if the sign-out was clicked meanwhile.        *)
ActShown(r) ==
    /\ page.act = "done"
    /\ page' = [page EXCEPT !.act = "none"]
    /\ Ask(r)
    /\ UNCHANGED <<product, fees, status, changes, synced, shown>>

ActFails ==
    /\ page.act = "sent"
    /\ page' = [page EXCEPT !.act = "none"]
    /\ UNCHANGED <<serverVars, sent, shown>>

-----------------------------------------------------------------------------
(* The operator's page: mailbox, selection and fee.                        *)

(* syncInbox shows the mailbox as syncing at once.                         *)
SyncInbox ==
    /\ product = "aco" /\ Shows /\ ~page.data.syncing
    /\ page' = [page EXCEPT !.data.syncing = TRUE]
    /\ UNCHANGED <<serverVars, sent, shown>>

(* The request for the sync fails: the mailbox is shown with an error,      *)
(* and no more as syncing.                                                 *)
SyncRefused ==
    /\ product = "aco" /\ Shows /\ page.data.syncing
    /\ page' = [page EXCEPT !.data.syncing = FALSE]
    /\ UNCHANGED <<serverVars, sent, shown>>

Select(o) ==
    /\ product = "aco" /\ Shows /\ page.selected # o
    /\ page' = [page EXCEPT !.selected = o, !.form = Formed(@, o, page.data)]
    /\ UNCHANGED <<serverVars, sent, shown>>

Type(fee) ==
    /\ page.form # None /\ page.form.typed # fee
    /\ page' = [page EXCEPT !.form.typed = fee, !.form.for = page.form.order]
    /\ UNCHANGED <<serverVars, sent, shown>>

(* saveFee sends what is typed for the order the inspector shows, unless   *)
(* that order is the one whose save began last and still goes on.          *)
SaveFee(s) ==
    /\ page.form # None /\ page.form.order # page.saving /\ page.saves[s] = None
    /\ page' = [page EXCEPT !.saving = page.form.order,
                            !.saves[s] = [pc |-> "sent", order |-> page.form.order,
                                          fee |-> page.form.typed, for |-> page.form.for]]
    /\ UNCHANGED <<serverVars, sent, shown>>

Saved(s, pc) == page.saves[s] # None /\ page.saves[s].pc = pc

FeeSaved(s) ==
    /\ Saved(s, "sent")
    /\ SetFee(page.saves[s].order, page.saves[s].fee)
    /\ page' = [page EXCEPT !.saves[s].pc = "saved"]
    /\ UNCHANGED <<sent, shown>>

(* The answer is merged into the orders shown, and the page asks again.    *)
FeeShown(s, r) ==
    /\ Saved(s, "saved")
    /\ LET save == page.saves[s]
           data == IF page.data = None THEN None
                   ELSE [page.data EXCEPT !.fees[save.order] = save.fee]
       IN  page' = [WithData(data) EXCEPT !.saves[s] = [pc |-> "shown", asks |-> r],
                        !.form = IF Shows THEN @ ELSE None]
    /\ Ask(r)
    /\ UNCHANGED <<product, fees, status, changes, synced, shown>>

FeeRefused(s) ==
    /\ Saved(s, "sent")
    /\ page' = [page EXCEPT !.saves[s] = None, !.saving = None]
    /\ UNCHANGED <<serverVars, sent, shown>>

-----------------------------------------------------------------------------
(* Sign-out and sign-in.                                                   *)

(* Sign-out is clicked.  The Solo page numbers it as a request and shows   *)
(* nothing; the operator's does nothing before the answer.                 *)
SignOut ==
    /\ product = "solo" /\ Shows
    /\ page' = [page EXCEPT !.leaving = TRUE, !.data = None]
    /\ sent' = [r \in Readers |-> [latest |-> FALSE, before |-> read[r] # Closed]]
    /\ UNCHANGED <<serverVars, shown>>

(* Another page is opened: this one's requests are answered to nobody.     *)
Left ==
    /\ read' = [r \in Readers |-> Closed]
    /\ sent' = [r \in Readers |-> Nothing]

(* The session is over and the page is left, its requests with it; the one *)
(* that is opened next turns to the login.                                 *)
SignedOut ==
    /\ product = "aco" \/ page.leaving
    /\ page' = [Opened EXCEPT !.screen = "login"]
    /\ Left
    /\ UNCHANGED <<product, fees, status, changes, synced, shown>>

(* Sign-out fails: the Solo page asks for its data again.                  *)
SignOutFails(r) ==
    /\ page.leaving
    /\ page' = [page EXCEPT !.leaving = FALSE]
    /\ Ask(r)
    /\ UNCHANGED <<product, fees, status, changes, synced, shown>>

(* The operator signs in on a page of its own and comes back to a new one. *)
SignIn(r) ==
    /\ page.screen = "login"
    /\ IF product = "solo" THEN Ask(r) /\ UNCHANGED page
       ELSE Left /\ page' = Opened
    /\ UNCHANGED <<product, fees, status, changes, synced, shown>>

-----------------------------------------------------------------------------
PageStep ==
    \/ \E r \in Readers :
         Refresh(r) \/ Deliver(r) \/ Denied(r) \/ Lost(r) \/ ActShown(r)
           \/ SignOutFails(r) \/ SignIn(r)
    \/ \E s \in Savers :
         SaveFee(s) \/ FeeSaved(s) \/ FeeRefused(s) \/ \E r \in Readers : FeeShown(s, r)
    \/ \E o \in Orders : Select(o)
    \/ \E fee \in Fees : Type(fee)
    \/ Act \/ Acted \/ ActFails \/ SyncInbox \/ SyncRefused
    \/ SignOut \/ SignedOut

Next == (ServerStep /\ UNCHANGED pageVars) \/ PageStep

Spec == Init /\ [][Next]_vars

-----------------------------------------------------------------------------
(* Variables hold values of their types, and the inspector, when it is     *)
(* there, is that of the selected order.                                   *)
TypeOK ==
    /\ product \in {"solo", "aco"} /\ fees \in [Orders -> Fees] /\ status \in Statuses
    /\ changes \in 0..MaxChanges /\ synced \in 0..changes
    /\ read \in [Readers -> Read]
    /\ page \in Page /\ sent \in [Readers -> Sent]
    /\ shown \in 0..changes
    /\ page.form # None => Shows /\ page.form.order = page.selected

(* What the Solo page shows never goes back in time, however its requests  *)
(* overtake one another, and nothing it asked for before the sign-out was  *)
(* clicked is shown after it (requestSequence, SoloBuyerApp.tsx:16).       *)
NeverBackInTime ==
    [][product = "solo" /\ page'.data # page.data /\ page'.data # None =>
         /\ page'.data.at >= shown
         /\ \E r \in Readers : read[r].pc = "ready" /\ Answer(r) = page'.data /\ ~sent[r].before]_vars

(* The page shows all that was recorded by the end of the last sync it     *)
(* tells of: when that sync has ended, App.tsx stops asking for more       *)
(* (lines 79-82).  It need not be the mailbox's last sync: the operator's  *)
(* page shows whatever answer comes last.                                  *)
SyncedShowsAll == page.data # None => page.data.at >= page.data.synced

(* A fee is saved for the order it was typed for, or shown for, whatever   *)
(* the operator selects and the polls bring in between                     *)
(* (OrderInspector.tsx:30-38).                                             *)
SavedForItsOrder ==
    \A s \in Savers : Saved(s, "sent") => page.saves[s].for = page.saves[s].order
=============================================================================
