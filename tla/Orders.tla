------------------------------- MODULE Orders -------------------------------
(***************************************************************************)
(* The orders of one customer, their shipments and their timelines, as two *)
(* writers build them: the mailbox sync, one recordMessage transaction per *)
(* mail, and the carrier poll, one updateShipmentFromCarrier transaction   *)
(* per answer (repository.ts, coordinator.ts).  A mail locks the order and *)
(* then the shipment, a carrier's answer the shipment and then the order;  *)
(* what PostgreSQL makes of that is part of the model.                     *)
(*                                                                         *)
(* Mails may be in the mailbox in any order.  A sync reads some of them,    *)
(* oldest first, and ends at the first that cannot be loaded.  Each is     *)
(* read again when a deployment changes the parser, which may then find    *)
(* another status in it.                                                   *)
(***************************************************************************)
EXTENDS Integers, Sequences, FiniteSets, Functions

CONSTANTS
    Numbers, Tracks, None,
    Mails,
    NumberOf, TrackOf,              \* what the parser reads in each mail
    StatusOf,                       \* and, per parser version, its status
    CarrierStatuses,                \* what carriers answer
    MaxMessages,                    \* SYNC_MAX_MESSAGES
    MaxShipments                    \* TRACKING_MAX_SHIPMENTS_PER_SYNC

(* status_rank: cancelled is the furthest a status goes.                   *)
Rank == [pending |-> 1, confirmed |-> 2, processing |-> 3,
         shipped |-> 4, delivered |-> 5, cancelled |-> 6]

Statuses == DOMAIN Rank

ASSUME OrdersAssumption ==
    /\ None \notin Numbers \cup Tracks \cup Mails \cup Statuses
    /\ Numbers \cap Tracks = {} /\ IsFiniteSet(Numbers \cup Tracks)
    /\ NumberOf \in [Mails -> Numbers \cup {None}]
    /\ TrackOf \in [Mails -> Tracks \cup {None}]
    /\ \A m \in Mails : NumberOf[m] # None \/ TrackOf[m] # None
    /\ StatusOf \in Seq([Mails -> Statuses]) /\ StatusOf # <<>>
    /\ CarrierStatuses \subseteq Statuses
    /\ MaxMessages \in Nat \ {0} /\ MaxShipments \in Nat \ {0}

(* An order's number; one without a number is named after its tracking.    *)
Keys == Numbers \cup Tracks

NoShipment == [track |-> None, status |-> "pending"]
Shipments == [track : Tracks \cup {None}, status : Statuses]
Events == [order : Keys, status : Statuses, source : Mails \cup Tracks]

VARIABLES
    status,     \* status[k]: orders.status, None without an order
    shipment,   \* shipment[k]: the shipments row of an order
    age,        \* shipments.updated_at: how many were touched since
    events,     \* order_events
    version,    \* MAILBOX_PARSER_VERSION
    recorded,   \* mails in processed_messages under this version
    uid,        \* uid[m]: the mail's place in the mailbox, fixed
    batch,      \* what the sync under way has still to load, {} without one
    mail,       \* the sync's transaction: its mail and the order it has locked
    carrier     \* the poll: what is left of its list, and its transaction

vars == <<status, shipment, age, events, version, recorded, uid, batch, mail, carrier>>

NoMail == [m |-> None, order |-> None]
NoPoll == [todo |-> {}, order |-> None, track |-> None, snapshot |-> None]

Init ==
    /\ status = [k \in Keys |-> None]
    /\ shipment = [k \in Keys |-> NoShipment]
    /\ age = [k \in Keys |-> Cardinality(Keys)]
    /\ events = {}
    /\ version = 1
    /\ recorded = {}
    /\ uid \in Injection(Mails, 1..Cardinality(Mails))
    /\ batch = {}
    /\ mail = NoMail
    /\ carrier = NoPoll

(* The status the parser finds in a mail.                                  *)
Read(m) == StatusOf[version][m]

(* Mutant of Later: the last writer wins.                                  *)
LaterWins(old, new) == new

Later(old, new) == IF old = None \/ Rank[new] >= Rank[old] THEN new ELSE old

Touch(k) ==
    [j \in Keys |-> IF j = k THEN 0 ELSE IF age[j] < age[k] THEN age[j] + 1 ELSE age[j]]

-----------------------------------------------------------------------------
(* The mailbox sync and recordMessage.                                     *)

First(m, S) == m \in S /\ \A n \in S : uid[m] <= uid[n]

(* selectMessageBatch: of the mails that are not on record the oldest, and *)
(* whichever others have arrived and fit under the cap.                    *)
BeginSync ==
    /\ batch = {}
    /\ \E b \in SUBSET (Mails \ recorded) :
         /\ \E m \in b : First(m, Mails \ recorded)
         /\ Cardinality(b) <= MaxMessages
         /\ batch' = b
    /\ UNCHANGED <<status, shipment, age, events, version, recorded, uid, mail, carrier>>

(* Mutant of OrderOf: a mail without a number is always an order's own.    *)
OrderOfNamed(m) == IF NumberOf[m] # None THEN NumberOf[m] ELSE TrackOf[m]

(* The order a mail is about: its number's, else the one whose shipment    *)
(* has its tracking number, else one named after it.                       *)
OrderOf(m) ==
    IF NumberOf[m] # None THEN NumberOf[m]
    ELSE IF \E k \in Keys : shipment[k].track = TrackOf[m]
         THEN CHOOSE k \in Keys : shipment[k].track = TrackOf[m]
         ELSE TrackOf[m]

(* The oldest mail of the batch: the row of its order is inserted or       *)
(* updated, and locked.                                                    *)
MailOrder(m) ==
    /\ mail = NoMail
    /\ First(m, batch)
    /\ mail' = [m |-> m, order |-> OrderOf(m)]
    /\ UNCHANGED <<status, shipment, age, events, version, recorded, uid, batch, carrier>>

(* UNIQUE (workspace_id, customer_id, tracking_number)                     *)
TrackTaken ==
    /\ mail # NoMail
    /\ TrackOf[mail.m] # None
    /\ \E k \in Keys \ {mail.order} : shipment[k].track = TrackOf[mail.m]

(* The shipment is inserted or updated, unless a carrier's answer has it   *)
(* locked; the event is added and the transaction committed.               *)
MailCommit ==
    /\ mail # NoMail
    /\ ~TrackTaken
    /\ LET m == mail.m
           k == mail.order
       IN  /\ IF TrackOf[m] = None THEN UNCHANGED <<shipment, age>>
              ELSE /\ carrier.order # k
                   /\ shipment' = [shipment EXCEPT ![k] =
                        [track |-> TrackOf[m],
                         status |-> IF @.track = None THEN Read(m)
                                    ELSE Later(@.status, Read(m))]]
                   /\ age' = Touch(k)
           /\ status' = [status EXCEPT ![k] = Later(@, Read(m))]
           /\ events' = events \cup {[order |-> k, status |-> Read(m), source |-> m]}
           /\ recorded' = recorded \cup {m}
           /\ batch' = batch \ {m}
    /\ mail' = NoMail
    /\ UNCHANGED <<version, uid, carrier>>

(* Mutant of MailAbort: the mail stays on record though it was not loaded. *)
MailAbortRecorded ==
    /\ mail # NoMail
    /\ recorded' = recorded \cup {mail.m}
    /\ mail' = NoMail
    /\ batch' = {}
    /\ UNCHANGED <<status, shipment, age, events, version, uid, carrier>>

(* A unique violation, a deadlock, a lost connection: all is rolled back,  *)
(* the mail's row in processed_messages too, and the error ends the sync:  *)
(* the mails after it wait for the next one, which starts with this mail.  *)
MailAbort ==
    /\ batch # {}
    /\ mail' = NoMail
    /\ batch' = {}
    /\ UNCHANGED <<status, shipment, age, events, version, recorded, uid, carrier>>

-----------------------------------------------------------------------------
(* The carrier poll.                                                       *)

Active(k) == shipment[k].track # None /\ shipment[k].status \notin {"delivered", "cancelled"}

Listed(K) == {[order |-> k, track |-> shipment[k].track] : k \in K}

(* Mutant of Poll: the list is not limited.                                *)
PollUnlimited ==
    LET active == {k \in Keys : Active(k)}
    IN  /\ carrier = NoPoll /\ active # {}
        /\ carrier' = [NoPoll EXCEPT !.todo = Listed(active)]
    /\ UNCHANGED <<status, shipment, age, events, version, recorded, uid, batch, mail>>

(* listActiveShipments: the ones not touched for longest.                  *)
Poll ==
    LET active == {k \in Keys : Active(k)}
        Older(k) == {j \in active : age[j] > age[k]}
    IN  /\ carrier = NoPoll /\ active # {}
        /\ carrier' = [NoPoll EXCEPT !.todo =
                Listed({k \in active : Cardinality(Older(k)) < MaxShipments})]
    /\ UNCHANGED <<status, shipment, age, events, version, recorded, uid, batch, mail>>

(* The carrier answers about a listed shipment, whose row is updated and   *)
(* locked.                                                                 *)
CarrierShipment ==
    /\ carrier.order = None
    /\ \E listed \in carrier.todo, s \in CarrierStatuses :
         carrier' = [todo |-> carrier.todo \ {listed}, order |-> listed.order,
                     track |-> listed.track, snapshot |-> s]
    /\ UNCHANGED <<status, shipment, age, events, version, recorded, uid, batch, mail>>

(* The carrier cannot be reached, or has nothing to say.                   *)
CarrierSkip ==
    /\ carrier.order = None
    /\ \E listed \in carrier.todo : carrier' = [carrier EXCEPT !.todo = @ \ {listed}]
    /\ UNCHANGED <<status, shipment, age, events, version, recorded, uid, batch, mail>>

(* Mutant of CarrierCommit: only the shipment follows the carrier.         *)
CarrierCommitShipment ==
    /\ carrier.order # None
    /\ LET k == carrier.order
       IN  /\ mail.order # k
           /\ shipment' = [shipment EXCEPT ![k].status = Later(@, carrier.snapshot)]
           /\ age' = Touch(k)
           /\ carrier' = [NoPoll EXCEPT !.todo = carrier.todo]
    /\ UNCHANGED <<status, events, version, recorded, uid, batch, mail>>

(* The order is updated, unless a mail has it locked, the event is added,  *)
(* and the transaction committed.                                          *)
CarrierCommit ==
    /\ carrier.order # None
    /\ LET k == carrier.order
       IN  /\ mail.order # k
           /\ shipment' = [shipment EXCEPT ![k].status = Later(@, carrier.snapshot)]
           /\ age' = Touch(k)
           /\ status' = [status EXCEPT ![k] = Later(@, carrier.snapshot)]
           /\ events' = events \cup
                {[order |-> k, status |-> carrier.snapshot, source |-> carrier.track]}
           /\ carrier' = [NoPoll EXCEPT !.todo = carrier.todo]
    /\ UNCHANGED <<version, recorded, uid, batch, mail>>

CarrierAbort ==
    /\ carrier.order # None
    /\ carrier' = [NoPoll EXCEPT !.todo = carrier.todo]
    /\ UNCHANGED <<status, shipment, age, events, version, recorded, uid, batch, mail>>

(* The process stops, and with it the sync and both transactions.          *)
Restart ==
    /\ mail' = NoMail
    /\ batch' = {}
    /\ carrier' = NoPoll
    /\ UNCHANGED <<status, shipment, age, events, version, recorded, uid>>

(* The next process has a new parser, which has read no mail yet.          *)
Upgrade ==
    /\ version < Len(StatusOf)
    /\ version' = version + 1
    /\ recorded' = {}
    /\ mail' = NoMail
    /\ batch' = {}
    /\ carrier' = NoPoll
    /\ UNCHANGED <<status, shipment, age, events, uid>>

ReadMail == \E m \in Mails : MailOrder(m)

Next ==
    \/ BeginSync \/ ReadMail \/ MailCommit \/ MailAbort
    \/ Poll \/ CarrierShipment \/ CarrierSkip \/ CarrierCommit \/ CarrierAbort
    \/ Restart \/ Upgrade

Spec == Init /\ [][Next]_vars

-----------------------------------------------------------------------------
(* Fairness.  The timer starts a sync whenever mail is left; syncs do not  *)
(* all fail before their first mail, nor do all transactions that could    *)
(* commit; a violated index fails the transaction; and PostgreSQL, which   *)
(* ends a deadlock by aborting one of the two, does not always choose the  *)
(* mail.  No mail has a fairness of its own: the sync's order decides.     *)

Deadlocked == mail # NoMail /\ mail.order = carrier.order

FairSpec ==
    /\ Spec
    /\ WF_vars(BeginSync) /\ SF_vars(ReadMail) /\ SF_vars(MailCommit)
    /\ WF_vars(TrackTaken /\ MailAbort)
    /\ SF_vars(Deadlocked /\ CarrierAbort)

-----------------------------------------------------------------------------
(* Properties.                                                             *)

(* Every row has its type, no two shipments were touched at the same time, *)
(* and a poll never lists more than the configured number.                 *)
RowsOK ==
    /\ status \in [Keys -> Statuses \cup {None}]
    /\ shipment \in [Keys -> Shipments]
    /\ age \in [Keys -> 0..Cardinality(Keys)]
    /\ events \subseteq Events
    /\ version \in 1..Len(StatusOf)
    /\ recorded \subseteq Mails
    /\ uid \in Injection(Mails, 1..Cardinality(Mails))
    /\ batch \subseteq Mails
    /\ mail \in [m : Mails, order : Keys] \cup {NoMail}
    /\ carrier \in [todo : SUBSET [order : Keys, track : Tracks], order : {None},
                    track : {None}, snapshot : {None}]
                \cup [todo : SUBSET [order : Keys, track : Tracks], order : Keys,
                     track : Tracks, snapshot : CarrierStatuses]

ListsOK ==
    /\ \A j, k \in Keys :
         shipment[j].track # None /\ shipment[k].track # None /\ age[j] = age[k] => j = k
    /\ Cardinality(carrier.todo) <= MaxShipments

TypeOK == RowsOK /\ ListsOK

(* An order's status is the furthest one of its timeline, whichever of the *)
(* two writers came last, whatever was aborted and whichever parser read   *)
(* the mails (architecture.md:102, "Order status is monotonic").           *)
StatusIsFurthest ==
    \A k \in Keys :
        LET told == {e.status : e \in {f \in events : f.order = k}}
        IN  IF told = {} THEN status[k] = None
            ELSE status[k] \in told /\ \A s \in told : Rank[s] <= Rank[status[k]]

(* A shipment is never further than its order: the two statuses that the   *)
(* dashboard shows side by side are written by two statements, each with a *)
(* rank rule of its own.                                                   *)
ShipmentNotAhead ==
    \A k \in Keys :
        shipment[k].track # None =>
            status[k] # None /\ Rank[shipment[k].status] <= Rank[status[k]]

(* A mail on record has left its event on the timeline of an order, under  *)
(* the parser that read it: nothing reads it again.                        *)
RecordedMailTold ==
    \A m \in recorded :
        \E e \in events : e.source = m /\ e.status = Read(m) /\ status[e.order] # None

(* Another order has the tracking number of a mail.                        *)
Conflict(m) ==
    /\ NumberOf[m] # None /\ TrackOf[m] # None
    /\ \E k \in Keys \ {NumberOf[m]} : shipment[k].track = TrackOf[m]

(* Again and again every mail is on record, unless it or an older one has  *)
(* a tracking number that another order took: deadlocks, failures,         *)
(* restarts and new parsers cost retries only (syncOne reads oldest first  *)
(* and the timer repeats it).                                              *)
AllLoaded ==
    \A m \in Mails :
        []<>(\/ m \in recorded
             \/ \E n \in Mails \ recorded : uid[n] <= uid[m] /\ Conflict(n))

(* Every mail without such a conflict of its own is in the end on record   *)
(* (README.md:15, "subsequent polls continue the deep-scan window, even    *)
(* after a restart, until it drains").                                     *)
ConflictFreeLoaded == \A m \in Mails : <>(m \in recorded \/ Conflict(m))
=============================================================================
