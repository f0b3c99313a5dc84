----------------------------- MODULE MailboxSync -----------------------------
(***************************************************************************)
(* Synchronisation of one customer's Gmail mailbox: the coordinator's      *)
(* queue, the history window, the two-ended batches, the review budget of  *)
(* the AI repair, the durable backfill and a process that can stop between *)
(* any two of them (imap.ts, discovery.ts, order-ingestion.ts).  Customers *)
(* share nothing but the process, so one stands for all.                   *)
(*                                                                         *)
(* A mail is its UID.  What the deterministic parser makes of a mail is    *)
(* its Kind: a pin is told from the header; noise is skipped or matches    *)
(* nothing; an order carries its own order number; an update and a         *)
(* cancellation are recognised only by an order number the customer        *)
(* already has; an unclear one never is.  An AI provider is configured.    *)
(***************************************************************************)
EXTENDS Integers, FiniteSets

CONSTANTS
    Mails,          \* UIDs
    Kind, OrderOf,  \* what each mail is, and the order it is about
    Saved,          \* mails inside the saved window; the others need a backfill
    SyncMax,        \* SYNC_MAX_MESSAGES
    AiBudget,       \* OPENAI_MAX_REVIEWS_PER_SYNC
    Orders,
    MaxVersion,     \* bound on parser versions deployed
    MaxFailures     \* bound on failed syncs and process stops

Kinds == {"pin", "noise", "order", "update", "cancellation", "unclear"}

ASSUME MailboxAssumption ==
    /\ Mails \subseteq Nat /\ IsFiniteSet(Mails)
    /\ Kind \in [Mails -> Kinds]
    /\ OrderOf \in [Mails -> Orders]
    /\ Saved \subseteq Mails
    /\ SyncMax \in Nat \ {0} /\ AiBudget \in Nat
    /\ MaxVersion \in Nat \ {0} /\ MaxFailures \in Nat

VARIABLES
    arrived,    \* mails in the mailbox
    parsedBy,   \* parsedBy[m]: processed_messages.parser_version, 0 without a row
    orders,     \* orders of the customer
    backfill,   \* customers.backfill_days > 0
    status,     \* customers.sync_status
    heard,      \* heard[m]: last version under which the AI answered about m
    version,    \* MAILBOX_PARSER_VERSION of the running process
    sync,       \* syncOne, idle when the customer is not in the active set
    failures

mailVars == <<parsedBy, orders, heard>>
vars == <<arrived, mailVars, backfill, status, version, sync, failures>>

SyncState ==
    [pc : {"idle", "save", "begin", "load", "headers", "batch", "finish"},
     full : BOOLEAN,            \* options.fullHistory
     deep : BOOLEAN,            \* mailbox.backfillDays > 0, as getMailbox read it
     at : SUBSET Mails,         \* what the mailbox held when it was searched
     known : SUBSET Orders,     \* knownOrderNumbers
     skip : SUBSET Mails,       \* processedMessageKeys
     todo : SUBSET Mails,       \* the batch, still to be fetched
     backlog : BOOLEAN,         \* hasBacklog
     budget : 0..AiBudget]      \* itemReviewBudget.remaining

Idle == [pc |-> "idle", full |-> FALSE, deep |-> FALSE, at |-> {}, known |-> {},
         skip |-> {}, todo |-> {}, backlog |-> FALSE, budget |-> 0]

Init ==
    /\ \E last \in Mails : arrived = {m \in Mails : m <= last} \cup (Mails \ Saved)
    /\ parsedBy = [m \in Mails |-> 0]
    /\ orders = {}
    /\ backfill = FALSE
    /\ status = "synced"
    /\ heard = [m \in Mails |-> 0]
    /\ version = 1
    /\ sync = Idle
    /\ failures = 0

(* New mail has the next UID.                                              *)
Arrive(m) ==
    /\ m \notin arrived
    /\ \A n \in Mails : n < m => n \in arrived
    /\ arrived' = arrived \cup {m}
    /\ UNCHANGED <<mailVars, backfill, status, version, sync, failures>>

(* enqueue: a customer in the active set is left alone, whatever was asked *)
(* for.                                                                    *)
Poll ==
    /\ sync.pc = "idle"
    /\ sync' = [Idle EXCEPT !.pc = "begin"]
    /\ UNCHANGED <<arrived, mailVars, backfill, status, version, failures>>

(* The manual route answers 202 in either case; only here does it lead to  *)
(* a backfill.                                                             *)
Manual ==
    /\ sync.pc = "idle"
    /\ sync' = [Idle EXCEPT !.pc = "save", !.full = TRUE]
    /\ UNCHANGED <<arrived, mailVars, backfill, status, version, failures>>

SaveBackfill ==
    /\ sync.pc = "save"
    /\ backfill' = TRUE
    /\ sync' = [sync EXCEPT !.pc = "begin"]
    /\ UNCHANGED <<arrived, mailVars, status, version, failures>>

(* getMailbox, then beginSync.                                             *)
BeginSync ==
    /\ sync.pc = "begin"
    /\ status' = "syncing"
    /\ sync' = [sync EXCEPT !.pc = "load", !.deep = backfill]
    /\ UNCHANGED <<arrived, mailVars, backfill, version, failures>>

(* The known numbers and processed keys are read once per run; then the    *)
(* mailbox is opened and searched.                                         *)
LoadAndSearch ==
    /\ sync.pc = "load"
    /\ sync' = [sync EXCEPT !.pc = "headers", !.at = arrived, !.known = orders,
                            !.skip = {m \in Mails : parsedBy[m] = version},
                            !.budget = AiBudget]
    /\ UNCHANGED <<arrived, mailVars, backfill, status, version, failures>>

(* Mutant of Window: only this run's own option widens the window.         *)
WindowOfRequest(s) == {m \in s.at : s.full \/ m \in Saved}

Window(s) == {m \in s.at : s.full \/ s.deep \/ m \in Saved}

(* Mutant of Candidates: the cap is applied before de-duplication.         *)
CandidatesUnfiltered(s) == Window(s)

Candidates(s) == Window(s) \ s.skip

(* Mutant of Overflow: the backlog is counted before de-duplication.       *)
OverflowUnfiltered(s) == Cardinality(Window(s)) > SyncMax

Overflow(s) == Cardinality(Candidates(s)) > SyncMax

(* The oldest half of the cap, rounded up, and the newest half.            *)
SelectMessageBatch(uids) ==
    LET older(m) == Cardinality({n \in uids : n < m})
        newer(m) == Cardinality({n \in uids : n > m})
    IN  {m \in uids : older(m) < (SyncMax + 1) \div 2 \/ newer(m) < SyncMax \div 2}

(* recordMessage: one transaction for the row and, on a match, its order.  *)
Record(m, match) ==
    /\ parsedBy' = [parsedBy EXCEPT ![m] = version]
    /\ orders' = IF match THEN orders \cup {OrderOf[m]} ELSE orders

(* The header pass puts PINs on record outside the cap, then the batch is  *)
(* chosen from what is left.                                               *)
SkipPin(m) ==
    /\ sync.pc = "headers"
    /\ m \in Candidates(sync)
    /\ Kind[m] = "pin"
    /\ Record(m, FALSE)
    /\ sync' = [sync EXCEPT !.skip = @ \cup {m}]
    /\ UNCHANGED <<arrived, heard, backfill, status, version, failures>>

ChooseBatch ==
    /\ sync.pc = "headers"
    /\ \A m \in Candidates(sync) : Kind[m] # "pin"
    /\ sync' = [sync EXCEPT !.pc = "batch", !.backlog = Overflow(sync),
                            !.todo = SelectMessageBatch(Candidates(sync))]
    /\ UNCHANGED <<arrived, mailVars, backfill, status, version, failures>>

(***************************************************************************)
(* The batch is fetched in UID order, one mail per step.                   *)
(***************************************************************************)
Fetched(m) ==
    /\ sync.pc = "batch"
    /\ m \in sync.todo
    /\ \A n \in sync.todo : m <= n

(* parseOrderEmail finds an order: its number is in the text, or is known. *)
Parsed(m) ==
    \/ Kind[m] = "order"
    \/ Kind[m] \in {"update", "cancellation"} /\ OrderOf[m] \in sync.known

(* It finds none in a mail that looks like one and cancels nothing.        *)
NeedsRepair(m) == ~Parsed(m) /\ Kind[m] \in {"update", "unclear"}

(* Mutant of Reviews: a message's second attempt ignores the budget.       *)
ReviewsUnbounded(budget) == 0..2

(* Calls one message may make: two, while the run's budget lasts.          *)
Reviews(budget) == 0..(IF budget < 2 THEN budget ELSE 2)

(* The optional review of its items never keeps an order from being saved; *)
(* those of a cancellation are not reviewed.                               *)
ReadOrder(m) ==
    /\ Fetched(m) /\ Parsed(m)
    /\ Record(m, TRUE)
    /\ \E calls \in Reviews(sync.budget) :
         /\ Kind[m] = "cancellation" => calls = 0
         /\ sync' = [sync EXCEPT !.todo = @ \ {m}, !.known = @ \cup {OrderOf[m]},
                                 !.budget = @ - calls]
    /\ UNCHANGED <<arrived, heard, backfill, status, version, failures>>

(* Noise, and the cancellation of an order not yet known, match nothing.   *)
ReadOther(m) ==
    /\ Fetched(m) /\ ~Parsed(m) /\ ~NeedsRepair(m)
    /\ Record(m, FALSE)
    /\ sync' = [sync EXCEPT !.todo = @ \ {m}]
    /\ UNCHANGED <<arrived, heard, backfill, status, version, failures>>

(* The AI answers: with a grounded order, or only with invalid answers     *)
(* until the message's attempts or the budget end.                         *)
Repair(m, valid) ==
    /\ Fetched(m) /\ NeedsRepair(m)
    /\ \E calls \in Reviews(sync.budget) \ {0} :
         /\ valid \/ calls + 1 \notin Reviews(sync.budget)
         /\ sync' = [sync EXCEPT !.todo = @ \ {m}, !.budget = @ - calls,
                        !.known = IF valid THEN @ \cup {OrderOf[m]} ELSE @]
    /\ Record(m, valid)
    /\ heard' = [heard EXCEPT ![m] = version]
    /\ UNCHANGED <<arrived, backfill, status, version, failures>>

(* Mutant of Defer: a spent budget is recorded as a mail without a match.  *)
DeferRecorded(m) ==
    /\ Fetched(m) /\ NeedsRepair(m)
    /\ sync.budget = 0
    /\ Record(m, FALSE)
    /\ sync' = [sync EXCEPT !.todo = @ \ {m}]
    /\ UNCHANGED <<arrived, heard, backfill, status, version, failures>>

(* No budget for a first attempt, or an attempt that fails: no row.        *)
Defer(m) ==
    /\ Fetched(m) /\ NeedsRepair(m)
    /\ \E calls \in Reviews(sync.budget) :
         /\ calls = 0 => sync.budget = 0
         /\ sync' = [sync EXCEPT !.todo = @ \ {m}, !.budget = @ - calls, !.backlog = TRUE]
    /\ UNCHANGED <<arrived, mailVars, backfill, status, version, failures>>

(* A drained window ends the backfill it was read under.                   *)
EndBatch ==
    /\ sync.pc = "batch"
    /\ sync.todo = {}
    /\ backfill' = IF ~sync.backlog /\ sync.deep THEN FALSE ELSE backfill
    /\ sync' = [sync EXCEPT !.pc = "finish"]
    /\ UNCHANGED <<arrived, mailVars, status, version, failures>>

FinishSync ==
    /\ sync.pc = "finish"
    /\ status' = "synced"
    /\ sync' = Idle
    /\ UNCHANGED <<arrived, mailVars, backfill, version, failures>>

(* An error inside the try block is saved as the mailbox's state; one      *)
(* before it (a query, the decryption) is only logged.                     *)
FailSync ==
    /\ sync.pc # "idle"
    /\ failures < MaxFailures
    /\ failures' = failures + 1
    /\ \/ sync.pc \in {"save", "begin", "load"} /\ UNCHANGED status
       \/ sync.pc \in {"load", "headers", "batch", "finish"} /\ status' = "error"
    /\ sync' = Idle
    /\ UNCHANGED <<arrived, mailVars, backfill, version>>

(* The process stops, and starts again with this or the next version.      *)
Restart ==
    /\ failures < MaxFailures
    /\ failures' = failures + 1
    /\ version' \in {version, version + 1} \cap 1..MaxVersion
    /\ sync' = Idle
    /\ UNCHANGED <<arrived, mailVars, backfill, status>>

Read(m) ==
    \/ ReadOrder(m) \/ ReadOther(m)
    \/ (\E valid \in BOOLEAN : Repair(m, valid)) \/ Defer(m)

SyncStep ==
    \/ SaveBackfill \/ BeginSync \/ LoadAndSearch \/ ChooseBatch \/ EndBatch \/ FinishSync
    \/ \E m \in Mails : SkipPin(m) \/ Read(m)

Next ==
    \/ \E m \in Mails : Arrive(m)
    \/ Poll \/ Manual \/ SyncStep \/ FailSync \/ Restart

Spec == Init /\ [][Next]_vars

(***************************************************************************)
(* The timer polls for ever, a started sync runs on, and the AI does not   *)
(* fail for ever on a mail that is put to it again and again.              *)
(***************************************************************************)
Polling == WF_vars(Poll) /\ WF_vars(SyncStep)
AiRecovers == \A m \in Mails : SF_vars(\E valid \in BOOLEAN : Repair(m, valid))

FairSpec == Spec /\ Polling /\ AiRecovers

-----------------------------------------------------------------------------
(* Every row and every field of a run has the values its column or         *)
(* variable can hold; the review budget of a run is never overspent.       *)
TypeOK ==
    /\ arrived \subseteq Mails
    /\ parsedBy \in [Mails -> 0..MaxVersion]
    /\ orders \subseteq Orders
    /\ backfill \in BOOLEAN
    /\ status \in {"synced", "syncing", "error"}
    /\ heard \in [Mails -> 0..MaxVersion]
    /\ version \in 1..MaxVersion
    /\ sync \in SyncState
    /\ failures \in 0..MaxFailures

(* Whatever is interleaved, fails or restarts, the record is kept as       *)
(* MailRecord says: no mail is put on record twice under a version or      *)
(* before it came, noise and cancellations make no order, and a backfill    *)
(* ends only when all the old mail is on record (imap.ts:108-111).         *)
Mailbox == INSTANCE MailRecord WITH Old <- Mails \ Saved
ImplementsRecord == Mailbox!Spec

(* A mail the parser found no order in, though it looks like one, is on    *)
(* record under a version only if the AI answered about it under that      *)
(* version, or the order it updates was found: no budget and no provider   *)
(* means it stays eligible (order-ingestion.ts:125-129).                   *)
DecidedByReview ==
    \A m \in Mails : parsedBy[m] # 0 =>
        /\ Kind[m] = "unclear" => heard[m] = parsedBy[m]
        /\ Kind[m] = "update" => heard[m] = parsedBy[m] \/ OrderOf[m] \in orders

(* Every mail of the saved window is eventually on record, wherever it     *)
(* lies between the two ends the batches are taken from.                   *)
SavedMailRecorded == \A m \in Saved : m \in arrived ~> parsedBy[m] = version

(* A backfill, once saved, is drained by the polls that follow, across     *)
(* failures and restarts.                                                  *)
BackfillEnds == backfill ~> ~backfill
=============================================================================
