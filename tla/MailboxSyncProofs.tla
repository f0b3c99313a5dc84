-------------------------- MODULE MailboxSyncProofs --------------------------
(***************************************************************************)
(* Proofs about MailboxSync, for any mailbox, parser results, batch cap    *)
(* and review budget that satisfy MailboxAssumption.                       *)
(***************************************************************************)
EXTENDS MailboxSync, FiniteSetTheorems, TLAPS

(* A backfill is ended only by a run that leaves every mail of the year    *)
(* that was there when it searched on record under the current parser      *)
(* version: capped batches, deferrals, failures and restarts keep it open  *)
(* (the comments at imap.ts:108-111).                                      *)
BackfillDrained ==
    [][backfill /\ ~backfill' => \A m \in sync.at : parsedBy[m] = version]_vars

(* What a run skips is on record under the running version: no other       *)
(* version runs before the run is over.                                    *)
SkippedRead ==
    sync.pc \in {"headers", "batch", "finish"} => \A m \in sync.skip : parsedBy[m] = version

(* While a batch that leaves no backlog is fetched, what it still has to   *)
(* fetch is all that is missing from the window of a backfill.             *)
MissingInBatch ==
    sync.pc = "batch" /\ sync.deep /\ ~sync.backlog =>
        \A m \in sync.at \ sync.todo : parsedBy[m] = version

MailboxInv == TypeOK /\ SkippedRead /\ MissingInBatch /\ DecidedByReview

(* What a run found when it searched is still in the mailbox, all the old  *)
(* mail among it, and the orders it knows are the customer's.              *)
SearchHolds ==
    /\ Mails \ Saved \subseteq arrived
    /\ sync.pc \in {"headers", "batch", "finish"} =>
         sync.at \subseteq arrived /\ Mails \ Saved \subseteq sync.at /\ sync.known \subseteq orders

(* What a run has still to read is on record under no version it runs:     *)
(* nothing else puts mail of this customer on record.                      *)
Outstanding ==
    /\ sync.pc = "headers" => \A m \in sync.at \ sync.skip : parsedBy[m] # version
    /\ sync.pc = "batch" => sync.todo \subseteq sync.at /\ \A m \in sync.todo : parsedBy[m] # version

RecordInv == MailboxInv /\ SearchHolds /\ Outstanding

-----------------------------------------------------------------------------
(* The batch.                                                              *)

LEMMA BatchChosen ==
    ASSUME NEW uids PROVE SelectMessageBatch(uids) \subseteq uids
BY DEF SelectMessageBatch

(* Candidates that do not overflow the cap are all in the batch: of those  *)
(* around a mail, either few are older or few are newer.                   *)
LEMMA WholeWindow ==
    ASSUME NEW uids \in SUBSET Mails, ~(Cardinality(uids) > SyncMax)
    PROVE  SelectMessageBatch(uids) = uids
<1> SUFFICES ASSUME NEW m \in uids
             PROVE  \/ Cardinality({n \in uids : n < m}) < (SyncMax + 1) \div 2
                    \/ Cardinality({n \in uids : n > m}) < SyncMax \div 2
  BY DEF SelectMessageBatch
<1> DEFINE older == {n \in uids : n < m}
           newer == {n \in uids : n > m}
<1>1. IsFiniteSet(uids) /\ uids \subseteq Nat
  BY MailboxAssumption, FS_Subset
<1>2. IsFiniteSet(older) /\ IsFiniteSet(newer) /\ IsFiniteSet(older \cup newer)
  BY <1>1, FS_Subset, older \subseteq uids, newer \subseteq uids, older \cup newer \subseteq uids
<1>3. Cardinality(older) \in Nat /\ Cardinality(newer) \in Nat /\ Cardinality(uids) \in Nat
  BY <1>1, <1>2, FS_CardinalityType
<1>4. older \cap newer = {}
  <2>1. ASSUME NEW n \in older, n \in newer PROVE FALSE
    <3>1. n \in Nat /\ m \in Nat
      BY <1>1
    <3>2. n < m /\ n > m
      BY <2>1
    <3> QED BY <3>1, <3>2
  <2> QED BY <2>1
<1>5. Cardinality(older \cup newer) = Cardinality(older) + Cardinality(newer)
  <2> HIDE DEF older, newer
  <2>1. Cardinality(older \cup newer)
          = Cardinality(older) + Cardinality(newer) - Cardinality(older \cap newer)
    BY <1>2, FS_Union
  <2> QED BY <2>1, <1>3, <1>4, FS_EmptySet
<1>6. older \cup newer = uids \ {m}
  <2>1. \A n \in uids : n < m \/ n > m <=> n # m
    BY <1>1
  <2> QED BY <2>1
<1>7. Cardinality(uids \ {m}) = Cardinality(uids) - 1
  BY <1>1, FS_RemoveElement
<1>8. SyncMax \in Nat /\ (SyncMax + 1) \div 2 + SyncMax \div 2 = SyncMax
  BY MailboxAssumption
<1>9. (SyncMax + 1) \div 2 \in Nat /\ SyncMax \div 2 \in Nat
  BY MailboxAssumption
<1> HIDE DEF older, newer
<1>10. Cardinality(older) + Cardinality(newer) < SyncMax
  <2>1. Cardinality(older) + Cardinality(newer) = Cardinality(uids) - 1
    BY <1>5, <1>6, <1>7
  <2>2. Cardinality(uids) <= SyncMax
    BY <1>3, <1>8
  <2> QED BY <2>1, <2>2, <1>3, <1>8
<1>11. Cardinality(older) < (SyncMax + 1) \div 2 \/ Cardinality(newer) < SyncMax \div 2
  BY <1>3, <1>8, <1>9, <1>10
<1> QED BY <1>11 DEF older, newer

LEMMA CandidatesTyped == ASSUME TypeOK PROVE Candidates(sync) \subseteq Mails
BY DEF TypeOK, SyncState, Candidates, Window

-----------------------------------------------------------------------------
(* Types.                                                                  *)

LEMMA IdleTyped ==
    /\ Idle \in SyncState /\ Idle.pc = "idle"
    /\ [Idle EXCEPT !.pc = "begin"] \in SyncState
    /\ [Idle EXCEPT !.pc = "save", !.full = TRUE] \in SyncState
<1>1. 0 \in 0..AiBudget
  BY MailboxAssumption
<1>2. Idle \in SyncState /\ Idle.pc = "idle"
  BY <1>1 DEF Idle, SyncState
<1> QED BY <1>2 DEF SyncState

LEMMA StartTyped == Init => MailboxInv
<1> SUFFICES ASSUME Init PROVE MailboxInv
  OBVIOUS
<1>1. arrived \subseteq Mails
  BY DEF Init
<1>2. 0 \in 0..MaxVersion /\ 1 \in 1..MaxVersion /\ 0 \in 0..MaxFailures
  BY MailboxAssumption
<1>3. TypeOK
  BY <1>1, <1>2, IdleTyped DEF Init, TypeOK
<1> QED BY <1>3, IdleTyped DEF Init, MailboxInv, SkippedRead, MissingInBatch, DecidedByReview

LEMMA RecordTyped ==
    ASSUME TypeOK, NEW m \in Mails, NEW match \in BOOLEAN, Record(m, match)
    PROVE  parsedBy' \in [Mails -> 0..MaxVersion] /\ orders' \subseteq Orders
<1>1. version \in 0..MaxVersion /\ OrderOf[m] \in Orders
  BY MailboxAssumption DEF TypeOK
<1> QED BY <1>1 DEF TypeOK, Record

LEMMA ReviewsLeave ==
    ASSUME NEW budget \in 0..AiBudget, NEW calls \in Reviews(budget)
    PROVE  budget - calls \in 0..AiBudget
BY MailboxAssumption DEF Reviews

LEMMA FetchTyped ==
    ASSUME TypeOK, NEW m \in Mails, Read(m) PROVE TypeOK'
<1> USE MailboxAssumption DEF TypeOK
<1>1. ASSUME ReadOrder(m) PROVE TypeOK'
  <2>1. PICK calls \in Reviews(sync.budget) :
          sync' = [sync EXCEPT !.todo = @ \ {m}, !.known = @ \cup {OrderOf[m]}, !.budget = @ - calls]
    BY <1>1 DEF ReadOrder
  <2>2. sync' \in SyncState
    <3>1. sync.known \cup {OrderOf[m]} \subseteq Orders /\ sync.todo \ {m} \subseteq Mails
      BY DEF SyncState
    <3>2. sync.budget - calls \in 0..AiBudget
      BY ReviewsLeave DEF SyncState
    <3> QED BY <2>1, <3>1, <3>2 DEF SyncState
  <2> QED BY <1>1, <2>2, RecordTyped DEF ReadOrder
<1>2. ASSUME ReadOther(m) PROVE TypeOK'
  <2>1. sync' \in SyncState
    BY <1>2 DEF ReadOther, SyncState
  <2> QED BY <1>2, <2>1, RecordTyped DEF ReadOther
<1>3. ASSUME NEW valid \in BOOLEAN, Repair(m, valid) PROVE TypeOK'
  <2>1. PICK calls \in Reviews(sync.budget) :
          sync' = [sync EXCEPT !.todo = @ \ {m}, !.budget = @ - calls,
                      !.known = IF valid THEN @ \cup {OrderOf[m]} ELSE @]
    BY <1>3 DEF Repair
  <2>2. sync' \in SyncState
    <3>1. /\ (IF valid THEN sync.known \cup {OrderOf[m]} ELSE sync.known) \subseteq Orders
          /\ sync.todo \ {m} \subseteq Mails
      BY DEF SyncState
    <3>2. sync.budget - calls \in 0..AiBudget
      BY ReviewsLeave DEF SyncState
    <3> QED BY <2>1, <3>1, <3>2 DEF SyncState
  <2> QED BY <1>3, <2>2, RecordTyped DEF Repair
<1>4. ASSUME Defer(m) PROVE TypeOK'
  <2>1. PICK calls \in Reviews(sync.budget) :
          sync' = [sync EXCEPT !.todo = @ \ {m}, !.budget = @ - calls, !.backlog = TRUE]
    BY <1>4 DEF Defer
  <2>2. sync' \in SyncState
    BY <2>1, ReviewsLeave DEF SyncState
  <2> QED BY <1>4, <2>2 DEF Defer, mailVars
<1> QED BY <1>1, <1>2, <1>3, <1>4 DEF Read

LEMMA TypesKept == ASSUME TypeOK, [Next]_vars PROVE TypeOK'
<1> USE MailboxAssumption DEF TypeOK
<1>1. ASSUME NEW m \in Mails, Arrive(m) PROVE TypeOK'
  BY <1>1 DEF Arrive, mailVars
<1>2. CASE Poll
  BY <1>2, IdleTyped DEF Poll, mailVars
<1>3. CASE Manual
  BY <1>3, IdleTyped DEF Manual, mailVars
<1>4. CASE SaveBackfill
  BY <1>4 DEF SaveBackfill, mailVars, SyncState
<1>5. CASE BeginSync
  BY <1>5 DEF BeginSync, mailVars, SyncState
<1>6. CASE LoadAndSearch
  <2>1. {m \in Mails : parsedBy[m] = version} \subseteq Mails /\ AiBudget \in 0..AiBudget
    OBVIOUS
  <2>2. sync' \in SyncState
    BY <1>6, <2>1 DEF LoadAndSearch, SyncState
  <2> QED BY <1>6, <2>2 DEF LoadAndSearch, mailVars
<1>7. CASE ChooseBatch
  <2>1. SelectMessageBatch(Candidates(sync)) \subseteq Mails /\ Overflow(sync) \in BOOLEAN
    BY CandidatesTyped, BatchChosen DEF Overflow
  <2> QED BY <1>7, <2>1 DEF ChooseBatch, mailVars, SyncState
<1>8. CASE EndBatch
  BY <1>8 DEF EndBatch, mailVars, SyncState
<1>9. CASE FinishSync
  BY <1>9, IdleTyped DEF FinishSync, mailVars
<1>10. ASSUME NEW m \in Mails, SkipPin(m) PROVE TypeOK'
  <2>1. sync' \in SyncState
    BY <1>10 DEF SkipPin, SyncState
  <2> QED BY <1>10, <2>1, RecordTyped DEF SkipPin
<1>11. ASSUME NEW m \in Mails, Read(m) PROVE TypeOK'
  BY <1>11, FetchTyped
<1>12. CASE FailSync
  BY <1>12, IdleTyped DEF FailSync, mailVars
<1>13. CASE Restart
  BY <1>13, IdleTyped DEF Restart, mailVars
<1>14. CASE UNCHANGED vars
  BY <1>14 DEF vars, mailVars
<1> QED BY <1>1, <1>2, <1>3, <1>4, <1>5, <1>6, <1>7, <1>8, <1>9, <1>10, <1>11, <1>12, <1>13, <1>14
           DEF Next, SyncStep

-----------------------------------------------------------------------------
(* What a step does to a run and to what is on record.                     *)

(* A mail is put on record under the running version, by the run.          *)
LEMMA RecordOne ==
    ASSUME TypeOK, NEW m \in Mails, NEW match, Record(m, match)
    PROVE  \A n \in Mails : parsedBy'[n] = IF n = m THEN version ELSE parsedBy[n]
BY DEF TypeOK, Record

LEMMA SkipKept ==
    ASSUME MailboxInv, NEW m \in Mails, SkipPin(m) PROVE (SkippedRead /\ MissingInBatch)'
<1>1. sync' = [sync EXCEPT !.skip = @ \cup {m}] /\ version' = version /\ sync.pc = "headers"
  BY DEF SkipPin
<1>2. \A n \in Mails : parsedBy'[n] = IF n = m THEN version ELSE parsedBy[n]
  BY RecordOne DEF SkipPin, MailboxInv
<1>3. sync \in SyncState /\ sync'.skip = sync.skip \cup {m} /\ sync'.pc = "headers" /\ sync.skip \subseteq Mails
  BY <1>1 DEF MailboxInv, TypeOK, SyncState
<1> QED BY <1>1, <1>2, <1>3 DEF MailboxInv, SkippedRead, MissingInBatch

(* A fetched mail leaves the batch, on record or as a backlog.             *)
LEMMA FetchEffect ==
    ASSUME TypeOK, NEW m \in Mails, Read(m)
    PROVE  /\ version' = version /\ sync.pc = "batch" /\ sync'.pc = "batch"
           /\ sync'.skip = sync.skip /\ sync'.at = sync.at /\ sync'.deep = sync.deep
           /\ sync'.todo = sync.todo \ {m} /\ (sync.backlog => sync'.backlog)
           /\ \A n \in Mails : parsedBy'[n] \in {version, parsedBy[n]}
           /\ \/ parsedBy'[m] = version
              \/ sync'.backlog
<1> USE DEF TypeOK, SyncState, Fetched
<1>1. CASE ReadOrder(m)
  BY <1>1, RecordOne DEF ReadOrder
<1>2. CASE ReadOther(m)
  BY <1>2, RecordOne DEF ReadOther
<1>3. ASSUME NEW valid \in BOOLEAN, Repair(m, valid)
      PROVE  /\ version' = version /\ sync.pc = "batch" /\ sync'.pc = "batch"
             /\ sync'.skip = sync.skip /\ sync'.at = sync.at /\ sync'.deep = sync.deep
             /\ sync'.todo = sync.todo \ {m} /\ (sync.backlog => sync'.backlog)
             /\ \A n \in Mails : parsedBy'[n] \in {version, parsedBy[n]}
             /\ parsedBy'[m] = version
  BY <1>3, RecordOne DEF Repair
<1>4. CASE Defer(m)
  BY <1>4 DEF Defer, mailVars
<1> QED BY <1>1, <1>2, <1>3, <1>4 DEF Read

LEMMA FetchKept ==
    ASSUME MailboxInv, NEW m \in Mails, Read(m) PROVE (SkippedRead /\ MissingInBatch)'
<1>1. TypeOK /\ sync.skip \subseteq Mails /\ sync.at \subseteq Mails
  BY DEF MailboxInv, TypeOK, SyncState
<1>2. SkippedRead'
  BY <1>1, FetchEffect DEF MailboxInv, SkippedRead
<1>3. MissingInBatch'
  BY <1>1, FetchEffect DEF MailboxInv, MissingInBatch
<1> QED BY <1>2, <1>3

LEMMA LoadKept ==
    ASSUME MailboxInv, LoadAndSearch PROVE (SkippedRead /\ MissingInBatch)'
BY DEF LoadAndSearch, MailboxInv, TypeOK, SyncState, SkippedRead, MissingInBatch, mailVars

LEMMA ChoiceKept ==
    ASSUME MailboxInv, ChooseBatch PROVE (SkippedRead /\ MissingInBatch)'
<1>1. /\ sync' = [sync EXCEPT !.pc = "batch", !.backlog = Overflow(sync),
                              !.todo = SelectMessageBatch(Candidates(sync))]
      /\ sync.pc = "headers" /\ version' = version /\ parsedBy' = parsedBy
  BY DEF ChooseBatch, mailVars
<1>2. /\ sync'.pc = "batch" /\ sync'.skip = sync.skip /\ sync'.at = sync.at /\ sync'.deep = sync.deep
      /\ sync'.backlog = Overflow(sync) /\ sync'.todo = SelectMessageBatch(Candidates(sync))
  BY <1>1 DEF MailboxInv, TypeOK, SyncState
<1>3. ASSUME sync.deep, ~Overflow(sync), NEW m \in sync.at, m \notin SelectMessageBatch(Candidates(sync))
      PROVE  m \in sync.skip
  <2>1. SelectMessageBatch(Candidates(sync)) = Candidates(sync)
    BY <1>3, CandidatesTyped, WholeWindow DEF Overflow, MailboxInv
  <2> QED BY <1>3, <2>1 DEF Candidates, Window
<1>4. SkippedRead'
  BY <1>1, <1>2 DEF MailboxInv, SkippedRead
<1>5. MissingInBatch'
  BY <1>1, <1>2, <1>3 DEF MailboxInv, MissingInBatch, SkippedRead
<1> QED BY <1>4, <1>5

LEMMA RunsKept == ASSUME MailboxInv, [Next]_vars PROVE (SkippedRead /\ MissingInBatch)'
<1> USE DEF MailboxInv
<1>1. ASSUME NEW m \in Mails, Arrive(m) PROVE (SkippedRead /\ MissingInBatch)'
  BY <1>1 DEF Arrive, mailVars, SkippedRead, MissingInBatch
<1>2. CASE Poll \/ Manual
  BY <1>2 DEF Poll, Manual, Idle, SkippedRead, MissingInBatch
<1>3. CASE SaveBackfill \/ BeginSync
  BY <1>3 DEF SaveBackfill, BeginSync, TypeOK, SyncState, SkippedRead, MissingInBatch
<1>4. CASE LoadAndSearch
  BY <1>4, LoadKept
<1>5. CASE ChooseBatch
  BY <1>5, ChoiceKept
<1>6. CASE EndBatch
  BY <1>6 DEF EndBatch, mailVars, TypeOK, SyncState, SkippedRead, MissingInBatch
<1>7. CASE FinishSync \/ FailSync \/ Restart
  BY <1>7, IdleTyped DEF FinishSync, FailSync, Restart, SkippedRead, MissingInBatch
<1>8. ASSUME NEW m \in Mails, SkipPin(m) PROVE (SkippedRead /\ MissingInBatch)'
  BY <1>8, SkipKept
<1>9. ASSUME NEW m \in Mails, Read(m) PROVE (SkippedRead /\ MissingInBatch)'
  BY <1>9, FetchKept
<1>10. CASE UNCHANGED vars
  BY <1>10 DEF vars, mailVars, SkippedRead, MissingInBatch
<1> QED BY <1>1, <1>2, <1>3, <1>4, <1>5, <1>6, <1>7, <1>8, <1>9, <1>10 DEF Next, SyncStep

(* The orders of a customer are never deleted.                             *)
LEMMA OrdersStay == ASSUME [Next]_vars PROVE orders \subseteq orders'
<1>1. ASSUME NEW m \in Mails, SkipPin(m) \/ ReadOrder(m) \/ ReadOther(m) PROVE orders \subseteq orders'
  BY <1>1 DEF SkipPin, ReadOrder, ReadOther, Record
<1>2. ASSUME NEW m \in Mails, NEW valid \in BOOLEAN, Repair(m, valid) PROVE orders \subseteq orders'
  BY <1>2 DEF Repair, Record
<1>3. ASSUME UNCHANGED mailVars PROVE orders \subseteq orders'
  BY <1>3 DEF mailVars
<1> QED BY <1>1, <1>2, <1>3
        DEF Next, SyncStep, Read, Arrive, Poll, Manual, SaveBackfill, BeginSync, LoadAndSearch, ChooseBatch,
            EndBatch, FinishSync, Defer, FailSync, Restart, vars

(* What a decision rests on: an answer of the AI, or the order it is about. *)
Decided(m) ==
    /\ Kind[m] = "unclear" => heard[m] = parsedBy[m]
    /\ Kind[m] = "update" => heard[m] = parsedBy[m] \/ OrderOf[m] \in orders

LEMMA DecisionsKept ==
    ASSUME TypeOK, DecidedByReview, [Next]_vars PROVE DecidedByReview'
<1> SUFFICES ASSUME NEW n \in Mails, parsedBy'[n] # 0 PROVE Decided(n)'
  BY DEF DecidedByReview, Decided
<1>1. ASSUME parsedBy'[n] = parsedBy[n], heard'[n] = heard[n] PROVE Decided(n)'
  BY <1>1, OrdersStay DEF DecidedByReview, Decided
<1>2. ASSUME NEW m \in Mails, SkipPin(m) \/ ReadOther(m) PROVE Decided(n)'
  <2>1. heard' = heard /\ Kind[m] \notin {"unclear", "update"}
    BY <1>2 DEF SkipPin, ReadOther, NeedsRepair
  <2>2. n # m => parsedBy'[n] = parsedBy[n]
    BY <1>2, RecordOne DEF SkipPin, ReadOther
  <2> QED BY <1>1, <2>1, <2>2 DEF Decided
<1>3. ASSUME NEW m \in Mails, ReadOrder(m) PROVE Decided(n)'
  <2>1. heard' = heard /\ Kind[m] # "unclear" /\ OrderOf[m] \in orders'
    BY <1>3 DEF ReadOrder, Parsed, Record
  <2>2. n # m => parsedBy'[n] = parsedBy[n]
    BY <1>3, RecordOne DEF ReadOrder
  <2> QED BY <1>1, <2>1, <2>2 DEF Decided
<1>4. ASSUME NEW m \in Mails, NEW valid \in BOOLEAN, Repair(m, valid) PROVE Decided(n)'
  <2>1. parsedBy'[n] = IF n = m THEN version ELSE parsedBy[n]
    BY <1>4, RecordOne DEF Repair
  <2>2. heard'[n] = IF n = m THEN version ELSE heard[n]
    BY <1>4 DEF Repair, TypeOK
  <2> QED BY <1>1, <2>1, <2>2 DEF Decided
<1>5. ASSUME UNCHANGED mailVars PROVE Decided(n)'
  BY <1>1, <1>5 DEF mailVars
<1> QED BY <1>2, <1>3, <1>4, <1>5
        DEF Next, SyncStep, Read, Arrive, Poll, Manual, SaveBackfill, BeginSync, LoadAndSearch, ChooseBatch,
            EndBatch, FinishSync, Defer, FailSync, Restart, vars

-----------------------------------------------------------------------------
(* The invariant holds in every behaviour.                                 *)
THEOREM MailboxInvariant == Spec => []MailboxInv
<1>1. MailboxInv /\ [Next]_vars => MailboxInv'
  BY TypesKept, RunsKept, DecisionsKept DEF MailboxInv
<1> QED BY <1>1, StartTyped, PTL DEF Spec

(* Rows and runs hold values of their types; no budget is overspent.       *)
THEOREM MailboxTypeCorrect == Spec => []TypeOK
<1>1. MailboxInv => TypeOK
  BY DEF MailboxInv
<1> QED BY <1>1, MailboxInvariant, PTL

(* What the parser could not read is decided by the AI or not at all.      *)
THEOREM ReviewsDecide == Spec => []DecidedByReview
<1>1. MailboxInv => DecidedByReview
  BY DEF MailboxInv
<1> QED BY <1>1, MailboxInvariant, PTL

(* A backfill is ended by a run that leaves nothing of the year unread.    *)
THEOREM BackfillsDrain == Spec => BackfillDrained
<1> DEFINE Drains == backfill /\ ~backfill' => \A m \in sync.at : parsedBy[m] = version
<1>1. MailboxInv /\ [Next]_vars => [Drains]_vars
  <2> SUFFICES ASSUME MailboxInv, [Next]_vars, backfill, ~backfill'
               PROVE  \A m \in sync.at : parsedBy[m] = version
    OBVIOUS
  <2>1. EndBatch
    BY DEF Next, SyncStep, Read, Arrive, Poll, Manual, SaveBackfill, BeginSync, LoadAndSearch, ChooseBatch,
           FinishSync, SkipPin, ReadOrder, ReadOther, Repair, Defer, FailSync, Restart, vars
  <2> QED BY <2>1 DEF EndBatch, MailboxInv, MissingInBatch
<1> QED BY <1>1, MailboxInvariant, PTL DEF Spec, BackfillDrained

-----------------------------------------------------------------------------
(* The record of the mailbox.                                              *)

LEMMA RecordStarts == Init => RecordInv
<1>1. Init => SearchHolds /\ Outstanding
  BY IdleTyped DEF Init, SearchHolds, Outstanding
<1> QED BY <1>1, StartTyped DEF RecordInv

(* A fetched mail touches no other mail's row, and what it adds to the     *)
(* orders a run knows it adds to the orders.                               *)
LEMMA FetchAdds ==
    ASSUME TypeOK, NEW m \in Mails, Read(m)
    PROVE  /\ \A n \in Mails \ {m} : parsedBy'[n] = parsedBy[n]
           /\ arrived' = arrived /\ orders \subseteq orders'
           /\ sync'.known \subseteq sync.known \cup orders'
<1> USE DEF TypeOK, SyncState
<1>1. CASE ReadOrder(m)
  BY <1>1, RecordOne DEF ReadOrder, Record
<1>2. CASE ReadOther(m)
  BY <1>2, RecordOne DEF ReadOther, Record
<1>3. ASSUME NEW valid \in BOOLEAN, Repair(m, valid)
      PROVE  /\ \A n \in Mails \ {m} : parsedBy'[n] = parsedBy[n]
             /\ arrived' = arrived /\ orders \subseteq orders'
             /\ sync'.known \subseteq sync.known \cup orders'
  BY <1>3, RecordOne DEF Repair, Record
<1>4. CASE Defer(m)
  BY <1>4 DEF Defer, mailVars
<1> QED BY <1>1, <1>2, <1>3, <1>4 DEF Read

LEMMA SearchKept == ASSUME TypeOK, SearchHolds, [Next]_vars PROVE SearchHolds'
<1> USE DEF SearchHolds
<1>1. ASSUME NEW m \in Mails, Arrive(m) PROVE SearchHolds'
  BY <1>1 DEF Arrive, mailVars
<1>2. CASE Poll \/ Manual \/ FinishSync \/ FailSync \/ Restart
  <2>1. sync'.pc \in {"idle", "begin", "save"} /\ arrived' = arrived
    <3>1. CASE Poll \/ Manual
      BY <3>1 DEF Poll, Manual, Idle, mailVars
    <3>2. CASE FinishSync \/ FailSync \/ Restart
      BY <3>2, IdleTyped DEF FinishSync, FailSync, Restart, mailVars
    <3> QED BY <1>2, <3>1, <3>2
  <2> QED BY <2>1
<1>3. CASE SaveBackfill \/ BeginSync
  BY <1>3 DEF SaveBackfill, BeginSync, TypeOK, SyncState
<1>4. CASE LoadAndSearch
  BY <1>4 DEF LoadAndSearch, mailVars, TypeOK, SyncState
<1>5. CASE ChooseBatch \/ EndBatch
  BY <1>5 DEF ChooseBatch, EndBatch, mailVars, TypeOK, SyncState
<1>6. ASSUME NEW m \in Mails, SkipPin(m) PROVE SearchHolds'
  BY <1>6 DEF SkipPin, Record, TypeOK, SyncState
<1>7. ASSUME NEW m \in Mails, Read(m) PROVE SearchHolds'
  BY <1>7, FetchAdds, FetchEffect
<1>8. CASE UNCHANGED vars
  BY <1>8 DEF vars, mailVars
<1> QED BY <1>1, <1>2, <1>3, <1>4, <1>5, <1>6, <1>7, <1>8 DEF Next, SyncStep

LEMMA OutstandingKept == ASSUME TypeOK, Outstanding, [Next]_vars PROVE Outstanding'
<1> USE DEF Outstanding
<1>1. ASSUME NEW m \in Mails, Arrive(m) PROVE Outstanding'
  BY <1>1 DEF Arrive, mailVars
<1>2. CASE Poll \/ Manual \/ FinishSync \/ FailSync \/ Restart
  <2>1. sync'.pc \in {"idle", "begin", "save"}
    <3>1. CASE Poll \/ Manual
      BY <3>1 DEF Poll, Manual, Idle
    <3>2. CASE FinishSync \/ FailSync \/ Restart
      BY <3>2, IdleTyped DEF FinishSync, FailSync, Restart
    <3> QED BY <1>2, <3>1, <3>2
  <2> QED BY <2>1
<1>3. CASE SaveBackfill \/ BeginSync \/ EndBatch
  BY <1>3 DEF SaveBackfill, BeginSync, EndBatch, TypeOK, SyncState
<1>4. CASE LoadAndSearch
  BY <1>4 DEF LoadAndSearch, mailVars, TypeOK, SyncState
<1>5. CASE ChooseBatch
  <2>1. SelectMessageBatch(Candidates(sync)) \subseteq sync.at \ sync.skip
    BY BatchChosen DEF Candidates, Window
  <2> QED BY <1>5, <2>1 DEF ChooseBatch, mailVars, TypeOK, SyncState
<1>6. ASSUME NEW m \in Mails, SkipPin(m) PROVE Outstanding'
  <2>1. \A n \in Mails : parsedBy'[n] = IF n = m THEN version ELSE parsedBy[n]
    BY <1>6, RecordOne DEF SkipPin
  <2>2. /\ sync.pc = "headers" /\ sync'.pc = "headers" /\ version' = version
        /\ sync'.at = sync.at /\ sync'.skip = sync.skip \cup {m} /\ sync.at \subseteq Mails
    BY <1>6 DEF SkipPin, TypeOK, SyncState
  <2> QED BY <2>1, <2>2
<1>7. ASSUME NEW m \in Mails, Read(m) PROVE Outstanding'
  <2>1. sync.todo \subseteq Mails
    BY DEF TypeOK, SyncState
  <2> QED BY <1>7, <2>1, FetchAdds, FetchEffect
<1>8. CASE UNCHANGED vars
  BY <1>8 DEF vars, mailVars
<1> QED BY <1>1, <1>2, <1>3, <1>4, <1>5, <1>6, <1>7, <1>8 DEF Next, SyncStep

LEMMA RecordKept == ASSUME RecordInv, [Next]_vars PROVE RecordInv'
<1>1. MailboxInv'
  BY TypesKept, RunsKept, DecisionsKept DEF RecordInv, MailboxInv
<1> QED BY <1>1, SearchKept, OutstandingKept DEF RecordInv, MailboxInv

LEMMA RecordInvariant == Spec => []RecordInv
BY RecordStarts, RecordKept, PTL DEF Spec

-----------------------------------------------------------------------------
(* Every step is a step of the record, or none.                            *)

LEMMA RecordBegins == Init => Mailbox!Init
BY MailboxAssumption DEF Init, Mailbox!Init

(* The mail that is read next came, and is on record under another version. *)
LEMMA FetchedOutstanding ==
    ASSUME RecordInv, NEW m \in Mails, Fetched(m)
    PROVE  m \in arrived /\ parsedBy[m] # version /\ sync.known \subseteq orders
BY DEF Fetched, RecordInv, SearchHolds, Outstanding

LEMMA ReadRecords ==
    ASSUME RecordInv, NEW m \in Mails, Read(m)
    PROVE  Mailbox!PutOnRecord(m) \/ UNCHANGED Mailbox!vars
<1>1. CASE ReadOrder(m)
  <2>1. m \in arrived /\ parsedBy[m] # version /\ sync.known \subseteq orders
    BY <1>1, FetchedOutstanding DEF ReadOrder
  <2>2. orders' = orders \cup {OrderOf[m]} /\ UNCHANGED <<arrived, version, backfill>>
    BY <1>1 DEF ReadOrder, Record
  <2>3. CASE Kind[m] \in {"order", "update", "unclear"}
    BY <1>1, <2>1, <2>2, <2>3 DEF ReadOrder, Record, Mailbox!PutOnRecord, Mailbox!Found
  <2>4. CASE Kind[m] = "cancellation" /\ OrderOf[m] \in sync.known
    <3>1. orders' = orders
      BY <2>1, <2>2, <2>4
    <3> QED BY <1>1, <2>1, <2>2, <2>4, <3>1 DEF ReadOrder, Record, Mailbox!PutOnRecord, Mailbox!Found
  <2> QED BY <1>1, <2>3, <2>4 DEF ReadOrder, Parsed
<1>2. CASE ReadOther(m)
  <2>1. m \in arrived /\ parsedBy[m] # version
    BY <1>2, FetchedOutstanding DEF ReadOther
  <2>2. orders' = orders /\ Kind[m] # "order"
    BY <1>2 DEF ReadOther, Parsed, Record
  <2> QED BY <1>2, <2>1, <2>2 DEF ReadOther, Record, Mailbox!PutOnRecord, Mailbox!Found
<1>3. ASSUME NEW valid \in BOOLEAN, Repair(m, valid) PROVE Mailbox!PutOnRecord(m)
  <2>1. m \in arrived /\ parsedBy[m] # version
    BY <1>3, FetchedOutstanding DEF Repair
  <2>2. Kind[m] \in {"update", "unclear"}
    BY <1>3 DEF Repair, NeedsRepair
  <2> QED BY <1>3, <2>1, <2>2 DEF Repair, Record, Mailbox!PutOnRecord, Mailbox!Found
<1>4. CASE Defer(m)
  BY <1>4 DEF Defer, mailVars, Mailbox!vars
<1> QED BY <1>1, <1>2, <1>3, <1>4 DEF Read

LEMMA SkipRecords ==
    ASSUME RecordInv, NEW m \in Mails, SkipPin(m) PROVE Mailbox!PutOnRecord(m)
<1>1. m \in sync.at /\ m \notin sync.skip /\ sync.pc = "headers" /\ Kind[m] = "pin"
  BY DEF SkipPin, Candidates, Window
<1>2. m \in arrived /\ parsedBy[m] # version
  BY <1>1 DEF RecordInv, SearchHolds, Outstanding
<1> QED BY <1>1, <1>2 DEF SkipPin, Record, Mailbox!PutOnRecord, Mailbox!Found

LEMMA EndRecords ==
    ASSUME RecordInv, EndBatch PROVE Mailbox!EndBackfill \/ UNCHANGED Mailbox!vars
<1>1. CASE ~sync.backlog /\ sync.deep
  <2>1. \A m \in sync.at : parsedBy[m] = version
    BY <1>1 DEF EndBatch, RecordInv, MailboxInv, MissingInBatch
  <2>2. Mails \ Saved \subseteq sync.at
    BY DEF EndBatch, RecordInv, SearchHolds
  <2> QED BY <1>1, <2>1, <2>2 DEF EndBatch, mailVars, Mailbox!EndBackfill
<1>2. CASE ~(~sync.backlog /\ sync.deep)
  BY <1>2 DEF EndBatch, mailVars, Mailbox!vars
<1> QED BY <1>1, <1>2

LEMMA StepsRecord ==
    ASSUME RecordInv, [Next]_vars PROVE [Mailbox!Next]_(Mailbox!vars)
<1>1. ASSUME NEW m \in Mails, Arrive(m) PROVE Mailbox!Next
  BY <1>1 DEF Arrive, mailVars, Mailbox!Arrive, Mailbox!Next
<1>2. CASE Poll \/ Manual \/ BeginSync \/ LoadAndSearch \/ ChooseBatch \/ FinishSync \/ FailSync
  BY <1>2 DEF Poll, Manual, BeginSync, LoadAndSearch, ChooseBatch, FinishSync, FailSync, mailVars, Mailbox!vars
<1>3. CASE SaveBackfill
  BY <1>3 DEF SaveBackfill, mailVars, Mailbox!Ask, Mailbox!Next
<1>4. CASE EndBatch
  BY <1>4, EndRecords DEF Mailbox!Next
<1>5. ASSUME NEW m \in Mails, SkipPin(m) PROVE Mailbox!Next
  BY <1>5, SkipRecords DEF Mailbox!Next
<1>6. ASSUME NEW m \in Mails, Read(m) PROVE [Mailbox!Next]_(Mailbox!vars)
  BY <1>6, ReadRecords DEF Mailbox!Next
<1>7. CASE Restart
  BY <1>7 DEF Restart, mailVars, Mailbox!Deploy, Mailbox!Next, Mailbox!vars
<1>8. CASE UNCHANGED vars
  BY <1>8 DEF vars, mailVars, Mailbox!vars
<1> QED BY <1>1, <1>2, <1>3, <1>4, <1>5, <1>6, <1>7, <1>8 DEF Next, SyncStep

(* For any mailbox, cap, budget, and number of failures and versions: what *)
(* is read, deferred, interrupted and read again amounts to one record     *)
(* that each mail enters once under each version, and to a backfill that   *)
(* ends only with all the old mail in it.                                  *)
THEOREM RecordImplemented == Spec => ImplementsRecord
<1>1. RecordInv /\ [Next]_vars => [Mailbox!Next]_(Mailbox!vars)
  BY StepsRecord
<1> QED BY <1>1, RecordBegins, RecordInvariant, PTL DEF Spec, ImplementsRecord, Mailbox!Spec
=============================================================================
