-------------------------- MODULE WhopAccessProofs --------------------------
(***************************************************************************)
(* Proofs about WhopAccess, for any members, users, lease, period, request *)
(* time and number of webhooks that satisfy WhopAssumption.                *)
(***************************************************************************)
EXTENDS WhopAccess, SequenceTheorems, TLAPS

(* A workspace in a row was made for that membership and its present user. *)
WorkspacesOwned ==
    \A m \in Members : row[m].workspace # None =>
        /\ row[m].user \in Users
        /\ owner[row[m].workspace] = [m |-> m, user |-> row[m].user]

(* The period on record at Whop outlasts each lease, and an answer on its  *)
(* way says no more than is left of it, but for the answer's age.          *)
PeriodCovers ==
    /\ \A m \in Members : row[m].lease <= remote[m].left
    /\ Answered => task.got.left <= remote[task.m].left + task.age

(* Nobody who pays runs up unpaid time; of an answer that says paid, no    *)
(* more of it passed than its age; and a lease and the unpaid time it has  *)
(* covered add up to no more than the longest.                             *)
PayersOwe == \A w \in Workspaces : PaidFor(w) => unpaid[w] = 0

AnswerRecent ==
    Answered /\ task.got.active /\ task.got.ours /\ task.got.left > 0 =>
        \A w \in Workspaces :
            owner[w] # None /\ owner[w] = [m |-> task.m, user |-> task.got.user] =>
                unpaid[w] <= task.age

LeaseCovers ==
    \A m \in Members :
        row[m].workspace # None /\ row[m].valid /\ row[m].lease > 0 =>
            unpaid[row[m].workspace] + row[m].lease <= Longest

LeasesInv == WorkspacesOwned /\ PeriodCovers /\ PayersOwe /\ AnswerRecent /\ LeaseCovers

WhopInv == TypeOK /\ LeasesInv

-----------------------------------------------------------------------------
(* Types.                                                                  *)

Asked == [kind : {"job", "due", "login"}, m : Members, id : 0..MaxEvents]
Told == [kind : {"job", "due", "login"}, m : Members, id : 0..MaxEvents,
         got : Remote, age : 0..Fetching]

LEMMA TaskParts ==
    ASSUME TypeOK
    PROVE  /\ task = Idle \/ task \in Asked \/ task \in Told
           /\ task # Idle => /\ task.kind \in {"job", "due", "login"}
                             /\ task.m \in Members /\ task.id \in 0..MaxEvents
           /\ Answered <=> task \in Told
<1>1. task = Idle \/ task \in Asked \/ task \in Told
  BY DEF TypeOK, Tasks, Asked, Told
<1>2. CASE task = Idle
  BY <1>2 DEF Idle, Answered, Told
<1>3. CASE task \in Asked
  BY <1>3 DEF Asked, Answered, Told
<1>4. CASE task \in Told
  BY <1>4 DEF Told, Answered
<1> QED BY <1>1, <1>2, <1>3, <1>4

LEMMA IdleUnanswered == ~("got" \in DOMAIN Idle) /\ Idle \in Tasks
BY DEF Idle, Tasks

LEMMA LessTyped == ASSUME NEW n \in Nat PROVE Less(n) \in Nat /\ Less(n) <= n /\ Less(n) >= n - 1
BY DEF Less

LEMMA LessIn == ASSUME NEW b \in Nat, NEW n \in 0..b PROVE Less(n) \in 0..b
BY DEF Less

(* The edits of a row.                                                     *)
Reclocked(r, lease, due) == [r EXCEPT !.lease = lease, !.due = due]
Rechecked(r) == [r EXCEPT !.due = 1]
Held(r) == [r EXCEPT !.suspended = TRUE, !.valid = FALSE, !.lease = 0]
Revoked(r) == [r EXCEPT !.valid = FALSE, !.suspended = TRUE, !.lease = 0, !.due = 1]

LEMMA EditsTyped ==
    ASSUME NEW r \in Rows
    PROVE  /\ \A lease \in 0..Lease, due \in 0..1 : Reclocked(r, lease, due) \in Rows
           /\ Rechecked(r) \in Rows /\ Held(r) \in Rows /\ Revoked(r) \in Rows
<1>1. 0 \in 0..Lease /\ 1 \in 0..1
  BY WhopAssumption
<1> QED BY <1>1 DEF Rows, Reclocked, Rechecked, Held, Revoked

(* Which webhook each message, position and job is about.                  *)
LEMMA Positions ==
    ASSUME TypeOK
    PROVE  /\ Len(sent) \in Nat /\ Ids \subseteq 1..MaxEvents
           /\ \A i \in Ids : sent[i] \in [m : Members, type : EventTypes]
           /\ \A k \in DOMAIN received : received[k] \in Ids
<1>1. Len(sent) \in Nat /\ Len(sent) <= MaxEvents
  BY LenProperties DEF TypeOK
<1>2. \A i \in 1..Len(sent) : sent[i] \in [m : Members, type : EventTypes]
  BY ElementOfSeq DEF TypeOK
<1>3. \A k \in 1..Len(received) : received[k] \in Ids
  BY ElementOfSeq DEF TypeOK
<1>4. DOMAIN received = 1..Len(received)
  BY LenProperties DEF TypeOK
<1> QED BY <1>1, <1>2, <1>3, <1>4, WhopAssumption DEF Ids

LEMMA UntilTyped ==
    ASSUME NEW r \in Remote, NEW age \in 0..Fetching
    PROVE  /\ Until(r, age) \in 0..Lease
           /\ Until(r, age) > 0 => r.active /\ r.left > age
           /\ Until(r, age) <= r.left
           /\ Until(r, age) > 0 => Until(r, age) <= r.left - age
BY WhopAssumption DEF Until, Remote

(* What Whop changes keeps the membership typed, and its period no shorter.*)
LEMMA ChangeTyped ==
    ASSUME TypeOK, NEW m \in Members, NEW r \in Remote, Changed(m, r)
    PROVE  /\ remote' = [remote EXCEPT ![m] = r] /\ remote' \in [Members -> Remote]
           /\ owner' = owner /\ unpaid' \in [Workspaces -> 0..Longest]
           /\ \A w \in Workspaces : /\ unpaid'[w] \in {0, unpaid[w]}
                                    /\ PaidFor(w)' => unpaid'[w] = 0
BY WhopAssumption DEF TypeOK, Changed, Longest

(* The three kinds of change at Whop.                                      *)
LEMMA RemoteChanges ==
    ASSUME TypeOK, NEW m \in Members,
           (\E type \in EventTypes : Bill(m, type)) \/ Renew(m) \/ Transfer(m)
    PROVE  \E r \in Remote : Changed(m, r) /\ r.left >= remote[m].left
<1>1. remote[m] \in Remote /\ remote[m].left \in Nat /\ remote[m].left <= Period /\ Period \in 0..Period
  BY WhopAssumption DEF TypeOK, Remote
<1>2. ASSUME NEW type \in EventTypes, Bill(m, type)
      PROVE  \E r \in Remote : Changed(m, r) /\ r.left >= remote[m].left
  <2> DEFINE r == CASE type \in Clears -> [remote[m] EXCEPT !.active = TRUE, !.left = Period]
                    [] type = "membership.deactivated" -> [remote[m] EXCEPT !.active = FALSE]
                    [] OTHER -> remote[m]
  <2>1. r \in Remote /\ r.left >= remote[m].left
    <3>1. CASE type \in Clears
      <4>1. r = [remote[m] EXCEPT !.active = TRUE, !.left = Period]
        BY <3>1 DEF Clears
      <4> QED BY <4>1, <1>1 DEF Remote
    <3>2. CASE type \notin Clears /\ type = "membership.deactivated"
      <4>1. r = [remote[m] EXCEPT !.active = FALSE]
        BY <3>2 DEF Clears
      <4> HIDE DEF r
      <4>2. /\ [remote[m] EXCEPT !.active = FALSE] \in Remote
            /\ [remote[m] EXCEPT !.active = FALSE].left = remote[m].left
        BY <1>1 DEF Remote
      <4> QED BY <4>1, <4>2, <1>1
    <3>3. CASE type \notin Clears /\ type # "membership.deactivated"
      BY <3>3, <1>1
    <3> QED BY <3>1, <3>2, <3>3
  <2>2. Changed(m, r)
    BY <1>2 DEF Bill
  <2> HIDE DEF r
  <2> QED BY <2>1, <2>2
<1>3. CASE Renew(m)
  <2>1. [remote[m] EXCEPT !.left = Period] \in Remote
    BY <1>1 DEF Remote
  <2>2. [remote[m] EXCEPT !.left = Period].left >= remote[m].left
    BY <1>1 DEF Remote
  <2> QED BY <2>1, <2>2, <1>3 DEF Renew
<1>4. CASE Transfer(m)
  <2>1. PICK r \in {[remote[m] EXCEPT !.user = u] : u \in Users \cup {None}}
                     \cup {[remote[m] EXCEPT !.ours = FALSE]} : Changed(m, r)
    BY <1>4 DEF Transfer
  <2>2. r \in Remote /\ r.left = remote[m].left
    BY <1>1, <2>1 DEF Remote
  <2> QED BY <1>1, <2>1, <2>2
<1> QED BY <1>2, <1>3, <1>4

Others == <<received, jobs, row, task>>

LEMMA RemoteTyped ==
    ASSUME TypeOK, NEW m \in Members,
           (\E type \in EventTypes : Bill(m, type)) \/ Renew(m) \/ Transfer(m)
    PROVE  TypeOK' /\ UNCHANGED Others
<1>1. UNCHANGED Others
  BY DEF Bill, Renew, Transfer, Others
<1>2. remote' \in [Members -> Remote] /\ owner' = owner /\ unpaid' \in [Workspaces -> 0..Longest]
  BY RemoteChanges, ChangeTyped
<1>3. /\ sent' \in Seq([m : Members, type : EventTypes]) /\ Len(sent') <= MaxEvents
      /\ Len(sent) \in Nat /\ Len(sent') \in Nat /\ Len(sent) <= Len(sent')
  <2>1. ASSUME NEW type \in EventTypes, Bill(m, type)
        PROVE  /\ sent' \in Seq([m : Members, type : EventTypes]) /\ Len(sent') = Len(sent) + 1
               /\ Len(sent) < MaxEvents
    BY <2>1, AppendProperties DEF Bill, TypeOK
  <2>2. ASSUME Renew(m) \/ Transfer(m) PROVE sent' = sent
    BY <2>2 DEF Renew, Transfer
  <2>3. CASE Renew(m) \/ Transfer(m)
    BY <2>2, <2>3, Positions DEF TypeOK
  <2>4. ASSUME NEW type \in EventTypes, Bill(m, type)
        PROVE  /\ sent' \in Seq([m : Members, type : EventTypes]) /\ Len(sent') <= MaxEvents
               /\ Len(sent) \in Nat /\ Len(sent') \in Nat /\ Len(sent) <= Len(sent')
    <3>1. /\ sent' \in Seq([m : Members, type : EventTypes]) /\ Len(sent') = Len(sent) + 1
          /\ Len(sent) < MaxEvents
      BY <2>1, <2>4
    <3>2. Len(sent) \in Nat /\ MaxEvents \in Nat
      BY Positions, WhopAssumption
    <3> QED BY <3>1, <3>2
  <2> QED BY <2>3, <2>4
<1>4. received' \in Seq(Ids')
  <2>1. Ids \subseteq Ids'
    BY <1>3 DEF Ids
  <2>2. received \in Seq(Ids')
    BY <2>1, SeqMonotonic DEF TypeOK
  <2> QED BY <1>1, <2>2 DEF Others
<1>5. transfers' \in 0..MaxTransfers
  <2>1. transfers' = transfers \/ (transfers' = transfers + 1 /\ transfers < MaxTransfers)
    BY DEF Bill, Renew, Transfer
  <2> QED BY <2>1, WhopAssumption DEF TypeOK
<1> QED BY <1>1, <1>2, <1>3, <1>4, <1>5 DEF TypeOK, Others

LEMMA ReceiveTyped == ASSUME TypeOK, NEW i \in Ids, Receive(i) PROVE TypeOK'
<1>1. i \in 1..MaxEvents /\ sent[i].m \in Members
  BY Positions
<1>2. jobs' \in [1..MaxEvents -> Jobs]
  BY <1>1 DEF Receive, TypeOK, Jobs
<1>3. received' \in Seq(Ids)
  BY AppendProperties DEF Receive, TypeOK
<1>4. row' \in [Members -> Rows]
  <2>1. row' = row \/ row' = [row EXCEPT ![sent[i].m] = Held(row[sent[i].m])]
    BY <1>1 DEF Receive, TypeOK, Held
  <2>2. row \in [Members -> Rows]
    BY DEF TypeOK
  <2>3. Held(row[sent[i].m]) \in Rows
    BY <1>1, <2>2, EditsTyped
  <2> QED BY <2>1, <2>2, <2>3
<1>5. UNCHANGED <<remote, sent, task, owner, unpaid, transfers>>
  BY DEF Receive
<1> QED BY <1>2, <1>3, <1>4, <1>5 DEF TypeOK, Ids

LEMMA TakeTyped ==
    ASSUME TypeOK, TakeJob \/ (\E m \in Members : TakeDue(m) \/ Login(m)) \/ Answer
    PROVE  TypeOK' /\ UNCHANGED <<remote, jobs, row, owner, unpaid>>
<1>1. UNCHANGED <<remote, sent, received, jobs, row, owner, unpaid, transfers>>
  BY DEF TakeJob, TakeDue, Login, Answer
<1>2. task' \in Tasks
  <2>1. CASE TakeJob
    <3>1. PICK k \in DOMAIN received :
            task' = [kind |-> "job", m |-> sent[received[k]].m, id |-> received[k]]
      BY <2>1 DEF TakeJob
    <3>2. received[k] \in 0..MaxEvents /\ sent[received[k]].m \in Members
      BY <3>1, Positions, WhopAssumption
    <3> QED BY <3>1, <3>2 DEF Tasks
  <2>2. ASSUME NEW m \in Members, TakeDue(m) \/ Login(m) PROVE task' \in Tasks
    BY <2>2, WhopAssumption DEF TakeDue, Login, Tasks
  <2>3. CASE Answer
    <3>1. task.kind \in {"job", "due", "login"} /\ task.m \in Members /\ task.id \in 0..MaxEvents
      BY <2>3, TaskParts DEF Answer
    <3>2. remote[task.m] \in Remote /\ 0 \in 0..Fetching
      BY <3>1, WhopAssumption DEF TypeOK
    <3> QED BY <2>3, <3>1, <3>2 DEF Answer, Tasks
  <2> QED BY <2>1, <2>2, <2>3
<1> QED BY <1>1, <1>2 DEF TypeOK, Ids

LEMMA ProcessedTyped ==
    ASSUME TypeOK, Processed PROVE jobs' \in [1..MaxEvents -> Jobs]
BY DEF Processed, TypeOK, Jobs

(* applyMembership, taken apart.                                           *)
ValidNow(m, r) == Until(r, task.age) > 0 /\ r.user # None /\ ~Hold(row[m], TaskType)
Kept(m, r) == IF KeepsWorkspace(row[m], r) THEN row[m].workspace ELSE None

LEMMA ApplyParts ==
    ASSUME TypeOK, Apply
    PROVE  /\ task \in Told /\ task.got.ours /\ task' = Idle /\ Processed
           /\ UNCHANGED <<remote, sent, received, transfers>>
           /\ \E w \in Workspaces \cup {None} :
                /\ \/ /\ ValidNow(task.m, task.got) /\ Kept(task.m, task.got) = None
                      /\ w # None /\ owner[w] = None
                      /\ owner' = [owner EXCEPT ![w] = [m |-> task.m, user |-> task.got.user]]
                      /\ unpaid' = [unpaid EXCEPT ![w] = IF Paid(task.m, task.got.user) THEN 0
                                                         ELSE task.age]
                   \/ /\ ~(ValidNow(task.m, task.got) /\ Kept(task.m, task.got) = None)
                      /\ w = Kept(task.m, task.got) /\ UNCHANGED <<owner, unpaid>>
                /\ row' = [row EXCEPT ![task.m] =
                              [known |-> TRUE, user |-> task.got.user, workspace |-> w,
                               valid |-> ValidNow(task.m, task.got), lease |-> Until(task.got, task.age),
                               due |-> 1, suspended |-> Hold(row[task.m], TaskType)]]
BY TaskParts DEF Apply, ValidNow, Kept

LEMMA ApplyTyped == ASSUME TypeOK, Apply PROVE TypeOK'
<1>1. task \in Told /\ jobs' \in [1..MaxEvents -> Jobs] /\ task' \in Tasks
  BY ApplyParts, ProcessedTyped, IdleUnanswered
<1>2. task.m \in Members /\ task.got \in Remote /\ task.age \in 0..Fetching
        /\ task.got.user \in Users \cup {None}
  BY <1>1 DEF Told, Remote
<1>3. Until(task.got, task.age) \in 0..Lease
  BY <1>2, UntilTyped
<1>4. ValidNow(task.m, task.got) \in BOOLEAN /\ Hold(row[task.m], TaskType) \in BOOLEAN
  BY DEF ValidNow, Hold
<1>5. PICK w \in Workspaces \cup {None} :
        /\ \/ /\ ValidNow(task.m, task.got) /\ w # None
              /\ owner' = [owner EXCEPT ![w] = [m |-> task.m, user |-> task.got.user]]
              /\ unpaid' = [unpaid EXCEPT ![w] = IF Paid(task.m, task.got.user) THEN 0 ELSE task.age]
           \/ UNCHANGED <<owner, unpaid>>
        /\ row' = [row EXCEPT ![task.m] =
                      [known |-> TRUE, user |-> task.got.user, workspace |-> w,
                       valid |-> ValidNow(task.m, task.got), lease |-> Until(task.got, task.age),
                       due |-> 1, suspended |-> Hold(row[task.m], TaskType)]]
  BY ApplyParts
<1>6. row' \in [Members -> Rows]
  BY <1>2, <1>3, <1>4, <1>5 DEF TypeOK, Rows
<1>7. /\ owner' \in [Workspaces -> [m : Members, user : Users] \cup {None}]
      /\ unpaid' \in [Workspaces -> 0..Longest]
  <2>1. 0 \in 0..Longest /\ task.age \in 0..Longest
    BY <1>2, WhopAssumption DEF Longest
  <2>2. ValidNow(task.m, task.got) => task.got.user \in Users
    BY <1>2 DEF ValidNow
  <2>3. CASE UNCHANGED <<owner, unpaid>>
    BY <2>3 DEF TypeOK
  <2>4. CASE /\ ValidNow(task.m, task.got)
             /\ owner' = [owner EXCEPT ![w] = [m |-> task.m, user |-> task.got.user]]
             /\ unpaid' = [unpaid EXCEPT ![w] = IF Paid(task.m, task.got.user) THEN 0 ELSE task.age]
    <3>1. [m |-> task.m, user |-> task.got.user] \in [m : Members, user : Users]
      BY <1>2, <2>2, <2>4
    <3> QED BY <2>1, <2>4, <3>1 DEF TypeOK
  <2> QED BY <1>5, <2>3, <2>4
<1>8. UNCHANGED <<remote, sent, received, transfers>>
  BY ApplyParts
<1> QED BY <1>1, <1>6, <1>7, <1>8 DEF TypeOK, Ids

LEMMA RevokeTyped == ASSUME TypeOK, Revoke PROVE TypeOK'
<1>1. task.m \in Members
  BY TaskParts DEF Revoke, Told
<1>2. row' \in [Members -> Rows]
  <2>1. row' = row \/ row' = [row EXCEPT ![task.m] = Revoked(row[task.m])]
    BY <1>1 DEF Revoke, TypeOK, Revoked
  <2>2. Revoked(row[task.m]) \in Rows
    BY <1>1, EditsTyped DEF TypeOK
  <2> QED BY <1>1, <2>1, <2>2 DEF TypeOK
<1>3. jobs' \in [1..MaxEvents -> Jobs] /\ task' \in Tasks
  BY ProcessedTyped, IdleUnanswered DEF Revoke
<1> QED BY <1>2, <1>3 DEF Revoke, TypeOK, Ids

LEMMA FailTyped == ASSUME TypeOK, Fail \/ Crash PROVE TypeOK'
<1>1. CASE Fail
  <2>1. task.m \in Members /\ task' \in Tasks
    BY <1>1, TaskParts, IdleUnanswered DEF Fail
  <2>2. row' \in [Members -> Rows]
    <3>1. row' = row \/ row' = [row EXCEPT ![task.m] = Rechecked(row[task.m])]
      BY <1>1, <2>1 DEF Fail, TypeOK, Rechecked
    <3>2. Rechecked(row[task.m]) \in Rows
      BY <2>1, EditsTyped DEF TypeOK
    <3> QED BY <2>1, <3>1, <3>2 DEF TypeOK
  <2>3. jobs' \in [1..MaxEvents -> Jobs]
    <3>1. ASSUME NEW wait \in Deferred, jobs' = [jobs EXCEPT ![task.id].wait = wait]
          PROVE  jobs' \in [1..MaxEvents -> Jobs]
      <4>1. wait \in 0..MaxWait
        BY WhopAssumption DEF Deferred
      <4>2. \A i \in 1..MaxEvents : [jobs[i] EXCEPT !.wait = wait] \in Jobs
        BY <4>1 DEF TypeOK, Jobs
      <4>3. task.id \in 1..MaxEvents => jobs' = [jobs EXCEPT ![task.id] = [jobs[task.id] EXCEPT !.wait = wait]]
        BY <3>1 DEF TypeOK
      <4>4. task.id \notin 1..MaxEvents => jobs' = jobs
        BY <3>1 DEF TypeOK
      <4> QED BY <4>2, <4>3, <4>4 DEF TypeOK
    <3> QED BY <1>1, <3>1 DEF Fail, TypeOK
  <2> QED BY <1>1, <2>1, <2>2, <2>3 DEF Fail, TypeOK, Ids
<1>2. CASE Crash
  BY <1>2, IdleUnanswered DEF Crash, TypeOK, Ids
<1> QED BY <1>1, <1>2

(* What a tick does to each clock.                                         *)
LEMMA TickParts ==
    ASSUME TypeOK, Tick
    PROVE  /\ \A m \in Members :
                /\ remote'[m] = [remote[m] EXCEPT !.left = Less(@)]
                /\ row'[m] = [row[m] EXCEPT !.lease = Less(@), !.due = Less(@)]
           /\ owner' = owner
           /\ Answered => /\ task \in Told /\ task' \in Told /\ task.age < Fetching
                          /\ task' = [task EXCEPT !.age = @ + 1]
           /\ ~Answered => task' = task
<1>1. Answered => task \in Told
  BY TaskParts
<1>2. Answered => task' = [task EXCEPT !.age = @ + 1] /\ task.age < Fetching
  BY DEF Tick
<1>3. Answered => task' \in Told
  BY <1>1, <1>2, WhopAssumption DEF Told
<1> QED BY <1>1, <1>2, <1>3 DEF Tick

LEMMA TickTyped == ASSUME TypeOK, Tick PROVE TypeOK'
<1>1. remote' \in [Members -> Remote]
  <2>1. ASSUME NEW m \in Members PROVE [remote[m] EXCEPT !.left = Less(@)] \in Remote
    <3>1. remote[m] \in Remote /\ Less(remote[m].left) \in 0..Period
      BY LessIn, WhopAssumption DEF TypeOK, Remote
    <3> QED BY <3>1 DEF Remote
  <2> QED BY <2>1 DEF Tick
<1>2. row' \in [Members -> Rows]
  <2>1. ASSUME NEW m \in Members PROVE [row[m] EXCEPT !.lease = Less(@), !.due = Less(@)] \in Rows
    <3>1. row[m] \in Rows /\ Less(row[m].lease) \in 0..Lease /\ Less(row[m].due) \in 0..1
      BY LessIn, WhopAssumption DEF TypeOK, Rows
    <3>2. [row[m] EXCEPT !.lease = Less(@), !.due = Less(@)]
            = Reclocked(row[m], Less(row[m].lease), Less(row[m].due))
      BY <3>1 DEF Reclocked, Rows
    <3>3. Reclocked(row[m], Less(row[m].lease), Less(row[m].due)) \in Rows
      BY <3>1, EditsTyped
    <3> QED BY <3>2, <3>3
  <2> QED BY <2>1 DEF Tick
<1>3. jobs' \in [1..MaxEvents -> Jobs]
  <2>1. ASSUME NEW i \in 1..MaxEvents PROVE [jobs[i] EXCEPT !.wait = Less(@)] \in Jobs
    <3>1. jobs[i] \in Jobs /\ Less(jobs[i].wait) \in 0..MaxWait
      BY LessIn, WhopAssumption DEF TypeOK, Jobs
    <3> QED BY <3>1 DEF Jobs
  <2> QED BY <2>1 DEF Tick
<1>4. unpaid' \in [Workspaces -> 0..Longest]
  <2>1. Longest \in Nat
    BY WhopAssumption DEF Longest
  <2>2. \A w \in Workspaces : unpaid[w] \in 0..Longest
    BY DEF TypeOK
  <2>3. ASSUME NEW w \in Workspaces
        PROVE  (IF owner[w] = None \/ PaidFor(w)' THEN 0
                ELSE IF unpaid[w] < Longest THEN unpaid[w] + 1 ELSE Longest) \in 0..Longest
    BY <2>1, <2>2
  <2> QED BY <2>3 DEF Tick
<1>5. task' \in Tasks
  BY TickParts DEF TypeOK, Tasks, Told
<1> QED BY <1>1, <1>2, <1>3, <1>4, <1>5 DEF Tick, TypeOK, Ids

LEMMA TypesKept == ASSUME TypeOK, [Next]_vars PROVE TypeOK'
<1>1. CASE UNCHANGED vars
  BY <1>1 DEF vars, TypeOK, Ids
<1> QED BY <1>1, RemoteTyped, ReceiveTyped, TakeTyped, ApplyTyped, RevokeTyped, FailTyped, TickTyped
        DEF Next

-----------------------------------------------------------------------------
(* The leases.                                                             *)

LEMMA Numbers ==
    ASSUME TypeOK
    PROVE  /\ \A m \in Members : /\ row[m] \in Rows /\ row[m].lease \in Nat /\ row[m].valid \in BOOLEAN
                                 /\ remote[m] \in Remote /\ remote[m].left \in Nat
                                 /\ row[m].workspace # None => row[m].workspace \in Workspaces
           /\ \A w \in Workspaces : unpaid[w] \in Nat /\ unpaid[w] <= Longest
           /\ Longest \in Nat
<1>1. Longest \in Nat
  BY WhopAssumption DEF Longest
<1>2. \A m \in Members : row[m] \in Rows /\ remote[m] \in Remote
  BY DEF TypeOK
<1>3. \A r \in Rows : /\ r.lease \in Nat /\ r.valid \in BOOLEAN
                      /\ r.workspace # None => r.workspace \in Workspaces
  BY WhopAssumption DEF Rows
<1>4. \A r \in Remote : r.left \in Nat
  BY WhopAssumption DEF Remote
<1>5. \A w \in Workspaces : unpaid[w] \in Nat /\ unpaid[w] <= Longest
  BY <1>1 DEF TypeOK
<1> QED BY <1>1, <1>2, <1>3, <1>4, <1>5

LEMMA AnswerNumbers ==
    ASSUME TypeOK, Answered
    PROVE  /\ task.m \in Members /\ task.got \in Remote /\ task.got.left \in Nat
           /\ task.age \in 0..Fetching /\ task.age \in Nat
<1>1. task \in Told
  BY TaskParts
<1> QED BY <1>1, WhopAssumption DEF Told, Remote

(* The owner of a row's workspace is on record.                            *)
LEMMA OwnerKnown ==
    ASSUME TypeOK, WorkspacesOwned, NEW m \in Members, row[m].workspace # None
    PROVE  row[m].workspace \in Workspaces /\ owner[row[m].workspace] # None
<1>1. row[m].workspace \in Workspaces
  BY Numbers
<1>2. owner[row[m].workspace] \in [m : Members, user : Users]
  <2>1. row[m].user \in Users /\ owner[row[m].workspace] = [m |-> m, user |-> row[m].user]
    BY DEF WorkspacesOwned
  <2> QED BY <2>1
<1> QED BY <1>1, <1>2, WhopAssumption

LEMMA RemoteKeeps ==
    ASSUME WhopInv, NEW m \in Members,
           (\E type \in EventTypes : Bill(m, type)) \/ Renew(m) \/ Transfer(m)
    PROVE  LeasesInv'
<1> USE DEF WhopInv, LeasesInv
<1>1. PICK r \in Remote : Changed(m, r) /\ r.left >= remote[m].left
  BY RemoteChanges
<1>2. /\ remote' = [remote EXCEPT ![m] = r] /\ owner' = owner
      /\ \A w \in Workspaces : unpaid'[w] \in {0, unpaid[w]} /\ (PaidFor(w)' => unpaid'[w] = 0)
  BY <1>1, ChangeTyped
<1>3. row' = row /\ task' = task
  BY RemoteTyped DEF Others
<1>4. r.left \in Nat
  BY WhopAssumption DEF Remote
<1>5. \A n \in Members : remote'[n].left \in Nat /\ remote'[n].left >= remote[n].left
  BY <1>1, <1>2, <1>4, Numbers DEF TypeOK
<1>6. WorkspacesOwned' /\ PayersOwe'
  BY <1>2, <1>3 DEF WorkspacesOwned, PayersOwe
<1>7. PeriodCovers'
  <2>1. \A n \in Members : row'[n].lease <= remote'[n].left
    BY <1>3, <1>5, Numbers DEF PeriodCovers
  <2>2. Answered' => task'.got.left <= remote'[task'.m].left + task'.age
    BY <1>3, <1>5, Numbers, AnswerNumbers DEF PeriodCovers, Answered
  <2> QED BY <2>1, <2>2 DEF PeriodCovers
<1>8. AnswerRecent'
  BY <1>2, <1>3, Numbers, AnswerNumbers DEF AnswerRecent, Answered
<1>9. LeaseCovers'
  <2> SUFFICES ASSUME NEW n \in Members, row[n].workspace # None, row[n].valid, row[n].lease > 0
               PROVE  unpaid'[row[n].workspace] + row[n].lease <= Longest
    BY <1>3 DEF LeaseCovers
  <2>1. row[n].workspace \in Workspaces /\ row[n].lease \in Nat /\ Longest \in Nat
    BY Numbers
  <2>2. unpaid[row[n].workspace] + row[n].lease <= Longest /\ unpaid[row[n].workspace] \in Nat
    BY <2>1, Numbers DEF LeaseCovers
  <2>3. unpaid'[row[n].workspace] \in {0, unpaid[row[n].workspace]}
    BY <1>2, <2>1
  <2> QED BY <2>1, <2>2, <2>3
<1> QED BY <1>6, <1>7, <1>8, <1>9

(* An edit of a row never makes it valid, nor its lease longer.            *)
LEMMA EditKeeps ==
    ASSUME WhopInv, NEW m \in Members, NEW r \in {row[m], Held(row[m]), Revoked(row[m]), Rechecked(row[m])},
           row' = [row EXCEPT ![m] = r], UNCHANGED <<remote, owner, unpaid>>, task' \in {task, Idle}
    PROVE  LeasesInv'
<1> USE DEF WhopInv, LeasesInv
<1>1. /\ r.user = row[m].user /\ r.workspace = row[m].workspace
      /\ r.valid => row[m].valid
      /\ r.lease \in {0, row[m].lease}
  BY Numbers DEF Rows, Held, Revoked, Rechecked
<1>2. \A n \in Members :
        /\ row'[n].user = row[n].user /\ row'[n].workspace = row[n].workspace
        /\ row'[n].valid => row[n].valid
        /\ row'[n].lease \in {0, row[n].lease}
  BY <1>1 DEF TypeOK
<1>3. WorkspacesOwned' /\ PayersOwe'
  BY <1>2 DEF WorkspacesOwned, PayersOwe, PaidFor, Paid
<1>4. Answered' => task' = task /\ Answered
  BY IdleUnanswered DEF Answered
<1>5. PeriodCovers'
  <2>1. \A n \in Members : row'[n].lease <= remote[n].left
    BY <1>2, Numbers DEF PeriodCovers
  <2> QED BY <2>1, <1>4 DEF PeriodCovers
<1>6. AnswerRecent'
  BY <1>4 DEF AnswerRecent
<1>7. LeaseCovers'
  <2> SUFFICES ASSUME NEW n \in Members, row'[n].workspace # None, row'[n].valid, row'[n].lease > 0
               PROVE  unpaid[row'[n].workspace] + row'[n].lease <= Longest
    BY DEF LeaseCovers
  <2>1. row'[n].lease = row[n].lease /\ row[n].valid /\ row'[n].workspace = row[n].workspace
    BY <1>2
  <2> QED BY <2>1 DEF LeaseCovers
<1> QED BY <1>3, <1>5, <1>6, <1>7

LEMMA ReceiveKeeps == ASSUME WhopInv, NEW i \in Ids, Receive(i) PROVE LeasesInv'
<1>1. sent[i].m \in Members
  BY Positions DEF WhopInv
<1>2. \/ row' = row
      \/ row' = [row EXCEPT ![sent[i].m] = Held(row[sent[i].m])]
  BY <1>1 DEF Receive, WhopInv, TypeOK, Held
<1>3. row' = [row EXCEPT ![sent[i].m] = row[sent[i].m]] \/ row' # row
  BY DEF WhopInv, TypeOK
<1>4. UNCHANGED <<remote, owner, unpaid>> /\ task' = task
  BY DEF Receive
<1> QED BY <1>1, <1>2, <1>3, <1>4, EditKeeps

LEMMA RevokeKeeps == ASSUME WhopInv, Revoke PROVE LeasesInv'
<1>1. task.m \in Members
  BY TaskParts DEF Revoke, Told, WhopInv
<1>2. \/ row' = row
      \/ row' = [row EXCEPT ![task.m] = Revoked(row[task.m])]
  BY <1>1 DEF Revoke, WhopInv, TypeOK, Revoked
<1>3. row' = [row EXCEPT ![task.m] = row[task.m]] \/ row' # row
  BY DEF WhopInv, TypeOK
<1>4. UNCHANGED <<remote, owner, unpaid>> /\ task' = Idle
  BY DEF Revoke
<1> QED BY <1>1, <1>2, <1>3, <1>4, EditKeeps

LEMMA FailKeeps == ASSUME WhopInv, Fail \/ Crash PROVE LeasesInv'
<1>1. task.m \in Members
  BY TaskParts DEF Fail, Crash, WhopInv
<1>2. \/ row' = row
      \/ row' = [row EXCEPT ![task.m] = Rechecked(row[task.m])]
  BY <1>1 DEF Fail, Crash, WhopInv, TypeOK, Rechecked
<1>3. row' = [row EXCEPT ![task.m] = row[task.m]] \/ row' # row
  BY DEF WhopInv, TypeOK
<1>4. UNCHANGED <<remote, owner, unpaid>> /\ task' = Idle
  BY DEF Fail, Crash
<1> QED BY <1>1, <1>2, <1>3, <1>4, EditKeeps

LEMMA TakeKeeps ==
    ASSUME WhopInv, TakeJob \/ (\E m \in Members : TakeDue(m) \/ Login(m)) PROVE LeasesInv'
<1> USE DEF WhopInv, LeasesInv
<1>1. UNCHANGED <<remote, row, owner, unpaid>>
  BY TakeTyped
<1>2. ~Answered'
  BY DEF TakeJob, TakeDue, Login, Answered
<1> QED BY <1>1, <1>2
        DEF WorkspacesOwned, PeriodCovers, PayersOwe, AnswerRecent, LeaseCovers, PaidFor, Paid

LEMMA AnswerKeeps == ASSUME WhopInv, Answer PROVE LeasesInv'
<1> USE DEF WhopInv, LeasesInv
<1>1. UNCHANGED <<remote, row, owner, unpaid>>
  BY TakeTyped
<1>2. /\ task'.m = task.m /\ task'.got = remote[task.m] /\ task'.age = 0 /\ task.m \in Members
  BY TaskParts DEF Answer
<1>3. PeriodCovers'
  BY <1>1, <1>2, Numbers DEF PeriodCovers
<1>4. AnswerRecent'
  BY <1>1, <1>2, Numbers DEF AnswerRecent, PayersOwe, PaidFor, Paid
<1> QED BY <1>1, <1>3, <1>4 DEF WorkspacesOwned, PayersOwe, LeaseCovers, PaidFor, Paid

LEMMA ApplyKeeps == ASSUME WhopInv, Apply PROVE LeasesInv'
<1> USE DEF WhopInv, LeasesInv
<1>1. Answered /\ task.got.ours /\ task' = Idle /\ ~Answered' /\ UNCHANGED remote
  BY ApplyParts, IdleUnanswered DEF Apply, Answered
<1>2. /\ task.m \in Members /\ task.got \in Remote /\ task.got.left \in Nat
      /\ task.age \in 0..Fetching /\ task.age \in Nat
  BY <1>1, AnswerNumbers
<1> DEFINE m == task.m
           user == task.got.user
           until == Until(task.got, task.age)
           valid == ValidNow(task.m, task.got)
<1>3. /\ until \in 0..Lease /\ until \in Nat
      /\ until > 0 => task.got.active /\ task.got.left > 0 /\ until <= task.got.left - task.age
  BY <1>2, UntilTyped, WhopAssumption
<1>4. valid => user \in Users /\ until > 0
  BY <1>2 DEF ValidNow, Remote
<1>5. PICK w \in Workspaces \cup {None} :
        /\ \/ /\ valid /\ w # None /\ owner[w] = None
              /\ owner' = [owner EXCEPT ![w] = [m |-> m, user |-> user]]
              /\ unpaid' = [unpaid EXCEPT ![w] = IF Paid(m, user) THEN 0 ELSE task.age]
           \/ /\ w = Kept(m, task.got) /\ UNCHANGED <<owner, unpaid>>
        /\ row' = [row EXCEPT ![m] =
                      [known |-> TRUE, user |-> user, workspace |-> w, valid |-> valid,
                       lease |-> until, due |-> 1, suspended |-> Hold(row[m], TaskType)]]
  BY ApplyParts
<1> HIDE DEF user, until, valid
<1>6. /\ \A n \in Members : n # m => row'[n] = row[n]
      /\ row'[m].user = user /\ row'[m].workspace = w /\ row'[m].valid = valid /\ row'[m].lease = until
  BY <1>2, <1>5 DEF TypeOK
<1>7. ASSUME w # None, UNCHANGED <<owner, unpaid>>
      PROVE  /\ w \in Workspaces /\ user \in Users /\ owner[w] = [m |-> m, user |-> user] /\ owner[w] # None
             /\ w = row[m].workspace
  <2>1. w = Kept(m, task.got) \/ (w # None /\ owner[w] = None /\ owner' = [owner EXCEPT ![w] = [m |-> m, user |-> user]] /\ valid)
    BY <1>5
  <2>2. CASE w = Kept(m, task.got)
    <3>1. row[m].workspace = w /\ row[m].user = user
      BY <1>7, <2>2 DEF Kept, KeepsWorkspace, user
    <3> QED BY <1>2, <1>7, <3>1, OwnerKnown DEF WorkspacesOwned
  <2>3. CASE w # None /\ owner[w] = None /\ owner' = [owner EXCEPT ![w] = [m |-> m, user |-> user]] /\ valid
    <3>1. owner[w] = [m |-> m, user |-> user] /\ owner[w] \in [m : Members, user : Users]
      BY <1>2, <1>4, <1>5, <1>7, <2>3 DEF TypeOK
    <3> QED BY <2>3, <3>1, WhopAssumption
  <2> QED BY <2>1, <2>2, <2>3
<1>8. ASSUME NEW n \in Members, n # m, row[n].workspace # None
      PROVE  /\ row[n].workspace \in Workspaces
             /\ owner'[row[n].workspace] = owner[row[n].workspace]
             /\ unpaid'[row[n].workspace] = unpaid[row[n].workspace]
  <2>1. row[n].workspace \in Workspaces /\ owner[row[n].workspace] # None
    BY <1>8, OwnerKnown
  <2> QED BY <1>5, <2>1 DEF TypeOK
<1>9. ASSUME w # None
      PROVE  /\ w \in Workspaces /\ user \in Users /\ owner'[w] = [m |-> m, user |-> user]
             /\ valid => unpaid'[w] + until <= Longest
  <2>1. CASE UNCHANGED <<owner, unpaid>>
    <3>1. /\ w \in Workspaces /\ user \in Users /\ owner[w] = [m |-> m, user |-> user] /\ owner[w] # None
      BY <1>7, <1>9, <2>1
    <3>2. valid => unpaid[w] <= task.age
      BY <1>1, <1>3, <1>4, <3>1 DEF AnswerRecent, user
    <3>3. valid => unpaid[w] + until <= Longest
      BY <1>2, <1>3, <3>1, <3>2, Numbers, WhopAssumption DEF Longest
    <3> QED BY <2>1, <3>1, <3>3
  <2>2. CASE /\ valid /\ owner' = [owner EXCEPT ![w] = [m |-> m, user |-> user]]
             /\ unpaid' = [unpaid EXCEPT ![w] = IF Paid(m, user) THEN 0 ELSE task.age]
    <3>1. w \in Workspaces /\ unpaid'[w] \in {0, task.age} /\ owner'[w] = [m |-> m, user |-> user]
      BY <1>9, <2>2 DEF TypeOK
    <3> QED BY <1>2, <1>3, <1>4, <2>2, <3>1, WhopAssumption DEF Longest
  <2> QED BY <1>5, <2>1, <2>2
<1>10. WorkspacesOwned'
  <2> SUFFICES ASSUME NEW n \in Members, row'[n].workspace # None
               PROVE  /\ row'[n].user \in Users
                      /\ owner'[row'[n].workspace] = [m |-> n, user |-> row'[n].user]
    BY DEF WorkspacesOwned
  <2>1. CASE n = m
    BY <1>6, <1>9, <2>1
  <2>2. CASE n # m
    BY <1>6, <1>8, <2>2 DEF WorkspacesOwned
  <2> QED BY <2>1, <2>2
<1>11. PeriodCovers'
  <2>1. until <= remote[m].left
    <3>1. task.got.left <= remote[m].left + task.age /\ remote[m].left \in Nat
      BY <1>1, <1>2, Numbers DEF PeriodCovers
    <3> QED BY <1>2, <1>3, <3>1
  <2>2. \A n \in Members : row'[n].lease <= remote[n].left
    BY <1>6, <2>1 DEF PeriodCovers
  <2> QED BY <1>1, <2>2 DEF PeriodCovers
<1>12. PayersOwe'
  <2> SUFFICES ASSUME NEW v \in Workspaces, PaidFor(v)' PROVE unpaid'[v] = 0
    BY DEF PayersOwe
  <2>1. CASE owner'[v] = owner[v] /\ unpaid'[v] = unpaid[v]
    BY <1>1, <2>1 DEF PayersOwe, PaidFor, Paid
  <2>2. CASE /\ v = w /\ valid /\ owner' = [owner EXCEPT ![w] = [m |-> m, user |-> user]]
             /\ unpaid' = [unpaid EXCEPT ![w] = IF Paid(m, user) THEN 0 ELSE task.age]
    <3>1. owner'[v] = [m |-> m, user |-> user] /\ unpaid'[v] = IF Paid(m, user) THEN 0 ELSE task.age
      BY <2>2 DEF TypeOK
    <3>2. Paid(m, user)
      BY <1>1, <3>1 DEF PaidFor, Paid
    <3> QED BY <3>1, <3>2
  <2> QED BY <1>5, <2>1, <2>2 DEF TypeOK
<1>13. LeaseCovers'
  <2> SUFFICES ASSUME NEW n \in Members, row'[n].workspace # None, row'[n].valid, row'[n].lease > 0
               PROVE  unpaid'[row'[n].workspace] + row'[n].lease <= Longest
    BY DEF LeaseCovers
  <2>1. CASE n = m
    BY <1>6, <1>9, <2>1
  <2>2. CASE n # m
    <3>1. row'[n] = row[n]
      BY <1>6, <2>2
    <3> QED BY <1>8, <2>2, <3>1 DEF LeaseCovers
  <2> QED BY <2>1, <2>2
<1> QED BY <1>1, <1>10, <1>11, <1>12, <1>13 DEF AnswerRecent

LEMMA TickKeeps == ASSUME WhopInv, Tick PROVE LeasesInv'
<1> USE DEF WhopInv, LeasesInv
<1>1. \A m \in Members :
        /\ remote'[m].left = Less(remote[m].left) /\ row'[m].lease = Less(row[m].lease)
        /\ row'[m].user = row[m].user /\ row'[m].workspace = row[m].workspace /\ row'[m].valid = row[m].valid
  BY TickParts, Numbers DEF Remote, Rows
<1>2. owner' = owner /\ Longest \in Nat
  BY TickParts, Numbers
<1>3. \A w \in Workspaces :
        /\ unpaid'[w] \in Nat /\ unpaid'[w] <= unpaid[w] + 1
        /\ PaidFor(w)' => unpaid'[w] = 0
  <2> SUFFICES ASSUME NEW w \in Workspaces
               PROVE  /\ unpaid'[w] \in Nat /\ unpaid'[w] <= unpaid[w] + 1
                      /\ PaidFor(w)' => unpaid'[w] = 0
    OBVIOUS
  <2>1. unpaid'[w] = IF owner[w] = None \/ PaidFor(w)' THEN 0
                     ELSE IF unpaid[w] < Longest THEN unpaid[w] + 1 ELSE Longest
    BY DEF Tick
  <2>2. unpaid[w] \in Nat /\ unpaid[w] <= Longest
    BY Numbers
  <2> QED BY <1>2, <2>1, <2>2
<1>4. Answered' => Answered /\ /\ task'.m = task.m /\ task'.got = task.got
                               /\ task'.age = task.age + 1
  BY TickParts DEF Told, Answered
<1>5. WorkspacesOwned' /\ PayersOwe'
  BY <1>1, <1>2, <1>3 DEF WorkspacesOwned, PayersOwe
<1>6. PeriodCovers'
  <2>1. ASSUME NEW m \in Members PROVE row'[m].lease <= remote'[m].left
    <3>1. row[m].lease \in Nat /\ remote[m].left \in Nat /\ row[m].lease <= remote[m].left
      BY Numbers DEF PeriodCovers
    <3> QED BY <1>1, <3>1 DEF Less
  <2>2. ASSUME Answered' PROVE task'.got.left <= remote'[task'.m].left + task'.age
    <3>1. /\ task.m \in Members /\ task.got.left \in Nat /\ task.age \in Nat
          /\ remote[task.m].left \in Nat /\ task.got.left <= remote[task.m].left + task.age
      BY <1>4, <2>2, AnswerNumbers, Numbers DEF PeriodCovers
    <3>2. remote'[task.m].left \in Nat /\ remote'[task.m].left >= remote[task.m].left - 1
      BY <1>1, <3>1, LessTyped
    <3> QED BY <1>4, <2>2, <3>1, <3>2
  <2> QED BY <2>1, <2>2 DEF PeriodCovers
<1>7. AnswerRecent'
  <2> SUFFICES ASSUME Answered', task'.got.active, task'.got.ours, task'.got.left > 0, NEW w \in Workspaces,
                      owner'[w] # None, owner'[w] = [m |-> task'.m, user |-> task'.got.user]
               PROVE  unpaid'[w] <= task'.age
    BY DEF AnswerRecent
  <2>1. unpaid[w] <= task.age /\ task.age \in Nat /\ unpaid[w] \in Nat
    BY <1>2, <1>4, AnswerNumbers, Numbers DEF AnswerRecent
  <2> QED BY <1>3, <1>4, <2>1
<1>8. LeaseCovers'
  <2> SUFFICES ASSUME NEW m \in Members, row'[m].workspace # None, row'[m].valid, row'[m].lease > 0
               PROVE  unpaid'[row'[m].workspace] + row'[m].lease <= Longest
    BY DEF LeaseCovers
  <2>1. /\ row[m].lease \in Nat /\ row[m].lease > 0 /\ row'[m].lease = row[m].lease - 1
        /\ row[m].workspace # None /\ row[m].valid /\ row'[m].workspace = row[m].workspace
        /\ row[m].workspace \in Workspaces
    BY <1>1, Numbers DEF Less
  <2>2. /\ unpaid[row[m].workspace] + row[m].lease <= Longest
        /\ unpaid[row[m].workspace] \in Nat
    BY <2>1, Numbers DEF LeaseCovers
  <2>3. unpaid'[row[m].workspace] \in Nat /\ unpaid'[row[m].workspace] <= unpaid[row[m].workspace] + 1
    BY <1>3, <2>1
  <2> QED BY <1>2, <2>1, <2>2, <2>3
<1> QED BY <1>5, <1>6, <1>7, <1>8

LEMMA LeasesKept == ASSUME WhopInv, [Next]_vars PROVE LeasesInv'
<1>1. CASE UNCHANGED vars
  BY <1>1 DEF vars, WhopInv, LeasesInv, WorkspacesOwned, PeriodCovers, PayersOwe, AnswerRecent, LeaseCovers,
              Answered, PaidFor, Paid
<1> QED BY <1>1, RemoteKeeps, ReceiveKeeps, TakeKeeps, AnswerKeeps, ApplyKeeps, RevokeKeeps, FailKeeps,
           TickKeeps
        DEF Next

-----------------------------------------------------------------------------
LEMMA StartTyped == Init => WhopInv
<1> SUFFICES ASSUME Init PROVE WhopInv
  OBVIOUS
<1>1. 0 \in 0..Lease /\ 0 \in 0..MaxWait /\ 0 \in 0..Longest /\ 0 \in 0..MaxTransfers
  BY WhopAssumption DEF Longest
<1>2. NoRow \in Rows /\ NoRow.workspace = None /\ NoRow.lease = 0
  BY <1>1 DEF NoRow, Rows
<1>3. remote \in [Members -> Remote] /\ \A m \in Members : remote[m].left \in Nat
  BY WhopAssumption DEF Init, Remote
<1>4. sent \in Seq([m : Members, type : EventTypes]) /\ Len(sent) <= MaxEvents /\ received \in Seq(Ids)
  BY EmptySeq, WhopAssumption DEF Init
<1>5. jobs \in [1..MaxEvents -> Jobs]
  BY <1>1 DEF Init, Jobs
<1>6. TypeOK
  BY <1>1, <1>2, <1>3, <1>4, <1>5, IdleUnanswered DEF Init, TypeOK
<1>7. ~Answered
  BY IdleUnanswered DEF Init, Answered
<1> QED BY <1>2, <1>3, <1>6, <1>7
        DEF Init, WhopInv, LeasesInv, WorkspacesOwned, PeriodCovers, PayersOwe, AnswerRecent, LeaseCovers

(* The invariant holds in every behaviour.                                 *)
THEOREM WhopInvariant == Spec => []WhopInv
<1>1. WhopInv /\ [Next]_vars => WhopInv'
  BY TypesKept, LeasesKept DEF WhopInv
<1> QED BY <1>1, StartTyped, PTL DEF Spec

(* Rows, jobs and tasks hold values of their types.                        *)
THEOREM WhopTypeCorrect == Spec => []TypeOK
<1>1. WhopInv => TypeOK
  BY DEF WhopInv
<1> QED BY <1>1, WhopInvariant, PTL

(* Who has access has paid within a lease and the time of one request.     *)
THEOREM AccessIsPaid == Spec => []RecentlyPaid
<1>1. WhopInv => RecentlyPaid
  <2> SUFFICES ASSUME WhopInv, NEW w \in Workspaces, HasAccess(w) PROVE unpaid[w] < Longest
    BY DEF RecentlyPaid
  <2>1. PICK m \in Members : row[m].workspace = w /\ row[m].valid /\ row[m].lease > 0
    BY DEF HasAccess
  <2>2. w # None
    BY WhopAssumption
  <2>3. unpaid[w] + row[m].lease <= Longest
    BY <2>1, <2>2 DEF WhopInv, LeasesInv, LeaseCovers
  <2>4. unpaid[w] \in Nat /\ row[m].lease \in Nat /\ Longest \in Nat
    BY Numbers DEF WhopInv
  <2> QED BY <2>1, <2>3, <2>4
<1> QED BY <1>1, WhopInvariant, PTL

(* No lease outlives its billing period.                                   *)
THEOREM LeasesEndInTime == Spec => []LeaseWithinPeriod
<1>1. WhopInv => LeaseWithinPeriod
  BY DEF WhopInv, LeasesInv, PeriodCovers, LeaseWithinPeriod
<1> QED BY <1>1, WhopInvariant, PTL

(* No membership opens a workspace made for another member.                *)
THEOREM WorkspacesAreOwn == Spec => []OwnWorkspace
<1>1. WhopInv => OwnWorkspace
  BY DEF WhopInv, LeasesInv, WorkspacesOwned, OwnWorkspace
<1> QED BY <1>1, WhopInvariant, PTL

(* Only the job of a payment or an activation lifts a hold.                *)
THEOREM HoldsStay == Spec => HoldLifted
<1> DEFINE Lifted ==
      \A m \in Members : row[m].suspended /\ ~row'[m].suspended =>
        /\ task.kind = "job" /\ task.m = m
        /\ TaskType \in Clears
<1>1. WhopInv /\ [Next]_vars => [Lifted]_vars
  <2> SUFFICES ASSUME WhopInv, [Next]_vars, NEW m \in Members, row[m].suspended, ~row'[m].suspended
               PROVE  /\ task.kind = "job" /\ task.m = m
                      /\ TaskType \in Clears
    OBVIOUS
  <2>1. Apply
    <3>1. ASSUME row' = row PROVE FALSE
      BY <3>1
    <3>2. ASSUME NEW n \in Members, (\E type \in EventTypes : Bill(n, type)) \/ Renew(n) \/ Transfer(n)
          PROVE  FALSE
      BY <3>1, <3>2, RemoteTyped DEF Others, WhopInv
    <3>3. ASSUME NEW i \in Ids, Receive(i) PROVE FALSE
      <4>1. sent[i].m \in Members
        BY Positions DEF WhopInv
      <4>2. row' = row \/ row' = [row EXCEPT ![sent[i].m] = Held(row[sent[i].m])]
        BY <3>3, <4>1 DEF Receive, WhopInv, TypeOK, Held
      <4>3. Held(row[sent[i].m]).suspended = TRUE
        BY <4>1 DEF Held, WhopInv, TypeOK, Rows
      <4>4. row' = [row EXCEPT ![sent[i].m] = Held(row[sent[i].m])]
        BY <4>2, <3>1
      <4>5. row'[m] = row[m] \/ row'[m] = Held(row[sent[i].m])
        <5>1. row \in [Members -> Rows]
          BY DEF WhopInv, TypeOK
        <5> QED BY <5>1, <4>1, <4>4
      <4>6. row'[m] # row[m]
        OBVIOUS
      <4> QED BY <4>3, <4>5, <4>6
    <3>4. ASSUME TakeJob \/ (\E n \in Members : TakeDue(n) \/ Login(n)) \/ Answer PROVE FALSE
      BY <3>1, <3>4 DEF TakeJob, TakeDue, Login, Answer
    <3>5. ASSUME Revoke \/ Fail \/ Crash PROVE FALSE
      <4>1. task.m \in Members
        BY <3>5, TaskParts DEF Revoke, Fail, Crash, Answered, WhopInv, Asked, Told
      <4>2. row \in [Members -> Rows]
        BY DEF WhopInv, TypeOK
      <4>3. CASE Revoke
        BY <3>1, <4>1, <4>2, <4>3 DEF Revoke, Rows
      <4>4. CASE Fail
        BY <3>1, <4>1, <4>2, <4>4 DEF Fail, Rows
      <4> QED BY <3>1, <3>5, <4>3, <4>4 DEF Crash
    <3>6. ASSUME Tick PROVE FALSE
      BY <3>6 DEF Tick, WhopInv, TypeOK, Rows
    <3> QED BY <3>1, <3>2, <3>3, <3>4, <3>5, <3>6 DEF Next, vars
  <2>2. task.m = m /\ ~Hold(row[m], TaskType)
    <3>1. /\ \A n \in Members : n # task.m => row'[n] = row[n]
          /\ task.m \in Members /\ row'[task.m].suspended = Hold(row[task.m], TaskType)
      <4>1. task.m \in Members
        BY <2>1, ApplyParts DEF WhopInv, Told
      <4>2. PICK w \in Workspaces \cup {None} :
              row' = [row EXCEPT ![task.m] =
                        [known |-> TRUE, user |-> task.got.user, workspace |-> w,
                         valid |-> ValidNow(task.m, task.got), lease |-> Until(task.got, task.age),
                         due |-> 1, suspended |-> Hold(row[task.m], TaskType)]]
        BY <2>1, ApplyParts DEF WhopInv
      <4> QED BY <4>1, <4>2 DEF WhopInv, TypeOK
    <3> QED BY <3>1
  <2>3. TaskType \in Clears
    BY <2>2 DEF Hold
  <2> QED BY <2>2, <2>3 DEF TaskType, Clears
<1> QED BY <1>1, WhopInvariant, PTL DEF Spec, HoldLifted

-----------------------------------------------------------------------------
(* The webhooks and the holds.                                             *)

(* The webhook being worked off, and what a membership's row says of it.   *)
Working == IF task.kind = "job" THEN task.id ELSE 0

Standing(m) ==
    IF ~row[m].known THEN "unknown" ELSE IF row[m].suspended THEN "held" ELSE "clear"

(* "Failed renewals suspend access immediately and remain blocked until a  *)
(* later successful payment/activation is confirmed" (whop.ts:56-57):      *)
(* whatever answers, logins, rechecks, failures and stops come between, a  *)
(* stored webhook is worked off once, a hold begins at once, and only the  *)
(* webhook of a payment ends it.                                           *)
Desk == INSTANCE PaymentHolds WITH
    webhooks <- sent, working <- Working,
    stage <- [i \in 1..MaxEvents |-> jobs[i].state],
    standing <- [m \in Members |-> Standing(m)]

ImplementsHolds == Desk!Spec

(* The job being worked off is on record, waits for nothing else to finish *)
(* it, and is about the membership that is asked for.                      *)
JobHeld ==
    task.kind = "job" =>
        task.id \in Ids /\ jobs[task.id].state = "queued" /\ task.m = sent[task.id].m

(* Only a membership on record is ever on hold.                            *)
KnownHolds == \A m \in Members : row[m].suspended => row[m].known

(* Failures, stops and the clock leave every hold and every job's state.    *)
LEMMA SameStanding ==
    ASSUME TypeOK, Fail \/ Crash \/ Tick
    PROVE  /\ \A n \in Members : row'[n].suspended = row[n].suspended /\ row'[n].known = row[n].known
           /\ \A i \in 1..MaxEvents : jobs'[i].state = jobs[i].state
<1> DEFINE Same == /\ \A n \in Members : row'[n].suspended = row[n].suspended /\ row'[n].known = row[n].known
                   /\ \A i \in 1..MaxEvents : jobs'[i].state = jobs[i].state
<1>1. \A r \in Rows : Rechecked(r).suspended = r.suspended /\ Rechecked(r).known = r.known
  BY DEF Rechecked, Rows
<1>2. \A n \in Members : row[n] \in Rows
  BY DEF TypeOK
<1>3. CASE Fail
  <2>1. task.m \in Members
    BY <1>3, TaskParts DEF Fail
  <2>2. row' = row \/ row' = [row EXCEPT ![task.m] = Rechecked(row[task.m])]
    BY <1>3, <2>1 DEF Fail, TypeOK, Rechecked
  <2>3. row \in [Members -> Rows]
    BY DEF TypeOK
  <2>4. \A n \in Members : row'[n] = row[n] \/ row'[n] = Rechecked(row[n])
    BY <2>1, <2>2, <2>3
  <2>5. ASSUME NEW i \in 1..MaxEvents PROVE jobs'[i].state = jobs[i].state
    <3>1. ASSUME NEW wait \in Deferred, jobs' = [jobs EXCEPT ![task.id].wait = wait]
          PROVE  jobs'[i].state = jobs[i].state
      <4>1. jobs[i] \in Jobs /\ i \in DOMAIN jobs
        BY DEF TypeOK
      <4>2. jobs'[i] = jobs[i] \/ jobs'[i] = [jobs[i] EXCEPT !.wait = wait]
        BY <3>1, <4>1
      <4> QED BY <4>1, <4>2 DEF Jobs
    <3> QED BY <1>3, <3>1 DEF Fail
  <2> QED BY <1>1, <1>2, <2>4, <2>5
<1>4. CASE Crash
  BY <1>4 DEF Crash
<1>5. CASE Tick
  <2>1. \A r \in Rows : /\ [r EXCEPT !.lease = Less(@), !.due = Less(@)].suspended = r.suspended
                        /\ [r EXCEPT !.lease = Less(@), !.due = Less(@)].known = r.known
    BY DEF Rows
  <2>2. \A n \in Members : row'[n] = [row[n] EXCEPT !.lease = Less(@), !.due = Less(@)]
    BY <1>5, TickParts
  <2>3. \A i \in 1..MaxEvents : jobs'[i].state = jobs[i].state
    BY <1>5 DEF Tick, TypeOK, Jobs
  <2> QED BY <1>2, <2>1, <2>2, <2>3
<1> QED BY <1>3, <1>4, <1>5

LEMMA KnownKept == ASSUME WhopInv, KnownHolds, [Next]_vars PROVE KnownHolds'
<1> USE DEF WhopInv
<1> SUFFICES ASSUME NEW n \in Members
             PROVE  row'[n] = row[n] \/ row'[n].known \/ (row'[n].suspended = row[n].suspended
                                                          /\ row'[n].known = row[n].known)
  BY DEF KnownHolds
<1>1. CASE row' = row
  BY <1>1
<1>2. ASSUME NEW m \in Members, (\E type \in EventTypes : Bill(m, type)) \/ Renew(m) \/ Transfer(m)
      PROVE  row' = row
  BY <1>2, RemoteTyped DEF Others
<1>3. ASSUME NEW i \in Ids, Receive(i) PROVE row'[n] = row[n] \/ row'[n].known
  <2>1. sent[i].m \in Members /\ row \in [Members -> Rows]
    BY Positions DEF TypeOK
  <2>2. CASE row[sent[i].m].known
    <3>1. row' = row \/ row' = [row EXCEPT ![sent[i].m] = Held(row[sent[i].m])]
      BY <1>3, <2>1 DEF Receive, Held
    <3>2. Held(row[sent[i].m]).known
      BY <2>1, <2>2 DEF Held, Rows
    <3> QED BY <2>1, <3>1, <3>2
  <2>3. CASE ~row[sent[i].m].known
    BY <1>3, <2>3 DEF Receive
  <2> QED BY <2>2, <2>3
<1>4. ASSUME TakeJob \/ (\E m \in Members : TakeDue(m) \/ Login(m)) \/ Answer PROVE row' = row
  BY <1>4, TakeTyped
<1>5. ASSUME Apply PROVE row'[n] = row[n] \/ row'[n].known
  <2>1. task.m \in Members
    BY <1>5, ApplyParts DEF Told
  <2> QED BY <1>5, <2>1 DEF Apply, TypeOK
<1>6. ASSUME Revoke PROVE row'[n] = row[n] \/ row'[n].known
  <2>1. task.m \in Members
    BY <1>6, TaskParts DEF Revoke, Told
  <2> QED BY <1>6, <2>1 DEF Revoke, TypeOK, Rows
<1>7. ASSUME Fail \/ Crash \/ Tick
      PROVE  row'[n].suspended = row[n].suspended /\ row'[n].known = row[n].known
  BY <1>7, SameStanding
<1>8. CASE UNCHANGED vars
  BY <1>1, <1>8 DEF vars
<1> QED BY <1>1, <1>2, <1>3, <1>4, <1>5, <1>6, <1>7, <1>8 DEF Next

(* A step that changes neither the webhooks nor what becomes of them.      *)
LEMMA HeldByOthers ==
    ASSUME TypeOK, JobHeld, UNCHANGED sent,
           \A i \in Ids : jobs[i].state = "queued" => jobs'[i].state = "queued",
           \/ task' = Idle
           \/ task'.kind = task.kind /\ task'.id = task.id /\ task'.m = task.m
           \/ task'.kind # "job"
    PROVE  JobHeld'
<1>1. Idle.kind # "job"
  BY DEF Idle
<1>2. Ids' = Ids
  BY DEF Ids
<1> QED BY <1>1, <1>2 DEF JobHeld

LEMMA HeldKept == ASSUME WhopInv, JobHeld, [Next]_vars PROVE JobHeld'
<1> USE DEF WhopInv
<1>1. ASSUME NEW m \in Members, NEW type \in EventTypes, Bill(m, type) PROVE JobHeld'
  <2>1. sent' = Append(sent, [m |-> m, type |-> type]) /\ UNCHANGED <<jobs, task>>
    BY <1>1 DEF Bill
  <2>2. Len(sent) \in Nat /\ sent \in Seq([m : Members, type : EventTypes])
    BY Positions DEF TypeOK
  <2>3. Len(sent') = Len(sent) + 1 /\ \A i \in Ids : sent'[i] = sent[i]
    BY <2>1, <2>2, AppendProperties DEF Ids
  <2>4. Ids \subseteq Ids'
    BY <2>2, <2>3 DEF Ids
  <2> QED BY <2>1, <2>3, <2>4 DEF JobHeld
<1>2. ASSUME NEW m \in Members, Renew(m) \/ Transfer(m) \/ TakeDue(m) \/ Login(m) PROVE JobHeld'
  <2>1. UNCHANGED <<sent, jobs>> /\ (task' = task \/ task'.kind # "job")
    BY <1>2 DEF Renew, Transfer, TakeDue, Login
  <2> QED BY <2>1, HeldByOthers
<1>3. ASSUME NEW i \in Ids, Receive(i) PROVE JobHeld'
  <2>1. UNCHANGED <<sent, task>> /\ jobs' = [jobs EXCEPT ![i].state = "queued"]
    BY <1>3 DEF Receive
  <2>2. \A j \in Ids : jobs[j].state = "queued" => jobs'[j].state = "queued"
    BY <2>1, Positions DEF TypeOK, Jobs
  <2> QED BY <2>1, <2>2, HeldByOthers
<1>4. CASE TakeJob
  <2>1. PICK k \in DOMAIN received :
          /\ Ready(received[k])
          /\ task' = [kind |-> "job", m |-> sent[received[k]].m, id |-> received[k]]
    BY <1>4 DEF TakeJob
  <2>2. UNCHANGED <<sent, jobs>> /\ received[k] \in Ids
    BY <1>4, Positions DEF TakeJob
  <2> QED BY <2>1, <2>2 DEF JobHeld, Ready, Ids
<1>5. CASE Answer
  <2>1. UNCHANGED <<sent, jobs>>
        /\ task'.kind = task.kind /\ task'.id = task.id /\ task'.m = task.m
    BY <1>5 DEF Answer
  <2> QED BY <2>1, HeldByOthers
<1>6. CASE Apply \/ Revoke \/ Fail \/ Crash
  <2>1. task' = Idle /\ Ids' = Ids
    BY <1>6 DEF Apply, Revoke, Fail, Crash, Ids
  <2>2. Idle.kind # "job"
    BY DEF Idle
  <2> QED BY <2>1, <2>2 DEF JobHeld
<1>7. CASE Tick
  <2>1. UNCHANGED sent
    BY <1>7 DEF Tick
  <2>2. \A i \in Ids : jobs[i].state = "queued" => jobs'[i].state = "queued"
    BY <1>7, Positions DEF Tick, TypeOK, Jobs
  <2>3. task' = task \/ (task'.kind = task.kind /\ task'.id = task.id /\ task'.m = task.m)
    BY <1>7, TickParts, TaskParts DEF Tick, Told
  <2> QED BY <2>1, <2>2, <2>3, HeldByOthers
<1>8. CASE UNCHANGED vars
  BY <1>8, HeldByOthers DEF vars
<1> QED BY <1>1, <1>2, <1>3, <1>4, <1>5, <1>6, <1>7, <1>8 DEF Next

(* Nothing changes that the promise is about.                              *)
LEMMA DeskRests ==
    ASSUME UNCHANGED sent, Working' = Working,
           \A i \in 1..MaxEvents : jobs'[i].state = jobs[i].state,
           \A m \in Members : Standing(m)' = Standing(m)
    PROVE  UNCHANGED Desk!holdVars
BY DEF Desk!holdVars

(* One membership's standing changes.                                      *)
LEMMA StandingOf ==
    ASSUME TypeOK, NEW m \in Members, NEW r \in Rows, row' = [row EXCEPT ![m] = r]
    PROVE  [n \in Members |-> Standing(n)'] =
             [[n \in Members |-> Standing(n)] EXCEPT
                ![m] = IF ~r.known THEN "unknown" ELSE IF r.suspended THEN "held" ELSE "clear"]
<1>1. \A n \in Members : Standing(n)' = IF n = m
        THEN IF ~r.known THEN "unknown" ELSE IF r.suspended THEN "held" ELSE "clear"
        ELSE Standing(n)
  BY DEF TypeOK, Standing
<1> QED BY <1>1

LEMMA DeskReceives == ASSUME TypeOK, NEW i \in Ids, Receive(i) PROVE Desk!Store(i)
<1>1. i \in 1..MaxEvents /\ sent[i].m \in Members
  BY Positions
<1> DEFINE m == sent[i].m
<1>2. /\ jobs[i].state = "none" /\ jobs' = [jobs EXCEPT ![i].state = "queued"]
      /\ UNCHANGED <<sent, task>>
  BY DEF Receive
<1>3. [j \in 1..MaxEvents |-> jobs'[j].state] =
        [[j \in 1..MaxEvents |-> jobs[j].state] EXCEPT ![i] = "queued"]
  BY <1>1, <1>2 DEF TypeOK, Jobs
<1>4. Working' = Working
  BY <1>2 DEF Working
<1>5. [n \in Members |-> Standing(n)'] =
        IF sent[i].type \in Holds /\ Standing(m) # "unknown"
        THEN [[n \in Members |-> Standing(n)] EXCEPT ![m] = "held"]
        ELSE [n \in Members |-> Standing(n)]
  <2>1. row[m] \in Rows /\ row[m].known \in BOOLEAN
    BY <1>1 DEF TypeOK, Rows
  <2>2. Standing(m) # "unknown" <=> row[m].known
    BY <2>1 DEF Standing
  <2>3. CASE sent[i].type \in Holds /\ row[m].known
    <3>1. row' = [row EXCEPT ![m] = Held(row[m])]
      BY <1>1, <2>3 DEF Receive, TypeOK, Held
    <3>2. Held(row[m]) \in Rows /\ Held(row[m]).known /\ Held(row[m]).suspended
      BY <2>1, <2>3, EditsTyped DEF Held, Rows
    <3> QED BY <1>1, <2>2, <2>3, <3>1, <3>2, StandingOf
  <2>4. CASE ~(sent[i].type \in Holds /\ row[m].known)
    <3>1. row' = row
      BY <2>4 DEF Receive
    <3> QED BY <2>2, <2>4, <3>1 DEF Standing
  <2> QED BY <2>3, <2>4
<1> QED BY <1>1, <1>2, <1>3, <1>4, <1>5 DEF Desk!Store

(* What Whop's answer makes of a membership's standing, and nothing else.  *)
LEMMA AnswerStands ==
    ASSUME TypeOK, KnownHolds, Apply \/ Revoke
    PROVE  /\ task.m \in Members /\ task # Idle /\ Working' = 0 /\ UNCHANGED sent /\ Processed
           /\ \E s \in Desk!After(Standing(task.m), TaskType) :
                [n \in Members |-> Standing(n)'] =
                  [[n \in Members |-> Standing(n)] EXCEPT ![task.m] = s]
<1>1. /\ task.m \in Members /\ task # Idle /\ task' = Idle /\ UNCHANGED sent /\ Processed
  <2>1. task \in Told /\ task' = Idle /\ UNCHANGED sent /\ Processed
    BY TaskParts DEF Apply, Revoke
  <2>2. task # Idle
    BY <2>1, IdleUnanswered DEF Told
  <2> QED BY <2>1, <2>2 DEF Told
<1>2. Working' = 0
  BY <1>1 DEF Working, Idle
<1> DEFINE m == task.m
<1>3. row[m] \in Rows /\ row[m].known \in BOOLEAN /\ row[m].suspended \in BOOLEAN
  BY <1>1 DEF TypeOK, Rows
<1>4. CASE Apply
  <2> DEFINE h == Hold(row[m], TaskType)
  <2>1. PICK w \in Workspaces \cup {None} :
          row' = [row EXCEPT ![m] =
                    [known |-> TRUE, user |-> task.got.user, workspace |-> w,
                     valid |-> ValidNow(m, task.got), lease |-> Until(task.got, task.age),
                     due |-> 1, suspended |-> h]]
    BY <1>4, ApplyParts
  <2> DEFINE s == IF h THEN "held" ELSE "clear"
  <2>2. [n \in Members |-> Standing(n)'] = [[n \in Members |-> Standing(n)] EXCEPT ![m] = s]
    BY <1>1, <2>1 DEF TypeOK, Standing
  <2>3. Standing(m) = "held" => row[m].suspended
    BY DEF Standing
  <2>4. row[m].suspended => Standing(m) = "held"
    BY <1>1 DEF Standing, KnownHolds
  <2>5. s \in Desk!After(Standing(m), TaskType)
    BY <1>3, <2>3, <2>4 DEF Desk!After, Hold
  <2> QED BY <1>1, <1>2, <2>2, <2>5
<1>5. CASE Revoke
  <2>1. CASE task.kind # "login" /\ row[m].known
    <3>1. row' = [row EXCEPT ![m] = Revoked(row[m])]
      BY <1>1, <1>5, <2>1 DEF Revoke, TypeOK, Revoked
    <3>2. Revoked(row[m]) \in Rows /\ Revoked(row[m]).known /\ Revoked(row[m]).suspended
      BY <1>3, <2>1, EditsTyped DEF Revoked, Rows
    <3>3. [n \in Members |-> Standing(n)'] = [[n \in Members |-> Standing(n)] EXCEPT ![m] = "held"]
      BY <1>1, <3>1, <3>2, StandingOf
    <3>4. Standing(m) # "unknown"
      BY <2>1 DEF Standing
    <3>5. "held" \in Desk!After(Standing(m), TaskType)
      BY <3>4 DEF Desk!After
    <3> QED BY <1>1, <1>2, <3>3, <3>5
  <2>2. CASE ~(task.kind # "login" /\ row[m].known)
    <3>1. row' = row
      BY <1>5, <2>2 DEF Revoke
    <3>2. [n \in Members |-> Standing(n)'] =
            [[n \in Members |-> Standing(n)] EXCEPT ![m] = Standing(m)]
      BY <3>1 DEF Standing
    <3>3. Standing(m) \in Desk!After(Standing(m), TaskType)
      <4>1. CASE Standing(m) = "unknown"
        BY <4>1 DEF Desk!After
      <4>2. CASE Standing(m) # "unknown"
        <5>1. TaskType = "none"
          BY <2>2, <4>2 DEF TaskType, Standing
        <5>2. "none" \notin Holds /\ "none" \notin Clears /\ Standing(m) \in {"held", "clear"}
          BY <4>2 DEF Holds, Clears, Standing
        <5> QED BY <4>2, <5>1, <5>2 DEF Desk!After
      <4> QED BY <4>1, <4>2
    <3> QED BY <1>1, <1>2, <3>2, <3>3
  <2> QED BY <2>1, <2>2
<1> QED BY <1>4, <1>5

(* An answer is saved: the webhook that asked for it is worked off, or a   *)
(* recheck or a login is done.                                             *)
LEMMA DeskAnswers ==
    ASSUME TypeOK, JobHeld, KnownHolds, Apply \/ Revoke
    PROVE  Desk!Next
<1>1. PICK s \in Desk!After(Standing(task.m), TaskType) :
        [n \in Members |-> Standing(n)'] = [[n \in Members |-> Standing(n)] EXCEPT ![task.m] = s]
  BY AnswerStands
<1>2. task.m \in Members /\ task # Idle /\ Working' = 0 /\ UNCHANGED sent /\ Processed
  BY AnswerStands
<1>3. CASE task.kind = "job"
  <2>1. PICK i \in Ids : i = task.id
    BY <1>3 DEF JobHeld
  <2>2. i \in 1..MaxEvents /\ task.m = sent[i].m /\ TaskType = sent[i].type /\ Working = i
    BY <1>3, <2>1, Positions DEF JobHeld, TaskType, Working
  <2>3. [j \in 1..MaxEvents |-> jobs'[j].state] =
          [[j \in 1..MaxEvents |-> jobs[j].state] EXCEPT ![i] = "processed"]
    BY <1>2, <1>3, <2>1, <2>2 DEF Processed, TypeOK, Jobs
  <2>4. [n \in Members |-> Standing(n)'] =
          [[n \in Members |-> Standing(n)] EXCEPT ![sent[i].m] = s]
    BY <1>1, <2>2
  <2>5. s \in Desk!After(Standing(sent[i].m), sent[i].type)
    BY <2>2
  <2>6. [n \in Members |-> Standing(n)][sent[i].m] = Standing(sent[i].m)
    BY <1>2, <2>2
  <2>7. \E t \in Desk!After([n \in Members |-> Standing(n)][sent[i].m], sent[i].type) :
          [n \in Members |-> Standing(n)'] =
            [[n \in Members |-> Standing(n)] EXCEPT ![sent[i].m] = t]
    BY <2>4, <2>5, <2>6
  <2>8. Desk!WorkOff(i)
    BY <1>2, <2>2, <2>3, <2>7 DEF Desk!WorkOff
  <2> QED BY <2>8 DEF Desk!Next, Ids
<1>4. CASE task.kind # "job"
  <2>1. jobs' = jobs /\ Working = 0 /\ TaskType = "none"
    BY <1>2, <1>4 DEF Processed, Working, TaskType
  <2>2. Desk!Check(task.m)
    BY <1>1, <1>2, <2>1 DEF Desk!Check
  <2> QED BY <1>2, <2>2 DEF Desk!Next
<1> QED BY <1>3, <1>4

LEMMA DeskStep ==
    ASSUME WhopInv, JobHeld, KnownHolds, [Next]_vars
    PROVE  Desk!Next \/ UNCHANGED Desk!holdVars
<1> USE DEF WhopInv
<1>1. ASSUME UNCHANGED <<sent, jobs, task, row>> PROVE UNCHANGED Desk!holdVars
  BY <1>1, DeskRests DEF Working, Standing
<1>2. ASSUME NEW m \in Members, NEW type \in EventTypes, Bill(m, type) PROVE Desk!Next
  <2>1. Desk!Send(m, type)
    BY <1>2 DEF Bill, Desk!Send, Working, Standing
  <2> QED BY <2>1 DEF Desk!Next
<1>3. ASSUME NEW m \in Members, Renew(m) \/ Transfer(m) PROVE UNCHANGED Desk!holdVars
  BY <1>1, <1>3 DEF Renew, Transfer
<1>4. ASSUME NEW m \in Members, TakeDue(m) \/ Login(m) PROVE UNCHANGED Desk!holdVars
  <2>1. UNCHANGED <<sent, jobs, row>> /\ task = Idle /\ task'.kind # "job"
    BY <1>4 DEF TakeDue, Login
  <2>2. Working' = Working
    BY <2>1 DEF Working, Idle
  <2> QED BY <2>1, <2>2, DeskRests DEF Standing
<1>5. ASSUME NEW i \in Ids, Receive(i) PROVE Desk!Next
  BY <1>5, DeskReceives DEF Desk!Next, Ids
<1>6. CASE TakeJob
  <2>1. PICK k \in DOMAIN received :
          /\ Ready(received[k]) /\ task = Idle
          /\ task' = [kind |-> "job", m |-> sent[received[k]].m, id |-> received[k]]
    BY <1>6 DEF TakeJob
  <2> DEFINE i == received[k]
  <2>2. i \in Ids /\ i \in 1..MaxEvents /\ jobs[i].state = "queued" /\ UNCHANGED <<sent, jobs, row>>
    BY <1>6, <2>1, Positions DEF TakeJob, Ready
  <2>3. Working = 0 /\ Working' = i
    BY <2>1 DEF Working, Idle
  <2> HIDE DEF i
  <2>4. Desk!Take(i)
    BY <2>2, <2>3 DEF Desk!Take, Standing
  <2> QED BY <2>2, <2>4 DEF Desk!Next, Ids
<1>7. CASE Answer
  <2>1. UNCHANGED <<sent, jobs, row>> /\ task'.kind = task.kind /\ task'.id = task.id
    BY <1>7 DEF Answer
  <2> QED BY <2>1, DeskRests DEF Working, Standing
<1>8. CASE Apply \/ Revoke
  BY <1>8, DeskAnswers
<1>9. CASE Fail \/ Crash
  <2>1. task # Idle /\ task' = Idle /\ UNCHANGED sent /\ task.m \in Members
    BY <1>9, TaskParts DEF Fail, Crash
  <2>2. Working' = 0
    BY <2>1 DEF Working, Idle
  <2>3. \A m \in Members : Standing(m)' = Standing(m)
    BY <1>9, SameStanding DEF Standing
  <2>4. \A i \in 1..MaxEvents : jobs'[i].state = jobs[i].state
    BY <1>9, SameStanding
  <2>5. CASE Working = 0
    BY <2>1, <2>2, <2>3, <2>4, <2>5, DeskRests
  <2>6. CASE Working # 0
    <3>1. Desk!GiveBack
      BY <2>1, <2>2, <2>3, <2>4, <2>6 DEF Desk!GiveBack
    <3> QED BY <3>1 DEF Desk!Next
  <2> QED BY <2>5, <2>6
<1>10. CASE Tick
  <2>1. UNCHANGED sent /\ \A i \in 1..MaxEvents : jobs'[i].state = jobs[i].state
    BY <1>10, SameStanding DEF Tick
  <2>2. \A m \in Members : Standing(m)' = Standing(m)
    BY <1>10, SameStanding DEF Standing
  <2>3. task' = task \/ (task'.kind = task.kind /\ task'.id = task.id)
    BY <1>10, TickParts DEF Tick, Told
  <2> QED BY <2>1, <2>2, <2>3, DeskRests DEF Working
<1>11. CASE UNCHANGED vars
  BY <1>1, <1>11 DEF vars
<1> QED BY <1>2, <1>3, <1>4, <1>5, <1>6, <1>7, <1>8, <1>9, <1>10, <1>11 DEF Next

(* With its answers under way, rechecks, logins, retries and stops, the    *)
(* service implements webhooks that are worked off once each and holds     *)
(* that only a payment ends (PaymentHolds).                                *)
THEOREM HoldsImplemented == Spec => ImplementsHolds
<1>1. Init => Desk!Init
  <2> SUFFICES ASSUME Init PROVE Desk!Init
    OBVIOUS
  <2>1. Working = 0 /\ \A m \in Members : Standing(m) = "unknown"
    BY DEF Init, Working, Idle, Standing, NoRow
  <2>2. \A i \in 1..MaxEvents : jobs[i].state = "none"
    BY DEF Init
  <2> QED BY <2>1, <2>2 DEF Init, Desk!Init
<1>2. Init => JobHeld /\ KnownHolds
  BY DEF Init, JobHeld, KnownHolds, Idle, NoRow
<1>3. WhopInv /\ (JobHeld /\ KnownHolds) /\ [Next]_vars => (JobHeld /\ KnownHolds)'
  BY HeldKept, KnownKept
<1>4. WhopInv /\ (JobHeld /\ KnownHolds) /\ [Next]_vars => [Desk!Next]_Desk!holdVars
  BY DeskStep
<1> QED BY <1>1, <1>2, <1>3, <1>4, WhopInvariant, PTL
        DEF Spec, ImplementsHolds, Desk!Spec
=============================================================================
