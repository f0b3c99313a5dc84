----------------------------- MODULE WhopAccess -----------------------------
(***************************************************************************)
(* Paid access to a workspace (whop.ts, migrations 011, 015 and 016).      *)
(* Whop is the authority on memberships and sends webhooks in any order,   *)
(* late and more than once; receive() stores them as jobs and, on a failed *)
(* payment or a deactivation, puts the membership on hold at once; one     *)
(* worker at a time asks Whop about the membership of the oldest ready     *)
(* job, or of a membership whose recheck is due, and saves the answer with *)
(* a lease; a licence login does the same on the spot.                     *)
(*                                                                         *)
(* Time is kept as what is left of each wait, in recheck intervals.        *)
(***************************************************************************)
EXTENDS Integers, FiniteSets, Sequences

CONSTANTS
    Members,    \* membership ids
    Users,      \* whom a membership is for: a Whop user, as the buyer of one
                \* of our products
    Workspaces, \* the fresh ids provisioning draws from
    None,
    Lease,      \* the hour a verification lasts
    MaxWait,    \* LEAST(3600, 30 * power(...)): bound of a job's back-off
    Period,     \* longest billing period
    Fetching,   \* ticks a request to Whop may span before it is aborted
    MaxEvents, MaxTransfers   \* bounds on what Whop does

ASSUME WhopAssumption ==
    /\ None \notin Users \cup Workspaces \cup [m : Members, user : Users]
    /\ Lease \in Nat \ {0} /\ MaxWait \in Nat \ {0} /\ Period \in Nat
    /\ Fetching \in Nat /\ MaxEvents \in Nat /\ MaxTransfers \in Nat
    /\ IsFiniteSet(Members) /\ IsFiniteSet(Workspaces)
    /\ Cardinality(Workspaces) >= Cardinality(Members) + MaxTransfers

Holds == {"payment.failed", "membership.deactivated"}
Clears == {"payment.succeeded", "membership.activated"}
EventTypes == Holds \cup Clears \cup {"membership.cancel_at_period_end_changed"}

VARIABLES
    remote,     \* remote[m]: the membership as Whop has it
    sent,       \* webhooks Whop has sent: their membership and type
    received,   \* whop_jobs in the order of received_at, as positions in sent
    jobs,       \* jobs[i]: the job of webhook i and what is left of its wait
    row,        \* row[m]: the row of whop_memberships
    task,       \* the holder of the advisory lock: worker or login
    owner,      \* owner[w]: the membership and user a workspace was provisioned for
    unpaid,     \* unpaid[w]: ticks since Whop last had that membership active for them
    transfers

vars == <<remote, sent, received, jobs, row, task, owner, unpaid, transfers>>

Ids == 1..Len(sent)
Longest == Lease + Fetching     \* where the unpaid clocks stop counting

Remote == [active : BOOLEAN, user : Users \cup {None}, ours : BOOLEAN, left : 0..Period]
Rows == [known : BOOLEAN, user : Users \cup {None}, workspace : Workspaces \cup {None},
         valid : BOOLEAN, lease : 0..Lease, due : 0..1, suspended : BOOLEAN]
NoRow == [known |-> FALSE, user |-> None, workspace |-> None, valid |-> FALSE,
          lease |-> 0, due |-> 0, suspended |-> FALSE]

Jobs == [state : {"none", "queued", "processed"}, wait : 0..MaxWait]

Idle == [kind |-> "idle"]
Tasks ==
    {Idle}
        \cup [kind : {"job", "due", "login"}, m : Members, id : 0..MaxEvents]
        \cup [kind : {"job", "due", "login"}, m : Members, id : 0..MaxEvents,
              got : Remote, age : 0..Fetching]

Answered == "got" \in DOMAIN task

Init ==
    /\ remote \in [Members -> {r \in Remote : r.active /\ r.ours /\ r.left = Period /\ r.user # None}]
    /\ sent = <<>>
    /\ received = <<>>
    /\ jobs = [i \in 1..MaxEvents |-> [state |-> "none", wait |-> 0]]
    /\ row = [m \in Members |-> NoRow]
    /\ task = Idle
    /\ owner = [w \in Workspaces |-> None]
    /\ unpaid = [w \in Workspaces |-> 0]
    /\ transfers = 0

-----------------------------------------------------------------------------
(* Whop.                                                                   *)

Paid(m, u) == remote[m].active /\ remote[m].ours /\ remote[m].user = u /\ remote[m].left > 0

PaidFor(w) == owner[w] # None /\ Paid(owner[w].m, owner[w].user)

Changed(m, r) ==
    /\ remote' = [remote EXCEPT ![m] = r]
    /\ owner' = owner
    /\ unpaid' = [w \in Workspaces |-> IF PaidFor(w)' THEN 0 ELSE unpaid[w]]

Bill(m, type) ==
    /\ Len(sent) < MaxEvents
    /\ sent' = Append(sent, [m |-> m, type |-> type])
    /\ Changed(m, CASE type \in Clears -> [remote[m] EXCEPT !.active = TRUE, !.left = Period]
                    [] type = "membership.deactivated" -> [remote[m] EXCEPT !.active = FALSE]
                    [] OTHER -> remote[m])
    /\ UNCHANGED <<received, jobs, row, task, transfers>>

(* A renewal whose webhook is never delivered.                             *)
Renew(m) ==
    /\ remote[m].active
    /\ Changed(m, [remote[m] EXCEPT !.left = Period])
    /\ UNCHANGED <<sent, received, jobs, row, task, transfers>>

(* A membership is given to another user, or to another of our products,   *)
(* or to no user, or to a product that is not ours.                        *)
Transfer(m) ==
    /\ transfers < MaxTransfers
    /\ transfers' = transfers + 1
    /\ \E r \in {[remote[m] EXCEPT !.user = u] : u \in Users \cup {None}}
                  \cup {[remote[m] EXCEPT !.ours = FALSE]} :
         r # remote[m] /\ Changed(m, r)
    /\ UNCHANGED <<sent, received, jobs, row, task>>

-----------------------------------------------------------------------------
(* The webhook.  A recheck in progress holds the row's lock, a job and a   *)
(* login take it only to save the answer.                                  *)
RowLocked(m) == task.kind = "due" /\ task.m = m

Receive(i) ==
    /\ jobs[i].state = "none"
    /\ received' = Append(received, i)
    /\ jobs' = [jobs EXCEPT ![i].state = "queued"]
    /\ LET m == sent[i].m IN
         IF sent[i].type \in Holds /\ row[m].known
         THEN /\ ~RowLocked(m)
              /\ row' = [row EXCEPT ![m].suspended = TRUE, ![m].valid = FALSE, ![m].lease = 0]
         ELSE UNCHANGED row
    /\ UNCHANGED <<remote, sent, task, owner, unpaid, transfers>>

-----------------------------------------------------------------------------
(* The worker and the licence login, one at a time.                        *)
Ready(i) == jobs[i].state = "queued" /\ jobs[i].wait = 0

TakeJob ==
    /\ task = Idle
    /\ \E k \in DOMAIN received :
         /\ Ready(received[k])
         /\ \A j \in 1..(k - 1) : ~Ready(received[j])
         /\ task' = [kind |-> "job", m |-> sent[received[k]].m, id |-> received[k]]
    /\ UNCHANGED <<remote, sent, received, jobs, row, owner, unpaid, transfers>>

(* Mutant of TakeDue: only valid memberships are rechecked.                *)
TakeDueValid(m) ==
    /\ task = Idle
    /\ \A i \in Ids : ~Ready(i)
    /\ row[m].valid /\ row[m].due = 0
    /\ task' = [kind |-> "due", m |-> m, id |-> 0]
    /\ UNCHANGED <<remote, sent, received, jobs, row, owner, unpaid, transfers>>

(* Only without a ready job is the most overdue membership rechecked.      *)
TakeDue(m) ==
    /\ task = Idle
    /\ \A i \in Ids : ~Ready(i)
    /\ row[m].known /\ row[m].due = 0
    /\ task' = [kind |-> "due", m |-> m, id |-> 0]
    /\ UNCHANGED <<remote, sent, received, jobs, row, owner, unpaid, transfers>>

Login(m) ==
    /\ task = Idle
    /\ task' = [kind |-> "login", m |-> m, id |-> 0]
    /\ UNCHANGED <<remote, sent, received, jobs, row, owner, unpaid, transfers>>

(* GET /memberships/:id.                                                   *)
Answer ==
    /\ task # Idle /\ ~Answered
    /\ task' = [kind |-> task.kind, m |-> task.m, id |-> task.id, got |-> remote[task.m], age |-> 0]
    /\ UNCHANGED <<remote, sent, received, jobs, row, owner, unpaid, transfers>>

(* Mutant of Until: the period's end does not shorten the lease.           *)
UntilPeriodIgnored(r, age) == IF r.active THEN Lease ELSE 0

(* whopAccessUntil: the hour, or what is left of the period the answer     *)
(* gave, whichever ends first.                                             *)
Until(r, age) ==
    LET left == IF r.left > age THEN r.left - age ELSE 0
    IN  IF ~r.active THEN 0 ELSE IF left < Lease THEN left ELSE Lease

(* Mutant of Hold: an answer without an event lifts the hold.              *)
HoldForgotten(prior, type) == type \in Holds

Hold(prior, type) == type \in Holds \/ (type \notin Clears /\ prior.suspended)

(* Mutant of KeepsWorkspace: the workspace follows the membership.         *)
KeepsWorkspaceOnTransfer(prior, r) == prior.known

(* sameOwner: user and product are those on record (user says both).       *)
KeepsWorkspace(prior, r) == prior.known /\ prior.user = r.user

(* Mutant of Deferred: a job's back-off has no ceiling.                    *)
DeferredUncapped == 1..(MaxWait + 1)

Deferred == 1..MaxWait

TaskType == IF task.kind = "job" THEN sent[task.id].type ELSE "none"

Processed ==
    jobs' = IF task.kind = "job" THEN [jobs EXCEPT ![task.id].state = "processed"] ELSE jobs

(* applyMembership and the commit.                                         *)
Apply ==
    /\ Answered /\ task.got.ours
    /\ LET m == task.m
           r == task.got
           until == Until(r, task.age)
           suspended == Hold(row[m], TaskType)
           valid == until > 0 /\ r.user # None /\ ~suspended
           kept == IF KeepsWorkspace(row[m], r) THEN row[m].workspace ELSE None
       IN  \E w \in Workspaces \cup {None} :
             /\ IF valid /\ kept = None
                THEN /\ w # None /\ owner[w] = None
                     /\ owner' = [owner EXCEPT ![w] = [m |-> m, user |-> r.user]]
                     /\ unpaid' = [unpaid EXCEPT ![w] = IF Paid(m, r.user) THEN 0 ELSE task.age]
                ELSE w = kept /\ UNCHANGED <<owner, unpaid>>
             /\ row' = [row EXCEPT ![m] = [known |-> TRUE, user |-> r.user, workspace |-> w,
                            valid |-> valid, lease |-> until, due |-> 1, suspended |-> suspended]]
    /\ Processed
    /\ task' = Idle
    /\ UNCHANGED <<remote, sent, received, transfers>>

(* The product or the account is not this service's any more.  A login     *)
(* with such a key is refused and changes nothing.                         *)
Revoke ==
    /\ Answered /\ ~task.got.ours
    /\ row' = IF task.kind # "login" /\ row[task.m].known
              THEN [row EXCEPT ![task.m].valid = FALSE, ![task.m].suspended = TRUE,
                               ![task.m].lease = 0, ![task.m].due = 1]
              ELSE row
    /\ Processed
    /\ task' = Idle
    /\ UNCHANGED <<remote, sent, received, owner, unpaid, transfers>>

(* Mutant of Fail: a failed recheck starts the lease again.                *)
FailExtends ==
    /\ task # Idle
    /\ jobs' = jobs
    /\ row' = IF task.kind = "due" /\ row[task.m].valid
              THEN [row EXCEPT ![task.m].due = 1, ![task.m].lease = Lease] ELSE row
    /\ task' = Idle
    /\ UNCHANGED <<remote, sent, received, owner, unpaid, transfers>>

(* Mutant of Fail: a failed job is given up.                               *)
FailDrops ==
    /\ task # Idle
    /\ jobs' = IF task.kind = "job" THEN [jobs EXCEPT ![task.id].state = "none"] ELSE jobs
    /\ row' = IF task.kind = "due" THEN [row EXCEPT ![task.m].due = 1] ELSE row
    /\ task' = Idle
    /\ UNCHANGED <<remote, sent, received, owner, unpaid, transfers>>

(* Whop does not answer, or a query fails: the transaction is rolled back  *)
(* and the job or the recheck is put off.                                  *)
Fail ==
    /\ task # Idle
    /\ IF task.kind = "job"
       THEN \E wait \in Deferred : jobs' = [jobs EXCEPT ![task.id].wait = wait]
       ELSE jobs' = jobs
    /\ row' = IF task.kind = "due" THEN [row EXCEPT ![task.m].due = 1] ELSE row
    /\ task' = Idle
    /\ UNCHANGED <<remote, sent, received, owner, unpaid, transfers>>

(* The process stops with its transaction open.                            *)
Crash ==
    /\ task # Idle
    /\ task' = Idle
    /\ UNCHANGED <<remote, sent, received, jobs, row, owner, unpaid, transfers>>

-----------------------------------------------------------------------------
Less(n) == IF n > 0 THEN n - 1 ELSE 0

(* A request cannot outlast its time-out.                                  *)
Tick ==
    /\ Answered => task.age < Fetching
    /\ task' = IF Answered THEN [task EXCEPT !.age = @ + 1] ELSE task
    /\ remote' = [m \in Members |-> [remote[m] EXCEPT !.left = Less(@)]]
    /\ row' = [m \in Members |-> [row[m] EXCEPT !.lease = Less(@), !.due = Less(@)]]
    /\ jobs' = [i \in 1..MaxEvents |-> [jobs[i] EXCEPT !.wait = Less(@)]]
    /\ owner' = owner
    /\ unpaid' = [w \in Workspaces |->
                    IF owner[w] = None \/ PaidFor(w)' THEN 0
                    ELSE IF unpaid[w] < Longest THEN unpaid[w] + 1 ELSE Longest]
    /\ UNCHANGED <<sent, received, transfers>>

Next ==
    \/ \E m \in Members, type \in EventTypes : Bill(m, type)
    \/ \E m \in Members : Renew(m) \/ Transfer(m) \/ TakeDue(m) \/ Login(m)
    \/ \E i \in Ids : Receive(i)
    \/ TakeJob \/ Answer \/ Apply \/ Revoke \/ Fail \/ Crash \/ Tick

Spec == Init /\ [][Next]_vars

(***************************************************************************)
(* The clock runs, a task that was started ends, and of a job or a recheck *)
(* that stays ready the interval once finds the lock free, and one attempt *)
(* is answered and committed.                                              *)
(***************************************************************************)
Attempt(m, i) == task # Idle /\ task.m = m /\ task.id = i /\ task.kind # "login"

WorkerRuns ==
    /\ SF_vars(Tick)
    /\ WF_vars(Answer \/ Fail \/ Crash)
    /\ SF_vars(TakeJob)
    /\ \A m \in Members : SF_vars(TakeDue(m))
WhopAnswers ==
    \A m \in Members, i \in 0..MaxEvents :
        /\ SF_vars(Attempt(m, i) /\ Answer)
        /\ SF_vars(Attempt(m, i) /\ (Apply \/ Revoke))

FairSpec == Spec /\ WorkerRuns /\ WhopAnswers

-----------------------------------------------------------------------------
(* workspace_has_access                                                    *)
HasAccess(w) ==
    \E m \in Members : row[m].workspace = w /\ row[m].valid /\ ~row[m].suspended /\ row[m].lease > 0

(* Rows, jobs and the task in progress have the values the code gives them;*)
(* no job waits longer than the ceiling of its back-off.                   *)
TypeOK ==
    /\ remote \in [Members -> Remote]
    /\ sent \in Seq([m : Members, type : EventTypes]) /\ Len(sent) <= MaxEvents
    /\ received \in Seq(Ids)
    /\ jobs \in [1..MaxEvents -> Jobs]
    /\ row \in [Members -> Rows]
    /\ task \in Tasks
    /\ owner \in [Workspaces -> [m : Members, user : Users] \cup {None}]
    /\ unpaid \in [Workspaces -> 0..Longest]
    /\ transfers \in 0..MaxTransfers

(* "A finite verification lease prevents missed webhooks from granting     *)
(* access forever" (migration 011): whatever is lost, late or failing, who *)
(* has access was a paying member within the last lease (and one request). *)
RecentlyPaid ==
    \A w \in Workspaces : HasAccess(w) => unpaid[w] < Longest

(* A lease never outlives the billing period Whop has on record, however   *)
(* old the answer it was cut from (whopAccessUntil).                       *)
LeaseWithinPeriod == \A m \in Members : row[m].valid => row[m].lease <= remote[m].left

(* Transfers get a new workspace: the one a membership opens was made for  *)
(* that membership and the user it has now, wherever it went in between    *)
(* (the comment at whop.ts:163-164).                                       *)
OwnWorkspace ==
    \A m \in Members : row[m].workspace # None =>
         owner[row[m].workspace] = [m |-> m, user |-> row[m].user]

(* A hold is lifted only by the job of a successful payment or activation: *)
(* no login, recheck, failure or restart does it.                          *)
HoldLifted ==
    [][\A m \in Members : row[m].suspended /\ ~row'[m].suspended =>
            /\ task.kind = "job" /\ task.m = m
            /\ TaskType \in Clears]_vars

(* Every stored webhook is processed in the end, through failures of Whop  *)
(* and stops of the process ("queued work will retry").                    *)
JobsProcessed ==
    \A i \in 1..MaxEvents : jobs[i].state = "queued" ~> jobs[i].state = "processed"

(* A known member who keeps paying and is not on hold gets access, though  *)
(* every webhook about it is lost.                                         *)
PayerHasAccess ==
    \A m \in Members, u \in Users :
        (row[m].known /\ Paid(m, u)) ~>
            \/ row[m].valid /\ row[m].user = u
            \/ row[m].suspended \/ ~Paid(m, u)
=============================================================================
