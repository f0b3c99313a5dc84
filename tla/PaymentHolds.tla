----------------------------- MODULE PaymentHolds -----------------------------
(***************************************************************************)
(* What the webhooks of Whop promise, with no lock, lease, back-off, stop  *)
(* or answer under way in sight: a webhook that was stored is worked off   *)
(* once, one at a time; one that tells of a failed payment puts a known    *)
(* membership on hold at once; and a hold ends in the instant in which a   *)
(* webhook that tells of a payment has been worked off, and in no other.   *)
(* WhopAccess.tla is shown to implement this.                              *)
(***************************************************************************)
EXTENDS Naturals, Sequences

CONSTANTS
    Members,        \* membership ids
    EventTypes,     \* what a webhook may tell,
    Holds, Clears,  \* and which of it sets and which ends a hold
    MaxEvents       \* bound on webhooks

VARIABLES
    webhooks,   \* the webhooks Whop has sent, in their order
    stage,      \* stage[i]: what became of webhook i
    working,    \* the webhook being worked off, 0 if none is
    standing    \* standing[m]: "unknown", "clear" or "held"

holdVars == <<webhooks, stage, working, standing>>

Init ==
    /\ webhooks = <<>>
    /\ stage = [i \in 1..MaxEvents |-> "none"]
    /\ working = 0
    /\ standing = [m \in Members |-> "unknown"]

Send(m, type) ==
    /\ Len(webhooks) < MaxEvents
    /\ webhooks' = Append(webhooks, [m |-> m, type |-> type])
    /\ UNCHANGED <<stage, working, standing>>

Store(i) ==
    /\ stage[i] = "none"
    /\ stage' = [stage EXCEPT ![i] = "queued"]
    /\ standing' = IF webhooks[i].type \in Holds /\ standing[webhooks[i].m] # "unknown"
                   THEN [standing EXCEPT ![webhooks[i].m] = "held"]
                   ELSE standing
    /\ UNCHANGED <<webhooks, working>>

(* What a member's standing may be once Whop was asked on account of a     *)
(* webhook, or of nothing that was told: what Whop says, or a membership   *)
(* of another product, which is on hold if it was known at all.            *)
After(old, type) ==
    {IF old = "unknown" THEN "unknown" ELSE "held",
     IF type \in Holds \/ (type \notin Clears /\ old = "held") THEN "held" ELSE "clear"}

Take(i) ==
    /\ working = 0
    /\ stage[i] = "queued"
    /\ working' = i
    /\ UNCHANGED <<webhooks, stage, standing>>

WorkOff(i) ==
    /\ working = i
    /\ stage' = [stage EXCEPT ![i] = "processed"]
    /\ working' = 0
    /\ LET m == webhooks[i].m
       IN  \E s \in After(standing[m], webhooks[i].type) :
             standing' = [standing EXCEPT ![m] = s]
    /\ UNCHANGED webhooks

(* It failed, and the webhook is as it was.                                *)
GiveBack ==
    /\ working # 0
    /\ working' = 0
    /\ UNCHANGED <<webhooks, stage, standing>>

(* A recheck or a login, between two webhooks.                             *)
Check(m) ==
    /\ working = 0
    /\ UNCHANGED <<working, webhooks, stage>>
    /\ \E s \in After(standing[m], "none") : standing' = [standing EXCEPT ![m] = s]

Next ==
    \/ \E m \in Members : Check(m)
    \/ GiveBack
    \/ \E i \in 1..Len(webhooks) : Store(i) \/ Take(i) \/ WorkOff(i)
    \/ \E m \in Members, type \in EventTypes : Send(m, type)

Spec == Init /\ [][Next]_holdVars
=============================================================================
