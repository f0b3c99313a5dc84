--------------------------- MODULE IdentityProofs ---------------------------
(***************************************************************************)
(* What holds of the owners of services for any users, services,           *)
(* memberships and number of claims in flight: a service keeps its first   *)
(* owner, a user has one Solo service, the three places that name an owner *)
(* agree, and a service is claimed with the proof on record only.          *)
(***************************************************************************)
EXTENDS Identity, FiniteSetTheorems, TLAPS

-----------------------------------------------------------------------------
(* Types.                                                                  *)

(* The versions of serials and keys lag behind the changes, and a row      *)
(* names a workspace that exists.                                          *)
Counted ==
    /\ \A s \in Services : serial[s] <= changes
    /\ \A m \in Members : remote[m].key <= changes
    /\ \A m \in Members : row[m].workspace \in services \cup {None}

Typed == TypeOK /\ Counted

(* An idle claim is a claim, and None is no user or service.               *)
LEMMA Constants ==
    /\ MaxChanges \in Nat
    /\ Idle \in ClaimState
    /\ NoRow \in Rows
    /\ None \notin Users /\ None \notin Services /\ None \notin Members
    /\ None \notin Workspaces /\ None \notin Buyers
    /\ Manual \cap Workspaces = {}
BY IdentityAssumption DEF Idle, NoRow, ClaimState, Rows, Versions, Services

(* The end of a claim.                                                     *)
LEMMA EndTyped ==
    ASSUME Typed, NEW c \in Claims, End(c)
    PROVE  /\ claim' \in [Claims -> ClaimState]
           /\ \A b \in Claims : claim'[b].pc # "idle" => claim'[b].service \in services
<1>1. Idle.pc = "idle"  BY DEF Idle
<1>2. QED  BY <1>1, Constants DEF Typed, TypeOK, End

(* A claim that goes on with the same service.                             *)
LEMMA MovedTyped ==
    ASSUME Typed, NEW c \in Claims, claim[c].pc # "idle",
           NEW pc \in {"asked", "locked", "bound"},
           claim' = [claim EXCEPT ![c].pc = pc]
    PROVE  /\ claim' \in [Claims -> ClaimState]
           /\ \A b \in Claims : claim'[b].pc # "idle" => claim'[b].service \in services
<1>1. [claim[c] EXCEPT !.pc = pc] \in ClaimState
      BY DEF Typed, TypeOK, ClaimState
<1>2. claim' \in [Claims -> ClaimState]
      BY <1>1 DEF Typed, TypeOK
<1>3. \A b \in Claims : claim'[b].service = claim[b].service
                         /\ (claim'[b].pc # "idle" => claim[b].pc # "idle")
      BY <1>1 DEF Typed, TypeOK, ClaimState
<1>4. QED  BY <1>2, <1>3 DEF Typed, TypeOK

(* applyMembership saves well-formed rows, adds at most a fresh workspace, *)
(* and makes nothing of a workspace that exists.                           *)
LEMMA AppliedTyped ==
    ASSUME Typed, NEW m \in Members, Applied(m)
    PROVE  /\ services \subseteq services' /\ services' \subseteq Services
           /\ maker' \in [Workspaces -> Members \cup {None}]
           /\ \A w \in Workspaces \cap services : maker'[w] = maker[w]
           /\ row' \in [Members -> Rows]
           /\ \A n \in Members : row'[n].workspace \in services' \cup {None}
           /\ remote[m].active => row'[m].workspace \in services'
<1> DEFINE kept == IF KeepsWorkspace(m) THEN row[m].workspace ELSE None
<1>1. kept \in (Workspaces \cap services) \cup {None}
      BY DEF KeepsWorkspace, Typed, TypeOK, Counted, Rows
<1>2. PICK w \in Workspaces \cup {None} :
         /\ IF remote[m].active /\ kept = None
            THEN /\ w # None /\ w \notin services
                 /\ services' = services \cup {w}
                 /\ maker' = [maker EXCEPT ![w] = m]
            ELSE w = kept /\ UNCHANGED <<services, maker>>
         /\ row' = [row EXCEPT ![m] = [user |-> remote[m].user, workspace |-> w,
                       key |-> remote[m].key, valid |-> remote[m].active]]
      BY DEF Applied
<1> HIDE DEF kept
<1>3. remote[m].user \in Buyers /\ remote[m].key \in Versions /\ remote[m].active \in BOOLEAN
      BY DEF Typed, TypeOK, Remote
<1>4. services \subseteq services' /\ services' \subseteq Services /\ w \in services' \cup {None}
      BY <1>1, <1>2 DEF Typed, TypeOK, Services
<1>5. /\ maker' \in [Workspaces -> Members \cup {None}]
      /\ \A v \in Workspaces \cap services : maker'[v] = maker[v]
      BY <1>1, <1>2 DEF Typed, TypeOK
<1>6. row' \in [Members -> Rows]
      BY <1>2, <1>3 DEF Typed, TypeOK, Rows
<1>7. row'[m].workspace = w /\ \A n \in Members \ {m} : row'[n] = row[n]
      BY <1>2 DEF Typed, TypeOK
<1>8. \A n \in Members : row'[n].workspace \in services' \cup {None}
      BY <1>4, <1>7 DEF Typed, Counted
<1>9. remote[m].active => w # None
      BY <1>1, <1>2
<1>10. QED  BY <1>4, <1>5, <1>6, <1>7, <1>8, <1>9

(* The tables are empty at first.                                          *)
LEMMA TypedInit == Init => Typed
<1> SUFFICES ASSUME Init PROVE Typed  OBVIOUS
<1>1. 0 \in Versions  BY Constants DEF Versions
<1>2. PICK u \in Buyers :
         remote = [m \in Members |-> [user |-> u, key |-> 0, active |-> TRUE]]
      BY DEF Init
<1>3. remote \in [Members -> Remote] /\ \A m \in Members : remote[m].key = 0
      BY <1>1, <1>2 DEF Remote
<1>4. Idle.pc = "idle" /\ NoRow.workspace = None  BY DEF Idle, NoRow
<1>5. TypeOK  BY <1>1, <1>3, <1>4, Constants DEF Init, TypeOK
<1>6. Counted  BY <1>1, <1>3, <1>4, Constants DEF Init, Counted, Versions
<1>7. QED  BY <1>5, <1>6 DEF Typed

(* The steps that leave the claims alone.                                  *)
LEMMA ConsoleTyped ==
    ASSUME Typed,
           \/ \E s \in Manual, d \in Users \cup {None} : Provision(s, d)
           \/ \E s \in Services : RotateSerial(s)
           \/ \E s \in Manual : Expire(s) \/ RenewAccess(s)
    PROVE  Typed'
<1>1. ASSUME NEW s \in Manual, NEW d \in Users \cup {None}, Provision(s, d)
      PROVE  Typed'
  <2>1. s \in Services /\ services' = services \cup {s}  BY <1>1 DEF Provision, Services
  <2>2. account' \in [Services -> Users \cup {None}]
        /\ binding' \in [Services -> Users \cup {None}]
        /\ default' \in [Users -> Services \cup {None}]
        BY <1>1, <2>1 DEF Provision, Typed, TypeOK
  <2>3. QED  BY <1>1, <2>1, <2>2 DEF Provision, Typed, TypeOK, Counted
<1>2. ASSUME NEW s \in Services, RotateSerial(s) PROVE Typed'
  <2>1. changes < MaxChanges /\ changes' = changes + 1  BY <1>2 DEF RotateSerial, Change
  <2>2. changes \in Versions /\ changes' \in Versions /\ serial[s] \in Versions
        BY <2>1, Constants DEF Typed, TypeOK, Versions
  <2>3. serial[s] + 1 <= changes'  BY <2>1, <2>2, Constants DEF Typed, Counted, Versions
  <2>4. serial[s] + 1 \in Versions  BY <2>2, <2>3, Constants DEF Versions
  <2>5. \A t \in Services : serial[t] \in Versions /\ serial[t] <= changes
        BY DEF Typed, TypeOK, Counted
  <2>6. serial' \in [Services -> Versions]
        BY <1>2, <2>4 DEF RotateSerial, Typed, TypeOK
  <2>7. \A t \in Services : serial'[t] <= changes'
        BY <1>2, <2>1, <2>2, <2>3, <2>5, Constants DEF RotateSerial, Typed, TypeOK, Versions
  <2>8. \A m \in Members : remote[m].key <= changes'
    <3>1. \A m \in Members : remote[m].key \in Versions /\ remote[m].key <= changes
          BY DEF Typed, TypeOK, Counted, Remote
    <3>2. QED  BY <2>1, <2>2, <3>1, Constants DEF Versions
  <2>9. QED  BY <1>2, <2>2, <2>6, <2>7, <2>8 DEF RotateSerial, Typed, TypeOK, Counted
<1>3. ASSUME NEW s \in Manual, Expire(s) PROVE Typed'
  <2>1. changes \in Versions /\ changes' \in Versions /\ changes <= changes'
        BY <1>3, Constants DEF Expire, Change, Typed, TypeOK, Versions
  <2>2. \A t \in Services : serial[t] <= changes'
        BY <2>1, Constants DEF Typed, TypeOK, Counted, Versions
  <2>3. \A m \in Members : remote[m].key <= changes'
        BY <2>1, Constants DEF Typed, TypeOK, Counted, Versions, Remote
  <2>4. QED  BY <1>3, <2>1, <2>2, <2>3 DEF Expire, Typed, TypeOK, Counted
<1>4. ASSUME NEW s \in Manual, RenewAccess(s) PROVE Typed'
  BY <1>4 DEF RenewAccess, Typed, TypeOK, Counted
<1>5. QED  BY <1>1, <1>2, <1>3, <1>4

(* Whop and the worker: versions stay within the changes.                  *)
LEMMA WhopTyped ==
    ASSUME Typed, NEW m \in Members,
           RotateKey(m) \/ Transfer(m) \/ Lapse(m) \/ LoseLease(m) \/ Reconcile(m)
    PROVE  Typed'
<1>1. CASE RotateKey(m) \/ Transfer(m) \/ Lapse(m)
  <2>1. changes \in Versions /\ changes' = changes + 1 /\ changes' \in Versions
        BY <1>1, Constants DEF RotateKey, Transfer, Lapse, Change, Typed, TypeOK, Versions
  <2>2. remote[m] \in Remote /\ remote[m].key <= changes /\ remote[m].key \in Versions
        BY DEF Typed, TypeOK, Counted, Remote
  <2>3. remote[m].key + 1 \in Versions /\ remote[m].key + 1 <= changes'
        /\ remote[m].key <= changes'
        BY <2>1, <2>2, Constants DEF Versions
  <2>4. PICK now \in Remote : remote' = [remote EXCEPT ![m] = now] /\ now.key <= changes'
    <3>1. CASE RotateKey(m)
      <4>1. [remote[m] EXCEPT !.key = @ + 1] \in Remote
            /\ [remote[m] EXCEPT !.key = @ + 1].key <= changes'
            BY <2>2, <2>3 DEF Remote
      <4>2. QED  BY <3>1, <4>1 DEF RotateKey, Typed, TypeOK
    <3>2. CASE Transfer(m)
      <4>1. PICK u \in Buyers, k \in {remote[m].key, remote[m].key + 1} :
              remote' = [remote EXCEPT ![m].user = u, ![m].key = k]
            BY <3>2 DEF Transfer
      <4>2. [remote[m] EXCEPT !.user = u, !.key = k] \in Remote
            /\ [remote[m] EXCEPT !.user = u, !.key = k].key <= changes'
            BY <2>2, <2>3 DEF Remote
      <4>3. remote' = [remote EXCEPT ![m] = [remote[m] EXCEPT !.user = u, !.key = k]]
            BY <4>1 DEF Typed, TypeOK
      <4>4. QED  BY <4>2, <4>3
    <3>3. CASE Lapse(m)
      <4>1. [remote[m] EXCEPT !.active = ~@] \in Remote
            /\ [remote[m] EXCEPT !.active = ~@].key <= changes'
            BY <2>2, <2>3 DEF Remote
      <4>2. QED  BY <3>3, <4>1 DEF Lapse, Typed, TypeOK
    <3>4. QED  BY <1>1, <3>1, <3>2, <3>3
  <2>5. remote' \in [Members -> Remote]  BY <2>4 DEF Typed, TypeOK
  <2>6. \A n \in Members : remote'[n].key <= changes'
    <3>1. \A n \in Members : remote[n].key \in Versions /\ remote[n].key <= changes
          BY DEF Typed, TypeOK, Counted, Remote
    <3>2. \A n \in Members : remote[n].key <= changes'
          BY <2>1, <3>1, Constants DEF Versions
    <3>3. \A n \in Members : remote'[n] = remote[n] \/ remote'[n].key <= changes'
          BY <2>4 DEF Typed, TypeOK
    <3>4. QED  BY <3>2, <3>3
  <2>7. \A t \in Services : serial[t] <= changes'
        BY <2>1, Constants DEF Typed, TypeOK, Counted, Versions
  <2>8. UNCHANGED <<directory, row, claim>>
        BY <1>1 DEF RotateKey, Transfer, Lapse
  <2>9. QED  BY <2>1, <2>5, <2>6, <2>7, <2>8 DEF directory, Typed, TypeOK, Counted
<1>2. CASE LoseLease(m)
  <2>1. [row[m] EXCEPT !.valid = FALSE] \in Rows  BY DEF Typed, TypeOK, Rows
  <2>2. row' \in [Members -> Rows]  BY <1>2, <2>1 DEF LoseLease, Typed, TypeOK
  <2>3. \A n \in Members : row'[n].workspace = row[n].workspace
        BY <1>2 DEF LoseLease, Typed, TypeOK, Rows
  <2>4. QED  BY <1>2, <2>2, <2>3 DEF LoseLease, directory, Typed, TypeOK, Counted
<1>3. CASE Reconcile(m)
  <2>1. Applied(m)  BY <1>3 DEF Reconcile
  <2>2. QED  BY <1>3, <2>1, AppliedTyped DEF Reconcile, Typed, TypeOK, Counted
<1>4. QED  BY <1>1, <1>2, <1>3

(* A claim is asked for a service that exists.                             *)
LEMMA AskTyped ==
    ASSUME Typed, NEW c \in Claims,
           \/ \E d \in Users, s \in Services : AskBySerial(c, d, s) \/ AskBySession(c, d, s)
           \/ \E d \in Users : AskByLicense(c, d)
           \/ \E m \in Members : VerifyLicense(c, m)
    PROVE  Typed'
<1>1. ASSUME NEW d \in Users, NEW s \in Services, NEW kind \in {"serial", "session"},
             s \in services, Asks(c, kind, d, s, serial[s]),
             UNCHANGED <<directory, remote, row, changes>>
      PROVE  Typed'
  <2> DEFINE k == [pc |-> "asked", kind |-> kind, user |-> d, service |-> s,
                   member |-> None, version |-> serial[s]]
  <2>1. k \in ClaimState /\ k.service \in services  BY <1>1 DEF ClaimState, Typed, TypeOK
  <2>2. claim' = [claim EXCEPT ![c] = k]  BY <1>1 DEF Asks
  <2> HIDE DEF k
  <2>3. QED  BY <1>1, <2>1, <2>2 DEF directory, Typed, TypeOK, Counted
<1>2. ASSUME NEW d \in Users, NEW s \in Services, AskBySerial(c, d, s) PROVE Typed'
  <2>1. s \in services  BY <1>2 DEF AskBySerial, HasAccess
  <2>2. QED  BY <1>1, <1>2, <2>1 DEF AskBySerial
<1>3. ASSUME NEW d \in Users, NEW s \in Services, AskBySession(c, d, s) PROVE Typed'
  BY <1>1, <1>3 DEF AskBySession
<1>4. ASSUME NEW d \in Users, AskByLicense(c, d) PROVE Typed'
  <2> DEFINE k == [claim[c] EXCEPT !.pc = "asked", !.user = d]
  <2>1. k \in ClaimState /\ k.service \in services
    <3>1. claim[c] \in ClaimState  BY DEF Typed, TypeOK
    <3>2. k \in ClaimState /\ k.service = claim[c].service
          BY <1>4, <3>1 DEF ClaimState
    <3>3. claim[c].service \in services
          BY <1>4 DEF AskByLicense, Typed, TypeOK
    <3>4. QED  BY <3>2, <3>3
  <2>2. claim' = [claim EXCEPT ![c] = k]  BY <1>4 DEF AskByLicense, Typed, TypeOK
  <2> HIDE DEF k
  <2>3. QED  BY <1>4, <2>1, <2>2 DEF AskByLicense, directory, Typed, TypeOK, Counted
<1>5. ASSUME NEW m \in Members, VerifyLicense(c, m) PROVE Typed'
  <2>1. Applied(m)  BY <1>5 DEF VerifyLicense
  <2> DEFINE k == [pc |-> "verified", kind |-> "license", user |-> None,
                   service |-> row'[m].workspace, member |-> m, version |-> remote[m].key]
  <2>2. services \subseteq services' /\ services' \subseteq Services
        BY <2>1, AppliedTyped
  <2>3. claim' \in [Claims -> ClaimState]
        /\ \A b \in Claims : claim'[b].pc # "idle" => claim'[b].service \in services'
    <3>1. CASE ~Verified(m)  BY <1>5, <2>2, <3>1 DEF VerifyLicense, Typed, TypeOK
    <3>2. CASE Verified(m)
      <4>1. row'[m].workspace \in services' /\ remote[m].key \in Versions
            BY <2>1, <3>2, AppliedTyped DEF Verified, Typed, TypeOK, Remote
      <4>2. k \in ClaimState /\ k.service \in services'
            BY <2>2, <4>1 DEF ClaimState
      <4>3. claim' = [claim EXCEPT ![c] = k]  BY <1>5, <3>2 DEF VerifyLicense
      <4> HIDE DEF k
      <4>4. QED  BY <2>2, <4>2, <4>3 DEF Typed, TypeOK
    <3>3. QED  BY <3>1, <3>2
  <2>4. QED  BY <1>5, <2>1, <2>3, AppliedTyped DEF VerifyLicense, Typed, TypeOK, Counted
<1>6. QED  BY <1>2, <1>3, <1>4, <1>5

(* The transactions.                                                       *)
LEMMA TransactionTyped ==
    ASSUME Typed, NEW c \in Claims, Lock(c) \/ Bind(c) \/ Commit(c) \/ Abort(c)
    PROVE  Typed'
<1>1. CASE Lock(c) \/ Bind(c) \/ Abort(c)
  <2>1. UNCHANGED <<directory, remote, row, changes>> /\ claim[c].pc # "idle"
        /\ \/ End(c)
           \/ \E pc \in {"asked", "locked", "bound"} : claim' = [claim EXCEPT ![c].pc = pc]
        BY <1>1 DEF Lock, Bind, Abort
  <2>2. claim' \in [Claims -> ClaimState]
        /\ \A b \in Claims : claim'[b].pc # "idle" => claim'[b].service \in services
        BY <2>1, EndTyped, MovedTyped
  <2>3. QED  BY <2>1, <2>2 DEF directory, Typed, TypeOK, Counted
<1>2. CASE Commit(c)
  <2> DEFINE s == claim[c].service
             d == claim[c].user
  <2>1. End(c) /\ claim[c].pc = "bound"
        /\ UNCHANGED <<services, maker, serial, expired, remote, row, changes>>
        /\ (Linked(s, d) \/ UNCHANGED <<account, binding, default>>)
        BY <1>2 DEF Commit
  <2>2. s \in Services /\ d \in Users \cup {None}
        BY <2>1 DEF Typed, TypeOK, ClaimState
  <2>3. /\ account' \in [Services -> Users \cup {None}]
        /\ binding' \in [Services -> Users \cup {None}]
        /\ default' \in [Users -> Services \cup {None}]
        BY <2>1, <2>2 DEF Linked, Typed, TypeOK
  <2>4. QED  BY <2>1, <2>3, EndTyped DEF Typed, TypeOK, Counted
<1>3. QED  BY <1>1, <1>2

(* Typed is inductive.                                                     *)
LEMMA TypedStep == Typed /\ [Next]_vars => Typed'
<1> SUFFICES ASSUME Typed, [Next]_vars PROVE Typed'  OBVIOUS
<1>1. CASE UNCHANGED vars
  BY <1>1 DEF vars, directory, Typed, TypeOK, Counted
<1>2. CASE Next
  BY <1>2, ConsoleTyped, WhopTyped, AskTyped, TransactionTyped DEF Next
<1>3. QED  BY <1>1, <1>2

(* Rows, accounts and claims keep the values the schema and the code       *)
(* allow, and a claim names a service that exists.                         *)
THEOREM TypeCorrect == Spec => []TypeOK
<1>1. Typed => TypeOK  BY DEF Typed
<1>2. QED  BY <1>1, TypedInit, TypedStep, PTL DEF Spec

-----------------------------------------------------------------------------
(* Owners.                                                                 *)

(* A claim that reached its transaction has a user.                        *)
Named ==
    \A c \in Claims : claim[c].pc \in {"asked", "locked", "bound"} => claim[c].user \in Users

(* What the two rows bindDiscord writes keep apart until the commit.       *)
BoundExclude ==
    \A a, b \in Claims :
        a # b /\ claim[a].pc = "bound" /\ claim[b].pc = "bound"
          => claim[a].service # claim[b].service

(* What bindDiscord found still stands at the commit.                      *)
BoundStands ==
    \A c \in Claims :
        claim[c].pc = "bound" => binding[claim[c].service] \in {None, claim[c].user}

(* A service nobody made is nobody's.                                      *)
Fresh ==
    \A s \in Services \ services : account[s] = None /\ binding[s] = None

(* The unique column of solo_accounts.                                     *)
AccountUnique ==
    \A s, t \in Services : s # t /\ account[s] # None => account[s] # account[t]

OwnersInv ==
    /\ Named /\ BoundExclude /\ BoundStands
    /\ Fresh /\ AccountUnique /\ AccountFollowsBinding /\ DefaultIsOwn

(* No service has an owner at first.                                       *)
LEMMA OwnersInit == Init => OwnersInv
<1> SUFFICES ASSUME Init PROVE OwnersInv  OBVIOUS
<1>1. \A c \in Claims : claim[c].pc = "idle"  BY DEF Init, Idle
<1>2. \A s \in Services : account[s] = None /\ binding[s] = None  BY DEF Init
<1>3. \A d \in Users : default[d] = None /\ d # None  BY Constants DEF Init
<1>4. Named /\ BoundExclude /\ BoundStands  BY <1>1 DEF Named, BoundExclude, BoundStands
<1>5. Fresh /\ AccountUnique /\ AccountFollowsBinding
      BY <1>2 DEF Fresh, AccountUnique, AccountFollowsBinding
<1>6. DefaultIsOwn  BY <1>2, <1>3 DEF DefaultIsOwn
<1>7. QED  BY <1>4, <1>5, <1>6 DEF OwnersInv

(* A step that binds nothing: it makes services at most, of which nothing  *)
(* was known, and no claim becomes bound.                                  *)
LEMMA QuietStep ==
    ASSUME OwnersInv, Typed, Named',
           UNCHANGED <<account, binding, default>>,
           services \subseteq services',
           \A w \in Workspaces \cap services : maker'[w] = maker[w],
           \A c \in Claims : claim'[c].pc = "bound" => claim'[c] = claim[c]
    PROVE  OwnersInv'
<1>1. BoundExclude' /\ BoundStands'
      BY DEF OwnersInv, BoundExclude, BoundStands
<1>2. Fresh' /\ AccountUnique' /\ DefaultIsOwn'
      BY DEF OwnersInv, Fresh, AccountUnique, DefaultIsOwn
<1>3. AccountFollowsBinding'
  <2> SUFFICES ASSUME NEW s \in Services, Solo(s)' PROVE account'[s] = binding'[s]
      BY DEF AccountFollowsBinding
  <2>1. CASE s \in services
    <3>1. Solo(s)  BY <2>1 DEF Solo
    <3>2. QED  BY <3>1 DEF OwnersInv, AccountFollowsBinding
  <2>2. CASE s \notin services  BY <2>2 DEF OwnersInv, Fresh
  <2>3. QED  BY <2>1, <2>2
<1>4. QED  BY <1>1, <1>2, <1>3 DEF OwnersInv

(* Provisioning gives a service nobody had to a user without another.      *)
LEMMA ConsoleOwners ==
    ASSUME OwnersInv, Typed, NEW s \in Manual, NEW d \in Users \cup {None}, Provision(s, d)
    PROVE  OwnersInv'
<1>1. /\ s \in Services /\ s \notin services /\ s \notin Workspaces
      /\ services' = services \cup {s}
      /\ UNCHANGED <<maker, claim>>
      /\ account[s] = None /\ binding[s] = None
      BY Constants DEF Provision, Services, OwnersInv, Fresh
<1>2. CASE d = None
  <2>1. UNCHANGED <<account, binding, default>>  BY <1>2 DEF Provision
  <2>2. Named'  BY <1>1 DEF OwnersInv, Named
  <2>3. QED  BY <1>1, <2>1, <2>2, QuietStep
<1>3. CASE d # None
  <2>1. /\ \A t \in Services : account[t] # d
        /\ account' = [account EXCEPT ![s] = d]
        /\ binding' = [binding EXCEPT ![s] = d]
        /\ default' = [default EXCEPT ![d] = IF default[d] = None THEN s ELSE default[d]]
        BY <1>3 DEF Provision
  <2>2. d \in Users  BY <1>3
  <2>3. \A t \in Services : account'[t] = (IF t = s THEN d ELSE account[t])
                            /\ binding'[t] = (IF t = s THEN d ELSE binding[t])
        BY <1>1, <2>1 DEF Typed, TypeOK
  <2>4. \A e \in Users : default'[e] = (IF e = d /\ default[d] = None THEN s ELSE default[e])
        BY <2>1, <2>2 DEF Typed, TypeOK
  <2>5. \A c \in Claims : claim[c].pc = "bound" => claim[c].service \in services
        BY DEF Typed, TypeOK
  <2>6. Named' /\ BoundExclude'  BY <1>1 DEF OwnersInv, Named, BoundExclude
  <2>7. BoundStands'
        BY <1>1, <2>3, <2>5 DEF OwnersInv, BoundStands, Typed, TypeOK
  <2>8. Fresh'  BY <1>1, <2>3 DEF OwnersInv, Fresh
  <2>9. AccountUnique'  BY <1>1, <2>1, <2>3 DEF OwnersInv, AccountUnique
  <2>10. AccountFollowsBinding'
         BY <1>1, <2>3 DEF OwnersInv, AccountFollowsBinding, Solo
  <2>11. DefaultIsOwn'
    <3> SUFFICES ASSUME NEW e \in Users
                 PROVE  IF \E t \in Services : binding'[t] = e
                        THEN default'[e] # None /\ binding'[default'[e]] = e
                        ELSE default'[e] = None
        BY DEF DefaultIsOwn
    <3>1. default[e] # None => default[e] \in Services /\ binding[default[e]] = e
          BY DEF OwnersInv, DefaultIsOwn, Typed, TypeOK
    <3>2. e # None /\ s # None  BY <1>1, Constants
    <3>3. CASE e = d /\ default[d] = None
      <4>1. default'[e] = s /\ binding'[s] = e  BY <1>1, <2>3, <2>4, <3>3
      <4>2. QED  BY <1>1, <3>2, <4>1
    <3>4. CASE ~(e = d /\ default[d] = None)
      <4>1. default'[e] = default[e]  BY <2>4, <3>4
      <4>2. CASE default[e] # None
        <5>1. default[e] # s  BY <1>1, <3>1, <3>2, <4>2
        <5>2. binding'[default[e]] = e  BY <2>3, <3>1, <4>2, <5>1
        <5>3. QED  BY <3>1, <4>1, <4>2, <5>2
      <4>3. CASE default[e] = None
        <5>1. \A t \in Services : binding[t] # e
              BY <4>3 DEF OwnersInv, DefaultIsOwn
        <5>2. \A t \in Services : binding'[t] # e  BY <2>3, <3>4, <4>3, <5>1
        <5>3. QED  BY <4>1, <4>3, <5>2
      <4>4. QED  BY <4>2, <4>3
    <3>5. QED  BY <3>3, <3>4
  <2>12. QED  BY <2>6, <2>7, <2>8, <2>9, <2>10, <2>11 DEF OwnersInv
<1>4. QED  BY <1>2, <1>3

(* bindDiscord: no other claim holds the binding, and it is free or the    *)
(* user's own.                                                             *)
LEMMA BindOwners ==
    ASSUME OwnersInv, Typed, NEW c \in Claims, Bind(c)
    PROVE  OwnersInv'
<1>1. UNCHANGED directory /\ claim[c].pc = "locked"  BY DEF Bind
<1>2. CASE End(c)
  <2>1. \A b \in Claims : claim'[b] = claim[b] \/ claim'[b].pc = "idle"
        BY <1>2 DEF End, Idle, Typed, TypeOK
  <2>2. Named'  BY <2>1 DEF OwnersInv, Named
  <2>3. QED  BY <1>1, <2>1, <2>2, QuietStep DEF directory
<1>3. CASE ~End(c)
  <2>1. /\ ~BindingHeld(claim[c].service) /\ Bindable(claim[c].service, claim[c].user)
        /\ claim' = [claim EXCEPT ![c].pc = "bound"]
        BY <1>3 DEF Bind
  <2>2. /\ claim'[c].pc = "bound" /\ claim'[c].service = claim[c].service
        /\ claim'[c].user = claim[c].user
        /\ \A b \in Claims \ {c} : claim'[b] = claim[b]
        BY <2>1 DEF Typed, TypeOK, ClaimState
  <2>3. Named'  BY <1>1, <2>2 DEF OwnersInv, Named
  <2>4. \A b \in Claims : claim[b].pc = "bound" => claim[b].service # claim[c].service
        BY <2>1 DEF BindingHeld
  <2>5. BoundExclude'  BY <2>2, <2>4 DEF OwnersInv, BoundExclude
  <2>6. BoundStands'  BY <1>1, <2>1, <2>2 DEF directory, Bindable, OwnersInv, BoundStands
  <2>7. Fresh' /\ AccountUnique' /\ AccountFollowsBinding' /\ DefaultIsOwn'
        BY <1>1 DEF directory, OwnersInv, Fresh, AccountUnique, AccountFollowsBinding,
                    DefaultIsOwn, Solo
  <2>8. QED  BY <2>3, <2>5, <2>6, <2>7 DEF OwnersInv
<1>4. QED  BY <1>2, <1>3

(* The commit: it gives the service to the user if nobody has it, and the  *)
(* account with it if the service is a Solo one.                           *)
LEMMA CommitOwners ==
    ASSUME OwnersInv, Typed, NEW c \in Claims, Commit(c)
    PROVE  /\ OwnersInv'
           /\ \A s \in Services : binding[s] # None => binding'[s] = binding[s]
<1> DEFINE s == claim[c].service
           d == claim[c].user
<1>1. /\ claim[c].pc = "bound" /\ End(c)
      /\ UNCHANGED <<services, maker>>
      BY DEF Commit
<1>2. /\ s \in services /\ s \in Services /\ d \in Users
      /\ binding[s] \in {None, d} /\ d # None /\ s # None
      BY <1>1, Constants DEF Typed, TypeOK, OwnersInv, Named, BoundStands
<1>3. \A b \in Claims : claim'[b] = claim[b] \/ claim'[b].pc = "idle"
      BY <1>1 DEF End, Idle, Typed, TypeOK
<1>4. claim'[c].pc = "idle"  BY <1>1 DEF End, Idle, Typed, TypeOK
<1>5. Named'  BY <1>3 DEF OwnersInv, Named
<1>6. CASE UNCHANGED <<account, binding, default>>
      BY <1>1, <1>3, <1>5, <1>6, QuietStep
<1>7. CASE ~UNCHANGED <<account, binding, default>>
  <2>1. Linked(s, d) /\ (Solo(s) => NoOtherSolo(d, s))
        BY <1>7 DEF Commit, Unique
  <2>2. \A t \in Services : binding'[t] = (IF t = s THEN d ELSE binding[t])
        BY <1>2, <2>1 DEF Linked, Typed, TypeOK
  <2>3. \A t \in Services : account'[t] = (IF t = s /\ Solo(s) THEN d ELSE account[t])
        BY <1>2, <2>1 DEF Linked, Typed, TypeOK
  <2>4. \A e \in Users : default'[e] = (IF e = d THEN s ELSE default[e])
        BY <1>2, <2>1 DEF Linked, Typed, TypeOK
  <2>5. \A t \in Services : binding[t] # None => binding'[t] = binding[t]
        BY <1>2, <2>2
  <2>6. \A t \in Services : Solo(t)' = Solo(t)  BY <1>1 DEF Solo
  <2>7. BoundExclude'  BY <1>3, <1>4 DEF OwnersInv, BoundExclude
  <2>8. BoundStands'
    <3> SUFFICES ASSUME NEW b \in Claims, claim'[b].pc = "bound"
                 PROVE  binding'[claim'[b].service] \in {None, claim'[b].user}
        BY DEF BoundStands
    <3>1. b # c /\ claim'[b] = claim[b]  BY <1>3, <1>4
    <3>2. claim[b].service # s /\ claim[b].service \in Services
          BY <1>1, <3>1 DEF OwnersInv, BoundExclude, Typed, TypeOK
    <3>3. QED  BY <2>2, <3>1, <3>2 DEF OwnersInv, BoundStands
  <2>9. Fresh'  BY <1>1, <1>2, <2>2, <2>3 DEF OwnersInv, Fresh
  <2>10. AccountUnique'
    <3>1. CASE Solo(s)
      <4>1. \A t \in Services \ {s} : account[t] # d  BY <2>1, <3>1 DEF NoOtherSolo
      <4>2. QED  BY <1>2, <2>3, <4>1 DEF OwnersInv, AccountUnique
    <3>2. CASE ~Solo(s)  BY <2>3, <3>2 DEF OwnersInv, AccountUnique
    <3>3. QED  BY <3>1, <3>2
  <2>11. AccountFollowsBinding'
         BY <2>2, <2>3, <2>6 DEF OwnersInv, AccountFollowsBinding
  <2>12. DefaultIsOwn'
    <3> SUFFICES ASSUME NEW e \in Users
                 PROVE  IF \E t \in Services : binding'[t] = e
                        THEN default'[e] # None /\ binding'[default'[e]] = e
                        ELSE default'[e] = None
        BY DEF DefaultIsOwn
    <3>1. CASE e = d
      <4>1. default'[e] = s /\ binding'[s] = e  BY <1>2, <2>2, <2>4, <3>1
      <4>2. QED  BY <1>2, <4>1
    <3>2. CASE e # d
      <4>1. default'[e] = default[e]  BY <2>4, <3>2
      <4>2. \A t \in Services : binding'[t] = e <=> binding[t] = e
            BY <1>2, <2>2, <3>2, Constants
      <4>3. default[e] # None => default[e] \in Services  BY DEF Typed, TypeOK
      <4>4. QED  BY <4>1, <4>2, <4>3 DEF OwnersInv, DefaultIsOwn
    <3>3. QED  BY <3>1, <3>2
  <2>13. OwnersInv'
         BY <1>5, <2>7, <2>8, <2>9, <2>10, <2>11, <2>12 DEF OwnersInv
  <2>14. QED  BY <2>5, <2>13
<1>8. QED  BY <1>6, <1>7

(* The other steps bind nothing.                                           *)
LEMMA OtherOwners ==
    ASSUME OwnersInv, Typed,
           \/ \E s \in Services : RotateSerial(s)
           \/ \E s \in Manual : Expire(s) \/ RenewAccess(s)
           \/ \E m \in Members :
                RotateKey(m) \/ Transfer(m) \/ Lapse(m) \/ LoseLease(m) \/ Reconcile(m)
           \/ \E c \in Claims :
                \/ \E d \in Users, s \in Services : AskBySerial(c, d, s) \/ AskBySession(c, d, s)
                \/ \E m \in Members : VerifyLicense(c, m)
                \/ \E d \in Users : AskByLicense(c, d)
                \/ Lock(c) \/ Abort(c)
    PROVE  OwnersInv' /\ UNCHANGED binding
<1>1. ASSUME UNCHANGED <<services, maker, account, binding, default, claim>> PROVE OwnersInv'
  <2>1. Named'  BY <1>1 DEF OwnersInv, Named
  <2>2. QED  BY <1>1, <2>1, QuietStep
<1>2. ASSUME NEW m \in Members, Applied(m), UNCHANGED <<account, binding, default>>, Named',
             \A c \in Claims : claim'[c].pc = "bound" => claim'[c] = claim[c]
      PROVE  OwnersInv'
      BY <1>2, AppliedTyped, QuietStep
<1>3. ASSUME UNCHANGED directory, Named',
             \A c \in Claims : claim'[c].pc = "bound" => claim'[c] = claim[c]
      PROVE  OwnersInv'
      BY <1>3, QuietStep DEF directory
<1>4. ASSUME NEW s \in Services, RotateSerial(s) PROVE OwnersInv' /\ UNCHANGED binding
      BY <1>1, <1>4 DEF RotateSerial
<1>5. ASSUME NEW s \in Manual, Expire(s) \/ RenewAccess(s) PROVE OwnersInv' /\ UNCHANGED binding
      BY <1>1, <1>5 DEF Expire, RenewAccess
<1>6. ASSUME NEW m \in Members, RotateKey(m) \/ Transfer(m) \/ Lapse(m) \/ LoseLease(m)
      PROVE  OwnersInv' /\ UNCHANGED binding
      BY <1>1, <1>6 DEF RotateKey, Transfer, Lapse, LoseLease, directory
<1>7. ASSUME NEW m \in Members, Reconcile(m) PROVE OwnersInv' /\ UNCHANGED binding
  <2>1. Named'  BY <1>7 DEF Reconcile, OwnersInv, Named
  <2>2. QED  BY <1>2, <1>7, <2>1 DEF Reconcile
<1>8. ASSUME NEW c \in Claims, NEW m \in Members, VerifyLicense(c, m)
      PROVE  OwnersInv' /\ UNCHANGED binding
  <2>1. \A b \in Claims : claim'[b] = claim[b] \/ claim'[b].pc = "verified"
        BY <1>8 DEF VerifyLicense, Typed, TypeOK
  <2>2. Named'  BY <2>1 DEF OwnersInv, Named
  <2>3. QED  BY <1>2, <1>8, <2>1, <2>2 DEF VerifyLicense
<1>9. ASSUME NEW c \in Claims, NEW d \in Users, NEW s \in Services,
             AskBySerial(c, d, s) \/ AskBySession(c, d, s)
      PROVE  OwnersInv' /\ UNCHANGED binding
  <2>1. UNCHANGED directory
        /\ \A b \in Claims : claim'[b] = claim[b]
                             \/ (claim'[b].pc = "asked" /\ claim'[b].user = d)
        BY <1>9 DEF AskBySerial, AskBySession, Asks, Typed, TypeOK
  <2>2. Named'  BY <2>1 DEF OwnersInv, Named
  <2>3. QED  BY <1>3, <2>1, <2>2 DEF directory
<1>10. ASSUME NEW c \in Claims, NEW d \in Users, AskByLicense(c, d)
       PROVE  OwnersInv' /\ UNCHANGED binding
  <2>1. UNCHANGED directory
        /\ \A b \in Claims : claim'[b] = claim[b]
                             \/ (claim'[b].pc = "asked" /\ claim'[b].user = d)
        BY <1>10 DEF AskByLicense, Typed, TypeOK, ClaimState
  <2>2. Named'  BY <2>1 DEF OwnersInv, Named
  <2>3. QED  BY <1>3, <2>1, <2>2 DEF directory
<1>11. ASSUME NEW c \in Claims, Lock(c) \/ Abort(c) PROVE OwnersInv' /\ UNCHANGED binding
  <2>1. UNCHANGED directory
        /\ (End(c) \/ (claim[c].pc = "asked" /\ claim' = [claim EXCEPT ![c].pc = "locked"]))
        BY <1>11 DEF Lock, Abort
  <2>2. \A b \in Claims :
          \/ claim'[b] = claim[b]
          \/ claim'[b].pc = "idle"
          \/ claim'[b].pc = "locked" /\ claim[b].pc = "asked" /\ claim'[b].user = claim[b].user
        BY <2>1 DEF End, Idle, Typed, TypeOK, ClaimState
  <2>3. Named'  BY <2>2 DEF OwnersInv, Named
  <2>4. QED  BY <1>3, <2>1, <2>2, <2>3 DEF directory
<1>12. QED  BY <1>4, <1>5, <1>6, <1>7, <1>8, <1>9, <1>10, <1>11

(* OwnersInv is inductive, and no step takes a service from its owner.     *)
LEMMA OwnersStep ==
    OwnersInv /\ Typed /\ [Next]_vars
      => /\ OwnersInv'
         /\ \A s \in Services : binding[s] # None => binding'[s] = binding[s]
<1> SUFFICES ASSUME OwnersInv, Typed, [Next]_vars
             PROVE  /\ OwnersInv'
                    /\ \A s \in Services : binding[s] # None => binding'[s] = binding[s]
    OBVIOUS
<1>1. ASSUME NEW s \in Manual, NEW d \in Users \cup {None}, Provision(s, d)
      PROVE  \A t \in Services : binding[t] # None => binding'[t] = binding[t]
  <2>1. s \in Services /\ binding[s] = None
        BY <1>1 DEF Provision, Services, OwnersInv, Fresh
  <2>2. QED  BY <1>1, <2>1 DEF Provision, Typed, TypeOK
<1>2. ASSUME NEW c \in Claims, Bind(c) PROVE UNCHANGED binding
      BY <1>2 DEF Bind, directory
<1>3. CASE Next
      BY <1>1, <1>2, <1>3, ConsoleOwners, BindOwners, CommitOwners, OtherOwners DEF Next
<1>4. CASE UNCHANGED vars
  <2>1. Named'  BY <1>4 DEF vars, OwnersInv, Named
  <2>2. QED  BY <1>4, <2>1, QuietStep DEF vars, directory
<1>5. QED  BY <1>3, <1>4

(* Accounts and bindings name the same owner of a Solo service, whichever  *)
(* of provisioning and the claims wrote them.                              *)
THEOREM AccountsFollow == Spec => []AccountFollowsBinding
<1>1. OwnersInv => AccountFollowsBinding  BY DEF OwnersInv
<1>2. QED  BY <1>1, TypedInit, TypedStep, OwnersInit, OwnersStep, PTL DEF Spec

(* A user who owns a service has a default one, which is the user's own.   *)
THEOREM DefaultsAreOwn == Spec => []DefaultIsOwn
<1>1. OwnersInv => DefaultIsOwn  BY DEF OwnersInv
<1>2. QED  BY <1>1, TypedInit, TypedStep, OwnersInit, OwnersStep, PTL DEF Spec

(* A Discord user has one Solo service: the unique column keeps accounts   *)
(* apart, and bindings of Solo services follow them.                       *)
THEOREM OneSoloEach == Spec => []OneSoloService
<1>1. OwnersInv => OneSoloService
  <2> SUFFICES ASSUME OwnersInv, NEW d \in Users
               PROVE  Cardinality({s \in Services : Solo(s) /\ binding[s] = d}) <= 1
      BY DEF OneSoloService
  <2> DEFINE S == {s \in Services : Solo(s) /\ binding[s] = d}
  <2>1. \A s, t \in S : s = t
        BY Constants DEF OwnersInv, AccountUnique, AccountFollowsBinding
  <2>2. S = {} \/ \E s : S = {s}
    <3> HIDE DEF S
    <3>1. CASE S # {}
      <4>1. PICK s : s \in S  BY <3>1
      <4>2. S = {s}  BY <2>1, <4>1
      <4>3. QED  BY <4>2
    <3>2. QED  BY <3>1
  <2> HIDE DEF S
  <2>3. Cardinality(S) <= 1
    <3>1. CASE S = {}  BY <3>1, FS_EmptySet
    <3>2. ASSUME NEW s, S = {s} PROVE Cardinality(S) <= 1
      <4>1. Cardinality({s}) = 1  BY FS_Singleton
      <4>2. QED  BY <3>2, <4>1
    <3>3. QED  BY <2>2, <3>1, <3>2
  <2>4. QED  BY <2>3 DEF S
<1>2. QED  BY <1>1, TypedInit, TypedStep, OwnersInit, OwnersStep, PTL DEF Spec

(* No step takes a service from its owner.                                 *)
OwnerStays ==
    [][\A s \in Services : binding[s] # None => binding'[s] = binding[s]]_vars

(* A service keeps its first owner.                                        *)
THEOREM FirstOwnerStays == Spec => OwnerStays
<1>1. OwnersInv /\ Typed /\ [Next]_vars
        => [\A s \in Services : binding[s] # None => binding'[s] = binding[s]]_vars
      BY OwnersStep
<1>2. QED  BY <1>1, TypedInit, TypedStep, OwnersInit, OwnersStep, PTL DEF Spec, OwnerStays

-----------------------------------------------------------------------------
(* The directory.  A step opens one service, links one, or leaves all as   *)
(* they are.                                                               *)

(* Nothing the directory shows changes.                                    *)
LEMMA DirectoryRests ==
    ASSUME UNCHANGED <<services, maker, binding, default>>
    PROVE  UNCHANGED Registry!directoryVars
BY DEF Registry!directoryVars, ProductNow, Solo

(* A new service is not open before, and the others stay what they are.    *)
LEMMA DirectoryOpens ==
    ASSUME NEW s \in Services, s \notin services,
           services' = services \cup {s},
           \A w \in Workspaces : w # s => maker'[w] = maker[w]
    PROVE  /\ ProductNow(s) = None
           /\ ProductNow(s)' = IF Solo(s)' THEN "solo" ELSE "aco"
           /\ \A t \in Services \ {s} : ProductNow(t)' = ProductNow(t)
<1>1. \A t \in Services \ {s} : Solo(t)' = Solo(t)  BY DEF Solo
<1>2. QED  BY <1>1 DEF ProductNow

(* A user who has no Solo account owns no other open Solo service.         *)
LEMMA DirectoryMayOwn ==
    ASSUME OwnersInv, NEW d \in Users, NEW s \in Services,
           \A t \in Services \ {s} : account[t] # d
    PROVE  Registry!MayOwn(d, s)
<1> SUFFICES ASSUME NEW t \in Services \ {s}, binding[t] = d
             PROVE  ProductNow(t) # "solo"
    BY DEF Registry!MayOwn
<1>1. ~Solo(t)  BY DEF OwnersInv, AccountFollowsBinding
<1>2. None # "solo" \/ t \in services
      BY Constants DEF OwnersInv, Fresh
<1>3. QED  BY <1>1, <1>2 DEF ProductNow

(* The owner's console opens a service, for a user or for nobody yet.      *)
LEMMA DirectoryProvision ==
    ASSUME OwnersInv, Typed, NEW s \in Manual, NEW d \in Users \cup {None}, Provision(s, d)
    PROVE  Registry!Next
<1>1. /\ s \in Services /\ s \notin services /\ s \notin Workspaces
      /\ services' = services \cup {s} /\ maker' = maker
      BY Constants DEF Provision, Services
<1>2. /\ ProductNow(s) = None /\ ProductNow(s)' = "solo"
      /\ \A t \in Services \ {s} : ProductNow(t)' = ProductNow(t)
      BY <1>1, DirectoryOpens DEF Solo
<1>3. [t \in Services |-> ProductNow(t)'] =
        [[t \in Services |-> ProductNow(t)] EXCEPT ![s] = "solo"]
      BY <1>1, <1>2
<1>4. CASE d = None
  <2>1. UNCHANGED <<binding, default>>  BY <1>4 DEF Provision
  <2>2. Registry!Open(s, "solo")  BY <1>1, <1>2, <1>3, <2>1 DEF Registry!Open
  <2>3. QED  BY <1>1, <2>2 DEF Registry!Next
<1>5. CASE d # None
  <2>1. /\ \A t \in Services : account[t] # d
        /\ binding' = [binding EXCEPT ![s] = d]
        /\ default' = [default EXCEPT ![d] = IF @ = None THEN s ELSE @]
        BY <1>5 DEF Provision
  <2>2. d \in Users  BY <1>5
  <2>3. Registry!MayOwn(d, s)  BY <1>1, <2>1, <2>2, DirectoryMayOwn
  <2>4. Registry!OpenFor(s, d)  BY <1>1, <1>2, <1>3, <2>1, <2>3 DEF Registry!OpenFor
  <2>5. QED  BY <1>1, <2>2, <2>4 DEF Registry!Next
<1>6. QED  BY <1>4, <1>5

(* What Whop says opens a service at most.                                 *)
LEMMA DirectoryApplied ==
    ASSUME Typed, NEW m \in Members, Applied(m), UNCHANGED <<binding, default>>
    PROVE  Registry!Next \/ UNCHANGED Registry!directoryVars
<1>1. CASE UNCHANGED <<services, maker>>  BY <1>1, DirectoryRests
<1>2. CASE ~UNCHANGED <<services, maker>>
  <2>1. PICK w \in Workspaces \cup {None} :
          /\ w # None /\ w \notin services
          /\ services' = services \cup {w}
          /\ maker' = [maker EXCEPT ![w] = m]
        BY <1>2 DEF Applied
  <2>2. w \in Workspaces /\ w \in Services  BY <2>1 DEF Services
  <2>3. /\ ProductNow(w) = None
        /\ ProductNow(w)' = IF Solo(w)' THEN "solo" ELSE "aco"
        /\ \A t \in Services \ {w} : ProductNow(t)' = ProductNow(t)
        BY <2>1, <2>2, DirectoryOpens DEF Typed, TypeOK
  <2> DEFINE p == IF Solo(w)' THEN "solo" ELSE "aco"
  <2>4. [t \in Services |-> ProductNow(t)'] =
          [[t \in Services |-> ProductNow(t)] EXCEPT ![w] = p]
        BY <2>2, <2>3
  <2>5. p \in {"solo", "aco"}  OBVIOUS
  <2> HIDE DEF p
  <2>6. Registry!Open(w, p)  BY <2>2, <2>3, <2>4 DEF Registry!Open
  <2>7. QED  BY <2>2, <2>5, <2>6 DEF Registry!Next
<1>3. QED  BY <1>1, <1>2

(* A claim's commit links the service it is about, or nothing.             *)
LEMMA DirectoryCommit ==
    ASSUME OwnersInv, Typed, NEW c \in Claims, Commit(c)
    PROVE  Registry!Next \/ UNCHANGED Registry!directoryVars
<1> DEFINE s == claim[c].service
           d == claim[c].user
<1>1. claim[c].pc = "bound" /\ UNCHANGED <<services, maker>>  BY DEF Commit
<1>2. CASE UNCHANGED <<account, binding, default>>  BY <1>1, <1>2, DirectoryRests
<1>3. CASE ~UNCHANGED <<account, binding, default>>
  <2>1. Linked(s, d) /\ (Solo(s) => NoOtherSolo(d, s))  BY <1>3 DEF Commit, Unique
  <2>2. /\ s \in services /\ s \in Services /\ d \in Users
        /\ binding[s] \in {None, d}
        BY <1>1, Constants DEF Typed, TypeOK, OwnersInv, Named, BoundStands
  <2>3. ProductNow(s) = IF Solo(s) THEN "solo" ELSE "aco"  BY <2>2 DEF ProductNow
  <2>4. ProductNow(s) # None
    <3>1. "solo" # None /\ "aco" # None  BY IdentityAssumption
    <3>2. QED  BY <2>3, <3>1
  <2>5. ProductNow(s) = "solo" => Registry!MayOwn(d, s)
        BY <2>1, <2>2, <2>3, DirectoryMayOwn DEF NoOtherSolo
  <2>6. \A t \in Services : ProductNow(t)' = ProductNow(t)
        BY <1>1 DEF ProductNow, Solo
  <2>7. binding' = [binding EXCEPT ![s] = d] /\ default' = [default EXCEPT ![d] = s]
        BY <2>1 DEF Linked
  <2>8. Registry!Link(s, d)
        BY <2>2, <2>4, <2>5, <2>6, <2>7 DEF Registry!Link
  <2>9. QED  BY <2>2, <2>8 DEF Registry!Next
<1>4. QED  BY <1>2, <1>3

LEMMA DirectoryStep == OwnersInv /\ Typed /\ [Next]_vars => [Registry!Next]_Registry!directoryVars
<1> SUFFICES ASSUME OwnersInv, Typed, [Next]_vars
             PROVE  Registry!Next \/ UNCHANGED Registry!directoryVars
    OBVIOUS
<1>1. ASSUME NEW m \in Members, Reconcile(m)
      PROVE  Registry!Next \/ UNCHANGED Registry!directoryVars
      BY <1>1, DirectoryApplied DEF Reconcile
<1>2. ASSUME NEW c \in Claims, NEW m \in Members, VerifyLicense(c, m)
      PROVE  Registry!Next \/ UNCHANGED Registry!directoryVars
      BY <1>2, DirectoryApplied DEF VerifyLicense
<1>3. ASSUME \/ \E s \in Services : RotateSerial(s)
             \/ \E s \in Manual : Expire(s) \/ RenewAccess(s)
             \/ \E m \in Members : RotateKey(m) \/ Transfer(m) \/ Lapse(m) \/ LoseLease(m)
      PROVE  UNCHANGED <<services, maker, binding, default>>
      BY <1>3 DEF RotateSerial, Expire, RenewAccess, RotateKey, Transfer, Lapse, LoseLease,
                  directory
<1>4. ASSUME NEW c \in Claims,
             \/ \E d \in Users, s \in Services : AskBySerial(c, d, s) \/ AskBySession(c, d, s)
             \/ \E d \in Users : AskByLicense(c, d)
             \/ Lock(c) \/ Bind(c) \/ Abort(c)
      PROVE  UNCHANGED <<services, maker, binding, default>>
      BY <1>4 DEF AskBySerial, AskBySession, AskByLicense, Lock, Bind, Abort, directory
<1>5. CASE UNCHANGED vars
  <2>1. UNCHANGED <<services, maker, binding, default>>  BY <1>5 DEF vars, directory
  <2>2. QED  BY <2>1, DirectoryRests
<1>6. CASE Next
      BY <1>1, <1>2, <1>3, <1>4, <1>6, DirectoryProvision, DirectoryCommit, DirectoryRests
      DEF Next
<1>7. QED  BY <1>5, <1>6

(* Claims by serial, session and licence, interleaved with each other,     *)
(* with provisioning and with Whop, implement a directory in which a       *)
(* service is given in one instant and stays with its owner (Directory).   *)
THEOREM DirectoryImplemented == Spec => ImplementsDirectory
<1>1. Init => Registry!Init
  <2> SUFFICES ASSUME Init PROVE Registry!Init  OBVIOUS
  <2>1. \A s \in Services : ProductNow(s) = None  BY DEF Init, ProductNow
  <2>2. QED  BY <2>1 DEF Init, Registry!Init
<1>2. OwnersInv /\ Typed /\ [Next]_vars => [Registry!Next]_Registry!directoryVars
      BY DirectoryStep
<1>3. QED
      BY <1>1, <1>2, TypedInit, TypedStep, OwnersInit, OwnersStep, PTL
      DEF Spec, ImplementsDirectory, Registry!Spec

-----------------------------------------------------------------------------
(* Proofs.                                                                 *)

(* What a transaction found under its first lock stays true until its end: *)
(* a rotation waits for the account, the worker for the advisory lock.     *)
ProofStands ==
    /\ \A c \in Claims : claim[c].kind = "license" => claim[c].member \in Members
    /\ \A c \in Claims : InTransaction(c) /\ claim[c].kind = "serial" =>
         serial[claim[c].service] = claim[c].version
    /\ \A c \in Claims : InTransaction(c) /\ claim[c].kind = "license" =>
         /\ row[claim[c].member].key = claim[c].version
         /\ row[claim[c].member].workspace = claim[c].service

(* No claim is in its transaction at first.                                *)
LEMMA ProofInit == Init => ProofStands
<1> SUFFICES ASSUME Init PROVE ProofStands  OBVIOUS
<1>1. \A c \in Claims : claim[c].pc = "idle" /\ claim[c].kind = "serial"  BY DEF Init, Idle
<1>2. QED  BY <1>1 DEF ProofStands, InTransaction

(* A claim that starts no transaction and is put to no other proof in one. *)
Continues(c) ==
    /\ claim'[c].kind = "license" => claim'[c].member \in Members
    /\ claim'[c].pc \in {"locked", "bound"} =>
         /\ claim[c].pc \in {"locked", "bound"}
         /\ claim'[c].kind = claim[c].kind
         /\ claim'[c].service = claim[c].service
         /\ claim'[c].member = claim[c].member
         /\ claim'[c].version = claim[c].version

(* A step that leaves the serials alone, and the keys and workspaces of    *)
(* rows, too, unless no licence is in a transaction.                       *)
LEMMA NothingProved ==
    ASSUME ProofStands, UNCHANGED serial,
           \A c \in Claims : Continues(c),
           \/ ~WorkerHeld
           \/ \A m \in Members : row'[m].key = row[m].key /\ row'[m].workspace = row[m].workspace
    PROVE  ProofStands'
<1>1. \A c \in Claims : InTransaction(c)' => InTransaction(c)
      BY DEF Continues, InTransaction
<1>2. ASSUME NEW c \in Claims, InTransaction(c)', claim'[c].kind = "license"
      PROVE  /\ row'[claim'[c].member].key = claim'[c].version
             /\ row'[claim'[c].member].workspace = claim'[c].service
  <2>1. InTransaction(c) /\ claim[c].kind = "license"
        BY <1>1, <1>2 DEF Continues, InTransaction
  <2>2. WorkerHeld  BY <2>1 DEF WorkerHeld
  <2>3. claim[c].member \in Members  BY <2>1 DEF ProofStands
  <2>4. QED  BY <1>2, <2>1, <2>2, <2>3 DEF ProofStands, Continues, InTransaction
<1>3. \A c \in Claims : InTransaction(c)' /\ claim'[c].kind = "serial" =>
        serial'[claim'[c].service] = claim'[c].version
      BY <1>1 DEF ProofStands, Continues, InTransaction
<1>4. \A c \in Claims : claim'[c].kind = "license" => claim'[c].member \in Members
      BY DEF Continues
<1>5. QED  BY <1>2, <1>3, <1>4 DEF ProofStands

(* A serial is rotated under the account's lock.                           *)
LEMMA RotateProof ==
    ASSUME ProofStands, Typed, NEW s \in Services, RotateSerial(s)
    PROVE  ProofStands'
<1>1. UNCHANGED <<claim, row>> /\ ~AccountHeld(s, Claims)
      /\ serial' = [serial EXCEPT ![s] = serial[s] + 1]
      BY DEF RotateSerial
<1>2. \A t \in Services \ {s} : serial'[t] = serial[t]  BY <1>1 DEF Typed, TypeOK
<1>3. \A c \in Claims : InTransaction(c) /\ claim[c].kind = "serial"
                          => claim[c].service \in Services \ {s}
      BY <1>1 DEF AccountHeld, InTransaction, Typed, TypeOK
<1>4. QED  BY <1>1, <1>2, <1>3 DEF ProofStands, InTransaction

(* The first lock checks the proof again.                                  *)
LEMMA LockProof ==
    ASSUME ProofStands, Typed, NEW c \in Claims, Lock(c)
    PROVE  ProofStands'
<1>1. UNCHANGED <<serial, row>>  BY DEF Lock, directory
<1>2. CASE End(c)
  <2>1. \A b \in Claims : Continues(b)
        BY <1>2 DEF Continues, End, Idle, Typed, TypeOK, ProofStands
  <2>2. QED  BY <1>1, <2>1, NothingProved
<1>3. CASE ~End(c)
  <2>1. Current(c) /\ claim' = [claim EXCEPT ![c].pc = "locked"]
        BY <1>3 DEF Lock
  <2>2. /\ \A b \in Claims \ {c} : claim'[b] = claim[b]
        /\ claim'[c].kind = claim[c].kind /\ claim'[c].service = claim[c].service
        /\ claim'[c].member = claim[c].member /\ claim'[c].version = claim[c].version
        BY <2>1 DEF Typed, TypeOK, ClaimState
  <2>3. claim[c].kind = "serial" => serial[claim[c].service] = claim[c].version
        BY <2>1 DEF Current
  <2>4. claim[c].kind = "license" => /\ row[claim[c].member].key = claim[c].version
                                     /\ row[claim[c].member].workspace = claim[c].service
        BY <2>1 DEF Current
  <2>5. QED  BY <1>1, <2>2, <2>3, <2>4 DEF ProofStands, InTransaction
<1>4. QED  BY <1>2, <1>3

(* ProofStands is inductive.                                               *)
LEMMA ProofStep == ProofStands /\ Typed /\ [Next]_vars => ProofStands'
<1> SUFFICES ASSUME ProofStands, Typed, [Next]_vars PROVE ProofStands'  OBVIOUS
<1>1. ASSUME UNCHANGED <<serial, row, claim>> PROVE ProofStands'
  <2>1. \A c \in Claims : Continues(c)  BY <1>1 DEF Continues, ProofStands
  <2>2. QED  BY <1>1, <2>1, NothingProved
<1>2. ASSUME NEW s \in Manual, NEW d \in Users \cup {None}, Provision(s, d)
      PROVE  ProofStands'
      BY <1>1, <1>2 DEF Provision
<1>3. ASSUME NEW s \in Manual, Expire(s) \/ RenewAccess(s) PROVE ProofStands'
      BY <1>1, <1>3 DEF Expire, RenewAccess
<1>4. ASSUME NEW m \in Members, RotateKey(m) \/ Transfer(m) \/ Lapse(m) PROVE ProofStands'
      BY <1>1, <1>4 DEF RotateKey, Transfer, Lapse, directory
<1>5. ASSUME NEW m \in Members, LoseLease(m) PROVE ProofStands'
  <2>1. UNCHANGED <<serial, claim>>  BY <1>5 DEF LoseLease, directory
  <2>2. \A n \in Members : row'[n].key = row[n].key /\ row'[n].workspace = row[n].workspace
        BY <1>5 DEF LoseLease, Typed, TypeOK, Rows
  <2>3. \A c \in Claims : Continues(c)  BY <2>1 DEF Continues, ProofStands
  <2>4. QED  BY <2>1, <2>2, <2>3, NothingProved
<1>6. ASSUME NEW m \in Members, Reconcile(m) PROVE ProofStands'
  <2>1. UNCHANGED <<serial, claim>> /\ ~WorkerHeld  BY <1>6 DEF Reconcile
  <2>2. \A c \in Claims : Continues(c)  BY <2>1 DEF Continues, ProofStands
  <2>3. QED  BY <2>1, <2>2, NothingProved
<1>7. ASSUME NEW c \in Claims, NEW m \in Members, VerifyLicense(c, m) PROVE ProofStands'
  <2>1. UNCHANGED serial /\ ~WorkerHeld  BY <1>7 DEF VerifyLicense
  <2>2. \A b \in Claims : Continues(b)
        BY <1>7 DEF VerifyLicense, Continues, ProofStands, Typed, TypeOK
  <2>3. QED  BY <2>1, <2>2, NothingProved
<1>8. ASSUME NEW c \in Claims, NEW d \in Users, NEW s \in Services,
             AskBySerial(c, d, s) \/ AskBySession(c, d, s)
      PROVE  ProofStands'
  <2>1. UNCHANGED <<serial, row>>  BY <1>8 DEF AskBySerial, AskBySession, directory
  <2>2. \A b \in Claims : Continues(b)
        BY <1>8 DEF AskBySerial, AskBySession, Asks, Continues, ProofStands, Typed, TypeOK
  <2>3. QED  BY <2>1, <2>2, NothingProved
<1>9. ASSUME NEW c \in Claims, NEW d \in Users, AskByLicense(c, d) PROVE ProofStands'
  <2>1. UNCHANGED <<serial, row>>  BY <1>9 DEF AskByLicense, directory
  <2>2. \A b \in Claims : Continues(b)
        BY <1>9 DEF AskByLicense, Continues, ProofStands, Typed, TypeOK, ClaimState
  <2>3. QED  BY <2>1, <2>2, NothingProved
<1>10. ASSUME NEW c \in Claims, Bind(c) \/ Commit(c) \/ Abort(c) PROVE ProofStands'
  <2>1. UNCHANGED <<serial, row>>  BY <1>10 DEF Bind, Commit, Abort, directory
  <2>2. End(c) \/ (claim[c].pc = "locked" /\ claim' = [claim EXCEPT ![c].pc = "bound"])
        BY <1>10 DEF Bind, Commit, Abort
  <2>3. \A b \in Claims : Continues(b)
        BY <2>2 DEF End, Idle, Continues, ProofStands, Typed, TypeOK, ClaimState
  <2>4. QED  BY <2>1, <2>3, NothingProved
<1>11. CASE Next
       BY <1>2, <1>3, <1>4, <1>5, <1>6, <1>7, <1>8, <1>9, <1>10, <1>11, RotateProof, LockProof
       DEF Next
<1>12. CASE UNCHANGED vars  BY <1>1, <1>12 DEF vars, directory
<1>13. QED  BY <1>11, <1>12

(* A service is claimed with the serial or the key on record, and the      *)
(* licence still opens that very service.                                  *)
THEOREM CurrentKeyClaims == Spec => ClaimedByCurrentKey
<1> DEFINE A == \A c \in Claims :
                  LET k == claim[c]
                  IN  /\ k.pc = "bound" /\ k.kind # "session"
                      /\ binding[k.service] = None /\ binding'[k.service] = k.user
                      => CASE k.kind = "serial" -> serial[k.service] = k.version
                           [] k.kind = "license" -> row[k.member].key = k.version
                                                      /\ row[k.member].workspace = k.service
<1>1. ProofStands /\ Typed /\ [Next]_vars => [A]_vars
  <2> SUFFICES ASSUME ProofStands, Typed, NEW c \in Claims,
                      claim[c].pc = "bound", claim[c].kind # "session"
               PROVE  CASE claim[c].kind = "serial" ->
                             serial[claim[c].service] = claim[c].version
                        [] claim[c].kind = "license" ->
                             row[claim[c].member].key = claim[c].version
                               /\ row[claim[c].member].workspace = claim[c].service
      OBVIOUS
  <2>1. claim[c].kind \in {"serial", "license"}  BY DEF Typed, TypeOK, ClaimState
  <2>2. QED  BY <2>1 DEF ProofStands, InTransaction
<1>2. QED  BY <1>1, TypedInit, TypedStep, ProofInit, ProofStep, PTL DEF Spec, ClaimedByCurrentKey
=============================================================================
