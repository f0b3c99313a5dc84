------------------------------ MODULE Identity ------------------------------
(***************************************************************************)
(* Who a service belongs to: Discord users claim Solo and ACO services by  *)
(* a Solo serial, by the session of an existing Solo account or by a Whop  *)
(* licence, while the owner's console rotates serials and Whop rotates     *)
(* keys and transfers memberships (auth/repository.ts, auth/discord.ts,    *)
(* solo/repository.ts, whop.ts).                                           *)
(*                                                                         *)
(* A claim is a proof, checked when it is given, and later a transaction   *)
(* with three waits: for what it checks, for the identity and the binding, *)
(* and for the account; its writes appear when it commits.  How long Whop  *)
(* takes to answer, leases and holds are in WhopAccess.                    *)
(***************************************************************************)
EXTENDS Integers, FiniteSets

CONSTANTS
    Users,          \* Discord identities
    Manual,         \* Solo services made on the owner's console
    Members,        \* Whop memberships
    ProductOf,      \* "solo" or "aco", which a membership remains here
    Buyers,         \* Whop users
    Workspaces,     \* the fresh ids of services Whop memberships pay for
    Claims,         \* requests that link a service
    None,
    MaxChanges      \* bound on rotations, transfers and lapses of access

ASSUME IdentityAssumption ==
    /\ None \notin Users \cup Manual \cup Members \cup Buyers \cup Workspaces \cup {"solo", "aco"}
    /\ Manual \cap Workspaces = {}
    /\ ProductOf \in [Members -> {"solo", "aco"}]
    /\ MaxChanges \in Nat

VARIABLES
    services,   \* workspaces that exist
    maker,      \* maker[w]: the membership a workspace was provisioned for
    account,    \* account[s]: solo_accounts.discord_id
    serial,     \* serial[s]: how often it was rotated; also session_version
    expired,    \* expired[s]: a console service past access_expires_at
    binding,    \* binding[s]: discord_bindings.discord_id
    default,    \* default[d]: discord_identities.default_workspace_id
    remote,     \* remote[m]: the membership as Whop has it
    row,        \* row[m]: the row of whop_memberships
    claim,      \* claim[c]: a request, its proof and how far it has got
    changes

directory == <<services, maker, account, serial, expired, binding, default>>
vars == <<directory, remote, row, claim, changes>>

Services == Manual \cup Workspaces
Versions == 0..MaxChanges
Solo(s) == s \in Manual \/ (s \in Workspaces /\ maker[s] # None /\ ProductOf[maker[s]] = "solo")

Remote == [user : Buyers, key : Versions, active : BOOLEAN]
Rows == [user : Buyers \cup {None}, workspace : Workspaces \cup {None},
         key : Versions \cup {None}, valid : BOOLEAN]
NoRow == [user |-> None, workspace |-> None, key |-> None, valid |-> FALSE]

ClaimState ==
    [pc : {"idle", "verified", "asked", "locked", "bound"},
     kind : {"serial", "session", "license"}, user : Users \cup {None},
     service : Services \cup {None}, member : Members \cup {None},
     version : Versions]        \* of the serial, the session or the key
Idle == [pc |-> "idle", kind |-> "serial", user |-> None, service |-> None,
         member |-> None, version |-> 0]

Init ==
    /\ services = {}
    /\ maker = [w \in Workspaces |-> None]
    /\ account = [s \in Services |-> None]
    /\ serial = [s \in Services |-> 0]
    /\ expired = [s \in Manual |-> FALSE]
    /\ binding = [s \in Services |-> None]
    /\ default = [d \in Users |-> None]
    /\ \E u \in Buyers :
         remote = [m \in Members |-> [user |-> u, key |-> 0, active |-> TRUE]]
    /\ row = [m \in Members |-> NoRow]
    /\ claim = [c \in Claims |-> Idle]
    /\ changes = 0

(* workspace_has_access, and access_expires_at for the console's services. *)
HasAccess(s) ==
    /\ s \in services
    /\ IF s \in Manual THEN ~expired[s]
       ELSE \E m \in Members : row[m].workspace = s /\ row[m].valid

-----------------------------------------------------------------------------
(* Locks.  In its transaction a claim by serial or session holds the       *)
(* account, a claim by licence the advisory lock of the Whop worker; once  *)
(* bound, a claim also holds the identity's row and the binding's.         *)
InTransaction(c) == claim[c].pc \in {"locked", "bound"}
AccountHeld(s, by) ==
    \E k \in by :
        InTransaction(k) /\ claim[k].service = s /\ claim[k].kind # "license"
WorkerHeld == \E c \in Claims : InTransaction(c) /\ claim[c].kind = "license"
IdentityHeld(d) == \E c \in Claims : claim[c].pc = "bound" /\ claim[c].user = d
BindingHeld(s) == \E c \in Claims : claim[c].pc = "bound" /\ claim[c].service = s

Change == changes < MaxChanges /\ changes' = changes + 1

-----------------------------------------------------------------------------
(* The owner's console.                                                    *)

(* provision, with the buyer's Discord identity or without one.            *)
Provision(s, d) ==
    /\ s \in Manual \ services
    /\ services' = services \cup {s}
    /\ IF d = None THEN UNCHANGED <<account, binding, default>>
       ELSE /\ ~IdentityHeld(d)
            /\ \A t \in Services : account[t] # d
            /\ account' = [account EXCEPT ![s] = d]
            /\ binding' = [binding EXCEPT ![s] = d]
            /\ default' = [default EXCEPT ![d] = IF @ = None THEN s ELSE @]
    /\ UNCHANGED <<maker, serial, expired, remote, row, claim, changes>>

(* rotateSerial: a new serial, and a new session version with it.          *)
RotateSerial(s) ==
    /\ s \in services /\ Solo(s)
    /\ ~AccountHeld(s, Claims)
    /\ Change
    /\ serial' = [serial EXCEPT ![s] = @ + 1]
    /\ UNCHANGED <<services, maker, account, expired, binding, default, remote, row, claim>>

Expire(s) ==
    /\ s \in services \cap Manual /\ ~expired[s]
    /\ Change
    /\ expired' = [expired EXCEPT ![s] = TRUE]
    /\ UNCHANGED <<services, maker, account, serial, binding, default, remote, row, claim>>

RenewAccess(s) ==
    /\ s \in services \cap Manual
    /\ ~AccountHeld(s, Claims)
    /\ expired' = [expired EXCEPT ![s] = FALSE]
    /\ UNCHANGED <<services, maker, account, serial, binding, default, remote, row, claim, changes>>

-----------------------------------------------------------------------------
(* Whop.                                                                   *)

RotateKey(m) ==
    /\ Change
    /\ remote' = [remote EXCEPT ![m].key = @ + 1]
    /\ UNCHANGED <<directory, row, claim>>

(* A transfer, with a new key or the old one.                              *)
Transfer(m) ==
    /\ Change
    /\ \E u \in Buyers \ {remote[m].user}, k \in {remote[m].key, remote[m].key + 1} :
         remote' = [remote EXCEPT ![m].user = u, ![m].key = k]
    /\ UNCHANGED <<directory, row, claim>>

(* The membership ends or starts again at Whop.                            *)
Lapse(m) ==
    /\ Change
    /\ remote' = [remote EXCEPT ![m].active = ~@]
    /\ UNCHANGED <<directory, row, claim>>

(* The lease runs out.                                                     *)
LoseLease(m) ==
    /\ row[m].valid
    /\ row' = [row EXCEPT ![m].valid = FALSE]
    /\ UNCHANGED <<directory, remote, claim, changes>>

KeepsWorkspace(m) == row[m].workspace # None /\ row[m].user = remote[m].user

(* applyMembership: what Whop says becomes the row, and a membership that  *)
(* is paid for and has no workspace gets a new, empty one.                 *)
Applied(m) ==
    LET kept == IF KeepsWorkspace(m) THEN row[m].workspace ELSE None
    IN  \E w \in Workspaces \cup {None} :
          /\ IF remote[m].active /\ kept = None
             THEN /\ w # None /\ w \notin services
                  /\ services' = services \cup {w}
                  /\ maker' = [maker EXCEPT ![w] = m]
             ELSE w = kept /\ UNCHANGED <<services, maker>>
          /\ row' = [row EXCEPT ![m] = [user |-> remote[m].user, workspace |-> w,
                        key |-> remote[m].key, valid |-> remote[m].active]]

(* The worker reconciles a membership.                                     *)
Reconcile(m) ==
    /\ ~WorkerHeld
    /\ Applied(m)
    /\ UNCHANGED <<account, serial, expired, binding, default, remote, claim, changes>>

-----------------------------------------------------------------------------
(* Proofs.                                                                 *)

Asks(c, kind, d, s, version) ==
    claim' = [claim EXCEPT ![c] = [pc |-> "asked", kind |-> kind, user |-> d, service |-> s,
                                   member |-> None, version |-> version]]

(* POST /link with a serial: bySerial finds its account.  Nobody has the   *)
(* first serial of a service that Whop pays for.                           *)
AskBySerial(c, d, s) ==
    /\ claim[c].pc = "idle"
    /\ Solo(s) /\ HasAccess(s)
    /\ s \in Manual \/ serial[s] > 0
    /\ Asks(c, "serial", d, s, serial[s])
    /\ UNCHANGED <<directory, remote, row, changes>>

(* resolve: the service a login opens without naming one.                  *)
Opens(d, s) == binding[s] = d /\ HasAccess(s) /\ (Solo(s) => account[s] = d)

(* The OAuth callback in a browser with a current Solo session, for a user *)
(* whose login opens no Solo service.                                      *)
AskBySession(c, d, s) ==
    /\ claim[c].pc = "idle"
    /\ s \in services /\ Solo(s) /\ HasAccess(s)
    /\ default[d] # None /\ Opens(d, default[d]) => ~Solo(default[d])
    /\ Asks(c, "session", d, s, serial[s])
    /\ UNCHANGED <<directory, remote, row, changes>>

(* Mutant of Verified: a key that opens nothing is accepted.               *)
VerifiedAlways(m) == TRUE

Verified(m) == remote[m].active

(* verifyLicense: the key is put to Whop, its answer applied, and what it  *)
(* opens is kept in a signed cookie for ten minutes.                       *)
VerifyLicense(c, m) ==
    /\ claim[c].pc = "idle"
    /\ ~WorkerHeld
    /\ Applied(m)
    /\ claim' = IF ~Verified(m) THEN claim
                ELSE [claim EXCEPT ![c] =
                        [pc |-> "verified", kind |-> "license", user |-> None,
                         service |-> row'[m].workspace, member |-> m, version |-> remote[m].key]]
    /\ UNCHANGED <<account, serial, expired, binding, default, remote, changes>>

(* Some Discord user signs in with the cookie.                             *)
AskByLicense(c, d) ==
    /\ claim[c].pc = "verified"
    /\ claim' = [claim EXCEPT ![c].pc = "asked", ![c].user = d]
    /\ UNCHANGED <<directory, remote, row, changes>>

-----------------------------------------------------------------------------
(* The transactions.                                                       *)

End(c) == claim' = [claim EXCEPT ![c] = Idle]

NoOtherSolo(d, s) == \A t \in Services \ {s} : account[t] # d

(* Mutant of Current: a licence is looked up by its membership only.       *)
CurrentMember(c) ==
    LET k == claim[c]
    IN  CASE k.kind = "serial" -> HasAccess(k.service) /\ serial[k.service] = k.version
          [] k.kind = "session" -> HasAccess(k.service)
          [] k.kind = "license" -> row[k.member].workspace = k.service /\ row[k.member].valid

(* What the transaction finds under its first lock.                        *)
Current(c) ==
    LET k == claim[c]
    IN  CASE k.kind = "serial" -> HasAccess(k.service) /\ serial[k.service] = k.version
          [] k.kind = "session" -> HasAccess(k.service)
          [] k.kind = "license" ->
               row[k.member].workspace = k.service /\ row[k.member].key = k.version
                 /\ row[k.member].valid

(* linkSolo, linkExistingSolo, linkLicense up to bindDiscord.              *)
Lock(c) ==
    LET k == claim[c]
        free == IF k.kind = "license" THEN ~WorkerHeld ELSE ~AccountHeld(k.service, Claims \ {c})
        accepted == /\ Current(c)
                    /\ k.kind # "license" => account[k.service] \in {None, k.user}
                    /\ Solo(k.service) => NoOtherSolo(k.user, k.service)
    IN
    /\ k.pc = "asked"
    /\ free
    /\ IF accepted THEN claim' = [claim EXCEPT ![c].pc = "locked"] ELSE End(c)
    /\ UNCHANGED <<directory, remote, row, changes>>

(* Mutant of Bindable: the upsert has no WHERE clause.                     *)
BindableAlways(s, d) == TRUE

Bindable(s, d) == binding[s] \in {None, d}

(* Mutant of Bind: the default is set before the binding is refused.       *)
BindDefaultFirst(c) ==
    LET k == claim[c]
    IN
    /\ k.pc = "locked"
    /\ ~IdentityHeld(k.user) /\ ~BindingHeld(k.service)
    /\ default' = [default EXCEPT ![k.user] = k.service]
    /\ IF Bindable(k.service, k.user)
       THEN claim' = [claim EXCEPT ![c].pc = "bound"]
       ELSE End(c)
    /\ UNCHANGED <<services, maker, account, serial, expired, binding, remote, row, changes>>

(* bindDiscord: the identity's row and the binding are written, and held.  *)
Bind(c) ==
    LET k == claim[c]
    IN
    /\ k.pc = "locked"
    /\ ~IdentityHeld(k.user) /\ ~BindingHeld(k.service)
    /\ IF Bindable(k.service, k.user)
       THEN claim' = [claim EXCEPT ![c].pc = "bound"]
       ELSE End(c)
    /\ UNCHANGED <<directory, remote, row, changes>>

(* Mutant of Unique: solo_accounts.discord_id is not unique.               *)
UniqueUnchecked(d, s) == TRUE

Unique(d, s) == NoOtherSolo(d, s)

(* Mutant of Linked: the account keeps no Discord identity.                *)
LinkedBindingOnly(s, d) ==
    /\ binding' = [binding EXCEPT ![s] = d]
    /\ default' = [default EXCEPT ![d] = s]
    /\ UNCHANGED account

Linked(s, d) ==
    /\ binding' = [binding EXCEPT ![s] = d]
    /\ default' = [default EXCEPT ![d] = s]
    /\ account' = IF Solo(s) THEN [account EXCEPT ![s] = d] ELSE account

(* The account is written, unless its index or another claim stands in the *)
(* way, and the transaction committed.                                     *)
Commit(c) ==
    LET k == claim[c]
    IN
    /\ k.pc = "bound"
    /\ Solo(k.service) => ~AccountHeld(k.service, Claims \ {c})
    /\ IF Solo(k.service) => Unique(k.user, k.service)
       THEN Linked(k.service, k.user)
       ELSE UNCHANGED <<account, binding, default>>
    /\ End(c)
    /\ UNCHANGED <<services, maker, serial, expired, remote, row, changes>>

(* A deadlock, a failed query, a stopped process, an expired cookie.       *)
Abort(c) ==
    /\ claim[c].pc # "idle"
    /\ End(c)
    /\ UNCHANGED <<directory, remote, row, changes>>

Next ==
    \/ \E s \in Manual, d \in Users \cup {None} : Provision(s, d)
    \/ \E s \in Services : RotateSerial(s)
    \/ \E s \in Manual : Expire(s) \/ RenewAccess(s)
    \/ \E m \in Members : RotateKey(m) \/ Transfer(m) \/ Lapse(m) \/ LoseLease(m) \/ Reconcile(m)
    \/ \E c \in Claims :
         \/ \E d \in Users, s \in Services : AskBySerial(c, d, s) \/ AskBySession(c, d, s)
         \/ \E m \in Members : VerifyLicense(c, m)
         \/ \E d \in Users : AskByLicense(c, d)
         \/ Lock(c) \/ Bind(c) \/ Commit(c) \/ Abort(c)

Spec == Init /\ [][Next]_vars

-----------------------------------------------------------------------------
(* Rows, accounts and claims have the values the schema and the code       *)
(* allow, and a claim names a service that exists.                         *)
TypeOK ==
    /\ services \subseteq Services
    /\ maker \in [Workspaces -> Members \cup {None}]
    /\ account \in [Services -> Users \cup {None}]
    /\ serial \in [Services -> Versions]
    /\ expired \in [Manual -> BOOLEAN]
    /\ binding \in [Services -> Users \cup {None}]
    /\ default \in [Users -> Services \cup {None}]
    /\ remote \in [Members -> Remote]
    /\ row \in [Members -> Rows]
    /\ claim \in [Claims -> ClaimState]
    /\ \A c \in Claims : claim[c].pc # "idle" => claim[c].service \in services
    /\ changes \in Versions

(* A Discord user has one Solo service, though claims of two services by   *)
(* the same user can pass the check for another one side by side           *)
(* (linkSolo, linkExistingSolo, linkLicense).                              *)
OneSoloService ==
    \A d \in Users : Cardinality({s \in Services : Solo(s) /\ binding[s] = d}) <= 1

(* The two places that name the owner of a Solo service, written by five   *)
(* operations, say the same; a login refuses a service on which they do    *)
(* not (resolve).                                                          *)
AccountFollowsBinding == \A s \in Services : Solo(s) => account[s] = binding[s]

(* A user who owns a service has a default one to log in to, and it is the *)
(* user's own (resolve joins the default with the binding).                *)
DefaultIsOwn ==
    \A d \in Users :
        IF \E s \in Services : binding[s] = d
        THEN default[d] # None /\ binding[default[d]] = d
        ELSE default[d] = None

(* "key rotation invalidates pending claims" (discord-whop.test.ts): when  *)
(* a claim by serial or licence gives a service its owner, the proof is    *)
(* the one on record, and the licence still opens that very service.       *)
ClaimedByCurrentKey ==
    [][\A c \in Claims :
         LET k == claim[c]
         IN  /\ k.pc = "bound" /\ k.kind # "session"
             /\ binding[k.service] = None /\ binding'[k.service] = k.user
             => CASE k.kind = "serial" -> serial[k.service] = k.version
                  [] k.kind = "license" -> row[k.member].key = k.version
                                             /\ row[k.member].workspace = k.service]_vars

(* A service as the directory has it: not open yet, Solo or ACO.           *)
ProductNow(s) ==
    IF s \notin services THEN None ELSE IF Solo(s) THEN "solo" ELSE "aco"

(* "Each service is linked to one Discord identity"                        *)
(* (docs/solo-buyers.md): a claim's proof, locks and three statements,     *)
(* interleaved with other claims of the same user or the same service,     *)
(* give the service in one instant, to its first owner and for good        *)
(* (bindDiscord, linkLicense).  That a user may own several ACO services,  *)
(* where docs/architecture.md:147-148 speaks of one, is in both.           *)
Registry == INSTANCE Directory WITH
    product <- [s \in Services |-> ProductNow(s)], owner <- binding, home <- default

ImplementsDirectory == Registry!Spec
=============================================================================
