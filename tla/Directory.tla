------------------------------ MODULE Directory ------------------------------
(***************************************************************************)
(* What linking services promises, with no proof, cookie, lock or refused  *)
(* transaction in sight: a service is opened once, as what it will always  *)
(* be, and is given in one instant to one Discord user, who from then on   *)
(* has a service to log in to.  A user owns one Solo service at most, but  *)
(* any number of ACO services.                                             *)
(* Identity.tla is shown to implement this.                                *)
(***************************************************************************)
CONSTANTS
    Users,      \* Discord identities
    Services,   \* services that may be opened
    None        \* "not open", "no owner", "no home"

VARIABLES
    product,    \* product[s]: "solo" or "aco", None before s is opened
    owner,      \* owner[s]: the user service s was given to
    home        \* home[d]: the service a login of d opens

directoryVars == <<product, owner, home>>

Init ==
    /\ product = [s \in Services |-> None]
    /\ owner = [s \in Services |-> None]
    /\ home = [d \in Users |-> None]

Open(s, p) ==
    /\ product[s] = None
    /\ product' = [product EXCEPT ![s] = p]
    /\ UNCHANGED <<owner, home>>

(* A Solo service only goes to a user who has no other.  There is no such  *)
(* condition on ACO services: linkLicense (auth/repository.ts:81-84) looks *)
(* for another service of the user for the Solo product only, while        *)
(* docs/architecture.md:147-148 speaks of one service of each product.     *)
MayOwn(d, s) == \A t \in Services \ {s} : owner[t] = d => product[t] # "solo"

(* A Solo service is opened for a user, who keeps a home there was.        *)
OpenFor(s, d) ==
    /\ product[s] = None
    /\ MayOwn(d, s)
    /\ product' = [product EXCEPT ![s] = "solo"]
    /\ owner' = [owner EXCEPT ![s] = d]
    /\ home' = [home EXCEPT ![d] = IF @ = None THEN s ELSE @]

(* An open service is given to a user, or claimed again by its owner, and  *)
(* becomes the user's home.                                                *)
Link(s, d) ==
    /\ product[s] # None
    /\ owner[s] \in {None, d}
    /\ product[s] = "solo" => MayOwn(d, s)
    /\ owner' = [owner EXCEPT ![s] = d]
    /\ home' = [home EXCEPT ![d] = s]
    /\ UNCHANGED product

Next ==
    \E s \in Services :
        \/ \E p \in {"solo", "aco"} : Open(s, p)
        \/ \E d \in Users : OpenFor(s, d) \/ Link(s, d)

Spec == Init /\ [][Next]_directoryVars
=============================================================================
