---------------------------- MODULE CarrierTokens ----------------------------
(***************************************************************************)
(* The access token of a carrier adapter (tracking/providers.ts): calls of *)
(* track share one cached token and one pending request for a new one.     *)
(* UPS, USPS and FedEx have a cache each and share nothing, so one adapter *)
(* that is configured stands for the three.                                *)
(*                                                                         *)
(* Time is counted in units.  What is left of a token is counted by the    *)
(* carrier's clock, from the moment it issues it; how long the cache will  *)
(* hand it out, from the moment the answer is read.                        *)
(***************************************************************************)
EXTENDS Integers

CONSTANTS
    Callers,    \* calls of track that may run at once
    Lifetimes,  \* what expires_in may say, 900 s when it says nothing
    Margin,     \* 60 s
    Timeout,    \* REQUEST_TIMEOUT_MS
    None

ASSUME TokenAssumption ==
    /\ Lifetimes \subseteq Nat \ {0}
    /\ Timeout \in Nat \ {0} /\ Margin \in Nat
    /\ 2 * Timeout <= Margin

VARIABLES
    cache,   \* accessToken and expiresAt of OAuthTokenCache
    load,    \* its pending request for a token
    calls    \* the calls of track

tokenVars == <<cache, load, calls>>

(* A token is told by its lifetime and by what is left of it.              *)
Token == [life : Lifetimes, left : Nat]
Cache == [token : Token, usable : Nat] \cup {None}
Load == [pc : {"asked"}, age : 0..Timeout]
          \cup [pc : {"issued"}, age : 0..Timeout, token : Token] \cup {None}
Call == [pc : {"idle", "waiting"}] \cup [pc : {"sent"}, age : 0..Timeout, token : Token]

Idle == [pc |-> "idle"]
Waiting == [pc |-> "waiting"]
Sent(token) == [pc |-> "sent", age |-> 0, token |-> token]

TokensInit ==
    /\ cache = None
    /\ load = None
    /\ calls = [c \in Callers |-> Idle]

(* Mutant of Usable: the margin is not taken off.                          *)
UsableToTheEnd(life) == life

(* Math.max(1, expiresIn - 60)                                             *)
Usable(life) == IF life - Margin > 1 THEN life - Margin ELSE 1

Cached == cache # None /\ cache.usable > 0

(* track, as far as its call of get: the cached token is used at once; a   *)
(* call that finds none joins the pending request or starts one.           *)
Track(c) ==
    /\ calls[c] = Idle
    /\ calls' = [calls EXCEPT ![c] = IF Cached THEN Sent(cache.token) ELSE Waiting]
    /\ load' = IF Cached \/ load # None THEN load ELSE [pc |-> "asked", age |-> 0]
    /\ UNCHANGED cache

(* The carrier issues a token; its answer is on the way.                   *)
Issue ==
    /\ load # None /\ load.pc = "asked"
    /\ \E life \in Lifetimes :
         load' = [pc |-> "issued", age |-> load.age,
                  token |-> [life |-> life, left |-> life]]
    /\ UNCHANGED <<cache, calls>>

(* The answer is read: the token is cached, and every call that waited for *)
(* it goes on with it.                                                     *)
Loaded ==
    /\ load # None /\ load.pc = "issued"
    /\ cache' = [token |-> load.token, usable |-> Usable(load.token.life)]
    /\ load' = None
    /\ calls' = [c \in Callers |->
                    IF calls[c] = Waiting THEN Sent(load.token) ELSE calls[c]]

(* The request times out, is refused or brings no token: every call that   *)
(* waited fails, and the next one starts another request.                  *)
LoadFails ==
    /\ load # None
    /\ load' = None
    /\ calls' = [c \in Callers |-> IF calls[c] = Waiting THEN Idle ELSE calls[c]]
    /\ UNCHANGED cache

(* The carrier has answered the call, or it timed out.  A refusal (401) is *)
(* an error like any other: the token stays in the cache.                  *)
Answered(c) ==
    /\ calls[c].pc = "sent"
    /\ calls' = [calls EXCEPT ![c] = Idle]
    /\ UNCHANGED <<cache, load>>

Less(n) == IF n > 0 THEN n - 1 ELSE 0
Aged(token) == [token EXCEPT !.left = Less(@)]

(* AbortSignal.timeout ends a request, its body included, in time.         *)
TokenTick ==
    /\ load # None => load.age < Timeout
    /\ \A c \in Callers : calls[c].pc = "sent" => calls[c].age < Timeout
    /\ cache' = IF cache = None THEN None
                ELSE [token |-> Aged(cache.token), usable |-> Less(cache.usable)]
    /\ load' = IF load = None THEN None
               ELSE IF load.pc = "asked" THEN [load EXCEPT !.age = @ + 1]
               ELSE [load EXCEPT !.age = @ + 1, !.token = Aged(@)]
    /\ calls' = [c \in Callers |->
                    IF calls[c].pc = "sent"
                    THEN [calls[c] EXCEPT !.age = @ + 1, !.token = Aged(@)]
                    ELSE calls[c]]

(* The process stops: the token was only in its memory.                    *)
TokensLost ==
    /\ cache' = None
    /\ load' = None
    /\ calls' = [c \in Callers |-> Idle]

TokensNext ==
    \/ \E c \in Callers : Track(c) \/ Answered(c)
    \/ Issue \/ Loaded \/ LoadFails \/ TokenTick \/ TokensLost

TokensSpec == TokensInit /\ [][TokensNext]_tokenVars

-----------------------------------------------------------------------------
TokensTypeOK ==
    /\ cache \in Cache
    /\ load \in Load
    /\ calls \in [Callers -> Call]

(* The shortest lifetime the margin is made for: the token's answer and    *)
(* the call may each take a time-out, and the cache hands a token out for  *)
(* one unit at least.                                                      *)
Bearable == {life \in Lifetimes : life >= 2 * Timeout + 1}

(* No call reaches the carrier with a token that has run out, however late *)
(* the token's answer and the call itself were: nothing takes a refused    *)
(* token out of the cache.                                                 *)
TokenStillAccepted ==
    \A c \in Callers :
        calls[c].pc = "sent" /\ calls[c].token.life \in Bearable => calls[c].token.left > 0
=============================================================================
