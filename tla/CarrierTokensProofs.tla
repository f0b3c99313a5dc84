------------------------- MODULE CarrierTokensProofs -------------------------
(***************************************************************************)
(* Proofs about CarrierTokens, for any callers, lifetimes, margin and time-*)
(* out that satisfy TokenAssumption.                                       *)
(***************************************************************************)
EXTENDS CarrierTokens, TLAPS

(* What is left of each token is bounded from below by the time it may     *)
(* still be needed: of the one on its way, by the age of its request; of   *)
(* the cached one, by how long the cache will hand it out and a call then  *)
(* takes; of one in use, by what its call may still take.                  *)
LoadFresh == load # None /\ load.pc = "issued" => load.token.left >= load.token.life - load.age

CacheFresh ==
    cache # None /\ cache.token.life \in Bearable /\ cache.usable > 0 =>
        cache.token.left >= cache.usable + Timeout

CallsFresh ==
    \A c \in Callers :
        calls[c].pc = "sent" /\ calls[c].token.life \in Bearable =>
            calls[c].token.left >= Timeout + 1 - calls[c].age

TokenInv == TokensTypeOK /\ LoadFresh /\ CacheFresh /\ CallsFresh

(* None is told apart from what the variables hold.                        *)
LEMMA NoneApart ==
    ASSUME NEW x
    PROVE  /\ x \in Cache \ {None} => x.token \in Token /\ x.usable \in Nat
           /\ x \in Load \ {None} => /\ x.pc \in {"asked", "issued"} /\ x.age \in 0..Timeout
                                     /\ x.pc = "issued" => x.token \in Token
           /\ x \in Call => /\ x.pc \in {"idle", "waiting", "sent"}
                            /\ x.pc = "sent" => x.age \in 0..Timeout /\ x.token \in Token
BY DEF Cache, Load, Call

(* A lifetime of which the cache keeps the margin leaves a call its time.  *)
LEMMA MarginSuffices ==
    ASSUME NEW life \in Bearable, NEW left \in Nat, left >= life - Timeout
    PROVE  /\ left >= Usable(life) + Timeout
           /\ left >= Timeout + 1
BY TokenAssumption DEF Bearable, Usable

LEMMA LessTyped == ASSUME NEW n \in Nat PROVE Less(n) \in Nat /\ Less(n) >= n - 1 /\ Less(n) <= n
BY DEF Less

LEMMA AgedTyped ==
    ASSUME NEW token \in Token
    PROVE  /\ Aged(token) \in Token /\ Aged(token).life = token.life
           /\ Aged(token).left = Less(token.left)
BY LessTyped DEF Aged, Token

LEMMA TokensTyped == TokensInit => TokenInv
BY TokenAssumption DEF TokensInit, TokenInv, TokensTypeOK, LoadFresh, CacheFresh, CallsFresh, Cache, Load, Call,
    Idle

LEMMA UsableTyped == ASSUME NEW life \in Lifetimes PROVE Usable(life) \in Nat \ {0}
BY TokenAssumption DEF Usable

LEMMA TrackKeeps ==
    ASSUME TokenInv, NEW c \in Callers, Track(c) PROVE TokenInv'
<1> USE DEF TokenInv
<1>1. CASE Cached
  <2>1. calls' = [calls EXCEPT ![c] = Sent(cache.token)] /\ UNCHANGED <<cache, load>>
    BY <1>1 DEF Track
  <2>2. cache.token \in Token /\ cache.usable \in Nat \ {0}
    BY <1>1, NoneApart DEF Cached, TokensTypeOK
  <2>3. TokensTypeOK'
    BY <2>1, <2>2, TokenAssumption DEF TokensTypeOK, Sent, Call
  <2>4. CallsFresh'
    <3> SUFFICES ASSUME NEW d \in Callers, calls'[d].pc = "sent", calls'[d].token.life \in Bearable
                 PROVE  calls'[d].token.left >= Timeout + 1 - calls'[d].age
      BY DEF CallsFresh
    <3>1. CASE d = c
      <4>1. calls'[d] = Sent(cache.token)
        BY <3>1, <2>1 DEF TokensTypeOK
      <4>2. cache.token.left >= cache.usable + Timeout
        BY <4>1, <1>1 DEF Sent, CacheFresh, Cached
      <4> QED BY <4>1, <4>2, <2>2, TokenAssumption DEF Sent, Token
    <3>2. CASE d # c
      BY <3>2, <2>1 DEF CallsFresh, TokensTypeOK
    <3> QED BY <3>1, <3>2
  <2> QED BY <2>1, <2>3, <2>4 DEF LoadFresh, CacheFresh
<1>2. CASE ~Cached
  <2>1. calls' = [calls EXCEPT ![c] = Waiting] /\ UNCHANGED cache
    BY <1>2 DEF Track
  <2>2. load' = load \/ load' = [pc |-> "asked", age |-> 0]
    BY <1>2 DEF Track
  <2>3. TokensTypeOK'
    BY <2>1, <2>2, TokenAssumption DEF TokensTypeOK, Waiting, Call, Load
  <2>4. LoadFresh'
    BY <2>2 DEF LoadFresh
  <2>5. CallsFresh'
    BY <2>1 DEF CallsFresh, TokensTypeOK, Waiting
  <2> QED BY <2>1, <2>3, <2>4, <2>5 DEF CacheFresh
<1> QED BY <1>1, <1>2

LEMMA IssueKeeps == ASSUME TokenInv, Issue PROVE TokenInv'
<1> USE DEF TokenInv
<1>1. PICK life \in Lifetimes :
        load' = [pc |-> "issued", age |-> load.age, token |-> [life |-> life, left |-> life]]
  BY DEF Issue
<1>2. UNCHANGED <<cache, calls>> /\ load # None
  BY DEF Issue
<1>3. load.age \in 0..Timeout /\ life \in Nat
  BY <1>2, NoneApart, TokenAssumption DEF TokensTypeOK
<1>4. TokensTypeOK'
  BY <1>1, <1>2, <1>3 DEF TokensTypeOK, Load, Token
<1>5. LoadFresh'
  BY <1>1, <1>3 DEF LoadFresh
<1> QED BY <1>2, <1>4, <1>5 DEF CacheFresh, CallsFresh

LEMMA LoadedKeeps == ASSUME TokenInv, Loaded PROVE TokenInv'
<1> USE DEF TokenInv
<1>1. load # None /\ load.pc = "issued" /\ load' = None
  BY DEF Loaded
<1>2. /\ load.token \in Token /\ load.age \in 0..Timeout
      /\ load.token.life \in Lifetimes /\ load.token.left \in Nat /\ load.token.life \in Nat
  BY <1>1, NoneApart, TokenAssumption DEF TokensTypeOK, Token
<1>3. load.token.left >= load.token.life - Timeout
  BY <1>1, <1>2, TokenAssumption DEF LoadFresh
<1>4. cache' = [token |-> load.token, usable |-> Usable(load.token.life)]
  BY DEF Loaded
<1>5. ASSUME NEW c \in Callers
      PROVE  calls'[c] = IF calls[c] = Waiting THEN Sent(load.token) ELSE calls[c]
  BY DEF Loaded
<1>6. TokensTypeOK'
  <2>1. cache' \in Cache
    BY <1>2, <1>4, UsableTyped DEF Cache
  <2>2. Sent(load.token) \in Call
    BY <1>2, TokenAssumption DEF Sent, Call
  <2>3. calls' \in [Callers -> Call]
    BY <2>2 DEF Loaded, TokensTypeOK
  <2> QED BY <2>1, <2>3, <1>1 DEF TokensTypeOK, Load
<1>7. LoadFresh'
  BY <1>1 DEF LoadFresh
<1>8. CacheFresh'
  BY <1>2, <1>3, <1>4, MarginSuffices DEF CacheFresh
<1>9. CallsFresh'
  <2> SUFFICES ASSUME NEW c \in Callers, calls'[c].pc = "sent", calls'[c].token.life \in Bearable
               PROVE  calls'[c].token.left >= Timeout + 1 - calls'[c].age
    BY DEF CallsFresh
  <2>1. CASE calls[c] = Waiting
    <3>1. calls'[c] = Sent(load.token)
      BY <2>1, <1>5
    <3>2. load.token.life \in Bearable
      BY <3>1 DEF Sent
    <3>3. load.token.left >= Timeout + 1
      BY <3>2, <1>2, <1>3, MarginSuffices
    <3> QED BY <3>1, <3>3, TokenAssumption DEF Sent
  <2>2. CASE calls[c] # Waiting
    BY <2>2, <1>5 DEF CallsFresh
  <2> QED BY <2>1, <2>2
<1> QED BY <1>6, <1>7, <1>8, <1>9

LEMMA LoadFailsKeeps == ASSUME TokenInv, LoadFails PROVE TokenInv'
<1> USE DEF TokenInv
<1>1. TokensTypeOK'
  BY DEF LoadFails, TokensTypeOK, Load, Idle, Call
<1>2. CallsFresh'
  BY DEF LoadFails, CallsFresh, Idle
<1> QED BY <1>1, <1>2 DEF LoadFails, LoadFresh, CacheFresh

LEMMA AnsweredKeeps == ASSUME TokenInv, NEW c \in Callers, Answered(c) PROVE TokenInv'
<1> USE DEF TokenInv
<1>1. TokensTypeOK'
  BY DEF Answered, TokensTypeOK, Idle, Call
<1>2. CallsFresh'
  BY DEF Answered, CallsFresh, Idle, TokensTypeOK
<1> QED BY <1>1, <1>2 DEF Answered, LoadFresh, CacheFresh

(* A unit of time: every token ages by one, and with it the bound.         *)
LEMMA TickKeeps == ASSUME TokenInv, TokenTick PROVE TokenInv'
<1> USE DEF TokenInv
<1>1. cache' \in Cache /\ CacheFresh'
  <2>1. CASE cache = None
    BY <2>1 DEF TokenTick, Cache, CacheFresh
  <2>2. CASE cache # None
    <3>1. cache' = [token |-> Aged(cache.token), usable |-> Less(cache.usable)]
      BY <2>2 DEF TokenTick
    <3>2. cache.token \in Token /\ cache.usable \in Nat
      BY <2>2, NoneApart DEF TokensTypeOK
    <3>3. cache' \in Cache
      BY <3>1, <3>2, AgedTyped, LessTyped DEF Cache
    <3>4. CacheFresh'
      <4> SUFFICES ASSUME cache.token.life \in Bearable, Less(cache.usable) > 0
                   PROVE  Less(cache.token.left) >= Less(cache.usable) + Timeout
        BY <3>1, <3>2, AgedTyped DEF CacheFresh
      <4>1. cache.usable > 1 /\ Less(cache.usable) = cache.usable - 1
        BY <3>2 DEF Less
      <4>2. cache.token.left >= cache.usable + Timeout /\ cache.token.left \in Nat
        BY <2>2, <3>2, <4>1 DEF CacheFresh, Token
      <4> QED BY <4>1, <4>2, <3>2, TokenAssumption DEF Less
    <3> QED BY <3>3, <3>4
  <2> QED BY <2>1, <2>2
<1>2. load' \in Load /\ LoadFresh'
  <2>1. CASE load = None
    BY <2>1 DEF TokenTick, Load, LoadFresh
  <2>2. CASE load # None /\ load.pc = "asked"
    <3>1. load \in [pc : {"asked"}, age : 0..Timeout]
      BY <2>2 DEF TokensTypeOK, Load
    <3>2. load' = [load EXCEPT !.age = @ + 1] /\ load.age < Timeout
      BY <2>2 DEF TokenTick
    <3> QED BY <3>1, <3>2, TokenAssumption DEF Load, LoadFresh
  <2>3. CASE load # None /\ load.pc = "issued"
    <3>1. load \in [pc : {"issued"}, age : 0..Timeout, token : Token]
      BY <2>3 DEF TokensTypeOK, Load
    <3>2. load' = [load EXCEPT !.age = @ + 1, !.token = Aged(@)] /\ load.age < Timeout
      BY <2>3 DEF TokenTick
    <3>3. load.token \in Token /\ load.token.left \in Nat /\ load.token.life \in Nat
      BY <3>1, TokenAssumption DEF Token
    <3>4. load' \in Load
      <4>1. load.age + 1 \in 0..Timeout /\ Aged(load.token) \in Token
        BY <3>1, <3>2, <3>3, AgedTyped, TokenAssumption
      <4>2. load' \in [pc : {"issued"}, age : 0..Timeout, token : Token]
        BY <3>1, <3>2, <4>1
      <4> QED BY <4>2 DEF Load
    <3>5. /\ load'.token.life = load.token.life /\ load'.token.left = Less(load.token.left)
          /\ load'.age = load.age + 1
      BY <3>1, <3>2, <3>3, AgedTyped
    <3>6. load.token.left >= load.token.life - load.age
      BY <2>3 DEF LoadFresh
    <3>7. load.age \in Nat
      BY <3>1, TokenAssumption
    <3>8. LoadFresh'
      BY <3>3, <3>5, <3>6, <3>7, LessTyped DEF LoadFresh
    <3> QED BY <3>4, <3>8
  <2>4. load # None => load.pc \in {"asked", "issued"}
    BY NoneApart DEF TokensTypeOK
  <2> QED BY <2>1, <2>2, <2>3, <2>4
<1>3. calls' \in [Callers -> Call] /\ CallsFresh'
  <2>1. ASSUME NEW c \in Callers
        PROVE  /\ calls'[c] \in Call
               /\ calls'[c].pc = "sent" /\ calls'[c].token.life \in Bearable =>
                    calls'[c].token.left >= Timeout + 1 - calls'[c].age
    <3>1. CASE calls[c].pc = "sent"
      <4>1. calls[c] \in [pc : {"sent"}, age : 0..Timeout, token : Token]
        BY <3>1 DEF TokensTypeOK, Call
      <4>2. calls'[c] = [calls[c] EXCEPT !.age = @ + 1, !.token = Aged(@)] /\ calls[c].age < Timeout
        BY <3>1 DEF TokenTick
      <4>3. calls[c].token \in Token /\ calls[c].token.left \in Nat /\ calls[c].age \in Nat
        BY <4>1, TokenAssumption DEF Token
      <4>4. calls'[c] \in Call
        <5>1. calls[c].age + 1 \in 0..Timeout /\ Aged(calls[c].token) \in Token
          BY <4>1, <4>2, <4>3, AgedTyped, TokenAssumption
        <5>2. calls'[c] \in [pc : {"sent"}, age : 0..Timeout, token : Token]
          BY <4>1, <4>2, <5>1
        <5> QED BY <5>2 DEF Call
      <4>5. /\ calls'[c].token.life = calls[c].token.life
            /\ calls'[c].token.left = Less(calls[c].token.left)
            /\ calls'[c].age = calls[c].age + 1
        BY <4>1, <4>2, <4>3, AgedTyped
      <4>6. calls[c].token.life \in Bearable => calls[c].token.left >= Timeout + 1 - calls[c].age
        BY <3>1 DEF CallsFresh
      <4> QED BY <4>3, <4>4, <4>5, <4>6, LessTyped, TokenAssumption
    <3>2. CASE calls[c].pc # "sent"
      BY <3>2 DEF TokenTick, TokensTypeOK
    <3> QED BY <3>1, <3>2
  <2>2. calls' = [c \in Callers |-> calls'[c]]
    BY DEF TokenTick
  <2>3. \A c \in Callers : calls'[c] \in Call
    BY <2>1
  <2>4. calls' \in [Callers -> Call]
    BY <2>2, <2>3
  <2> QED BY <2>1, <2>4 DEF CallsFresh
<1> QED BY <1>1, <1>2, <1>3 DEF TokensTypeOK

LEMMA TokensLostKeeps == ASSUME TokensLost PROVE TokenInv'
BY TokenAssumption DEF TokensLost, TokenInv, TokensTypeOK, LoadFresh, CacheFresh, CallsFresh, Cache, Load, Call,
    Idle

(* The bounds hold in every behaviour.                                     *)
THEOREM TokensFresh == TokensSpec => []TokenInv
<1>1. TokenInv /\ [TokensNext]_tokenVars => TokenInv'
  <2> SUFFICES ASSUME TokenInv, [TokensNext]_tokenVars PROVE TokenInv'
    OBVIOUS
  <2>1. CASE UNCHANGED tokenVars
    BY <2>1 DEF tokenVars, TokenInv, TokensTypeOK, LoadFresh, CacheFresh, CallsFresh
  <2>2. CASE \E c \in Callers : Track(c) \/ Answered(c)
    BY <2>2, TrackKeeps, AnsweredKeeps
  <2> QED BY <2>1, <2>2, IssueKeeps, LoadedKeeps, LoadFailsKeeps, TickKeeps, TokensLostKeeps
          DEF TokensNext
<1> QED BY <1>1, TokensTyped, PTL DEF TokensSpec

(* Variables hold values of their types.                                   *)
THEOREM TokensTypeCorrect == TokensSpec => []TokensTypeOK
<1>1. TokenInv => TokensTypeOK
  BY DEF TokenInv
<1> QED BY <1>1, TokensFresh, PTL

(* No call is sent, or still under way, with a token that has run out.     *)
THEOREM NoStaleToken == TokensSpec => []TokenStillAccepted
<1>1. TokenInv => TokenStillAccepted
  <2> SUFFICES ASSUME TokenInv, NEW c \in Callers, calls[c].pc = "sent",
                      calls[c].token.life \in Bearable
               PROVE  calls[c].token.left > 0
    BY DEF TokenStillAccepted
  <2>1. calls[c].age \in 0..Timeout /\ calls[c].token \in Token
    BY NoneApart DEF TokenInv, TokensTypeOK
  <2>2. calls[c].token.left >= Timeout + 1 - calls[c].age
    BY DEF TokenInv, CallsFresh
  <2> QED BY <2>1, <2>2, TokenAssumption DEF Token
<1> QED BY <1>1, TokensFresh, PTL
=============================================================================
