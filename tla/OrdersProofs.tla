---------------------------- MODULE OrdersProofs ----------------------------
(***************************************************************************)
(* What holds of the orders whatever the mails, the carriers' answers, the *)
(* parser versions and the interleaving of the two writers: the rows have  *)
(* their types, an order's status is the furthest of its timeline, and its *)
(* shipment is not ahead of it.                                            *)
(***************************************************************************)
EXTENDS Orders, FiniteSetTheorems, TLAPS

(* Ranks are numbers, and None is none of the statuses.                    *)
LEMMA RankType ==
    \A s \in Statuses : Rank[s] \in 1..6 /\ s # None
BY OrdersAssumption DEF Statuses, Rank

(* What the parser reads in a mail is a status.                            *)
LEMMA ReadType ==
    ASSUME RowsOK, NEW m \in Mails
    PROVE  Read(m) \in Statuses
BY OrdersAssumption DEF RowsOK, Read

(* Later returns one of its arguments, the furthest.                       *)
LEMMA LaterFurthest ==
    ASSUME NEW old \in Statuses \cup {None}, NEW new \in Statuses
    PROVE  /\ Later(old, new) \in Statuses
           /\ Later(old, new) = new \/ (Later(old, new) = old /\ old # None)
           /\ Rank[new] <= Rank[Later(old, new)]
           /\ old # None => Rank[old] <= Rank[Later(old, new)]
<1>1. CASE old = None  BY <1>1, RankType DEF Later
<1>2. CASE old # None
  <2>1. Rank[old] \in 1..6 /\ Rank[new] \in 1..6  BY <1>2, RankType
  <2>2. CASE Rank[new] >= Rank[old]  BY <1>2, <2>1, <2>2 DEF Later
  <2>3. CASE ~(Rank[new] >= Rank[old])  BY <1>2, <2>1, <2>3 DEF Later
  <2>4. QED  BY <2>2, <2>3
<1>3. QED  BY <1>1, <1>2

(* Later is monotone in its first argument.                                *)
LEMMA LaterMonotone ==
    ASSUME NEW a \in Statuses, NEW b \in Statuses, NEW new \in Statuses,
           Rank[a] <= Rank[b]
    PROVE  Rank[Later(a, new)] <= Rank[Later(b, new)]
<1>1. Rank[a] \in 1..6 /\ Rank[b] \in 1..6 /\ Rank[new] \in 1..6 /\ a # None /\ b # None
      BY RankType
<1>2. CASE Rank[new] >= Rank[b]  BY <1>1, <1>2 DEF Later
<1>3. CASE ~(Rank[new] >= Rank[b])
  <2>1. Later(b, new) = b  BY <1>1, <1>3 DEF Later
  <2>2. CASE Rank[new] >= Rank[a]  BY <1>1, <1>3, <2>1, <2>2 DEF Later
  <2>3. CASE ~(Rank[new] >= Rank[a])  BY <1>1, <2>1, <2>3 DEF Later
  <2>4. QED  BY <2>2, <2>3
<1>4. QED  BY <1>2, <1>3

(* The order of a mail is one of the keys.                                 *)
LEMMA OrderOfType ==
    ASSUME NEW m \in Mails
    PROVE  OrderOf(m) \in Keys
<1>1. NumberOf[m] # None => NumberOf[m] \in Keys  BY OrdersAssumption DEF Keys
<1>2. NumberOf[m] = None => TrackOf[m] \in Keys  BY OrdersAssumption DEF Keys
<1>3. (\E k \in Keys : shipment[k].track = TrackOf[m])
        => (CHOOSE k \in Keys : shipment[k].track = TrackOf[m]) \in Keys
      OBVIOUS
<1>4. QED  BY <1>1, <1>2, <1>3 DEF OrderOf

(* Touching a shipment keeps the ages within the number of orders.         *)
LEMMA TouchType ==
    ASSUME RowsOK, NEW k \in Keys
    PROVE  Touch(k) \in [Keys -> 0..Cardinality(Keys)]
<1>1. Cardinality(Keys) \in Nat  BY OrdersAssumption, FS_CardinalityType DEF Keys
<1>2. QED  BY <1>1 DEF RowsOK, Touch

(* What a poll lists are orders and their tracking numbers.                *)
LEMMA ListedType ==
    ASSUME NEW K \in SUBSET Keys, \A k \in K : shipment[k].track \in Tracks
    PROVE  Listed(K) \in SUBSET [order : Keys, track : Tracks]
BY DEF Listed

-----------------------------------------------------------------------------
LEMMA RowsInit == Init => RowsOK
<1> SUFFICES ASSUME Init PROVE RowsOK  OBVIOUS
<1>1. NoShipment \in Shipments  BY DEF NoShipment, Shipments, Statuses, Rank
<1>2. version \in 1..Len(StatusOf)  BY OrdersAssumption DEF Init
<1>3. Cardinality(Keys) \in Nat  BY OrdersAssumption, FS_CardinalityType DEF Keys
<1>4. QED  BY <1>1, <1>2, <1>3 DEF Init, RowsOK, NoMail, NoPoll

(* The tail of a carrier's poll without a transaction.                     *)
LEMMA IdleCarrier ==
    ASSUME RowsOK
    PROVE  [NoPoll EXCEPT !.todo = carrier.todo] \in
              [todo : SUBSET [order : Keys, track : Tracks], order : {None},
               track : {None}, snapshot : {None}]
BY DEF RowsOK, NoPoll

LEMMA RowsStep == RowsOK /\ [Next]_vars => RowsOK'
<1> SUFFICES ASSUME RowsOK, [Next]_vars PROVE RowsOK'  OBVIOUS
<1>0. CASE BeginSync  BY <1>0 DEF BeginSync, RowsOK
<1>1. ASSUME NEW m \in Mails, MailOrder(m) PROVE RowsOK'
  <2>1. mail' \in [m : Mails, order : Keys]  BY <1>1, OrderOfType DEF MailOrder
  <2>2. QED  BY <1>1, <2>1 DEF MailOrder, RowsOK, NoMail
<1>2. CASE MailCommit
  <2> DEFINE m == mail.m
             k == mail.order
  <2>1. m \in Mails /\ k \in Keys  BY <1>2 DEF MailCommit, RowsOK
  <2>2. Read(m) \in Statuses  BY <2>1, ReadType
  <2>3. shipment' \in [Keys -> Shipments]
    <3>1. CASE TrackOf[m] = None  BY <1>2, <3>1 DEF MailCommit, RowsOK
    <3>2. CASE TrackOf[m] # None
      <4> DEFINE now == [track |-> TrackOf[m],
                         status |-> IF shipment[k].track = None THEN Read(m)
                                    ELSE Later(shipment[k].status, Read(m))]
      <4>1. TrackOf[m] \in Tracks  BY <2>1, <3>2, OrdersAssumption
      <4>2. shipment[k].status \in Statuses  BY <2>1 DEF RowsOK, Shipments
      <4>3. Later(shipment[k].status, Read(m)) \in Statuses
            BY <2>2, <4>2, LaterFurthest
      <4>4. now \in Shipments  BY <2>2, <4>1, <4>3 DEF Shipments
      <4>5. shipment' = [shipment EXCEPT ![k] = now]  BY <1>2, <3>2 DEF MailCommit
      <4> HIDE DEF now
      <4>6. QED  BY <2>1, <4>4, <4>5 DEF RowsOK
    <3>3. QED  BY <3>1, <3>2
  <2>4. status' \in [Keys -> Statuses \cup {None}]
    <3>1. Later(status[k], Read(m)) \in Statuses  BY <2>1, <2>2, LaterFurthest DEF RowsOK
    <3>2. status' = [status EXCEPT ![k] = Later(status[k], Read(m))]  BY <1>2 DEF MailCommit
    <3>3. QED  BY <3>1, <3>2 DEF RowsOK
  <2>5. events' \subseteq Events  BY <1>2, <2>1, <2>2 DEF MailCommit, RowsOK, Events
  <2>6. age' \in [Keys -> 0..Cardinality(Keys)]
        BY <1>2, <2>1, TouchType DEF MailCommit, RowsOK
  <2>7. QED  BY <1>2, <2>1, <2>3, <2>4, <2>5, <2>6 DEF MailCommit, RowsOK
<1>3. CASE MailAbort  BY <1>3 DEF MailAbort, RowsOK
<1>4. CASE Poll
  <2> DEFINE active == {k \in Keys : Active(k)}
             Older(k) == {j \in active : age[j] > age[k]}
             list == Listed({k \in active : Cardinality(Older(k)) < MaxShipments})
  <2>1. \A k \in active : shipment[k].track \in Tracks
        BY DEF RowsOK, Shipments, Active
  <2> DEFINE oldest == {k \in active : Cardinality(Older(k)) < MaxShipments}
  <2>2. list \in SUBSET [order : Keys, track : Tracks]
    <3>1. oldest \in SUBSET Keys /\ \A k \in oldest : shipment[k].track \in Tracks  BY <2>1
    <3> HIDE DEF oldest
    <3>2. Listed(oldest) \in SUBSET [order : Keys, track : Tracks]  BY <3>1, ListedType
    <3>3. QED  BY <3>2 DEF oldest
  <2>3. carrier' = [NoPoll EXCEPT !.todo = list]  BY <1>4 DEF Poll
  <2> HIDE DEF list
  <2>4. carrier' \in [todo : SUBSET [order : Keys, track : Tracks], order : {None},
                     track : {None}, snapshot : {None}]
        BY <2>2, <2>3 DEF NoPoll
  <2>5. QED  BY <1>4, <2>4 DEF Poll, RowsOK
<1>5. CASE CarrierShipment
  <2>1. PICK listed \in carrier.todo, s \in CarrierStatuses :
          carrier' = [todo |-> carrier.todo \ {listed}, order |-> listed.order,
                      track |-> listed.track, snapshot |-> s]
        BY <1>5 DEF CarrierShipment
  <2>2. listed \in [order : Keys, track : Tracks]  BY DEF RowsOK
  <2>3. carrier' \in [todo : SUBSET [order : Keys, track : Tracks], order : Keys,
                      track : Tracks, snapshot : CarrierStatuses]
        BY <2>1, <2>2 DEF RowsOK
  <2>4. QED  BY <1>5, <2>3 DEF CarrierShipment, RowsOK
<1>6. CASE CarrierSkip
  <2>1. PICK listed \in carrier.todo : carrier' = [carrier EXCEPT !.todo = @ \ {listed}]
        BY <1>6 DEF CarrierSkip
  <2>2. carrier \in [todo : SUBSET [order : Keys, track : Tracks], order : {None},
                    track : {None}, snapshot : {None}]
        BY <1>6, OrdersAssumption DEF CarrierSkip, RowsOK, Keys
  <2>3. carrier' \in [todo : SUBSET [order : Keys, track : Tracks], order : {None},
                     track : {None}, snapshot : {None}]
        BY <2>1, <2>2
  <2>4. QED  BY <1>6, <2>3 DEF CarrierSkip, RowsOK
<1>7. CASE CarrierCommit
  <2> DEFINE k == carrier.order
             s == carrier.snapshot
  <2>1. k \in Keys /\ s \in Statuses /\ carrier.track \in Tracks
        BY <1>7, OrdersAssumption DEF CarrierCommit, RowsOK
  <2>2. shipment' \in [Keys -> Shipments]
    <3>1. shipment[k] \in Shipments /\ shipment[k].status \in Statuses
          BY <2>1 DEF RowsOK, Shipments
    <3>2. Later(shipment[k].status, s) \in Statuses  BY <2>1, <3>1, LaterFurthest
    <3>3. shipment' = [shipment EXCEPT ![k].status = Later(shipment[k].status, s)]
          BY <1>7 DEF CarrierCommit
    <3>4. QED  BY <2>1, <3>1, <3>2, <3>3 DEF RowsOK, Shipments
  <2>3. status' \in [Keys -> Statuses \cup {None}]
    <3>1. Later(status[k], s) \in Statuses  BY <2>1, LaterFurthest DEF RowsOK
    <3>2. status' = [status EXCEPT ![k] = Later(status[k], s)]  BY <1>7 DEF CarrierCommit
    <3>3. QED  BY <3>1, <3>2 DEF RowsOK
  <2>4. events' \subseteq Events  BY <1>7, <2>1 DEF CarrierCommit, RowsOK, Events
  <2>5. age' \in [Keys -> 0..Cardinality(Keys)]
        BY <1>7, <2>1, TouchType DEF CarrierCommit
  <2>6. QED  BY <1>7, <2>2, <2>3, <2>4, <2>5, IdleCarrier DEF CarrierCommit, RowsOK
<1>8. CASE CarrierAbort  BY <1>8, IdleCarrier DEF CarrierAbort, RowsOK
<1>9. CASE Restart  BY <1>9 DEF Restart, RowsOK, NoPoll
<1>10. CASE Upgrade
  <2>1. version' \in 1..Len(StatusOf)  BY <1>10, OrdersAssumption DEF Upgrade, RowsOK
  <2>2. QED  BY <1>10, <2>1 DEF Upgrade, RowsOK, NoPoll
<1>11. CASE UNCHANGED vars  BY <1>11 DEF vars, RowsOK
<1>12. QED
      BY <1>0, <1>1, <1>2, <1>3, <1>4, <1>5, <1>6, <1>7, <1>8, <1>9, <1>10, <1>11 DEF Next, ReadMail

-----------------------------------------------------------------------------
(* The furthest-status invariant, per order, so that a step's case need    *)
(* look at one order only.                                                 *)
Told(k) == {e.status : e \in {f \in events : f.order = k}}

Furthest(k) ==
    IF Told(k) = {} THEN status[k] = None
    ELSE status[k] \in Told(k) /\ \A s \in Told(k) : Rank[s] <= Rank[status[k]]

LEMMA FurthestIsInv == StatusIsFurthest <=> \A k \in Keys : Furthest(k)
BY DEF StatusIsFurthest, Furthest, Told

(* One event more, and the status it makes, keep an order's status the     *)
(* furthest; the other orders see neither.                                 *)
LEMMA FurthestKept ==
    ASSUME RowsOK, StatusIsFurthest, NEW k \in Keys, NEW s \in Statuses,
           NEW from \in Mails \cup Tracks,
           status' = [status EXCEPT ![k] = Later(status[k], s)],
           events' = events \cup {[order |-> k, status |-> s, source |-> from]}
    PROVE  StatusIsFurthest'
<1> SUFFICES ASSUME NEW j \in Keys PROVE Furthest(j)'
    BY DEF StatusIsFurthest, Furthest, Told
<1>1. Furthest(j)  BY FurthestIsInv
<1>2. CASE j # k
  <2>1. Told(j)' = Told(j)  BY <1>2 DEF Told
  <2>2. status'[j] = status[j]  BY <1>2 DEF RowsOK
  <2>3. QED  BY <1>1, <2>1, <2>2 DEF Furthest
<1>3. CASE j = k
  <2>1. Told(k)' = Told(k) \cup {s}
    <3> DEFINE new == [order |-> k, status |-> s, source |-> from]
    <3>1. new.order = k /\ new.status = s  OBVIOUS
    <3>2. {f \in events' : f.order = k} = {f \in events : f.order = k} \cup {new}
          BY <3>1
    <3> HIDE DEF new
    <3>3. QED  BY <3>1, <3>2 DEF Told
  <2>2. status'[k] = Later(status[k], s)  BY DEF RowsOK
  <2>3. status[k] \in Statuses \cup {None}  BY DEF RowsOK
  <2>4. Told(k) \subseteq Statuses  BY DEF Told, RowsOK, Events
  <2>5. /\ status'[k] \in Statuses
        /\ status'[k] = s \/ (status'[k] = status[k] /\ status[k] # None)
        /\ Rank[s] <= Rank[status'[k]]
        /\ status[k] # None => Rank[status[k]] <= Rank[status'[k]]
        BY <2>2, <2>3, LaterFurthest
  <2>6. status'[k] \in Told(k)'  BY <1>1, <1>3, <2>1, <2>5 DEF Furthest
  <2>7. ASSUME NEW t \in Told(k) PROVE Rank[t] <= Rank[status'[k]]
    <3>1. status[k] # None /\ Rank[t] <= Rank[status[k]]
          BY <1>1, <1>3, <2>4, RankType DEF Furthest
    <3>2. Rank[t] \in 1..6 /\ Rank[status[k]] \in 1..6 /\ Rank[status'[k]] \in 1..6
          BY <2>3, <2>4, <2>5, <3>1, RankType
    <3>3. QED  BY <2>5, <3>1, <3>2
  <2>8. QED  BY <1>3, <2>1, <2>5, <2>6, <2>7 DEF Furthest
<1>4. QED  BY <1>2, <1>3

(* Only the two commits change what the other properties speak of.         *)
LEMMA OthersKeep ==
    ASSUME [Next]_vars, ~MailCommit, ~CarrierCommit
    PROVE  /\ UNCHANGED <<status, shipment, events>>
           /\ \/ recorded' = recorded /\ version' = version
              \/ recorded' = {}
<1>1. ASSUME NEW m \in Mails, MailOrder(m)
      PROVE  UNCHANGED <<status, shipment, events, recorded, version>>
      BY <1>1 DEF MailOrder
<1>2. CASE BeginSync \/ MailAbort  BY <1>2 DEF BeginSync, MailAbort
<1>3. CASE Poll  BY <1>3 DEF Poll
<1>4. CASE CarrierShipment  BY <1>4 DEF CarrierShipment
<1>5. CASE CarrierSkip  BY <1>5 DEF CarrierSkip
<1>6. CASE CarrierAbort  BY <1>6 DEF CarrierAbort
<1>7. CASE Restart  BY <1>7 DEF Restart
<1>8. CASE Upgrade  BY <1>8 DEF Upgrade
<1>9. CASE UNCHANGED vars  BY <1>9 DEF vars
<1>10. QED  BY <1>1, <1>2, <1>3, <1>4, <1>5, <1>6, <1>7, <1>8, <1>9 DEF Next, ReadMail

(* What a commit works on.                                                 *)
LEMMA MailCommitTypes ==
    ASSUME RowsOK, MailCommit
    PROVE  mail.m \in Mails /\ mail.order \in Keys /\ Read(mail.m) \in Statuses
<1>1. mail.m \in Mails /\ mail.order \in Keys  BY DEF MailCommit, RowsOK
<1>2. QED  BY <1>1, ReadType

LEMMA CarrierCommitTypes ==
    ASSUME RowsOK, CarrierCommit
    PROVE  carrier.order \in Keys /\ carrier.snapshot \in Statuses /\ carrier.track \in Tracks
BY OrdersAssumption DEF CarrierCommit, RowsOK

LEMMA FurthestStep == RowsOK /\ StatusIsFurthest /\ [Next]_vars => StatusIsFurthest'
<1> SUFFICES ASSUME RowsOK, StatusIsFurthest, [Next]_vars PROVE StatusIsFurthest'
    OBVIOUS
<1>1. CASE MailCommit
      BY <1>1, MailCommitTypes, FurthestKept DEF MailCommit
<1>2. CASE CarrierCommit
      BY <1>2, CarrierCommitTypes, FurthestKept DEF CarrierCommit
<1>3. CASE ~MailCommit /\ ~CarrierCommit
      BY <1>3, OthersKeep DEF StatusIsFurthest
<1>4. QED  BY <1>1, <1>2, <1>3

(* An order and its shipment, both moved by the same status, keep their    *)
(* order: Later is monotone.                                               *)
LEMMA NotAheadStep == RowsOK /\ ShipmentNotAhead /\ [Next]_vars => ShipmentNotAhead'
<1> SUFFICES ASSUME RowsOK, ShipmentNotAhead, [Next]_vars,
                    NEW j \in Keys, shipment'[j].track # None
             PROVE  status'[j] # None /\ Rank[shipment'[j].status] <= Rank[status'[j]]
    BY DEF ShipmentNotAhead
<1> DEFINE NotAhead == status[j] # None /\ Rank[shipment[j].status] <= Rank[status[j]]
<1>1. shipment[j].track # None => NotAhead  BY DEF ShipmentNotAhead
<1>2. shipment[j].status \in Statuses /\ status[j] \in Statuses \cup {None}
      BY DEF RowsOK, Shipments
<1>3. CASE MailCommit
  <2> DEFINE m == mail.m
             k == mail.order
  <2>1. m \in Mails /\ k \in Keys /\ Read(m) \in Statuses  BY <1>3, MailCommitTypes
  <2>2. status' = [status EXCEPT ![k] = Later(status[k], Read(m))]  BY <1>3 DEF MailCommit
  <2>3. CASE j # k
    <3>1. status'[j] = status[j]  BY <2>2, <2>3 DEF RowsOK
    <3>2. shipment'[j] = shipment[j]  BY <1>3, <2>1, <2>3 DEF MailCommit, RowsOK
    <3>3. QED  BY <1>1, <3>1, <3>2
  <2>4. CASE j = k
    <3>1. status'[j] = Later(status[j], Read(m))  BY <2>1, <2>2, <2>4 DEF RowsOK
    <3>2. /\ status'[j] \in Statuses /\ status'[j] # None
          /\ Rank[Read(m)] <= Rank[status'[j]]
          /\ status[j] # None => Rank[status[j]] <= Rank[status'[j]]
          BY <1>2, <2>1, <3>1, LaterFurthest, RankType
    <3>3. CASE TrackOf[m] = None
      <4>1. shipment'[j] = shipment[j]  BY <1>3, <3>3 DEF MailCommit
      <4>2. NotAhead  BY <1>1, <4>1
      <4>3. Rank[shipment[j].status] \in 1..6 /\ Rank[status[j]] \in 1..6
            /\ Rank[status'[j]] \in 1..6
            BY <1>2, <3>2, <4>2, RankType
      <4>4. QED  BY <3>2, <4>1, <4>2, <4>3
    <3>4. CASE TrackOf[m] # None
      <4> DEFINE now == [track |-> TrackOf[m],
                         status |-> IF shipment[k].track = None THEN Read(m)
                                    ELSE Later(shipment[k].status, Read(m))]
      <4>1. shipment' = [shipment EXCEPT ![k] = now]  BY <1>3, <3>4 DEF MailCommit
      <4>2. shipment'[j] = now  BY <2>1, <2>4, <4>1 DEF RowsOK
      <4>3. CASE shipment[k].track = None
            BY <3>2, <4>2, <4>3
      <4>4. CASE shipment[k].track # None
        <5>1. NotAhead /\ status[j] \in Statuses  BY <1>1, <1>2, <2>4, <4>4
        <5>2. Rank[Later(shipment[j].status, Read(m))] <= Rank[Later(status[j], Read(m))]
              BY <1>2, <2>1, <5>1, LaterMonotone
        <5>3. shipment'[j].status = Later(shipment[j].status, Read(m))
              BY <2>4, <4>2, <4>4
        <5>4. QED  BY <3>1, <3>2, <5>2, <5>3
      <4>5. QED  BY <4>3, <4>4
    <3>5. QED  BY <3>3, <3>4
  <2>5. QED  BY <2>3, <2>4
<1>4. CASE CarrierCommit
  <2> DEFINE k == carrier.order
             s == carrier.snapshot
  <2>1. k \in Keys /\ s \in Statuses  BY <1>4, CarrierCommitTypes
  <2>2. status' = [status EXCEPT ![k] = Later(status[k], s)]  BY <1>4 DEF CarrierCommit
  <2>3. shipment' = [shipment EXCEPT ![k].status = Later(shipment[k].status, s)]
        BY <1>4 DEF CarrierCommit
  <2>4. CASE j # k
    <3>1. status'[j] = status[j] /\ shipment'[j] = shipment[j]
          BY <2>1, <2>2, <2>3, <2>4 DEF RowsOK
    <3>2. QED  BY <1>1, <3>1
  <2>5. CASE j = k
    <3>1. status'[j] = Later(status[j], s)  BY <2>1, <2>2, <2>5 DEF RowsOK
    <3>2. /\ shipment'[j].status = Later(shipment[j].status, s)
          /\ shipment'[j].track = shipment[j].track
          BY <2>1, <2>3, <2>5 DEF RowsOK, Shipments
    <3>3. NotAhead /\ status[j] \in Statuses  BY <1>1, <1>2, <3>2
    <3>4. Rank[Later(shipment[j].status, s)] <= Rank[Later(status[j], s)]
          BY <1>2, <2>1, <3>3, LaterMonotone
    <3>5. status'[j] # None  BY <2>1, <3>1, <3>3, LaterFurthest, RankType
    <3>6. QED  BY <3>1, <3>2, <3>4, <3>5
  <2>6. QED  BY <2>4, <2>5
<1>5. CASE ~MailCommit /\ ~CarrierCommit
      BY <1>1, <1>5, OthersKeep
<1>6. QED  BY <1>3, <1>4, <1>5

(* No order is ever without a status again, and no event is lost.          *)
LEMMA HistoryKept ==
    ASSUME RowsOK, [Next]_vars
    PROVE  /\ events \subseteq events'
           /\ \A k \in Keys : status[k] # None => status'[k] # None
<1>1. CASE MailCommit
  <2> DEFINE k == mail.order
             s == Read(mail.m)
  <2>1. k \in Keys /\ s \in Statuses  BY <1>1, MailCommitTypes
  <2>2. Later(status[k], s) # None  BY <2>1, LaterFurthest, RankType DEF RowsOK
  <2>3. status' = [status EXCEPT ![k] = Later(status[k], s)]  BY <1>1 DEF MailCommit
  <2>4. events \subseteq events'  BY <1>1 DEF MailCommit
  <2>5. QED  BY <2>2, <2>3, <2>4 DEF RowsOK
<1>2. CASE CarrierCommit
  <2> DEFINE k == carrier.order
             s == carrier.snapshot
  <2>1. k \in Keys /\ s \in Statuses  BY <1>2, CarrierCommitTypes
  <2>2. Later(status[k], s) # None  BY <2>1, LaterFurthest, RankType DEF RowsOK
  <2>3. status' = [status EXCEPT ![k] = Later(status[k], s)]  BY <1>2 DEF CarrierCommit
  <2>4. events \subseteq events'  BY <1>2 DEF CarrierCommit
  <2>5. QED  BY <2>2, <2>3, <2>4 DEF RowsOK
<1>3. CASE ~MailCommit /\ ~CarrierCommit  BY <1>3, OthersKeep
<1>4. QED  BY <1>1, <1>2, <1>3

LEMMA ToldStep == RowsOK /\ RecordedMailTold /\ [Next]_vars => RecordedMailTold'
<1> SUFFICES ASSUME RowsOK, RecordedMailTold, [Next]_vars, NEW m \in recorded'
             PROVE  \E e \in events' : /\ e.source = m /\ e.status = Read(m)'
                                      /\ status'[e.order] # None
    BY DEF RecordedMailTold
<1>1. ASSUME m \in recorded, version' = version
      PROVE  \E e \in events' : /\ e.source = m /\ e.status = Read(m)'
                               /\ status'[e.order] # None
  <2>1. PICK e \in events : e.source = m /\ e.status = Read(m) /\ status[e.order] # None
        BY <1>1 DEF RecordedMailTold
  <2>2. e.order \in Keys  BY DEF RowsOK, Events
  <2>3. e \in events' /\ status'[e.order] # None  BY <2>1, <2>2, HistoryKept
  <2>4. Read(m)' = Read(m)  BY <1>1 DEF Read
  <2>5. QED  BY <2>1, <2>3, <2>4
<1>2. CASE MailCommit
  <2>1. CASE m \in recorded  BY <1>1, <1>2, <2>1 DEF MailCommit
  <2>2. CASE m \notin recorded
    <3> DEFINE e == [order |-> mail.order, status |-> Read(m), source |-> m]
    <3>1. m = mail.m  BY <1>2, <2>2 DEF MailCommit
    <3>2. e \in events'  BY <1>2, <3>1 DEF MailCommit
    <3>3. status'[mail.order] # None
      <4>1. mail.order \in Keys /\ Read(m) \in Statuses  BY <1>2, <3>1, MailCommitTypes
      <4>2. status'[mail.order] = Later(status[mail.order], Read(m))
            BY <1>2, <3>1, <4>1 DEF MailCommit, RowsOK
      <4>3. QED  BY <4>1, <4>2, LaterFurthest, RankType DEF RowsOK
    <3>4. Read(m)' = Read(m)  BY <1>2 DEF MailCommit, Read
    <3>5. e.source = m /\ e.status = Read(m) /\ e.order = mail.order  OBVIOUS
    <3> HIDE DEF e
    <3>6. QED  BY <3>2, <3>3, <3>4, <3>5
  <2>3. QED  BY <2>1, <2>2
<1>3. CASE CarrierCommit  BY <1>1, <1>3 DEF CarrierCommit
<1>4. CASE ~MailCommit /\ ~CarrierCommit  BY <1>1, <1>4, OthersKeep
<1>5. QED  BY <1>2, <1>3, <1>4

-----------------------------------------------------------------------------
(* The ages.  A shipment that was touched is younger than there are        *)
(* shipments, one that was never touched has the age of an order without   *)
(* one, and what a poll works on has been touched.                         *)

Tracked == {k \in Keys : shipment[k].track # None}

AgesOK ==
    /\ \A k \in Tracked : age[k] < Cardinality(Tracked)
    /\ \A k \in Keys \ Tracked : age[k] = Cardinality(Keys)
    /\ \A j, k \in Tracked : age[j] = age[k] => j = k
    /\ \A listed \in carrier.todo : listed.order \in Tracked
    /\ carrier.order # None => carrier.order \in Tracked

(* The sizes of sets of orders.                                            *)
LEMMA KeysFinite ==
    ASSUME NEW K \in SUBSET Keys
    PROVE  IsFiniteSet(K) /\ Cardinality(K) \in Nat /\ Cardinality(K) <= Cardinality(Keys)
           /\ Cardinality(Keys) \in Nat
<1>1. IsFiniteSet(Keys)  BY OrdersAssumption DEF Keys
<1>2. IsFiniteSet(K) /\ Cardinality(K) <= Cardinality(Keys)  BY <1>1, FS_Subset
<1>3. QED  BY <1>1, <1>2, FS_CardinalityType

(* What is younger than the touched one grows by one and meets nobody.     *)
LEMMA ShiftTellsApart ==
    ASSUME NEW a \in Int, NEW b \in Int, NEW c \in Int, a # c, b # c,
           (IF a < c THEN a + 1 ELSE a) = (IF b < c THEN b + 1 ELSE b)
    PROVE  a = b
OBVIOUS

(* Touching a shipment, or the order whose first shipment it is, makes it  *)
(* the youngest and keeps the order of the others.                         *)
LEMMA TouchAges ==
    ASSUME RowsOK, AgesOK, NEW k \in Keys,
           age' = Touch(k), Tracked' = Tracked \cup {k}
    PROVE  /\ \A j \in Tracked' : age'[j] < Cardinality(Tracked')
           /\ \A j \in Keys \ Tracked' : age'[j] = Cardinality(Keys)
           /\ \A i, j \in Tracked' : age'[i] = age'[j] => i = j
<1> DEFINE n == Cardinality(Tracked)
           N == Cardinality(Keys)
<1>1. Tracked \in SUBSET Keys  BY DEF Tracked
<1>2. IsFiniteSet(Tracked) /\ n \in Nat /\ N \in Nat /\ n <= N  BY <1>1, KeysFinite
<1>3. Cardinality(Tracked') = IF k \in Tracked THEN n ELSE n + 1
      BY <1>2, FS_AddElement
<1>4. age \in [Keys -> 0..N]  BY DEF RowsOK
<1>5. age'[k] = 0  BY DEF Touch
<1>6. \A j \in Keys \ {k} :
        age'[j] = IF age[j] < age[k] THEN age[j] + 1 ELSE age[j]
      BY DEF Touch
<1>7. \A j \in Tracked : age[j] < n  BY DEF AgesOK
<1>8. \A j \in Keys \ Tracked : age[j] = N  BY DEF AgesOK
<1>9. \A i, j \in Tracked : age[i] = age[j] => i = j  BY DEF AgesOK
<1>10. k \in Tracked => n > 0  BY <1>2, <1>4, <1>7
<1> HIDE DEF n, N
<1>11. ASSUME NEW j \in Tracked' PROVE age'[j] < Cardinality(Tracked')
  <2>1. CASE j = k  BY <1>2, <1>3, <1>5, <1>10, <2>1
  <2>2. CASE j # k
    <3>1. j \in Tracked /\ j \in Keys  BY <1>1, <2>2
    <3>2. age[j] \in 0..N /\ age[k] \in 0..N /\ age[j] < n  BY <1>4, <1>7, <3>1
    <3>3. age'[j] = IF age[j] < age[k] THEN age[j] + 1 ELSE age[j]  BY <1>6, <2>2, <3>1
    <3>4. CASE k \in Tracked
      <4>1. age[k] < n  BY <1>7, <3>4
      <4>2. QED  BY <1>2, <1>3, <3>2, <3>3, <3>4, <4>1
    <3>5. CASE k \notin Tracked  BY <1>2, <1>3, <3>2, <3>3, <3>5
    <3>6. QED  BY <3>4, <3>5
  <2>3. QED  BY <2>1, <2>2
<1>12. ASSUME NEW j \in Keys \ Tracked' PROVE age'[j] = N
  <2>0. Tracked' = Tracked \cup {k}  OBVIOUS
  <2>1. j \in Keys \ {k} /\ age[j] = N /\ age[k] \in 0..N  BY <1>4, <1>8, <1>12, <2>0
  <2>2. age'[j] = IF age[j] < age[k] THEN age[j] + 1 ELSE age[j]  BY <1>6, <2>1
  <2>3. QED  BY <1>2, <2>1, <2>2
<1>13. ASSUME NEW i \in Tracked', NEW j \in Tracked', age'[i] = age'[j] PROVE i = j
  <2>1. \A h \in Tracked' \ {k} : age'[h] > 0
    <3> SUFFICES ASSUME NEW h \in Tracked' \ {k} PROVE age'[h] > 0  OBVIOUS
    <3>1. h \in Tracked /\ h \in Keys \ {k}  BY <1>1
    <3>2. age[h] \in 0..N /\ age[k] \in 0..N  BY <1>1, <1>4, <3>1
    <3>3. age[h] # age[k]
      <4>1. CASE k \in Tracked  BY <1>9, <3>1, <4>1
      <4>2. CASE k \notin Tracked  BY <1>2, <1>7, <1>8, <3>1, <3>2, <4>2
      <4>3. QED  BY <4>1, <4>2
    <3>4. age'[h] = IF age[h] < age[k] THEN age[h] + 1 ELSE age[h]  BY <1>6, <3>1
    <3>5. QED  BY <1>2, <3>2, <3>3, <3>4
  <2>2. CASE i = k \/ j = k  BY <1>5, <1>13, <2>1, <2>2
  <2>3. CASE i # k /\ j # k
    <3>1. i \in Tracked /\ j \in Tracked /\ i \in Keys \ {k} /\ j \in Keys \ {k}
          BY <1>1, <2>3
    <3>2. age[i] \in 0..N /\ age[j] \in 0..N /\ age[k] \in 0..N  BY <1>1, <1>4, <3>1
    <3>3. /\ age'[i] = IF age[i] < age[k] THEN age[i] + 1 ELSE age[i]
          /\ age'[j] = IF age[j] < age[k] THEN age[j] + 1 ELSE age[j]
          BY <1>6, <3>1
    <3>4. age[i] # age[k] /\ age[j] # age[k]
      <4>1. CASE k \in Tracked  BY <1>9, <3>1, <4>1
      <4>2. CASE k \notin Tracked  BY <1>2, <1>7, <1>8, <3>1, <3>2, <4>2
      <4>3. QED  BY <4>1, <4>2
    <3>5. age[i] = age[j]
      <4>1. age[i] \in Int /\ age[j] \in Int /\ age[k] \in Int  BY <1>2, <3>2
      <4>2. (IF age[i] < age[k] THEN age[i] + 1 ELSE age[i])
              = (IF age[j] < age[k] THEN age[j] + 1 ELSE age[j])
            BY <1>13, <3>3
      <4>3. QED  BY <3>4, <4>1, <4>2, ShiftTellsApart
    <3>6. QED  BY <1>9, <3>1, <3>5
  <2>4. QED  BY <2>2, <2>3
<1>14. QED  BY <1>11, <1>12, <1>13 DEF N

LEMMA AgesInit == Init => AgesOK
<1> SUFFICES ASSUME Init PROVE AgesOK  OBVIOUS
<1>1. Tracked = {}  BY DEF Init, Tracked, NoShipment
<1>2. QED  BY <1>1 DEF Init, AgesOK, NoPoll

LEMMA AgesStep == RowsOK /\ AgesOK /\ [Next]_vars => AgesOK'
<1> SUFFICES ASSUME RowsOK, AgesOK, [Next]_vars PROVE AgesOK'  OBVIOUS
<1>1. CASE MailCommit
  <2> DEFINE m == mail.m
             k == mail.order
  <2>1. m \in Mails /\ k \in Keys  BY <1>1, MailCommitTypes
  <2>2. carrier' = carrier  BY <1>1 DEF MailCommit
  <2>3. CASE TrackOf[m] = None
    <3>1. shipment' = shipment /\ age' = age  BY <1>1, <2>3 DEF MailCommit
    <3>2. Tracked' = Tracked  BY <3>1 DEF Tracked
    <3>3. QED  BY <2>2, <3>1, <3>2 DEF AgesOK
  <2>4. CASE TrackOf[m] # None
    <3>1. age' = Touch(k)  BY <1>1, <2>4 DEF MailCommit
    <3>2. /\ shipment'[k].track = TrackOf[m]
          /\ \A j \in Keys \ {k} : shipment'[j] = shipment[j]
          BY <1>1, <2>1, <2>4 DEF MailCommit, RowsOK
    <3>3. Tracked' = Tracked \cup {k}  BY <2>1, <2>4, <3>2 DEF Tracked
    <3>4. /\ \A listed \in carrier'.todo : listed.order \in Tracked'
          /\ carrier'.order # None => carrier'.order \in Tracked'
          BY <2>2, <3>3 DEF AgesOK
    <3>5. QED  BY <2>1, <3>1, <3>3, <3>4, TouchAges DEF AgesOK
  <2>5. QED  BY <2>3, <2>4
<1>2. CASE CarrierCommit
  <2> DEFINE k == carrier.order
  <2>1. k \in Keys /\ k \in Tracked  BY <1>2, CarrierCommitTypes DEF AgesOK, CarrierCommit
  <2>2. age' = Touch(k)  BY <1>2 DEF CarrierCommit
  <2>3. \A j \in Keys : shipment'[j].track = shipment[j].track
        BY <1>2 DEF CarrierCommit, RowsOK, Shipments
  <2>4. Tracked' = Tracked /\ Tracked' = Tracked \cup {k}  BY <2>1, <2>3 DEF Tracked
  <2>5. carrier'.todo = carrier.todo /\ carrier'.order = None
        BY <1>2 DEF CarrierCommit, NoPoll
  <2>6. /\ \A listed \in carrier'.todo : listed.order \in Tracked'
        /\ carrier'.order # None => carrier'.order \in Tracked'
        BY <2>4, <2>5 DEF AgesOK
  <2>7. QED  BY <2>1, <2>2, <2>4, <2>6, TouchAges DEF AgesOK
<1>3. CASE shipment' = shipment /\ age' = age
  <2>1. Tracked' = Tracked  BY <1>3 DEF Tracked
  <2>2. SUFFICES /\ \A listed \in carrier'.todo : listed.order \in Tracked
                 /\ carrier'.order # None => carrier'.order \in Tracked
        BY <1>3, <2>1 DEF AgesOK
  <2>3. CASE carrier' = carrier  BY <2>3 DEF AgesOK
  <2>4. CASE carrier' = NoPoll  BY <2>4 DEF NoPoll
  <2>5. CASE Poll
    <3> DEFINE active == {k \in Keys : Active(k)}
               Older(k) == {j \in active : age[j] > age[k]}
               oldest == {k \in active : Cardinality(Older(k)) < MaxShipments}
    <3>1. carrier'.todo = Listed(oldest) /\ carrier'.order = None
          BY <2>5 DEF Poll, NoPoll
    <3>2. oldest \subseteq Tracked  BY DEF Active, Tracked
    <3> HIDE DEF oldest
    <3>3. QED  BY <3>1, <3>2 DEF Listed
  <2>6. CASE CarrierShipment
    <3>1. PICK listed \in carrier.todo, s \in CarrierStatuses :
            carrier' = [todo |-> carrier.todo \ {listed}, order |-> listed.order,
                        track |-> listed.track, snapshot |-> s]
          BY <2>6 DEF CarrierShipment
    <3>2. QED  BY <3>1 DEF AgesOK
  <2>7. CASE CarrierSkip
    <3>1. carrier.order = None  BY <2>7 DEF CarrierSkip
    <3>2. PICK listed \in carrier.todo : carrier' = [carrier EXCEPT !.todo = @ \ {listed}]
          BY <2>7 DEF CarrierSkip
    <3>3. carrier'.todo \subseteq carrier.todo /\ carrier'.order = None
          BY <3>1, <3>2 DEF RowsOK, NoPoll
    <3>4. QED  BY <3>3 DEF AgesOK
  <2>8. CASE CarrierAbort
    <3>1. carrier'.todo = carrier.todo /\ carrier'.order = None
          BY <2>8 DEF CarrierAbort, NoPoll
    <3>2. QED  BY <3>1 DEF AgesOK
  <2>9. QED
    <3>1. CASE MailCommit  BY <2>3, <3>1 DEF MailCommit
    <3>2. CASE CarrierCommit  BY <1>2, <1>3, <3>2 DEF CarrierCommit, NoPoll, AgesOK
    <3>3. ASSUME NEW m \in Mails, MailOrder(m) PROVE carrier' = carrier
          BY <3>3 DEF MailOrder
    <3>4. BeginSync \/ MailAbort => carrier' = carrier  BY DEF BeginSync, MailAbort
    <3>5. Restart \/ Upgrade => carrier' = NoPoll  BY DEF Restart, Upgrade
    <3>6. UNCHANGED vars => carrier' = carrier  BY DEF vars
    <3>7. QED  BY <2>3, <2>4, <2>5, <2>6, <2>7, <2>8, <3>1, <3>2, <3>3, <3>4, <3>5, <3>6
               DEF Next, ReadMail
<1>4. QED
  <2>1. ~MailCommit /\ ~CarrierCommit => shipment' = shipment /\ age' = age
    <3> SUFFICES ASSUME ~MailCommit, ~CarrierCommit PROVE age' = age  BY OthersKeep
    <3>1. ASSUME NEW m \in Mails, MailOrder(m) PROVE age' = age  BY <3>1 DEF MailOrder
    <3>2. BeginSync \/ MailAbort \/ Poll \/ CarrierShipment \/ CarrierSkip => age' = age
          BY DEF BeginSync, MailAbort, Poll, CarrierShipment, CarrierSkip
    <3>3. CarrierAbort \/ Restart \/ Upgrade \/ UNCHANGED vars => age' = age
          BY DEF CarrierAbort, Restart, Upgrade, vars
    <3>4. QED  BY <3>1, <3>2, <3>3 DEF Next, ReadMail
  <2>2. QED  BY <1>1, <1>2, <1>3, <2>1

-----------------------------------------------------------------------------
(* What a poll lists.                                                      *)

(* Of shipments no two of which are as old, at most n have fewer than n    *)
(* older ones: how many are older tells them apart.                        *)
LEMMA OldestFew ==
    ASSUME RowsOK, NEW A \in SUBSET Keys, NEW n \in Nat \ {0},
           \A i, j \in A : age[i] = age[j] => i = j
    PROVE  LET Older(k) == {j \in A : age[j] > age[k]}
           IN  Cardinality({k \in A : Cardinality(Older(k)) < n}) <= n
<1> DEFINE Older(k) == {j \in A : age[j] > age[k]}
           oldest == {k \in A : Cardinality(Older(k)) < n}
           count == [k \in oldest |-> Cardinality(Older(k))]
<1>1. \A k \in A : age[k] \in Nat
  <2>1. Cardinality(Keys) \in Nat  BY KeysFinite
  <2>2. QED  BY <2>1 DEF RowsOK
<1>2. \A k \in A : Older(k) \in SUBSET Keys /\ IsFiniteSet(Older(k))
                   /\ Cardinality(Older(k)) \in Nat
  <2>1. \A k \in A : Older(k) \in SUBSET Keys  OBVIOUS
  <2> HIDE DEF Older
  <2>2. QED  BY <2>1, KeysFinite
<1>3. ASSUME NEW i \in A, NEW j \in A, age[i] < age[j]
      PROVE  Cardinality(Older(j)) < Cardinality(Older(i))
  <2>1. Older(j) \in SUBSET Older(i)  BY <1>1, <1>3
  <2>2. j \in Older(i) /\ j \notin Older(j)  BY <1>1, <1>3
  <2> HIDE DEF Older
  <2>3. Cardinality(Older(j)) <= Cardinality(Older(i))
        /\ Cardinality(Older(j)) # Cardinality(Older(i))
        BY <1>2, <2>1, <2>2, FS_Subset
  <2>4. QED  BY <1>2, <2>3
<1>4. \A i, j \in A : i # j => Cardinality(Older(i)) # Cardinality(Older(j))
  <2> SUFFICES ASSUME NEW i \in A, NEW j \in A, i # j
               PROVE  Cardinality(Older(i)) # Cardinality(Older(j))
      OBVIOUS
  <2>1. age[i] < age[j] \/ age[j] < age[i]  BY <1>1
  <2> HIDE DEF Older
  <2>2. Cardinality(Older(i)) \in Nat /\ Cardinality(Older(j)) \in Nat  BY <1>2
  <2>3. QED  BY <1>3, <2>1, <2>2
<1> HIDE DEF Older
<1>5. \A k \in oldest : k \in A /\ Cardinality(Older(k)) \in 0..(n - 1)  BY <1>2
<1>6. count \in [oldest -> 0..(n - 1)]  BY <1>5
<1>7. \A i, j \in oldest : count[i] = count[j] => i = j  BY <1>4
<1>8. count \in Injection(oldest, 0..(n - 1))
  <2> HIDE DEF count, oldest
  <2>1. QED  BY <1>6, <1>7 DEF Injection, IsInjective
<1>9. IsFiniteSet(0..(n - 1)) /\ Cardinality(0..(n - 1)) = n
  <2>1. 0 \in Int /\ n - 1 \in Int /\ ~(0 > n - 1)  OBVIOUS
  <2>2. QED  BY <2>1, FS_Interval
<1>10. Cardinality(oldest) <= n
  <2> HIDE DEF count, oldest
  <2>1. QED  BY <1>8, <1>9, FS_Injection
<1>11. QED  BY <1>10 DEF Older

(* A list has as many entries as there are shipments on it.                *)
LEMMA ListedSize ==
    ASSUME NEW K \in SUBSET Keys
    PROVE  IsFiniteSet(Listed(K)) /\ Cardinality(Listed(K)) <= Cardinality(K)
<1> DEFINE entry == [k \in K |-> [order |-> k, track |-> shipment[k].track]]
<1>1. IsFiniteSet(K)  BY KeysFinite
<1>2. entry \in Surjection(K, Listed(K))
      BY DEF Surjection, Listed
<1> HIDE DEF entry
<1>3. QED  BY <1>1, <1>2, FS_Surjection

ListFits ==
    IsFiniteSet(carrier.todo) /\ Cardinality(carrier.todo) <= MaxShipments

LEMMA FitsStep == RowsOK /\ AgesOK /\ ListFits /\ [Next]_vars => ListFits'
<1> SUFFICES ASSUME RowsOK, AgesOK, ListFits, [Next]_vars PROVE ListFits'  OBVIOUS
<1>1. CASE Poll
  <2> DEFINE active == {k \in Keys : Active(k)}
             Older(k) == {j \in active : age[j] > age[k]}
             oldest == {k \in active : Cardinality(Older(k)) < MaxShipments}
  <2>1. carrier'.todo = Listed(oldest)  BY <1>1 DEF Poll, NoPoll
  <2>2. active \in SUBSET Keys /\ \A i, j \in active : age[i] = age[j] => i = j
        BY DEF Active, AgesOK, Tracked
  <2>3. Cardinality(oldest) <= MaxShipments
    <3> HIDE DEF active
    <3>1. QED  BY <2>2, OldestFew, OrdersAssumption
  <2>4. oldest \in SUBSET Keys  OBVIOUS
  <2> HIDE DEF oldest
  <2>5. /\ IsFiniteSet(Listed(oldest)) /\ Cardinality(Listed(oldest)) <= Cardinality(oldest)
        /\ Cardinality(Listed(oldest)) \in Nat /\ Cardinality(oldest) \in Nat
        BY <2>4, ListedSize, KeysFinite, FS_CardinalityType
  <2>6. QED  BY <2>1, <2>3, <2>5, OrdersAssumption DEF ListFits
<1>2. ASSUME carrier'.todo \in SUBSET carrier.todo PROVE ListFits'
  <2>1. IsFiniteSet(carrier'.todo) /\ Cardinality(carrier'.todo) <= Cardinality(carrier.todo)
        BY <1>2, FS_Subset DEF ListFits
  <2>2. Cardinality(carrier'.todo) \in Nat /\ Cardinality(carrier.todo) \in Nat
        BY <2>1, FS_CardinalityType DEF ListFits
  <2>3. QED  BY <2>1, <2>2, OrdersAssumption DEF ListFits
<1>3. ~Poll => carrier'.todo \in SUBSET carrier.todo
  <2>1. ASSUME NEW m \in Mails, MailOrder(m) PROVE carrier' = carrier
        BY <2>1 DEF MailOrder
  <2>2. BeginSync \/ MailCommit \/ MailAbort \/ UNCHANGED vars => carrier' = carrier
        BY DEF BeginSync, MailCommit, MailAbort, vars
  <2>3. CarrierShipment => carrier'.todo \in SUBSET carrier.todo
        BY DEF CarrierShipment
  <2>4. CarrierSkip => carrier'.todo \in SUBSET carrier.todo
        BY DEF CarrierSkip, RowsOK, NoPoll
  <2>5. CarrierCommit \/ CarrierAbort => carrier'.todo = carrier.todo
        BY DEF CarrierCommit, CarrierAbort, NoPoll
  <2>6. Restart \/ Upgrade => carrier'.todo = {}  BY DEF Restart, Upgrade, NoPoll
  <2>7. QED  BY <2>1, <2>2, <2>3, <2>4, <2>5, <2>6 DEF Next, ReadMail
<1>4. QED  BY <1>1, <1>2, <1>3

-----------------------------------------------------------------------------
(* The theorems.  The rows' types are inductive by themselves, and each    *)
(* property is inductive beside them.                                      *)

(* Every row always has its type: no interleaving of the two writers       *)
(* leaves a status, a lock or a poll that the code does not know.          *)
THEOREM RowsTyped == Spec => []RowsOK
<1>1. Init => RowsOK  BY RowsInit
<1>2. RowsOK /\ [Next]_vars => RowsOK'  BY RowsStep
<1>3. QED  BY <1>1, <1>2, PTL DEF Spec

(* Every row always has its type, no two shipments were touched at the     *)
(* same time, and a poll never lists more than the configured number of    *)
(* shipments, whatever the two writers touch while it works                *)
(* (listActiveShipments).                                                  *)
THEOREM OrdersTypeCorrect == Spec => []TypeOK
<1>1. Init => AgesOK /\ ListFits
  <2>1. Init => carrier.todo = {}  BY DEF Init, NoPoll
  <2>2. IsFiniteSet({}) /\ Cardinality({}) = 0  BY FS_EmptySet
  <2>3. 0 <= MaxShipments  BY OrdersAssumption
  <2>4. Init => ListFits  BY <2>1, <2>2, <2>3 DEF ListFits
  <2>5. QED  BY <2>4, AgesInit
<1>2. RowsOK /\ (AgesOK /\ ListFits) /\ [Next]_vars => (AgesOK /\ ListFits)'
      BY AgesStep, FitsStep
<1>3. RowsOK /\ (AgesOK /\ ListFits) => TypeOK
      BY DEF AgesOK, ListFits, Tracked, TypeOK, ListsOK
<1>4. QED  BY <1>1, <1>2, <1>3, RowsTyped, PTL DEF Spec

(* An order's status is always the furthest of its timeline, for every set *)
(* of mails, parsers and carriers' answers (recordMessage,                 *)
(* updateShipmentFromCarrier).                                             *)
THEOREM StatusFurthest == Spec => []StatusIsFurthest
<1>1. Init => StatusIsFurthest  BY DEF Init, StatusIsFurthest
<1>2. RowsOK /\ StatusIsFurthest /\ [Next]_vars => StatusIsFurthest'  BY FurthestStep
<1>3. QED  BY <1>1, <1>2, RowsTyped, PTL DEF Spec

(* A shipment is never further than its order.                             *)
THEOREM ShipmentFollows == Spec => []ShipmentNotAhead
<1>1. Init => ShipmentNotAhead  BY DEF Init, ShipmentNotAhead, NoShipment
<1>2. RowsOK /\ ShipmentNotAhead /\ [Next]_vars => ShipmentNotAhead'  BY NotAheadStep
<1>3. QED  BY <1>1, <1>2, RowsTyped, PTL DEF Spec

(* A mail on record has left its event: no rolled-back load is ever taken  *)
(* for a finished one, across restarts and parser upgrades.                *)
THEOREM NothingSkipped == Spec => []RecordedMailTold
<1>1. Init => RecordedMailTold  BY DEF Init, RecordedMailTold
<1>2. RowsOK /\ RecordedMailTold /\ [Next]_vars => RecordedMailTold'  BY ToldStep
<1>3. QED  BY <1>1, <1>2, RowsTyped, PTL DEF Spec

(* No step moves an order's status back: architecture.md:102-105, "carrier *)
(* polling cannot regress a later state".                                  *)
StatusNeverBack ==
    [][\A k \in Keys : status[k] # None => Rank[status[k]] <= Rank[status'[k]]]_status

(* Mails and carriers, under any interleaving, only move a status on.       *)
THEOREM NoRegression == Spec => StatusNeverBack
<1> DEFINE Forward == \A k \in Keys : status[k] # None => Rank[status[k]] <= Rank[status'[k]]
<1>1. RowsOK /\ [Next]_vars => [Forward]_status
  <2> SUFFICES ASSUME RowsOK, [Next]_vars, NEW k \in Keys, status[k] # None, status' # status
               PROVE  Rank[status[k]] <= Rank[status'[k]]
      OBVIOUS
  <2>1. status[k] \in Statuses /\ Rank[status[k]] \in 1..6  BY RankType DEF RowsOK
  <2>2. CASE MailCommit
    <3>1. mail.order \in Keys /\ Read(mail.m) \in Statuses  BY <2>2, MailCommitTypes
    <3>2. status' = [status EXCEPT ![mail.order] = Later(status[mail.order], Read(mail.m))]
          BY <2>2 DEF MailCommit
    <3>3. CASE k = mail.order  BY <2>1, <3>1, <3>2, <3>3, LaterFurthest DEF RowsOK
    <3>4. CASE k # mail.order  BY <2>1, <3>2, <3>4 DEF RowsOK
    <3>5. QED  BY <3>3, <3>4
  <2>3. CASE CarrierCommit
    <3>1. carrier.order \in Keys /\ carrier.snapshot \in Statuses  BY <2>3, CarrierCommitTypes
    <3>2. status' = [status EXCEPT ![carrier.order] =
                        Later(status[carrier.order], carrier.snapshot)]
          BY <2>3 DEF CarrierCommit
    <3>3. CASE k = carrier.order  BY <2>1, <3>1, <3>2, <3>3, LaterFurthest DEF RowsOK
    <3>4. CASE k # carrier.order  BY <2>1, <3>2, <3>4 DEF RowsOK
    <3>5. QED  BY <3>3, <3>4
  <2>4. CASE ~MailCommit /\ ~CarrierCommit  BY <2>4, OthersKeep
  <2>5. QED  BY <2>2, <2>3, <2>4
<1>2. QED  BY <1>1, RowsTyped, PTL DEF Spec, StatusNeverBack
=============================================================================
