--------------------------- MODULE WorkspaceProofs ---------------------------
(***************************************************************************)
(* Proofs about Workspace, for any requests, addresses, limit, fields,     *)
(* items and links.  The invariant has a part per group of rows; each part *)
(* says that what a transaction has read under a lock still stands.        *)
(***************************************************************************)
EXTENDS Workspace, FiniteSetTheorems, TLAPS

Op(r) == requests[r].op

(* Who has counted holds the workspace's row alone, and there is room.     *)
Mailboxes ==
    /\ \A r \in Requests : Op(r) = "counted" =>
          /\ product = "solo" /\ Cardinality(Connected) < Limit
          /\ \A q \in Requests : Op(q) = "counted" => q = r
    /\ LimitKept

(* Who patches holds the settings' row alone.                              *)
Settings ==
    \A r \in Requests : Op(r) = "patch" =>
        /\ settings # NoSettings /\ requests[r].read = settings
        /\ \A q \in Requests : Op(q) = "patch" => q = r

(* Who corrects an item holds its order's row alone.                       *)
Corrections ==
    /\ HiddenAsReported
    /\ \A r \in Requests : Op(r) = "correct" =>
          /\ customers[requests[r].address].open
          /\ requests[r].read = customers[requests[r].address].hidden
          /\ \A q \in Requests :
                Op(q) = "correct" /\ requests[q].address = requests[r].address => q = r

(* A link is its customer's for good, and what a visit has read stands.    *)
LinkOf(link, a) == link > 0 => link <= Len(links) /\ links[link] = a

Portals ==
    /\ product = "solo" => links = <<>>
    /\ \A a \in Addresses : LinkOf(customers[a].link, a) /\ (customers[a].billed => customers[a].open)
    /\ \A r \in Requests : Op(r) \in {"found", "half", "shown"} =>
          product = "aco" /\ LinkOf(requests[r].link, requests[r].address)
    /\ \A r \in Requests : Op(r) = "half" =>
          (requests[r].first => customers[requests[r].address].billed)
    /\ \A r \in Requests : Op(r) = "shown" =>
          (requests[r].portal.billed => requests[r].portal.invoiced)

WorkspaceInv == WorkspaceTypeOK /\ Mailboxes /\ Settings /\ Corrections /\ Portals

-----------------------------------------------------------------------------
(* Records.                                                                *)

LEMMA CustomersTyped == NoCustomer \in Customer /\ NewCustomer \in Customer
<1>1. NoCustomer \in Customer
  BY WorkspaceAssumption DEF NoCustomer, Customer
<1>2. NewCustomer \in Customer
  BY <1>1 DEF NewCustomer, Customer
<1> QED BY <1>1, <1>2

LEMMA CustomerFields ==
    /\ NoCustomer.hidden = {} /\ NoCustomer.reported = {} /\ NoCustomer.link = 0
    /\ NoCustomer.billed = FALSE /\ NoCustomer.open = FALSE
    /\ NewCustomer.hidden = {} /\ NewCustomer.reported = {} /\ NewCustomer.link = 0
    /\ NewCustomer.billed = FALSE /\ NewCustomer.open = TRUE
BY DEF NoCustomer, NewCustomer

(* What a transaction knows, by its kind.                                  *)
LEMMA RequestFields ==
    ASSUME NEW q \in Request
    PROVE  /\ q.op \in {"none", "add", "counted", "patch", "correct", "found", "half", "shown"}
           /\ q.op = "none" => q = Free
           /\ q.op \in {"add", "counted"} =>
                 q.address \in Addresses /\ [q EXCEPT !.op = "counted"] \in Request
                                         /\ [q EXCEPT !.op = "counted"].op = "counted"
           /\ q.op = "patch" => q.want \in Patches /\ q.read \in [Fields -> Values]
           /\ q.op = "correct" => /\ q.address \in Addresses /\ q.item \in Items
                                  /\ q.hide \in BOOLEAN /\ q.read \in SUBSET Items
           /\ q.op \in {"found", "half", "shown"} =>
                 q.address \in Addresses /\ q.link \in 0..MaxLinks
           /\ q.op = "half" => q.first \in BOOLEAN
<1>1. q.op \in {"none", "add", "counted", "patch", "correct", "found", "half", "shown"}
  BY DEF Request, Free
<1>2. q.op = "none" => q = Free
  BY DEF Request, Free
<1>3. ASSUME q.op \in {"add", "counted"}
      PROVE  /\ q.address \in Addresses
             /\ [q EXCEPT !.op = "counted"] \in Request /\ [q EXCEPT !.op = "counted"].op = "counted"
  <2>1. q \in [op : {"add", "counted"}, address : Addresses]
    BY <1>3 DEF Request, Free
  <2>2. [q EXCEPT !.op = "counted"] \in [op : {"add", "counted"}, address : Addresses]
    BY <2>1
  <2> QED BY <2>1, <2>2 DEF Request
<1>4. q.op = "patch" => q.want \in Patches /\ q.read \in [Fields -> Values]
  BY DEF Request, Free
<1>5. q.op = "correct" => /\ q.address \in Addresses /\ q.item \in Items
                          /\ q.hide \in BOOLEAN /\ q.read \in SUBSET Items
  BY DEF Request, Free
<1>6. q.op \in {"found", "half", "shown"} => q.address \in Addresses /\ q.link \in 0..MaxLinks
  BY DEF Request, Free
<1>7. q.op = "half" => q.first \in BOOLEAN
  BY DEF Request, Free
<1> QED BY <1>1, <1>2, <1>3, <1>4, <1>5, <1>6, <1>7

LEMMA FreeTyped == Free \in Request /\ Free.op = "none"
BY DEF Request, Free

LEMMA RequestsTyped ==
    ASSUME WorkspaceTypeOK, NEW r \in Requests PROVE requests[r] \in Request
BY DEF WorkspaceTypeOK

(* Only the request that takes the step changes.                           *)
LEMMA BecomesOne ==
    ASSUME WorkspaceTypeOK, NEW r \in Requests, NEW request, Becomes(r, request)
    PROVE  /\ requests'[r] = request
           /\ \A q \in Requests : q # r => requests'[q] = requests[q]
           /\ request \in Request => requests' \in [Requests -> Request]
BY DEF WorkspaceTypeOK, Becomes

-----------------------------------------------------------------------------
(* Types.                                                                  *)

LEMMA StartTyped == WorkspaceInit => WorkspaceInv
<1> SUFFICES ASSUME WorkspaceInit PROVE WorkspaceInv
  OBVIOUS
<1>1. WorkspaceTypeOK
  <2>1. customers \in [Addresses -> Customer] /\ requests \in [Requests -> Request]
    BY CustomersTyped, FreeTyped DEF WorkspaceInit
  <2>2. links \in Seq(Addresses) /\ Len(links) <= MaxLinks
    BY WorkspaceAssumption DEF WorkspaceInit
  <2> QED BY <2>1, <2>2 DEF WorkspaceInit, WorkspaceTypeOK
<1>2. Cardinality(Connected) = 0
  <2>1. Connected = {}
    BY DEF WorkspaceInit, Connected, NoCustomer
  <2> QED BY <2>1, FS_EmptySet
<1>3. \A r \in Requests : Op(r) = "none"
  BY FreeTyped DEF WorkspaceInit, Op
<1>4. Mailboxes
  BY <1>2, <1>3, WorkspaceAssumption DEF Mailboxes, LimitKept
<1>5. Settings
  BY <1>3 DEF Settings
<1>6. \A a \in Addresses : customers[a] = NoCustomer
  BY DEF WorkspaceInit
<1>7. Corrections
  BY <1>3, <1>6 DEF Corrections, HiddenAsReported, NoCustomer
<1>8. Portals
  BY <1>3, <1>6 DEF Portals, NoCustomer, LinkOf, WorkspaceInit
<1> QED BY <1>1, <1>4, <1>5, <1>7, <1>8 DEF WorkspaceInv

LEMMA MarkedTyped ==
    ASSUME NEW items \in SUBSET Items, NEW item \in Items, NEW hide
    PROVE  Marked(items, item, hide) \in SUBSET Items
BY DEF Marked

LEMMA TypesKept ==
    ASSUME WorkspaceInv, [WorkspaceNext]_workspaceVars PROVE WorkspaceTypeOK'
<1> WorkspaceTypeOK
  BY DEF WorkspaceInv
<1>1. CASE UNCHANGED workspaceVars
  BY <1>1 DEF workspaceVars, WorkspaceTypeOK
<1>2. ASSUME NEW r \in Requests, Abort(r) PROVE WorkspaceTypeOK'
  BY <1>2, BecomesOne, FreeTyped DEF Abort, WorkspaceTypeOK
<1>3. ASSUME NEW r \in Requests, NEW a \in Addresses, Verified(r, a) PROVE WorkspaceTypeOK'
  <2>1. [op |-> "add", address |-> a] \in Request
    BY DEF Request
  <2> QED BY <1>3, <2>1, BecomesOne DEF Verified, WorkspaceTypeOK
<1>4. ASSUME NEW r \in Requests, Count(r) PROVE WorkspaceTypeOK'
  <2>1. [requests[r] EXCEPT !.op = "counted"] \in Request
    BY <1>4, RequestsTyped, RequestFields DEF Count
  <2> QED BY <1>4, <2>1, BecomesOne, FreeTyped DEF Count, WorkspaceTypeOK
<1>5. ASSUME NEW r \in Requests, Insert(r) PROVE WorkspaceTypeOK'
  BY <1>5, BecomesOne, FreeTyped, CustomersTyped DEF Insert, WorkspaceTypeOK
<1>6. ASSUME NEW a \in Addresses, Remove(a) PROVE WorkspaceTypeOK'
  BY <1>6, CustomersTyped DEF Remove, WorkspaceTypeOK
<1>7. CASE ReadSettings
  BY <1>7, WorkspaceAssumption DEF ReadSettings, NewSettings, WorkspaceTypeOK
<1>8. ASSUME NEW r \in Requests, NEW want \in Patches, LockSettings(r, want) PROVE WorkspaceTypeOK'
  <2>1. [op |-> "patch", want |-> want, read |-> settings] \in Request
    BY <1>8 DEF LockSettings, WorkspaceTypeOK, Request
  <2> QED BY <1>8, <2>1, BecomesOne DEF LockSettings, WorkspaceTypeOK
<1>9. ASSUME NEW r \in Requests, SaveSettings(r) PROVE WorkspaceTypeOK'
  <2> DEFINE want == requests[r].want
  <2>1. want \in Patches /\ requests[r].read \in [Fields -> Values]
    BY <1>9, RequestsTyped, RequestFields DEF SaveSettings
  <2>2. \A f \in DOMAIN want : want[f] \in Values
    BY <2>1 DEF Patches
  <2>3. settings' \in [Fields -> Values]
    BY <1>9, <2>1, <2>2 DEF SaveSettings
  <2> QED BY <1>9, <2>3, BecomesOne, FreeTyped DEF SaveSettings, WorkspaceTypeOK
<1>10. ASSUME NEW r \in Requests, NEW a \in Addresses, NEW item \in Items, NEW hide \in BOOLEAN,
              LockOrder(r, a, item, hide)
       PROVE  WorkspaceTypeOK'
  <2>1. [op |-> "correct", address |-> a, item |-> item, hide |-> hide,
         read |-> customers[a].hidden] \in Request
    BY DEF WorkspaceTypeOK, Customer, Request
  <2> QED BY <1>10, <2>1, BecomesOne DEF LockOrder, WorkspaceTypeOK
<1>11. ASSUME NEW r \in Requests, CorrectItem(r) PROVE WorkspaceTypeOK'
  <2> DEFINE q == requests[r]
  <2>1. q.address \in Addresses /\ q.item \in Items /\ q.read \in SUBSET Items
    BY <1>11, RequestsTyped, RequestFields DEF CorrectItem
  <2>2. customers[q.address] \in Customer
    BY <2>1 DEF WorkspaceTypeOK
  <2>3. customers[q.address].reported \in SUBSET Items
    BY <2>2 DEF Customer
  <2>4. [customers[q.address] EXCEPT !.hidden = Marked(q.read, q.item, q.hide),
                                     !.reported = Marked(@, q.item, q.hide)] \in Customer
    BY <2>1, <2>2, <2>3, MarkedTyped DEF Customer
  <2>5. customers' \in [Addresses -> Customer]
    BY <1>11, <2>1, <2>4 DEF CorrectItem, WorkspaceTypeOK
  <2> QED BY <1>11, <2>5, BecomesOne, FreeTyped DEF CorrectItem, WorkspaceTypeOK
<1>12. ASSUME NEW a \in Addresses, Bill(a) PROVE WorkspaceTypeOK'
  BY <1>12 DEF Bill, WorkspaceTypeOK, Customer
<1>13. ASSUME NEW a \in Addresses, MakeLink(a) PROVE WorkspaceTypeOK'
  <2>1. Len(links) + 1 \in 0..MaxLinks /\ Len(links') = Len(links) + 1 /\ links' \in Seq(Addresses)
    BY <1>13, WorkspaceAssumption DEF MakeLink, WorkspaceTypeOK
  <2>2. customers' \in [Addresses -> Customer]
    BY <1>13, <2>1 DEF MakeLink, WorkspaceTypeOK, Customer
  <2> QED BY <1>13, <2>1, <2>2 DEF MakeLink, WorkspaceTypeOK
<1>14. ASSUME NEW r \in Requests, NEW link \in 1..Len(links), Visit(r, link) PROVE WorkspaceTypeOK'
  <2>1. PICK a \in Addresses : Found(r, link, a)
    BY <1>14 DEF Visit
  <2>2. [op |-> "found", link |-> link, address |-> a] \in Request
    BY WorkspaceAssumption DEF Request, WorkspaceTypeOK
  <2> QED BY <1>14, <2>1, <2>2, BecomesOne DEF Visit, Found, WorkspaceTypeOK
<1>15. ASSUME NEW r \in Requests, NEW a \in Addresses, VisitSigned(r, a) PROVE WorkspaceTypeOK'
  <2>1. [op |-> "found", link |-> 0, address |-> a] \in Request
    BY WorkspaceAssumption DEF Request
  <2> QED BY <1>15, <2>1, BecomesOne DEF VisitSigned, Found, WorkspaceTypeOK
<1>16. ASSUME NEW r \in Requests, ReadOrders(r) PROVE WorkspaceTypeOK'
  <2> DEFINE q == requests[r]
  <2>1. q.address \in Addresses /\ q.link \in 0..MaxLinks
    BY <1>16, RequestsTyped, RequestFields DEF ReadOrders
  <2>2. [op |-> "half", link |-> q.link, address |-> q.address,
         first |-> customers[q.address].billed] \in Request
    BY <2>1 DEF WorkspaceTypeOK, Customer, Request
  <2> QED BY <1>16, <2>2, BecomesOne DEF ReadOrders, WorkspaceTypeOK
<1>17. ASSUME NEW r \in Requests, ReadInvoices(r) PROVE WorkspaceTypeOK'
  <2> DEFINE q == requests[r]
  <2>1. q.address \in Addresses /\ q.link \in 0..MaxLinks /\ q.first \in BOOLEAN
    BY <1>17, RequestsTyped, RequestFields DEF ReadInvoices
  <2>2. [op |-> "shown", link |-> q.link, address |-> q.address,
         portal |-> Portal(q.first, customers[q.address].billed)] \in Request
    BY <2>1 DEF WorkspaceTypeOK, Customer, Request, Portal
  <2> QED BY <1>17, <2>2, BecomesOne DEF ReadInvoices, WorkspaceTypeOK
<1> QED BY <1>1, <1>2, <1>3, <1>4, <1>5, <1>6, <1>7, <1>8, <1>9, <1>10, <1>11, <1>12, <1>13,
           <1>14, <1>15, <1>16, <1>17 DEF WorkspaceNext

-----------------------------------------------------------------------------
(* What most steps leave alone.  Holds: the step gives nobody a lock of    *)
(* the kind op.                                                            *)

NoNew(op) == \A q \in Requests : Op(q)' = op => Op(q) = op /\ requests'[q] = requests[q]

LEMMA NewOnlyOwn ==
    ASSUME WorkspaceTypeOK, NEW r \in Requests, NEW request, NEW op, Becomes(r, request),
           request.op # op
    PROVE  NoNew(op)
BY BecomesOne DEF NoNew, Op

(* The step is one request's, to a state of one of these kinds, or changes *)
(* no request.                                                             *)
LEMMA StepKinds ==
    ASSUME WorkspaceTypeOK, [WorkspaceNext]_workspaceVars
    PROVE  /\ NoNew("counted") \/ \E r \in Requests : Count(r)
           /\ NoNew("patch") \/ \E r \in Requests, want \in Patches : LockSettings(r, want)
           /\ NoNew("correct")
                \/ \E r \in Requests, a \in Addresses, item \in Items, hide \in BOOLEAN :
                      LockOrder(r, a, item, hide)
           /\ NoNew("half") \/ \E r \in Requests : ReadOrders(r)
           /\ NoNew("shown") \/ \E r \in Requests : ReadInvoices(r)
<1> DEFINE Kinds == {"counted", "patch", "correct", "half", "shown"}
<1>1. CASE UNCHANGED requests
  BY <1>1 DEF NoNew, Op
<1>2. ASSUME NEW r \in Requests, NEW request, Becomes(r, request), request.op \notin Kinds
      PROVE  \A op \in Kinds : NoNew(op)
  BY <1>2, NewOnlyOwn
<1>3. ASSUME NEW r \in Requests,
             Abort(r) \/ Insert(r) \/ SaveSettings(r) \/ CorrectItem(r)
      PROVE  \A op \in Kinds : NoNew(op)
  <2>1. Becomes(r, Free)
    BY <1>3 DEF Abort, Insert, SaveSettings, CorrectItem
  <2> QED BY <2>1, <1>2, FreeTyped
<1>4. ASSUME NEW r \in Requests, NEW a \in Addresses, Verified(r, a)
      PROVE  \A op \in Kinds : NoNew(op)
  <2>1. Becomes(r, [op |-> "add", address |-> a])
    BY <1>4 DEF Verified
  <2> QED BY <2>1, <1>2
<1>5. ASSUME NEW r \in Requests, NEW a \in Addresses, NEW link, Found(r, link, a)
      PROVE  \A op \in Kinds : NoNew(op)
  <2>1. Becomes(r, [op |-> "found", link |-> link, address |-> a])
    BY <1>5 DEF Found
  <2> QED BY <2>1, <1>2
<1>6. ASSUME NEW r \in Requests, Count(r)
      PROVE  \A op \in Kinds \ {"counted"} : NoNew(op)
  <2>1. requests[r].op = "add" /\ requests[r] \in Request
    BY <1>6, RequestsTyped DEF Count
  <2>2. [requests[r] EXCEPT !.op = "counted"].op = "counted"
    BY <2>1, RequestFields
  <2>3. PICK request : Becomes(r, request) /\ request.op \in {"none", "counted"}
    BY <1>6, <2>2, FreeTyped DEF Count
  <2> QED BY <2>3, NewOnlyOwn
<1>7. ASSUME NEW r \in Requests, NEW want \in Patches, LockSettings(r, want)
      PROVE  \A op \in Kinds \ {"patch"} : NoNew(op)
  <2>1. Becomes(r, [op |-> "patch", want |-> want, read |-> settings])
    BY <1>7 DEF LockSettings
  <2> QED BY <2>1, NewOnlyOwn
<1>8. ASSUME NEW r \in Requests, NEW a \in Addresses, NEW item \in Items, NEW hide \in BOOLEAN,
             LockOrder(r, a, item, hide)
      PROVE  \A op \in Kinds \ {"correct"} : NoNew(op)
  <2>1. PICK request : Becomes(r, request) /\ request.op = "correct"
    BY <1>8 DEF LockOrder
  <2> QED BY <2>1, NewOnlyOwn
<1>9. ASSUME NEW r \in Requests, ReadOrders(r)
      PROVE  \A op \in Kinds \ {"half"} : NoNew(op)
  <2>1. PICK request : Becomes(r, request) /\ request.op = "half"
    BY <1>9 DEF ReadOrders
  <2> QED BY <2>1, NewOnlyOwn
<1>10. ASSUME NEW r \in Requests, ReadInvoices(r)
       PROVE  \A op \in Kinds \ {"shown"} : NoNew(op)
  <2>1. PICK request : Becomes(r, request) /\ request.op = "shown"
    BY <1>10 DEF ReadInvoices
  <2> QED BY <2>1, NewOnlyOwn
<1>11. ASSUME NEW r \in Requests, NEW link \in 1..Len(links), Visit(r, link)
       PROVE  \A op \in Kinds : NoNew(op)
  BY <1>11, <1>5 DEF Visit
<1>12. ASSUME NEW r \in Requests, NEW a \in Addresses, VisitSigned(r, a)
       PROVE  \A op \in Kinds : NoNew(op)
  BY <1>12, <1>5 DEF VisitSigned
<1>13. ASSUME NEW a \in Addresses, Remove(a) \/ Bill(a) \/ MakeLink(a)
       PROVE  UNCHANGED requests
  BY <1>13 DEF Remove, Bill, MakeLink
<1>14. CASE ReadSettings
  BY <1>14, <1>1 DEF ReadSettings
<1> QED BY <1>1, <1>3, <1>4, <1>6, <1>7, <1>8, <1>9, <1>10, <1>11, <1>12, <1>13, <1>14
        DEF WorkspaceNext, workspaceVars

LEMMA ProductFixed == ASSUME [WorkspaceNext]_workspaceVars PROVE product' = product
<1>1. ASSUME NEW r \in Requests,
             \/ Abort(r) \/ Count(r) \/ Insert(r) \/ SaveSettings(r) \/ CorrectItem(r)
             \/ ReadOrders(r) \/ ReadInvoices(r)
      PROVE  product' = product
  BY <1>1 DEF Abort, Count, Insert, SaveSettings, CorrectItem, ReadOrders, ReadInvoices
<1>2. ASSUME NEW r \in Requests, NEW want, NEW link, NEW a, NEW item, NEW hide,
             \/ LockSettings(r, want) \/ Visit(r, link) \/ Verified(r, a) \/ VisitSigned(r, a)
             \/ LockOrder(r, a, item, hide)
      PROVE  product' = product
  BY <1>2 DEF LockSettings, Visit, Verified, VisitSigned, LockOrder
<1>3. ASSUME NEW a, Remove(a) \/ Bill(a) \/ MakeLink(a) PROVE product' = product
  BY <1>3 DEF Remove, Bill, MakeLink
<1>4. ReadSettings \/ UNCHANGED workspaceVars => product' = product
  BY DEF ReadSettings, workspaceVars
<1> QED BY <1>1, <1>2, <1>3, <1>4 DEF WorkspaceNext

-----------------------------------------------------------------------------
(* The parts of the invariant.                                             *)

LEMMA OneMore ==
    ASSUME NEW S, IsFiniteSet(S), NEW x
    PROVE  IsFiniteSet(S \cup {x}) /\ Cardinality(S \cup {x}) <= Cardinality(S) + 1
<1>1. Cardinality(S) \in Nat
  BY FS_CardinalityType
<1> QED BY <1>1, FS_AddElement

LEMMA MailboxesKept == ASSUME WorkspaceInv, [WorkspaceNext]_workspaceVars PROVE Mailboxes'
<1> WorkspaceTypeOK /\ Mailboxes
  BY DEF WorkspaceInv
<1>1. IsFiniteSet(Connected) /\ Cardinality(Connected) \in Nat
  BY WorkspaceAssumption, FS_Subset, FS_CardinalityType DEF Connected
<1>2. CASE \E r \in Requests : Count(r)
  <2>1. PICK r \in Requests : Count(r)
    BY <1>2
  <2>2. \A q \in Requests : Op(q) # "counted"
    BY <2>1 DEF Count, WorkspaceLocked, Op
  <2>3. \A q \in Requests : Op(q)' = "counted" => q = r /\ Cardinality(Connected) < Limit
    BY <2>1, <2>2, <1>1, BecomesOne, FreeTyped, WorkspaceAssumption DEF Count, Op
  <2>4. Connected' = Connected /\ product' = product /\ product = "solo"
    BY <2>1 DEF Count, Connected
  <2> QED BY <2>3, <2>4 DEF Mailboxes, LimitKept
<1>3. CASE \E r \in Requests : Insert(r)
  <2>1. PICK r \in Requests : Insert(r)
    BY <1>3
  <2>2. requests'[r] = Free /\ \A q \in Requests : q # r => requests'[q] = requests[q]
    BY <2>1, BecomesOne DEF Insert
  <2>3. CASE product = "solo"
    <3>1. Op(r) = "counted" /\ Cardinality(Connected) < Limit
      BY <2>1, <2>3 DEF Insert, Op, Mailboxes
    <3>2. \A q \in Requests : Op(q)' # "counted"
      BY <2>2, <3>1, FreeTyped DEF Mailboxes, Op
    <3>3. requests[r].address \in Addresses
      BY <3>1, RequestsTyped, RequestFields DEF Op
    <3>4. Connected' \subseteq Connected \cup {requests[r].address}
      BY <2>1, <3>3 DEF Insert, Connected, WorkspaceTypeOK
    <3>5. /\ IsFiniteSet(Connected \cup {requests[r].address})
          /\ Cardinality(Connected \cup {requests[r].address}) <= Cardinality(Connected) + 1
      BY <1>1, OneMore
    <3>6. Cardinality(Connected') \in Nat /\ Cardinality(Connected') <= Limit
      BY <3>1, <3>4, <3>5, <1>1, FS_Subset, FS_CardinalityType, WorkspaceAssumption
    <3> QED BY <3>2, <3>6 DEF Mailboxes, LimitKept
  <2>4. CASE product # "solo"
    BY <2>1, <2>2, <2>4, FreeTyped DEF Insert, Mailboxes, LimitKept, Op
  <2> QED BY <2>3, <2>4
<1>4. CASE \E a \in Addresses : Remove(a)
  <2>1. PICK a \in Addresses : Remove(a)
    BY <1>4
  <2>2. Connected' \subseteq Connected
    BY <2>1 DEF Remove, Connected, WorkspaceTypeOK, NoCustomer
  <2>3. Cardinality(Connected') \in Nat /\ Cardinality(Connected') <= Cardinality(Connected)
    BY <2>2, <1>1, FS_Subset, FS_CardinalityType
  <2> QED BY <2>1, <2>3, <1>1, WorkspaceAssumption DEF Remove, Mailboxes, LimitKept, Op
<1>5. ASSUME ~\E r \in Requests : Count(r) \/ Insert(r), ~\E a \in Addresses : Remove(a)
      PROVE  Mailboxes'
  <2>1. NoNew("counted")
    BY <1>5, StepKinds
  <2>2. product' = product
    BY ProductFixed
  <2>3. Connected' = Connected
    <3>1. CASE UNCHANGED customers
      BY <3>1 DEF Connected
    <3>2. ASSUME NEW r \in Requests, CorrectItem(r) PROVE Connected' = Connected
      BY <3>2 DEF CorrectItem, Connected, WorkspaceTypeOK, Customer
    <3>3. ASSUME NEW a \in Addresses, Bill(a) \/ MakeLink(a) PROVE Connected' = Connected
      BY <3>3 DEF Bill, MakeLink, Connected, WorkspaceTypeOK, Customer
    <3> QED
      BY <1>5, <3>1, <3>2, <3>3
         DEF WorkspaceNext, workspaceVars, Abort, Verified, ReadSettings, LockSettings,
             SaveSettings, LockOrder, Visit, VisitSigned, ReadOrders, ReadInvoices
  <2> QED BY <2>1, <2>2, <2>3 DEF Mailboxes, LimitKept, NoNew
<1> QED BY <1>2, <1>3, <1>4, <1>5

(* What a step leaves of the rows it is not about.                         *)
LEMMA SettingsFixed ==
    ASSUME [WorkspaceNext]_workspaceVars
    PROVE  settings' = settings \/ ReadSettings \/ \E r \in Requests : SaveSettings(r)
<1>1. ASSUME NEW r \in Requests,
             \/ Abort(r) \/ Count(r) \/ Insert(r) \/ CorrectItem(r) \/ ReadOrders(r) \/ ReadInvoices(r)
      PROVE  settings' = settings
  BY <1>1 DEF Abort, Count, Insert, CorrectItem, ReadOrders, ReadInvoices
<1>2. ASSUME NEW r \in Requests, NEW want, NEW link, NEW a, NEW item, NEW hide,
             \/ LockSettings(r, want) \/ Visit(r, link) \/ Verified(r, a) \/ VisitSigned(r, a)
             \/ LockOrder(r, a, item, hide)
      PROVE  settings' = settings
  BY <1>2 DEF LockSettings, Visit, Verified, VisitSigned, LockOrder
<1>3. ASSUME NEW a, Remove(a) \/ Bill(a) \/ MakeLink(a) PROVE settings' = settings
  BY <1>3 DEF Remove, Bill, MakeLink
<1>4. UNCHANGED workspaceVars => settings' = settings
  BY DEF workspaceVars
<1> QED BY <1>1, <1>2, <1>3, <1>4 DEF WorkspaceNext

LEMMA SettingsKept == ASSUME WorkspaceInv, [WorkspaceNext]_workspaceVars PROVE Settings'
<1> WorkspaceTypeOK /\ Settings
  BY DEF WorkspaceInv
<1>1. CASE \E r \in Requests, want \in Patches : LockSettings(r, want)
  <2>1. PICK r \in Requests, want \in Patches : LockSettings(r, want)
    BY <1>1
  <2>2. /\ requests'[r] = [op |-> "patch", want |-> want, read |-> settings]
        /\ \A q \in Requests : q # r => requests'[q] = requests[q]
    BY <2>1, BecomesOne DEF LockSettings
  <2>3. settings # NoSettings /\ UNCHANGED settings /\ \A q \in Requests : Op(q) # "patch"
    BY <2>1 DEF LockSettings, SettingsLocked, Op
  <2> QED BY <2>2, <2>3 DEF Settings, Op, NoSettings
<1>2. CASE \E r \in Requests : SaveSettings(r)
  <2>1. PICK r \in Requests : SaveSettings(r)
    BY <1>2
  <2>2. requests'[r] = Free /\ \A q \in Requests : q # r => requests'[q] = requests[q]
    BY <2>1, BecomesOne DEF SaveSettings
  <2>3. \A q \in Requests : Op(q)' # "patch"
    BY <2>1, <2>2, FreeTyped DEF SaveSettings, Settings, Op
  <2> QED BY <2>3 DEF Settings
<1>3. CASE ReadSettings
  BY <1>3 DEF ReadSettings, Settings, Op
<1>4. ASSUME ~(\E r \in Requests, want \in Patches : LockSettings(r, want)),
             ~(\E r \in Requests : SaveSettings(r)), ~ReadSettings
      PROVE  Settings'
  <2>1. NoNew("patch") /\ UNCHANGED settings
    BY <1>4, StepKinds, SettingsFixed
  <2> QED BY <2>1 DEF Settings, NoNew, Op, NoSettings
<1> QED BY <1>1, <1>2, <1>3, <1>4

(* The steps that change the rows of customers.                            *)
LEMMA CustomersFixed ==
    ASSUME [WorkspaceNext]_workspaceVars
    PROVE  \/ UNCHANGED customers
           \/ \E r \in Requests : Insert(r) \/ CorrectItem(r)
           \/ \E a \in Addresses : Remove(a) \/ Bill(a) \/ MakeLink(a)
<1>1. ASSUME NEW r \in Requests,
             Abort(r) \/ Count(r) \/ SaveSettings(r) \/ ReadOrders(r) \/ ReadInvoices(r)
      PROVE  UNCHANGED customers
  BY <1>1 DEF Abort, Count, SaveSettings, ReadOrders, ReadInvoices
<1>2. ASSUME NEW r \in Requests, NEW want, NEW link, NEW a, NEW item, NEW hide,
             \/ LockSettings(r, want) \/ Visit(r, link) \/ Verified(r, a) \/ VisitSigned(r, a)
             \/ LockOrder(r, a, item, hide)
      PROVE  UNCHANGED customers
  BY <1>2 DEF LockSettings, Visit, Verified, VisitSigned, LockOrder
<1>3. ReadSettings \/ UNCHANGED workspaceVars => UNCHANGED customers
  BY DEF ReadSettings, workspaceVars
<1> QED BY <1>1, <1>2, <1>3 DEF WorkspaceNext

LEMMA InsertRows ==
    ASSUME WorkspaceTypeOK, NEW r \in Requests, Insert(r)
    PROVE  /\ requests'[r] = Free
           /\ \A q \in Requests : q # r => requests'[q] = requests[q]
           /\ \A a \in Addresses : \/ customers'[a] = customers[a]
                                   \/ ~customers[a].open /\ customers'[a] = NewCustomer
BY BecomesOne DEF Insert, WorkspaceTypeOK

LEMMA CorrectAddress ==
    ASSUME WorkspaceTypeOK, NEW q \in Requests, Op(q) = "correct"
    PROVE  requests[q].address \in Addresses
<1>1. requests[q] \in Request
  BY RequestsTyped
<1> QED BY <1>1, RequestFields DEF Op

LEMMA CorrectionsKept == ASSUME WorkspaceInv, [WorkspaceNext]_workspaceVars PROVE Corrections'
<1> WorkspaceTypeOK /\ Corrections
  BY DEF WorkspaceInv
<1>1. CASE \E r \in Requests, a \in Addresses, item \in Items, hide \in BOOLEAN :
              LockOrder(r, a, item, hide)
  <2>1. PICK r \in Requests, a \in Addresses, item \in Items, hide \in BOOLEAN :
               LockOrder(r, a, item, hide)
    BY <1>1
  <2>2. /\ requests'[r] = [op |-> "correct", address |-> a, item |-> item, hide |-> hide,
                           read |-> customers[a].hidden]
        /\ \A q \in Requests : q # r => requests'[q] = requests[q]
    BY <2>1, BecomesOne DEF LockOrder
  <2>3. /\ customers[a].open /\ UNCHANGED customers
        /\ \A q \in Requests : Op(q) = "correct" => requests[q].address # a
    BY <2>1 DEF LockOrder, OrderLocked, Op
  <2> QED BY <2>2, <2>3 DEF Corrections, HiddenAsReported, Op
<1>2. CASE \E r \in Requests : CorrectItem(r)
  <2>1. PICK r \in Requests : CorrectItem(r)
    BY <1>2
  <2> DEFINE a == requests[r].address
             c == customers[a]
             to == Marked(c.hidden, requests[r].item, requests[r].hide)
  <2>2. requests'[r] = Free /\ \A q \in Requests : q # r => requests'[q] = requests[q]
    BY <2>1, BecomesOne DEF CorrectItem
  <2>3. a \in Addresses /\ Op(r) = "correct" /\ c \in Customer
    BY <2>1, RequestsTyped, RequestFields DEF CorrectItem, Op, WorkspaceTypeOK
  <2>4. requests[r].read = c.hidden /\ c.open /\ c.reported = c.hidden
    BY <2>3 DEF Corrections, HiddenAsReported
  <2>5. customers' = [customers EXCEPT ![a] = [@ EXCEPT !.hidden = to, !.reported = to]]
    BY <2>1, <2>4 DEF CorrectItem
  <2>6. /\ customers'[a].hidden = to /\ customers'[a].reported = to
        /\ \A b \in Addresses : b # a => customers'[b] = customers[b]
    BY <2>3, <2>5 DEF WorkspaceTypeOK, Customer
  <2>7. ASSUME NEW q \in Requests, Op(q)' = "correct"
        PROVE  /\ requests'[q] = requests[q] /\ Op(q) = "correct"
               /\ requests[q].address \in Addresses /\ requests[q].address # a
    <3>1. q # r /\ requests'[q] = requests[q] /\ Op(q) = "correct"
      BY <2>2, <2>7, FreeTyped DEF Op
    <3> QED BY <3>1, <2>3, CorrectAddress DEF Corrections
  <2>8. HiddenAsReported'
    BY <2>6 DEF HiddenAsReported, Corrections
  <2> QED BY <2>6, <2>7, <2>8 DEF Corrections
<1>3. CASE \E r \in Requests : Insert(r)
  <2>1. PICK r \in Requests : Insert(r)
    BY <1>3
  <2>2. HiddenAsReported'
    <3>1. \A a \in Addresses : customers'[a] = customers[a] \/ customers'[a] = NewCustomer
      BY <2>1, InsertRows
    <3> QED BY <3>1, CustomerFields DEF Corrections, HiddenAsReported
  <2>3. ASSUME NEW q \in Requests, Op(q)' = "correct"
        PROVE  /\ requests'[q] = requests[q] /\ Op(q) = "correct"
               /\ requests[q].address \in Addresses
               /\ customers'[requests[q].address] = customers[requests[q].address]
    <3>1. q # r /\ requests'[q] = requests[q] /\ Op(q) = "correct"
      BY <2>1, <2>3, InsertRows, FreeTyped DEF Op
    <3>2. requests[q].address \in Addresses /\ customers[requests[q].address].open
      BY <3>1, CorrectAddress DEF Corrections
    <3> QED BY <2>1, <3>1, <3>2, InsertRows
  <2> QED BY <2>2, <2>3 DEF Corrections
<1>4. CASE \E a \in Addresses : Remove(a)
  <2>1. PICK a \in Addresses : Remove(a)
    BY <1>4
  <2>2. /\ UNCHANGED requests /\ customers'[a] = NoCustomer
        /\ \A b \in Addresses : b # a => customers'[b] = customers[b]
    BY <2>1 DEF Remove, WorkspaceTypeOK
  <2>3. HiddenAsReported'
    BY <2>2, CustomerFields DEF Corrections, HiddenAsReported
  <2>4. \A q \in Requests : Op(q) = "correct" =>
           requests[q].address \in Addresses /\ requests[q].address # a
    BY <2>1, RequestsTyped, RequestFields DEF Remove, Op
  <2> QED BY <2>2, <2>3, <2>4 DEF Corrections, Op
<1>5. CASE \E a \in Addresses : Bill(a) \/ MakeLink(a)
  <2>1. PICK a \in Addresses : Bill(a) \/ MakeLink(a)
    BY <1>5
  <2>2. UNCHANGED requests
    BY <2>1 DEF Bill, MakeLink
  <2>3. \A b \in Addresses : /\ customers'[b].hidden = customers[b].hidden
                             /\ customers'[b].reported = customers[b].reported
                             /\ customers'[b].open = customers[b].open
    <3>1. \A b \in Addresses : customers[b] \in Customer
      BY DEF WorkspaceTypeOK
    <3>2. \/ customers' = [customers EXCEPT ![a] = [@ EXCEPT !.billed = TRUE]]
          \/ customers' = [customers EXCEPT ![a] = [@ EXCEPT !.link = Len(links) + 1]]
      BY <2>1 DEF Bill, MakeLink
    <3>3. ASSUME NEW b \in Addresses
          PROVE  \/ customers'[b] = customers[b]
                 \/ customers'[b] = [customers[b] EXCEPT !.billed = TRUE]
                 \/ customers'[b] = [customers[b] EXCEPT !.link = Len(links) + 1]
      BY <3>2 DEF WorkspaceTypeOK
    <3>4. ASSUME NEW row \in Customer, NEW new,
                 new = [row EXCEPT !.billed = TRUE] \/ new = [row EXCEPT !.link = Len(links) + 1]
          PROVE  new.hidden = row.hidden /\ new.reported = row.reported /\ new.open = row.open
      BY <3>4 DEF Customer
    <3>5. ASSUME NEW b \in Addresses
          PROVE  /\ customers'[b].hidden = customers[b].hidden
                 /\ customers'[b].reported = customers[b].reported
                 /\ customers'[b].open = customers[b].open
      <4>1. CASE customers'[b] = customers[b]
        BY <4>1
      <4>2. CASE \/ customers'[b] = [customers[b] EXCEPT !.billed = TRUE]
                 \/ customers'[b] = [customers[b] EXCEPT !.link = Len(links) + 1]
        BY <4>2, <3>1, <3>4
      <4> QED BY <3>3, <4>1, <4>2
    <3> QED BY <3>5
  <2>4. \A q \in Requests : Op(q) = "correct" => requests[q].address \in Addresses
    BY RequestsTyped, RequestFields DEF Op
  <2> QED BY <2>2, <2>3, <2>4 DEF Corrections, HiddenAsReported, Op
<1>6. CASE NoNew("correct") /\ UNCHANGED customers
  BY <1>6 DEF Corrections, HiddenAsReported, NoNew, Op
<1> QED BY <1>1, <1>2, <1>3, <1>4, <1>5, <1>6, StepKinds, CustomersFixed

LEMMA LinksFixed ==
    ASSUME [WorkspaceNext]_workspaceVars
    PROVE  UNCHANGED links \/ \E a \in Addresses : MakeLink(a)
<1>1. ASSUME NEW r \in Requests,
             \/ Abort(r) \/ Count(r) \/ Insert(r) \/ SaveSettings(r) \/ CorrectItem(r)
             \/ ReadOrders(r) \/ ReadInvoices(r)
      PROVE  UNCHANGED links
  BY <1>1 DEF Abort, Count, Insert, SaveSettings, CorrectItem, ReadOrders, ReadInvoices
<1>2. ASSUME NEW r \in Requests, NEW want, NEW n, NEW b, NEW item, NEW hide,
             \/ LockSettings(r, want) \/ Visit(r, n) \/ Verified(r, b) \/ VisitSigned(r, b)
             \/ LockOrder(r, b, item, hide)
      PROVE  UNCHANGED links
  BY <1>2 DEF LockSettings, Visit, Verified, VisitSigned, LockOrder
<1>3. ASSUME NEW b, Remove(b) \/ Bill(b) PROVE UNCHANGED links
  BY <1>3 DEF Remove, Bill
<1>4. ReadSettings \/ UNCHANGED workspaceVars => UNCHANGED links
  BY DEF ReadSettings, workspaceVars
<1> QED BY <1>1, <1>2, <1>3, <1>4 DEF WorkspaceNext

(* A link made stays its customer's.                                       *)
LEMMA LinksStand ==
    ASSUME WorkspaceTypeOK, [WorkspaceNext]_workspaceVars,
           NEW link \in 0..MaxLinks, NEW a \in Addresses, LinkOf(link, a)
    PROVE  LinkOf(link, a)'
<1>1. CASE \E b \in Addresses : MakeLink(b)
  BY <1>1 DEF MakeLink, LinkOf, WorkspaceTypeOK
<1>2. CASE UNCHANGED links
  BY <1>2 DEF LinkOf
<1> QED BY <1>1, <1>2, LinksFixed

(* The rows of customers, as far as portals show them.                     *)
LEMMA PortalRows ==
    ASSUME WorkspaceInv, [WorkspaceNext]_workspaceVars, NEW a \in Addresses
    PROVE  /\ LinkOf(customers[a].link, a)'
           /\ customers'[a].billed => customers'[a].open
           /\ product = "aco" /\ customers[a].billed => customers'[a].billed
<1> WorkspaceTypeOK /\ LinkOf(customers[a].link, a) /\ (customers[a].billed => customers[a].open)
  BY DEF WorkspaceInv, Portals
<1> DEFINE c == customers[a]
           Same == customers'[a] = c
           Replaced == customers'[a] \in {NoCustomer, NewCustomer} /\ (product = "aco" => ~c.open)
           Corrected == \E hidden, reported :
                           customers'[a] = [c EXCEPT !.hidden = hidden, !.reported = reported]
           Billed == c.open /\ customers'[a] = [c EXCEPT !.billed = TRUE]
<1>1. c \in Customer /\ c.link \in 0..MaxLinks
  BY DEF WorkspaceTypeOK, Customer
<1>2. CASE Same
  BY <1>1, <1>2, LinksStand DEF LinkOf
<1>3. CASE Replaced
  BY <1>3, CustomerFields DEF LinkOf
<1>4. CASE Corrected
  <2>1. /\ customers'[a].link = c.link /\ customers'[a].billed = c.billed
        /\ customers'[a].open = c.open
    BY <1>1, <1>4 DEF Customer
  <2> QED BY <1>1, <2>1, LinksStand DEF LinkOf
<1>5. CASE Billed
  <2>1. customers'[a].link = c.link /\ customers'[a].billed /\ customers'[a].open
    BY <1>1, <1>5 DEF Customer
  <2> QED BY <1>1, <2>1, LinksStand DEF LinkOf
<1>6. CASE MakeLink(a)
  <2>1. /\ customers'[a].link = Len(links) + 1 /\ customers'[a].billed = c.billed
        /\ customers'[a].open = c.open
    BY <1>1, <1>6 DEF MakeLink, WorkspaceTypeOK, Customer
  <2>2. Len(links') = Len(links) + 1 /\ links'[Len(links) + 1] = a
    BY <1>6 DEF MakeLink, WorkspaceTypeOK
  <2> QED BY <2>1, <2>2 DEF LinkOf
<1>7. ASSUME NEW r \in Requests, Insert(r) PROVE Same \/ Replaced
  BY <1>7, InsertRows
<1>8. ASSUME NEW r \in Requests, CorrectItem(r) PROVE Same \/ Corrected
  BY <1>8 DEF CorrectItem, WorkspaceTypeOK
<1>9. ASSUME NEW b \in Addresses, Remove(b) PROVE Same \/ Replaced
  BY <1>9 DEF Remove, WorkspaceTypeOK
<1>10. ASSUME NEW b \in Addresses, Bill(b) PROVE Same \/ Billed
  BY <1>10 DEF Bill, WorkspaceTypeOK
<1>11. ASSUME NEW b \in Addresses, MakeLink(b) PROVE Same \/ MakeLink(a)
  BY <1>11 DEF MakeLink, WorkspaceTypeOK
<1> QED BY <1>2, <1>3, <1>4, <1>5, <1>6, <1>7, <1>8, <1>9, <1>10, <1>11, CustomersFixed

(* A visit has its link and address from Visit or VisitSigned on.          *)
VisitKinds == {"found", "half", "shown"}

LEMMA VisitsFrom ==
    ASSUME WorkspaceInv, [WorkspaceNext]_workspaceVars, NEW q \in Requests, Op(q)' \in VisitKinds
    PROVE  \/ /\ Op(q) \in VisitKinds
              /\ requests'[q].link = requests[q].link /\ requests'[q].address = requests[q].address
           \/ /\ product = "aco"
              /\ requests'[q].address \in Addresses
              /\ \/ requests'[q].link = 0
                 \/ requests'[q].link = customers[requests'[q].address].link
<1> WorkspaceTypeOK /\ Portals
  BY DEF WorkspaceInv
<1> DEFINE Goal == \/ /\ Op(q) \in VisitKinds
                      /\ requests'[q].link = requests[q].link
                      /\ requests'[q].address = requests[q].address
                   \/ /\ product = "aco"
                      /\ requests'[q].address \in Addresses
                      /\ \/ requests'[q].link = 0
                         \/ requests'[q].link = customers[requests'[q].address].link
<1>1. CASE requests'[q] = requests[q]
  BY <1>1 DEF Op
<1>2. ASSUME NEW request, Becomes(q, request), request.op \notin VisitKinds PROVE FALSE
  BY <1>2, BecomesOne DEF Op
<1>3. ASSUME NEW r \in Requests, NEW request, Becomes(r, request), request.op \notin VisitKinds
      PROVE  Goal
  BY <1>1, <1>2, <1>3, BecomesOne
<1>4. ASSUME NEW r \in Requests, Abort(r) \/ Insert(r) \/ SaveSettings(r) \/ CorrectItem(r)
      PROVE  Goal
  <2>1. Becomes(r, Free)
    BY <1>4 DEF Abort, Insert, SaveSettings, CorrectItem
  <2> QED BY <2>1, <1>3, FreeTyped DEF VisitKinds
<1>5. ASSUME NEW r \in Requests, Count(r) PROVE Goal
  <2>1. PICK request : Becomes(r, request) /\ request.op \in {"none", "counted"}
    BY <1>5, FreeTyped, RequestsTyped, RequestFields DEF Count
  <2> QED BY <2>1, <1>3 DEF VisitKinds
<1>6. ASSUME NEW r \in Requests, NEW a \in Addresses, Verified(r, a) PROVE Goal
  <2>1. Becomes(r, [op |-> "add", address |-> a])
    BY <1>6 DEF Verified
  <2> QED BY <2>1, <1>3 DEF VisitKinds
<1>7. ASSUME NEW r \in Requests, NEW want \in Patches, LockSettings(r, want) PROVE Goal
  <2>1. Becomes(r, [op |-> "patch", want |-> want, read |-> settings])
    BY <1>7 DEF LockSettings
  <2> QED BY <2>1, <1>3 DEF VisitKinds
<1>8. ASSUME NEW r \in Requests, NEW a \in Addresses, NEW item \in Items, NEW hide \in BOOLEAN,
             LockOrder(r, a, item, hide)
      PROVE  Goal
  <2>1. PICK request : Becomes(r, request) /\ request.op = "correct"
    BY <1>8 DEF LockOrder
  <2> QED BY <2>1, <1>3 DEF VisitKinds
<1>9. ASSUME NEW r \in Requests, NEW a \in Addresses, NEW link, Found(r, link, a),
             product = "aco", link = 0 \/ link = customers[a].link
      PROVE  Goal
  <2>1. /\ requests'[r] = [op |-> "found", link |-> link, address |-> a]
        /\ r # q => requests'[q] = requests[q]
    BY <1>9, BecomesOne DEF Found
  <2> QED BY <1>1, <1>9, <2>1
<1>10. ASSUME NEW r \in Requests, NEW link \in 1..Len(links), Visit(r, link) PROVE Goal
  <2>1. product = "aco"
    BY DEF Portals, WorkspaceTypeOK
  <2> QED BY <1>10, <2>1, <1>9 DEF Visit
<1>11. ASSUME NEW r \in Requests, NEW a \in Addresses, VisitSigned(r, a) PROVE Goal
  BY <1>11, <1>9 DEF VisitSigned
<1>12. ASSUME NEW r \in Requests, ReadOrders(r) \/ ReadInvoices(r) PROVE Goal
  <2>1. PICK request : /\ Becomes(r, request) /\ request.link = requests[r].link
                       /\ request.address = requests[r].address
    BY <1>12 DEF ReadOrders, ReadInvoices
  <2>2. Op(r) \in VisitKinds
    BY <1>12 DEF ReadOrders, ReadInvoices, Op, VisitKinds
  <2> QED BY <1>1, <2>1, <2>2, BecomesOne
<1>13. ASSUME NEW a \in Addresses, Remove(a) \/ Bill(a) \/ MakeLink(a) PROVE Goal
  BY <1>13, <1>1 DEF Remove, Bill, MakeLink
<1>14. ReadSettings \/ UNCHANGED workspaceVars => Goal
  BY <1>1 DEF ReadSettings, workspaceVars
<1> QED BY <1>4, <1>5, <1>6, <1>7, <1>8, <1>10, <1>11, <1>12, <1>13, <1>14 DEF WorkspaceNext

LEMMA PortalsKept == ASSUME WorkspaceInv, [WorkspaceNext]_workspaceVars PROVE Portals'
<1> WorkspaceTypeOK /\ Portals
  BY DEF WorkspaceInv
<1>1. product' = product
  BY ProductFixed
<1>2. (product = "solo" => links = <<>>)'
  BY <1>1, LinksFixed DEF Portals, MakeLink
<1>3. \A a \in Addresses : LinkOf(customers[a].link, a)' /\ (customers'[a].billed => customers'[a].open)
  BY PortalRows
<1>4. ASSUME NEW q \in Requests, Op(q)' \in VisitKinds
      PROVE  product' = "aco" /\ LinkOf(requests[q].link, requests[q].address)'
  <2>1. CASE /\ Op(q) \in VisitKinds
             /\ requests'[q].link = requests[q].link /\ requests'[q].address = requests[q].address
    <3>1. product = "aco" /\ LinkOf(requests[q].link, requests[q].address)
      BY <2>1 DEF Portals, VisitKinds
    <3>2. requests[q] \in Request
      BY RequestsTyped
    <3>3. requests[q].address \in Addresses /\ requests[q].link \in 0..MaxLinks
      BY <2>1, <3>2, RequestFields DEF Op, VisitKinds
    <3> DEFINE n == requests[q].link
               a == requests[q].address
    <3>4. LinkOf(n, a)'
      <4>1. n > 0 => n <= Len(links) /\ links[n] = a
        BY <3>1 DEF LinkOf
      <4>2. n > 0 => n <= Len(links') /\ links'[n] = a
        BY SMTT(30), <4>1, <3>3, LinksFixed DEF MakeLink, WorkspaceTypeOK
      <4> QED BY <2>1, <4>2 DEF LinkOf
    <3> QED BY <1>1, <2>1, <3>1, <3>4 DEF LinkOf
  <2>2. CASE /\ product = "aco"
             /\ requests'[q].address \in Addresses
             /\ \/ requests'[q].link = 0
                \/ requests'[q].link = customers[requests'[q].address].link
    <3> DEFINE n == requests'[q].link
               a == requests'[q].address
    <3>1. n = 0 \/ (n \in 0..MaxLinks /\ (n > 0 => n <= Len(links) /\ links[n] = a))
      BY <2>2 DEF Portals, LinkOf, WorkspaceTypeOK, Customer
    <3>2. n > 0 => n <= Len(links') /\ links'[n] = a
      BY <2>2, <3>1, LinksFixed DEF MakeLink, WorkspaceTypeOK
    <3> QED BY <1>1, <2>2, <3>2 DEF LinkOf
  <2> QED BY <1>4, <2>1, <2>2, VisitsFrom
<1>5. ASSUME NEW q \in Requests, Op(q)' = "half"
      PROVE  requests'[q].first => customers'[requests'[q].address].billed
  <2>1. CASE Op(q) = "half" /\ requests'[q] = requests[q]
    <3>1. requests[q].address \in Addresses /\ product = "aco"
      BY <2>1, RequestsTyped, RequestFields DEF Op, Portals
    <3>2. requests[q].first => customers[requests[q].address].billed
      BY <2>1 DEF Portals
    <3> QED BY <2>1, <3>1, <3>2, PortalRows
  <2>2. ASSUME NEW r \in Requests, ReadOrders(r)
        PROVE  requests'[q].first => customers'[requests'[q].address].billed
    <3>1. /\ Becomes(r, [op |-> "half", link |-> requests[r].link, address |-> requests[r].address,
                         first |-> customers[requests[r].address].billed])
          /\ UNCHANGED customers
      BY <2>2 DEF ReadOrders
    <3>2. CASE q = r
      BY <3>1, <3>2, BecomesOne
    <3>3. CASE q # r
      <4>1. requests'[q] = requests[q] /\ Op(q) = "half"
        BY <1>5, <3>1, <3>3, BecomesOne DEF Op
      <4> QED BY <4>1, <2>1
    <3> QED BY <3>2, <3>3
  <2> QED BY <1>5, <2>1, <2>2, StepKinds DEF NoNew
<1>6. ASSUME NEW q \in Requests, Op(q)' = "shown"
      PROVE  requests'[q].portal.billed => requests'[q].portal.invoiced
  <2>1. CASE Op(q) = "shown" /\ requests'[q] = requests[q]
    BY <2>1 DEF Portals
  <2>2. ASSUME NEW r \in Requests, ReadInvoices(r)
        PROVE  requests'[q].portal.billed => requests'[q].portal.invoiced
    <3> DEFINE p == Portal(requests[r].first, customers[requests[r].address].billed)
    <3>1. /\ Becomes(r, [op |-> "shown", link |-> requests[r].link, address |-> requests[r].address,
                         portal |-> p])
          /\ Op(r) = "half"
      BY <2>2 DEF ReadInvoices, Op
    <3>2. p.billed => p.invoiced
      BY <3>1 DEF Portals, Portal
    <3>3. CASE q = r
      <4>1. requests'[q].portal = p
        BY <3>1, <3>3, BecomesOne
      <4> QED BY <4>1, <3>2
    <3>4. CASE q # r
      <4>1. requests'[q] = requests[q] /\ Op(q) = "shown"
        BY <1>6, <3>1, <3>4, BecomesOne DEF Op
      <4> QED BY <4>1, <2>1
    <3> QED BY <3>3, <3>4
  <2> QED BY <1>6, <2>1, <2>2, StepKinds DEF NoNew
<1> QED BY <1>1, <1>2, <1>3, <1>4, <1>5, <1>6 DEF Portals, VisitKinds, Op

-----------------------------------------------------------------------------
(* The invariant holds in every behaviour.                                 *)
THEOREM WorkspaceInvariant == WorkspaceSpec => []WorkspaceInv
<1>1. WorkspaceInv /\ [WorkspaceNext]_workspaceVars => WorkspaceInv'
  BY TypesKept, MailboxesKept, SettingsKept, CorrectionsKept, PortalsKept DEF WorkspaceInv
<1> QED BY <1>1, StartTyped, PTL DEF WorkspaceSpec

(* Variables hold values of their types.                                   *)
THEOREM WorkspaceTypeCorrect == WorkspaceSpec => []WorkspaceTypeOK
<1>1. WorkspaceInv => WorkspaceTypeOK
  BY DEF WorkspaceInv
<1> QED BY <1>1, WorkspaceInvariant, PTL

(* A Solo account stays within its plan, whatever the plan's limit and     *)
(* however many mailboxes are added at once.                               *)
THEOREM LimitHolds == WorkspaceSpec => []LimitKept
<1>1. WorkspaceInv => LimitKept
  BY DEF WorkspaceInv, Mailboxes
<1> QED BY <1>1, WorkspaceInvariant, PTL

(* No correction of an item is lost to another.                            *)
THEOREM CorrectionsHold == WorkspaceSpec => []HiddenAsReported
<1>1. WorkspaceInv => HiddenAsReported
  BY DEF WorkspaceInv, Corrections
<1> QED BY <1>1, WorkspaceInvariant, PTL

(* A visit shows its link's customer, and no claim without its invoice.    *)
THEOREM PortalsWhole == WorkspaceSpec => []PortalWhole
<1>1. WorkspaceInv => PortalWhole
  BY DEF WorkspaceInv, Portals, PortalWhole, LinkOf, Op
<1> QED BY <1>1, WorkspaceInvariant, PTL

(* A patch changes the settings it names and no other.                     *)
PatchesKept ==
    [][settings # NoSettings =>
         \A f \in Fields : settings'[f] # settings[f] =>
            \E r \in Requests : /\ requests[r].op = "patch" /\ requests'[r] = Free
                                /\ f \in DOMAIN requests[r].want
                                /\ settings'[f] = requests[r].want[f]]_workspaceVars

(* Patches made side by side keep to the settings they name.               *)
THEOREM PatchesHold == WorkspaceSpec => PatchesKept
<1> DEFINE Kept == settings # NoSettings =>
                     \A f \in Fields : settings'[f] # settings[f] =>
                        \E r \in Requests : /\ requests[r].op = "patch" /\ requests'[r] = Free
                                            /\ f \in DOMAIN requests[r].want
                                            /\ settings'[f] = requests[r].want[f]
<1>1. WorkspaceInv /\ [WorkspaceNext]_workspaceVars => [Kept]_workspaceVars
  <2> SUFFICES ASSUME WorkspaceInv, [WorkspaceNext]_workspaceVars, settings # NoSettings,
                      NEW f \in Fields, settings'[f] # settings[f]
               PROVE  \E r \in Requests : /\ requests[r].op = "patch" /\ requests'[r] = Free
                                          /\ f \in DOMAIN requests[r].want
                                          /\ settings'[f] = requests[r].want[f]
    OBVIOUS
  <2>1. PICK r \in Requests : SaveSettings(r)
    BY SettingsFixed DEF ReadSettings
  <2>2. requests[r].op = "patch" /\ requests[r].read = settings /\ requests'[r] = Free
    BY <2>1, BecomesOne DEF SaveSettings, WorkspaceInv, Settings, Op
  <2>3. settings'[f] = IF f \in DOMAIN requests[r].want THEN requests[r].want[f] ELSE settings[f]
    BY <2>1, <2>2 DEF SaveSettings
  <2> QED BY <2>2, <2>3
<1> QED BY <1>1, WorkspaceInvariant, PTL DEF WorkspaceSpec, PatchesKept

-----------------------------------------------------------------------------
(* One request after the other.                                            *)

Hidden == [a \in Addresses |-> customers[a].hidden]
Asked == [r \in Requests |-> Wish(requests[r])]

LEMMA WishOf ==
    ASSUME NEW q \in Request
    PROVE  /\ q.op \in {"add", "counted"} => Wish(q) = [op |-> "add", address |-> q.address]
           /\ q.op = "patch" => Wish(q) = [op |-> "patch", want |-> q.want]
           /\ q.op = "correct" =>
                 Wish(q) = [op |-> "correct", address |-> q.address, item |-> q.item, hide |-> q.hide]
           /\ q.op \in {"none", "found", "half", "shown"} => Wish(q) = Free
           /\ Wish(q) = Free \/ Wish(q) \in InTurn!Wishes
<1>1. q.op \in {"add", "counted"} => Wish(q) = [op |-> "add", address |-> q.address]
  BY DEF Wish
<1>2. q.op = "patch" => Wish(q) = [op |-> "patch", want |-> q.want]
  BY DEF Wish
<1>3. q.op = "correct" =>
         Wish(q) = [op |-> "correct", address |-> q.address, item |-> q.item, hide |-> q.hide]
  BY DEF Wish
<1>4. q.op \in {"none", "found", "half", "shown"} => Wish(q) = Free
  BY DEF Wish
<1>5. Wish(q) = Free \/ Wish(q) \in InTurn!Wishes
  <2>1. CASE q.op \in {"add", "counted"}
    <3>1. q.address \in Addresses
      BY <2>1, RequestFields
    <3> QED BY <1>1, <2>1, <3>1 DEF InTurn!Wishes
  <2>2. CASE q.op = "patch"
    <3>1. q.want \in Patches
      BY <2>2, RequestFields
    <3> QED BY <1>2, <2>2, <3>1 DEF InTurn!Wishes, Patches
  <2>3. CASE q.op = "correct"
    <3>1. q.address \in Addresses /\ q.item \in Items /\ q.hide \in BOOLEAN
      BY <2>3, RequestFields
    <3> QED BY <1>3, <2>3, <3>1 DEF InTurn!Wishes
  <2> QED BY <1>4, <2>1, <2>2, <2>3, RequestFields
<1> QED BY <1>1, <1>2, <1>3, <1>4, <1>5

(* Nothing of what was promised changes.                                   *)
LEMMA SerialRests ==
    ASSUME UNCHANGED <<product, settings>>, Connected' = Connected, Hidden' = Hidden, Asked' = Asked
    PROVE  UNCHANGED InTurn!serialVars
BY DEF InTurn!serialVars, Hidden, Asked

(* Only the wish of the request that takes the step changes.               *)
LEMMA AskedOne ==
    ASSUME WorkspaceTypeOK, NEW r \in Requests, NEW request, Becomes(r, request)
    PROVE  /\ Asked' = [Asked EXCEPT ![r] = Wish(request)]
           /\ Wish(request) = Wish(requests[r]) => Asked' = Asked
<1>1. /\ requests'[r] = request
      /\ \A q \in Requests : q # r => requests'[q] = requests[q]
  BY BecomesOne
<1>2. Asked' = [q \in Requests |-> Wish(requests'[q])]
  BY DEF Asked, Wish
<1> QED BY <1>1, <1>2 DEF Asked

(* The request comes to nothing: if it asked for something, it fails.      *)
LEMMA ComesToNothing ==
    ASSUME WorkspaceTypeOK, NEW r \in Requests, Becomes(r, Free),
           UNCHANGED <<product, settings>>, Connected' = Connected, Hidden' = Hidden
    PROVE  InTurn!Next \/ UNCHANGED InTurn!serialVars
<1>1. Wish(Free) = Free
  BY FreeTyped, WishOf
<1>2. CASE Wish(requests[r]) = Free
  <2>1. Asked' = Asked
    BY <1>1, <1>2, AskedOne
  <2> QED BY <2>1, SerialRests
<1>3. CASE Wish(requests[r]) # Free
  <2>1. Asked' = [Asked EXCEPT ![r] = Free] /\ Asked[r] # Free
    BY <1>1, <1>3, AskedOne DEF Asked
  <2>2. InTurn!Fail(r)
    BY <2>1 DEF InTurn!Fail, InTurn!Nothing, Free, Asked, Hidden
  <2> QED BY <2>2 DEF InTurn!Next
<1> QED BY <1>2, <1>3

(* A free request asks for something.                                      *)
LEMMA AsksFor ==
    ASSUME WorkspaceTypeOK, NEW r \in Requests, NEW request \in Request,
           requests[r] = Free, Becomes(r, request), UNCHANGED <<product, customers, settings>>
    PROVE  InTurn!Next \/ UNCHANGED InTurn!serialVars
<1>1. Wish(requests[r]) = Free
  BY FreeTyped, WishOf
<1>2. Connected' = Connected /\ Hidden' = Hidden
  BY DEF Connected, Hidden
<1>3. CASE Wish(request) = Free
  <2>1. Asked' = Asked
    BY <1>1, <1>3, AskedOne
  <2> QED BY <1>2, <2>1, SerialRests
<1>4. CASE Wish(request) # Free
  <2>1. Asked' = [Asked EXCEPT ![r] = Wish(request)] /\ Asked[r] = Free
    BY <1>1, AskedOne DEF Asked
  <2>2. Asked'[r] = Wish(request) /\ Wish(request) \in InTurn!Wishes
    BY <1>4, <2>1, WishOf DEF Asked
  <2>3. InTurn!Ask(r)
    BY <1>2, <2>1, <2>2 DEF InTurn!Ask, InTurn!Nothing, Free, Asked, Hidden
  <2> QED BY <2>3 DEF InTurn!Next
<1> QED BY <1>3, <1>4

(* What a request reads or shows meanwhile is nobody else's concern.       *)
LEMMA ReadsOn ==
    ASSUME WorkspaceTypeOK, NEW r \in Requests, NEW request, Becomes(r, request),
           Wish(request) = Wish(requests[r]), UNCHANGED <<product, customers, settings>>
    PROVE  UNCHANGED InTurn!serialVars
<1>1. Asked' = Asked
  BY AskedOne
<1> QED BY <1>1, SerialRests DEF Connected, Hidden

LEMMA InsertsWhole ==
    ASSUME WorkspaceInv, NEW r \in Requests, Insert(r)
    PROVE  InTurn!Next \/ UNCHANGED InTurn!serialVars
<1> WorkspaceTypeOK /\ Mailboxes
  BY DEF WorkspaceInv
<1>1. requests[r].op \in {"add", "counted"} /\ requests[r] \in Request /\ Becomes(r, Free)
  BY RequestsTyped DEF Insert
<1>2. requests[r].address \in Addresses /\ Asked[r] = [op |-> "add", address |-> requests[r].address]
  BY <1>1, RequestFields, WishOf DEF Asked
<1> DEFINE a == requests[r].address
<1>3. customers' = [customers EXCEPT ![a] = IF customers[a].open THEN customers[a] ELSE NewCustomer]
      /\ UNCHANGED <<product, settings>>
  BY DEF Insert
<1>4. CASE customers[a].open
  <2>1. customers' = customers
    BY <1>2, <1>3, <1>4 DEF WorkspaceTypeOK
  <2> QED BY <1>1, <1>3, <2>1, ComesToNothing DEF Connected, Hidden
<1>5. CASE ~customers[a].open
  <2>1. customers' = [customers EXCEPT ![a] = NewCustomer]
    BY <1>3, <1>5
  <2>2. Connected' = Connected \cup {a} /\ a \notin Connected
    BY <1>2, <1>5, <2>1, CustomerFields DEF Connected, WorkspaceTypeOK
  <2>3. Hidden' = [Hidden EXCEPT ![a] = {}]
    BY <1>2, <2>1, CustomerFields DEF Hidden, WorkspaceTypeOK
  <2>4. product = "solo" => Cardinality(Connected) < Limit
    BY DEF Insert, Mailboxes, Op
  <2>5. Asked' = [Asked EXCEPT ![r] = Free]
    BY <1>1, AskedOne, FreeTyped, WishOf
  <2>6. InTurn!Done(r, "add")
    BY <1>2, <2>5 DEF InTurn!Done, InTurn!Nothing, Free, Asked
  <2>7. Asked[r].address = a
    BY <1>2
  <2> HIDE DEF a
  <2>8. /\ Asked[r].address \notin Connected /\ Connected' = Connected \cup {Asked[r].address}
        /\ Hidden' = [Hidden EXCEPT ![Asked[r].address] = {}]
    BY <2>2, <2>3, <2>7
  <2>9. InTurn!Connect(r)
    BY <1>3, <2>4, <2>6, <2>8 DEF InTurn!Connect, InTurn!Cardinality, Cardinality, Hidden, Asked
  <2> QED BY <2>9 DEF InTurn!Next
<1> QED BY <1>4, <1>5

LEMMA SavesWhole ==
    ASSUME WorkspaceInv, NEW r \in Requests, SaveSettings(r)
    PROVE  InTurn!Next
<1> WorkspaceTypeOK /\ Settings
  BY DEF WorkspaceInv
<1>1. /\ requests[r].op = "patch" /\ requests[r] \in Request /\ Becomes(r, Free)
      /\ settings # NoSettings /\ requests[r].read = settings
  BY RequestsTyped DEF SaveSettings, Settings, Op
<1>2. Asked[r] = [op |-> "patch", want |-> requests[r].want]
  BY <1>1, WishOf DEF Asked
<1>3. Asked' = [Asked EXCEPT ![r] = Free]
  BY <1>1, AskedOne, FreeTyped, WishOf
<1>4. InTurn!Done(r, "patch")
  BY <1>2, <1>3 DEF InTurn!Done, InTurn!Nothing, Free, Asked
<1>5. settings' = [f \in Fields |-> IF f \in DOMAIN Asked[r].want THEN Asked[r].want[f] ELSE settings[f]]
  BY <1>1, <1>2 DEF SaveSettings
<1>6. UNCHANGED product /\ Connected' = Connected /\ Hidden' = Hidden
  BY DEF SaveSettings, Connected, Hidden
<1>7. InTurn!Patch(r)
  BY <1>1, <1>4, <1>5, <1>6 DEF InTurn!Patch, Hidden, Asked
<1> QED BY <1>7 DEF InTurn!Next

LEMMA CorrectsWhole ==
    ASSUME WorkspaceInv, NEW r \in Requests, CorrectItem(r)
    PROVE  InTurn!Next
<1> WorkspaceTypeOK /\ Corrections
  BY DEF WorkspaceInv
<1> DEFINE q == requests[r]
<1>1. q.op = "correct" /\ q \in Request /\ Becomes(r, Free)
  BY RequestsTyped DEF CorrectItem
<1>2. q.address \in Addresses /\ customers[q.address].open /\ q.read = customers[q.address].hidden
  BY <1>1, RequestFields DEF Corrections, Op
<1>3. Asked[r] = [op |-> "correct", address |-> q.address, item |-> q.item, hide |-> q.hide]
  BY <1>1, WishOf DEF Asked
<1>4. Asked' = [Asked EXCEPT ![r] = Free]
  BY <1>1, AskedOne, FreeTyped, WishOf
<1>5. InTurn!Done(r, "correct")
  BY <1>3, <1>4 DEF InTurn!Done, InTurn!Nothing, Free, Asked
<1> DEFINE c == customers[q.address]
           d == [c EXCEPT !.hidden = Marked(q.read, q.item, q.hide),
                          !.reported = Marked(@, q.item, q.hide)]
<1>6. customers' = [customers EXCEPT ![q.address] = d] /\ UNCHANGED <<product, settings>>
  BY DEF CorrectItem
<1>7. c \in Customer
  BY <1>2 DEF WorkspaceTypeOK
<1>8. d.open = c.open /\ d.hidden = Marked(c.hidden, q.item, q.hide)
  BY <1>2, <1>7 DEF Customer
<1> HIDE DEF c, d
<1>9. \A a \in Addresses : customers'[a] = IF a = q.address THEN d ELSE customers[a]
  BY <1>2, <1>6 DEF WorkspaceTypeOK
<1>10. Connected' = Connected /\ q.address \in Connected
  BY <1>2, <1>8, <1>9 DEF Connected, c
<1>11. Hidden' = [Hidden EXCEPT ![q.address] = Marked(Hidden[q.address], q.item, q.hide)]
  BY <1>2, <1>8, <1>9 DEF Hidden, c
<1>12. /\ Asked[r].address = q.address /\ Asked[r].item = q.item /\ Asked[r].hide = q.hide
  BY <1>3
<1>13. InTurn!Correct(r)
  BY <1>5, <1>6, <1>10, <1>11, <1>12 DEF InTurn!Correct, Hidden, Asked, Marked
<1> QED BY <1>13 DEF InTurn!Next

LEMMA RemovesWhole ==
    ASSUME WorkspaceInv, NEW a \in Addresses, Remove(a)
    PROVE  InTurn!Next
<1> WorkspaceTypeOK
  BY DEF WorkspaceInv
<1>1. \A b \in Addresses : customers'[b] = IF b = a THEN NoCustomer ELSE customers[b]
  BY DEF Remove, WorkspaceTypeOK
<1>2. Connected' = Connected \ {a} /\ a \in Connected
  BY <1>1, CustomerFields DEF Remove, Connected
<1>3. Hidden' = [Hidden EXCEPT ![a] = {}]
  BY <1>1, CustomerFields DEF Hidden
<1>4. product = "solo" /\ UNCHANGED <<product, settings>> /\ Asked' = Asked
  BY DEF Remove, Asked
<1>5. InTurn!Disconnect(a)
  BY <1>2, <1>3, <1>4 DEF InTurn!Disconnect, Hidden, Asked
<1> QED BY <1>5 DEF InTurn!Next

LEMMA SerialStep ==
    ASSUME WorkspaceInv, [WorkspaceNext]_workspaceVars
    PROVE  InTurn!Next \/ UNCHANGED InTurn!serialVars
<1> WorkspaceTypeOK
  BY DEF WorkspaceInv
<1>1. CASE UNCHANGED workspaceVars
  BY <1>1, SerialRests DEF workspaceVars, Connected, Hidden, Asked
<1>2. ASSUME NEW r \in Requests, Abort(r) PROVE InTurn!Next \/ UNCHANGED InTurn!serialVars
  BY <1>2, ComesToNothing DEF Abort, Connected, Hidden
<1>3. ASSUME NEW r \in Requests, Count(r) PROVE InTurn!Next \/ UNCHANGED InTurn!serialVars
  <2>1. UNCHANGED <<product, customers, settings>> /\ requests[r].op = "add" /\ requests[r] \in Request
    BY <1>3, RequestsTyped DEF Count
  <2> DEFINE q == [requests[r] EXCEPT !.op = "counted"]
  <2>2. q \in Request /\ q.op = "counted" /\ q.address = requests[r].address
    BY <2>1, RequestFields
  <2>3. Becomes(r, Free) \/ Becomes(r, q)
    BY <1>3 DEF Count
  <2> HIDE DEF q
  <2>4. Wish(q) = Wish(requests[r])
    BY <2>1, <2>2, WishOf
  <2> QED BY <2>1, <2>3, <2>4, ComesToNothing, ReadsOn DEF Connected, Hidden
<1>4. ASSUME NEW r \in Requests, NEW a \in Addresses, Verified(r, a)
      PROVE  InTurn!Next \/ UNCHANGED InTurn!serialVars
  <2>1. [op |-> "add", address |-> a] \in Request
    BY DEF Request
  <2> QED BY <1>4, <2>1, AsksFor DEF Verified
<1>5. ASSUME NEW r \in Requests, NEW want \in Patches, LockSettings(r, want)
      PROVE  InTurn!Next \/ UNCHANGED InTurn!serialVars
  <2>1. [op |-> "patch", want |-> want, read |-> settings] \in Request
    BY <1>5 DEF LockSettings, WorkspaceTypeOK, Request
  <2> QED BY <1>5, <2>1, AsksFor DEF LockSettings
<1>6. ASSUME NEW r \in Requests, NEW a \in Addresses, NEW item \in Items, NEW hide \in BOOLEAN,
             LockOrder(r, a, item, hide)
      PROVE  InTurn!Next \/ UNCHANGED InTurn!serialVars
  <2>1. [op |-> "correct", address |-> a, item |-> item, hide |-> hide,
         read |-> customers[a].hidden] \in Request
    BY DEF WorkspaceTypeOK, Customer, Request
  <2> QED BY <1>6, <2>1, AsksFor DEF LockOrder
<1>7. ASSUME NEW r \in Requests, NEW link \in 0..MaxLinks, NEW a \in Addresses,
             requests[r] = Free, Found(r, link, a), UNCHANGED <<product, customers, settings>>
      PROVE  InTurn!Next \/ UNCHANGED InTurn!serialVars
  <2>1. [op |-> "found", link |-> link, address |-> a] \in Request
    BY DEF Request
  <2> QED BY <1>7, <2>1, AsksFor DEF Found
<1>8. ASSUME NEW r \in Requests, NEW link \in 1..Len(links), Visit(r, link)
      PROVE  InTurn!Next \/ UNCHANGED InTurn!serialVars
  <2>1. link \in 0..MaxLinks
    BY WorkspaceAssumption DEF WorkspaceTypeOK
  <2> QED BY <1>7, <1>8, <2>1 DEF Visit
<1>9. ASSUME NEW r \in Requests, NEW a \in Addresses, VisitSigned(r, a)
      PROVE  InTurn!Next \/ UNCHANGED InTurn!serialVars
  <2>1. 0 \in 0..MaxLinks
    BY WorkspaceAssumption
  <2> QED BY <1>7, <1>9, <2>1 DEF VisitSigned
<1>10. ASSUME NEW r \in Requests, ReadOrders(r) \/ ReadInvoices(r)
       PROVE  UNCHANGED InTurn!serialVars
  <2>1. PICK q : Becomes(r, q) /\ q.op \in {"half", "shown"}
    BY <1>10 DEF ReadOrders, ReadInvoices
  <2>2. requests[r].op \in {"found", "half"} /\ UNCHANGED <<product, customers, settings>>
    BY <1>10 DEF ReadOrders, ReadInvoices
  <2>3. Wish(q) = Wish(requests[r])
    BY <2>1, <2>2 DEF Wish
  <2> QED BY <2>1, <2>2, <2>3, ReadsOn
<1>11. ASSUME NEW a \in Addresses, Bill(a) \/ MakeLink(a) PROVE UNCHANGED InTurn!serialVars
  <2>1. UNCHANGED <<product, settings, requests>>
    BY <1>11 DEF Bill, MakeLink
  <2>2. \A b \in Addresses : /\ customers'[b].open = customers[b].open
                             /\ customers'[b].hidden = customers[b].hidden
    <3>1. \A c \in Customer, link \in 0..MaxLinks :
            /\ [c EXCEPT !.billed = TRUE].open = c.open /\ [c EXCEPT !.billed = TRUE].hidden = c.hidden
            /\ [c EXCEPT !.link = link].open = c.open /\ [c EXCEPT !.link = link].hidden = c.hidden
      BY DEF Customer
    <3>2. CASE Bill(a)
      BY <3>1, <3>2, WorkspaceAssumption DEF Bill, WorkspaceTypeOK
    <3>3. CASE MakeLink(a)
      <4>1. Len(links) + 1 \in 0..MaxLinks
        BY <3>3, WorkspaceAssumption DEF MakeLink, WorkspaceTypeOK
      <4>2. customers' = [customers EXCEPT ![a] = [customers[a] EXCEPT !.link = Len(links) + 1]]
        BY <3>3 DEF MakeLink
      <4> QED BY <3>1, <4>1, <4>2 DEF WorkspaceTypeOK
    <3> QED BY <1>11, <3>2, <3>3
  <2> QED BY <2>1, <2>2, SerialRests DEF Connected, Hidden, Asked
<1>12. CASE ReadSettings
  <2>1. Connected' = Connected /\ Hidden' = Hidden /\ Asked' = Asked
    BY <1>12 DEF ReadSettings, Connected, Hidden, Asked
  <2>2. InTurn!SetUp
    BY <1>12, <2>1 DEF ReadSettings, NewSettings, InTurn!SetUp, Hidden, Asked
  <2> QED BY <2>2 DEF InTurn!Next
<1> QED BY <1>1, <1>2, <1>3, <1>4, <1>5, <1>6, <1>8, <1>9, <1>10, <1>11, <1>12,
           InsertsWhole, SavesWhole, CorrectsWhole, RemovesWhole DEF WorkspaceNext

(* Requests that lock, count, read and save in steps of their own do what  *)
(* they would one after the other (SerialRequests).                        *)
THEOREM SerialImplemented == WorkspaceSpec => ImplementsSerial
<1>1. WorkspaceInit => InTurn!Init
  <2> SUFFICES ASSUME WorkspaceInit PROVE InTurn!Init
    OBVIOUS
  <2>1. Connected = {} /\ Hidden = [a \in Addresses |-> {}]
    BY DEF WorkspaceInit, Connected, Hidden, NoCustomer
  <2>2. Asked = [r \in Requests |-> Free]
    BY FreeTyped, WishOf DEF WorkspaceInit, Asked
  <2> QED BY <2>1, <2>2 DEF WorkspaceInit, InTurn!Init, InTurn!Nothing, Free, Hidden, Asked
<1>2. WorkspaceInv /\ [WorkspaceNext]_workspaceVars => [InTurn!Next]_InTurn!serialVars
  BY SerialStep
<1> QED BY <1>1, <1>2, WorkspaceInvariant, PTL DEF WorkspaceSpec, ImplementsSerial, InTurn!Spec
=============================================================================
