---------------------------- MODULE BillingProofs ----------------------------
(***************************************************************************)
(* Proofs about Billing, for every set of orders, invoices and requests.   *)
(***************************************************************************)
EXTENDS Billing, TLAPS

(***************************************************************************)
(* The inductive invariant of the billing tables.  The pointer/line        *)
(* agreement survives an insert only because the orders a transaction has  *)
(* selected stay exactly as it selected them, and they stay so because no  *)
(* two transactions hold the same row.                                     *)
(***************************************************************************)
UnusedInvoices ==
    \A i \in Invoices : status[i] = "absent" =>
        line[i] = NoLines /\ keyOf[i] = NULL

Stands(r) ==
    /\ creating[r].pc \notin {"recheck", "insert"} => creating[r].quote = NoLines
    /\ \A o \in HeldBy(r) : /\ Billable(creating[r].customer, o)
                            /\ creating[r].quote[o] = terms[o]
    /\ creating[r].pc = "insert" =>
          /\ HeldBy(r) = creating[r].chosen
          /\ \A o \in creating[r].chosen : terms[o] > 0
          /\ OneCurrency(creating[r].chosen)
    /\ creating[r].pc \in {"select", "recheck", "insert"} =>
          creating[r].key \in Keys /\ creating[r].chosen # {}

SelectionStands == \A r \in Creators : Stands(r)

LocksExclude ==
    /\ \A r, q \in Creators : r # q => HeldBy(r) \cap HeldBy(q) = {}
    /\ \A r \in Creators, e \in Editors : HeldBy(r) \cap EditedBy(e) = {}
    /\ \A e, f \in Editors : e # f => EditedBy(e) \cap EditedBy(f) = {}

EditsStand ==
    \A e \in Editors : editing[e].pc \in {"sum", "commit"} =>
        /\ editing[e].order \in Orders
        /\ editing[e].invoice = billing[editing[e].order]
        /\ editing[e].invoice # NULL => editing[e].fee # NULL
        /\ editing[e].pc = "sum" => editing[e].invoice # NULL

Agreement ==
    PointerMatchesLine /\ UnusedInvoices /\ SelectionStands /\ LocksExclude /\ EditsStand

TablesInv == TypeOK /\ Agreement

KeysUnique ==
    \A i, j \in Invoices : keyOf[i] # NULL /\ keyOf[i] = keyOf[j] => i = j

(* What is charged at Stripe, or about to be, is on a line.                *)
ChargesInv ==
    /\ \A i \in Invoices, o \in Orders : item[i][o] # <<>> => Len(item[i][o]) = 1 /\ line[i][o] # NULL
    /\ \A s \in Issuers : issuing[s].pc = "stripe" =>
          /\ issuing[s].invoice \in Invoices
          /\ \A o \in Orders : issuing[s].lines[o] # NULL => line[issuing[s].invoice][o] # NULL

(* A paid notice is sent by the handling of the one paid event.            *)
NoticesInv ==
    /\ \A e \in Events : handling[e] = "notify" => e[2] = "paid"
    /\ \A i \in Invoices : /\ notices[i] <= 1
                           /\ handling[<<i, "paid">>] # "applied" => notices[i] = 0

(* Nothing local is ahead of Stripe: neither a status nor an answer or an  *)
(* event still on its way to one.                                          *)
ProviderInv ==
    /\ ProviderBacked
    /\ \A e \in sent : stripe[e[1]] # "none"
    /\ \A i \in Invoices : /\ <<i, "paid">> \in sent => stripe[i] = "paid"
                           /\ <<i, "voided">> \in sent => stripe[i] = "void"
    /\ \A e \in Events : handling[e] # "new" => e \in sent
    /\ \A s \in Issuers : issuing[s].pc \in {"accepted", "rejected"} =>
          /\ issuing[s].invoice \in Invoices
          /\ issuing[s].pc = "accepted" => stripe[issuing[s].invoice] # "none"

-----------------------------------------------------------------------------
LEMMA RecordTypes ==
  /\ NoLines \in [Orders -> Amount]
  /\ \A pc \in {"idle", "replied", "refused", "failed"} : Create(pc, NULL, NULL, {}) \in CreateState
  /\ \A pc \in {"idle", "sum", "commit", "done"}, o \in Orders \cup {NULL}, fee \in Amount,
        i \in Invoices \cup {NULL} : Edit(pc, o, fee, i) \in EditState
  /\ \A pc \in {"idle", "stripe", "accepted", "rejected", "done"}, i \in Invoices \cup {NULL},
        lines \in [Orders -> Amount] : Issue(pc, i, lines) \in IssueState
  BY DEF NoLines, Amount, Create, Edit, Issue, CreateState, EditState, IssueState

LEMMA SelectType ==
  ASSUME NEW k \in Keys, NEW c \in Customers, NEW chosen \in SUBSET Orders
  PROVE  Create("select", k, c, chosen) \in CreateState
  BY DEF NoLines, Amount, Create, CreateState

LEMMA ReplyType ==
  ASSUME creating \in [Creators -> CreateState], NEW r,
         NEW outcome \in {"replied", "refused", "failed"}, Reply(r, outcome)
  PROVE  creating' \in [Creators -> CreateState]
  <1>1. Create(outcome, NULL, NULL, {}) \in CreateState
    BY RecordTypes
  <1> QED BY <1>1 DEF Reply

LEMMA RecordUpdates ==
  /\ \A x \in CreateState, q \in [Orders -> Amount] :
        /\ [x EXCEPT !.pc = "recheck", !.quote = q] \in CreateState
        /\ [x EXCEPT !.pc = "insert", !.quote = q] \in CreateState
  /\ \A x \in EditState, q \in [Orders -> Amount] :
        [x EXCEPT !.pc = "commit", !.sum = q] \in EditState
  BY DEF CreateState, EditState

LEMMA RecordFields ==
  /\ \A x \in CreateState : /\ x.quote \in [Orders -> Amount] /\ x.key \in Keys \cup {NULL}
                              /\ x.customer \in Customers \cup {NULL} /\ x.chosen \in SUBSET Orders
  /\ \A x \in EditState : /\ x.fee \in Amount /\ x.sum \in [Orders -> Amount]
                            /\ x.order \in Orders \cup {NULL} /\ x.invoice \in Invoices \cup {NULL}
  /\ \A x \in IssueState : x.lines \in [Orders -> Amount] /\ x.invoice \in Invoices \cup {NULL}
  BY DEF CreateState, EditState, IssueState

LEMMA AddItemsType ==
  ASSUME item \in [Invoices -> [Orders -> Seq(Amounts)]], NEW i \in Invoices,
         NEW lines \in [Orders -> Amount], NEW made \in SUBSET Chargeable(i, lines),
         AddItems(i, lines, made)
  PROVE  item' \in [Invoices -> [Orders -> Seq(Amounts)]]
  <1>1. \A o \in made : lines[o] \in Amounts
    BY DEF Chargeable, Amount
  <1>2. \A o \in Orders : (IF o \in made THEN Created(item[i][o], lines[o]) ELSE item[i][o])
                              \in Seq(Amounts)
    BY <1>1 DEF Created
  <1> QED BY <1>2 DEF AddItems

(* What a quote is: the terms of the selected orders, no amount elsewhere. *)
LEMMA QuoteType ==
  ASSUME terms \in [Orders -> Amount], NEW selected
  PROVE  [o \in Orders |-> IF o \in selected THEN terms[o] ELSE NULL] \in [Orders -> Amount]
  BY DEF Amount

LEMMA TypeStep == TypeOK /\ [Next]_vars => TypeOK'
  <1> SUFFICES ASSUME TypeOK, [Next]_vars PROVE TypeOK'
    OBVIOUS
  <1> USE BillingAssumption
      DEF TypeOK, orderVars, stateVars, lineVars, stripeVars, hookVars, handlers
  <1>1. ASSUME NEW r \in Creators, NEW c \in Customers, NEW k \in Keys,
               NEW chosen \in SUBSET Orders, CreateBegin(r, c, k, chosen)
        PROVE TypeOK'
    <2>1. creating' \in [Creators -> CreateState]
      <3>1. CASE creating' = [creating EXCEPT ![r] = Create("select", k, c, chosen)]
        <4>1. Create("select", k, c, chosen) \in CreateState
          BY SelectType
        <4> QED BY <3>1, <4>1
      <3>2. ASSUME NEW i \in Invoices, ReplyExisting(r, c, i)
            PROVE  creating' \in [Creators -> CreateState]
        BY <3>2, ReplyType DEF ReplyExisting
      <3> QED BY <1>1, <3>1, <3>2 DEF CreateBegin, InvoicesUnder
    <2> QED BY <1>1, <2>1 DEF CreateBegin
  <1>2. ASSUME NEW r \in Creators, CreateSelect(r) PROVE TypeOK'
    <2> DEFINE selected == {o \in creating[r].chosen : Billable(creating[r].customer, o)}
               quote == [o \in Orders |-> IF o \in selected THEN terms[o] ELSE NULL]
    <2>1. quote \in [Orders -> Amount]
      BY QuoteType
    <2>2. \/ creating' = [creating EXCEPT ![r] = [@ EXCEPT !.pc = "recheck", !.quote = quote]]
          \/ creating' = [creating EXCEPT ![r] = [@ EXCEPT !.pc = "insert", !.quote = quote]]
          \/ Reply(r, "refused")
      BY <1>2 DEF CreateSelect
    <2> HIDE DEF quote
    <2>3. creating' \in [Creators -> CreateState]
      <3>1. /\ [creating[r] EXCEPT !.pc = "recheck", !.quote = quote] \in CreateState
            /\ [creating[r] EXCEPT !.pc = "insert", !.quote = quote] \in CreateState
        BY <2>1, RecordUpdates
      <3>2. CASE Reply(r, "refused")
        BY <3>2, ReplyType
      <3>3. CASE creating' = [creating EXCEPT ![r] = [@ EXCEPT !.pc = "recheck", !.quote = quote]]
        BY <3>1, <3>3
      <3>4. CASE creating' = [creating EXCEPT ![r] = [@ EXCEPT !.pc = "insert", !.quote = quote]]
        BY <3>1, <3>4
      <3> QED BY <2>2, <3>2, <3>3, <3>4
    <2> QED BY <1>2, <2>3 DEF CreateSelect
  <1>3. ASSUME NEW r \in Creators, CreateRecheck(r) PROVE TypeOK'
    <2>1. creating' \in [Creators -> CreateState]
      BY <1>3, RecordTypes DEF CreateRecheck, ReplyExisting, Reply
    <2> QED BY <1>3, <2>1 DEF CreateRecheck
  <1>4. ASSUME NEW r \in Creators, CreateInsert(r) PROVE TypeOK'
    <2>1. creating[r].quote \in [Orders -> Amount] /\ creating[r].key \in Keys \cup {NULL}
          /\ creating[r].customer \in Customers \cup {NULL}
      BY RecordFields
    <2>2. creating' \in [Creators -> CreateState]
      BY <1>4, ReplyType DEF CreateInsert
    <2>3. CASE UNCHANGED <<billing, stateVars, lineVars>>
      BY <1>4, <2>2, <2>3 DEF CreateInsert
    <2>4. ASSUME NEW i \in Invoices,
                 status' = [status EXCEPT ![i] = "draft"],
                 keyOf' = [keyOf EXCEPT ![i] = creating[r].key],
                 payer' = [payer EXCEPT ![i] = creating[r].customer],
                 line' = [line EXCEPT ![i] = creating[r].quote],
                 summed' = [summed EXCEPT ![i] = creating[r].quote],
                 billing' = Claimed(i, creating[r].chosen)
          PROVE  TypeOK'
      <3>1. billing' \in [Orders -> Invoices \cup {NULL}]
        BY <2>4 DEF Claimed
      <3>2. /\ line' \in [Invoices -> [Orders -> Amount]]
            /\ summed' \in [Invoices -> [Orders -> Amount]]
        BY <2>1, <2>4
      <3>3. /\ status' \in [Invoices -> Statuses \cup {"absent"}]
            /\ keyOf' \in [Invoices -> Keys \cup {NULL}]
            /\ payer' \in [Invoices -> Customers \cup {NULL}]
        BY <2>1, <2>4 DEF Statuses
      <3> QED BY <1>4, <2>2, <3>1, <3>2, <3>3 DEF CreateInsert
    <2> QED BY <1>4, <2>3, <2>4 DEF CreateInsert
  <1>5. ASSUME NEW r \in Creators, CreateAbort(r) PROVE TypeOK'
    BY <1>5, RecordTypes DEF CreateAbort, Reply
  <1>6. ASSUME NEW e \in Editors, NEW o \in Orders, NEW fee \in Amount, EditLock(e, o, fee)
        PROVE TypeOK'
    <2>1. editing' \in [Editors -> EditState]
      BY <1>6, RecordTypes DEF EditLock, Amount
    <2>2. \A f \in Editors : editing'[f].pc = "sum" => editing'[f].invoice \in Invoices
      BY <1>6 DEF EditLock, Edit
    <2> QED BY <1>6, <2>1, <2>2 DEF EditLock
  <1>7. ASSUME NEW e \in Editors, EditSum(e) PROVE TypeOK'
    <2> DEFINE total == [line[editing[e].invoice] EXCEPT ![editing[e].order] = editing[e].fee]
    <2>1. editing[e].invoice \in Invoices
      BY <1>7 DEF EditSum
    <2>2. total \in [Orders -> Amount]
      BY <2>1, RecordFields
    <2>3. editing' = [editing EXCEPT ![e] = [@ EXCEPT !.pc = "commit", !.sum = total]]
      BY <1>7 DEF EditSum
    <2> HIDE DEF total
    <2>4. editing' \in [Editors -> EditState]
      BY <2>2, <2>3, RecordUpdates
    <2>5. \A f \in Editors : editing'[f].pc = "sum" => editing'[f].invoice \in Invoices
      BY <2>3 DEF EditState
    <2> QED BY <1>7, <2>4, <2>5 DEF EditSum
  <1>8. ASSUME NEW e \in Editors, EditCommit(e) PROVE TypeOK'
    <2>1. editing' \in [Editors -> EditState]
      BY <1>8, RecordTypes DEF EditCommit, EditEnd, Amount
    <2>2. editing[e].fee \in Amount /\ editing[e].sum \in [Orders -> Amount]
      BY RecordFields
    <2>3. terms' \in [Orders -> Amount]
      BY <1>8, <2>2 DEF EditCommit
    <2>4. line' \in [Invoices -> [Orders -> Amount]]
      <3>1. CASE editing[e].invoice = NULL
        BY <1>8, <3>1 DEF EditCommit
      <3>2. CASE editing[e].invoice # NULL
        <4>1. line' = [line EXCEPT ![editing[e].invoice] =
                         [@ EXCEPT ![editing[e].order] = editing[e].fee]]
          BY <1>8, <3>2 DEF EditCommit
        <4>2. line[editing[e].invoice] \in [Orders -> Amount]
          BY <3>2, RecordFields
        <4> QED BY <2>2, <4>1, <4>2
      <3> QED BY <3>1, <3>2
    <2>5. summed' \in [Invoices -> [Orders -> Amount]]
      <3>1. \/ summed' = summed
            \/ summed' = [summed EXCEPT ![editing[e].invoice] = editing[e].sum]
        BY <1>8 DEF EditCommit
      <3> QED BY <2>2, <3>1
    <2>6. \A f \in Editors : editing'[f].pc = "sum" => editing'[f].invoice \in Invoices
      BY <1>8 DEF EditCommit, EditEnd, Edit
    <2> QED BY <1>8, <2>1, <2>3, <2>4, <2>5, <2>6 DEF EditCommit
  <1>9. ASSUME NEW e \in Editors, EditAbort(e) PROVE TypeOK'
    <2>1. editing' \in [Editors -> EditState]
      BY <1>9, RecordTypes DEF EditAbort, EditEnd, Amount
    <2>2. \A f \in Editors : editing'[f].pc = "sum" => editing'[f].invoice \in Invoices
      BY <1>9 DEF EditAbort, EditEnd, Edit
    <2> QED BY <1>9, <2>1, <2>2 DEF EditAbort
  <1>10. ASSUME NEW o \in Orders, SetCancelled(o) PROVE TypeOK'
    BY <1>10 DEF SetCancelled
  <1>11. ASSUME NEW o \in Orders, NEW fee \in Amounts, ReviseTotal(o, fee) PROVE TypeOK'
    BY <1>11 DEF ReviseTotal, Amount
  <1>12. ASSUME NEW o \in Orders, ArchiveOrder(o) PROVE TypeOK'
    BY <1>12 DEF ArchiveOrder
  <1>13. ASSUME NEW s \in Issuers, NEW i \in Invoices, IssueRead(s, i) PROVE TypeOK'
    <2>1. issuing' \in [Issuers -> IssueState]
      BY <1>13, RecordTypes DEF IssueRead
    <2>2. \A t \in Issuers : issuing'[t].pc \in {"stripe", "accepted", "rejected"}
             => issuing'[t].invoice \in Invoices
      BY <1>13 DEF IssueRead, Issue
    <2> QED BY <1>13, <2>1, <2>2 DEF IssueRead
  <1>14. ASSUME NEW s \in Issuers, StripeAccept(s) PROVE TypeOK'
    <2>1. issuing[s].lines \in [Orders -> Amount] /\ issuing[s].invoice \in Invoices
      BY <1>14, RecordFields DEF StripeAccept
    <2>2. item' \in [Invoices -> [Orders -> Seq(Amounts)]]
      BY <1>14, <2>1, AddItemsType DEF StripeAccept
    <2>3. issuing' \in [Issuers -> IssueState]
      BY <1>14, <2>1, RecordTypes DEF StripeAccept
    <2>4. \A t \in Issuers : issuing'[t].pc \in {"stripe", "accepted", "rejected"}
             => issuing'[t].invoice \in Invoices
      BY <1>14, <2>1 DEF StripeAccept, Issue
    <2>5. stripe' \in [Invoices -> {"none", "open", "paid", "void", "uncollectible"}]
      BY <1>14 DEF StripeAccept, Finalize
    <2>6. sent' \subseteq Events
      BY <1>14, <2>1 DEF StripeAccept, Finalize, Events, EventTypes
    <2> QED BY <1>14, <2>1, <2>2, <2>3, <2>4, <2>5, <2>6 DEF StripeAccept
  <1>15. ASSUME NEW s \in Issuers, StripeConflict(s) PROVE TypeOK'
    <2>1. issuing[s].lines \in [Orders -> Amount] /\ issuing[s].invoice \in Invoices
      BY <1>15, RecordFields DEF StripeConflict
    <2>2. item' \in [Invoices -> [Orders -> Seq(Amounts)]]
      BY <1>15, <2>1, AddItemsType DEF StripeConflict
    <2>3. issuing' \in [Issuers -> IssueState]
      BY <1>15, <2>1, RecordTypes DEF StripeConflict
    <2>4. \A t \in Issuers : issuing'[t].pc \in {"stripe", "accepted", "rejected"}
             => issuing'[t].invoice \in Invoices
      BY <1>15, <2>1 DEF StripeConflict, Issue
    <2> QED BY <1>15, <2>1, <2>2, <2>3, <2>4 DEF StripeConflict
  <1>16. ASSUME NEW s \in Issuers, StripeReject(s) PROVE TypeOK'
    <2>1. issuing[s].lines \in [Orders -> Amount] /\ issuing[s].invoice \in Invoices
      BY <1>16, RecordFields DEF StripeReject
    <2>2. item' \in [Invoices -> [Orders -> Seq(Amounts)]]
      BY <1>16, <2>1, AddItemsType DEF StripeReject
    <2>3. issuing' \in [Issuers -> IssueState]
      BY <1>16, <2>1, RecordTypes DEF StripeReject
    <2>4. \A t \in Issuers : issuing'[t].pc \in {"stripe", "accepted", "rejected"}
             => issuing'[t].invoice \in Invoices
      BY <1>16, <2>1 DEF StripeReject, Issue
    <2>5. stripe' \in [Invoices -> {"none", "open", "paid", "void", "uncollectible"}]
      <3>1. CASE UNCHANGED stripe
        BY <3>1
      <3>2. CASE Finalize(issuing[s].invoice)
        BY <3>2 DEF Finalize
      <3> QED BY <1>16, <3>1, <3>2 DEF StripeReject
    <2>6. sent' \subseteq Events
      BY <1>16, <2>1 DEF StripeReject, Finalize, Events, EventTypes
    <2> QED BY <1>16, <2>1, <2>2, <2>3, <2>4, <2>5, <2>6 DEF StripeReject
  <1>17. ASSUME NEW s \in Issuers, IssueWrite(s) PROVE TypeOK'
    <2>1. issuing' \in [Issuers -> IssueState]
      BY <1>17, RecordTypes DEF IssueWrite
    <2>2. \A t \in Issuers : issuing'[t].pc \in {"stripe", "accepted", "rejected"}
             => issuing'[t].invoice \in Invoices
      BY <1>17 DEF IssueWrite, Issue
    <2> QED BY <1>17, <2>1, <2>2 DEF IssueWrite, Outcome, Statuses
  <1>18. ASSUME NEW s \in Issuers, IssueAbort(s) PROVE TypeOK'
    <2>1. issuing' \in [Issuers -> IssueState]
      BY <1>18, RecordTypes DEF IssueAbort
    <2>2. \A t \in Issuers : issuing'[t].pc \in {"stripe", "accepted", "rejected"}
             => issuing'[t].invoice \in Invoices
      BY <1>18 DEF IssueAbort, Issue
    <2> QED BY <1>18, <2>1, <2>2 DEF IssueAbort
  <1>19. ASSUME NEW i \in Invoices, NEW to \in Statuses, NEW type \in EventTypes,
                StripeSettle(i, to, type)
         PROVE TypeOK'
    BY <1>19 DEF StripeSettle, Events
  <1>20. ASSUME NEW e \in Events, HookRecord(e) PROVE TypeOK'
    BY <1>20 DEF HookRecord
  <1>21. ASSUME NEW e \in Events, HookDuplicate(e) PROVE TypeOK'
    BY <1>21 DEF HookDuplicate
  <1>22. ASSUME NEW e \in Events, HookRead(e) PROVE TypeOK'
    BY <1>22 DEF HookRead
  <1>23. ASSUME NEW e \in Events, HookApply(e) PROVE TypeOK'
    BY <1>23 DEF HookApply, EventStatus, Statuses
  <1>24. ASSUME NEW e \in Events, HookNotify(e) PROVE TypeOK'
    BY <1>24 DEF HookNotify, Events
  <1>25. ASSUME NEW e \in Events, HookAbort(e) PROVE TypeOK'
    BY <1>25 DEF HookAbort
  <1>26. CASE UNCHANGED vars
    BY <1>26 DEF vars
  <1> HIDE DEF TypeOK
  <1> QED
    BY <1>1, <1>2, <1>3, <1>4, <1>5, <1>6, <1>7, <1>8, <1>9, <1>10, <1>11, <1>12, <1>13,
       <1>14, <1>15, <1>16, <1>17, <1>18, <1>19, <1>20, <1>21, <1>22, <1>23, <1>24, <1>25, <1>26
       DEF Next, CreateStep, EditStep, OrderStep, IssueStep, StripeStep, HookStep

(* Every reachable state is well typed.                                    *)
THEOREM TypeCorrect == Spec => []TypeOK
  <1>1. Init => TypeOK
    <2> SUFFICES ASSUME Init PROVE TypeOK
      OBVIOUS
    <2>1. creating \in [Creators -> CreateState] /\ issuing \in [Issuers -> IssueState]
      BY RecordTypes DEF Init
    <2>2. editing \in [Editors -> EditState]
      BY RecordTypes DEF Init, Amount
    <2>3. /\ \A e \in Editors : editing[e].pc # "sum"
          /\ \A s \in Issuers : issuing[s].pc = "idle"
      BY DEF Init, Edit, Issue
    <2>4. /\ line \in [Invoices -> [Orders -> Amount]]
          /\ summed \in [Invoices -> [Orders -> Amount]]
          /\ item \in [Invoices -> [Orders -> Seq(Amounts)]]
      BY RecordTypes DEF Init
    <2> QED BY BillingAssumption, <2>1, <2>2, <2>3, <2>4 DEF Init, TypeOK
  <1>2. QED
    BY <1>1, TypeStep, PTL DEF Spec

-----------------------------------------------------------------------------
(* A transaction that holds no row: not started, or over.                  *)
LEMMA NoQuoteNoLock ==
  ASSUME NEW r, creating[r].quote = NoLines
  PROVE  HeldBy(r) = {}
  BY DEF HeldBy, NoLines

(* A selection outlives the steps of others on other rows.                 *)
LEMMA StandsKept ==
  ASSUME NEW r, Stands(r), creating'[r] = creating[r],
         \A o \in HeldBy(r) : /\ terms'[o] = terms[o] /\ cancelled'[o] = cancelled[o]
                              /\ archived'[o] = archived[o] /\ billing'[o] = billing[o]
  PROVE  Stands(r)'
  <1>1. HeldBy(r)' = HeldBy(r)
    BY DEF HeldBy
  <1>2. \A o \in HeldBy(r) : /\ Billable(creating[r].customer, o)'
                             /\ creating'[r].quote[o] = terms'[o]
    BY DEF Stands, Billable
  <1>3. creating'[r].pc = "insert" =>
          /\ HeldBy(r)' = creating'[r].chosen
          /\ \A o \in creating'[r].chosen : terms'[o] > 0
          /\ OneCurrency(creating'[r].chosen)
    BY <1>1 DEF Stands
  <1> QED BY <1>1, <1>2, <1>3 DEF Stands

(* Steps that touch neither the order rows nor a billing transaction.      *)
LEMMA ElsewhereStep ==
  ASSUME TablesInv,
         UNCHANGED <<orderVars, keyOf, payer, line, creating, editing>>,
         \A i \in Invoices : status'[i] = "absent" => status[i] = "absent"
  PROVE  Agreement'
  <1> USE DEF orderVars, TablesInv, Agreement
  <1>1. PointerMatchesLine'
    BY DEF PointerMatchesLine
  <1>2. UnusedInvoices'
    BY DEF UnusedInvoices
  <1>3. SelectionStands'
    BY StandsKept DEF SelectionStands
  <1>5. LocksExclude'
    BY DEF LocksExclude, HeldBy, EditedBy
  <1>4. EditsStand'
    BY DEF EditsStand
  <1> QED BY <1>1, <1>2, <1>3, <1>4, <1>5

(* A create transaction begins, ends or gives up: it holds nothing after.  *)
LEMMA CreateReleases ==
  ASSUME TablesInv, NEW r \in Creators,
         \/ \E outcome \in {"replied", "refused", "failed"} : Reply(r, outcome)
         \/ \E k \in Keys, c \in Customers, chosen \in (SUBSET Orders) \ {{}} :
               creating' = [creating EXCEPT ![r] = Create("select", k, c, chosen)],
         UNCHANGED <<orderVars, status, keyOf, payer, line, editing>>
  PROVE  Agreement'
  <1> USE DEF orderVars, TablesInv, Agreement
  <1>1. /\ creating'[r].quote = NoLines
        /\ creating'[r].pc \in {"select", "replied", "refused", "failed"}
        /\ creating'[r].pc = "select" => creating'[r].key \in Keys /\ creating'[r].chosen # {}
        /\ \A q \in Creators : q # r => creating'[q] = creating[q]
    <2>1. CASE \E outcome \in {"replied", "refused", "failed"} : Reply(r, outcome)
      BY <2>1 DEF TypeOK, Reply, Create
    <2>2. CASE \E k \in Keys, c \in Customers, chosen \in (SUBSET Orders) \ {{}} :
                 creating' = [creating EXCEPT ![r] = Create("select", k, c, chosen)]
      <3> PICK k \in Keys, c \in Customers, chosen \in (SUBSET Orders) \ {{}} :
                 creating' = [creating EXCEPT ![r] = Create("select", k, c, chosen)]
        BY <2>2
      <3>0. creating' = [creating EXCEPT ![r] = Create("select", k, c, chosen)]
        OBVIOUS
      <3>2. creating \in [Creators -> CreateState]
        BY DEF TypeOK
      <3> HIDE DEF TablesInv, Agreement
      <3>1. creating'[r] = Create("select", k, c, chosen) /\ chosen # {}
            /\ \A q \in Creators : q # r => creating'[q] = creating[q]
        BY <3>0, <3>2
      <3> QED BY <3>1 DEF Create
    <2> QED BY <2>1, <2>2
  <1>2. HeldBy(r)' = {} /\ \A q \in Creators : q # r => HeldBy(q)' = HeldBy(q)
    BY <1>1 DEF HeldBy, NoLines
  <1>3. PointerMatchesLine' /\ UnusedInvoices' /\ EditsStand'
    BY DEF PointerMatchesLine, UnusedInvoices, EditsStand
  <1>4. SelectionStands'
    <2>1. Stands(r)'
      BY <1>1, <1>2 DEF Stands
    <2> QED BY <1>1, <2>1, StandsKept DEF SelectionStands
  <1>5. LocksExclude'
    BY <1>2 DEF LocksExclude, EditedBy
  <1> QED BY <1>3, <1>4, <1>5

LEMMA SelectStep ==
  ASSUME TablesInv, NEW r \in Creators, CreateSelect(r)
  PROVE  Agreement'
  <1> DEFINE selected == {o \in creating[r].chosen : Billable(creating[r].customer, o)}
             quote == [o \in Orders |-> IF o \in selected THEN terms[o] ELSE NULL]
  <1>1. CASE Reply(r, "refused")
    BY <1>1, CreateReleases DEF CreateSelect, stateVars, lineVars
  <1>2. ASSUME NEW pc \in {"recheck", "insert"},
               creating' = [creating EXCEPT ![r].pc = pc, ![r].quote = quote],
               pc = "insert" => /\ selected = creating[r].chosen
                                /\ OneCurrency(creating[r].chosen)
                                /\ \A o \in creating[r].chosen : quote[o] > 0
        PROVE  Agreement'
    <2> USE DEF TablesInv, Agreement
    <2>1. /\ UNCHANGED <<orderVars, status, keyOf, payer, line, editing>>
          /\ creating[r].pc = "select"
          /\ \A o \in selected : ~Locked(o)
      BY <1>2 DEF CreateSelect, stateVars, lineVars
    <2>2. creating[r] \in CreateState /\ creating[r].chosen \subseteq Orders
      BY RecordFields DEF TypeOK
    <2>3. /\ creating'[r].quote = quote /\ creating'[r].pc = pc
          /\ creating'[r].customer = creating[r].customer
          /\ creating'[r].chosen = creating[r].chosen
          /\ creating'[r].key = creating[r].key
          /\ \A q \in Creators : q # r => creating'[q] = creating[q]
      BY <1>2, <2>2 DEF TypeOK, CreateState
    <2>4. \A o \in selected : o \in Orders /\ terms[o] # NULL /\ quote[o] = terms[o]
      BY <2>2 DEF Billable
    <2>5. HeldBy(r)' = selected
      BY <2>3, <2>4 DEF HeldBy
    <2>6. \A q \in Creators : q # r => HeldBy(q)' = HeldBy(q)
      BY <2>3 DEF HeldBy
    <2>7. \A e \in Editors : EditedBy(e)' = EditedBy(e)
      BY <2>1 DEF EditedBy
    <2>8. PointerMatchesLine' /\ UnusedInvoices' /\ EditsStand'
      BY <2>1 DEF PointerMatchesLine, UnusedInvoices, EditsStand, orderVars
    <2>9. LocksExclude'
      BY <2>1, <2>5, <2>6, <2>7 DEF LocksExclude, Locked
    <2>10. Stands(r)'
      <3>1. \A o \in HeldBy(r)' : /\ Billable(creating[r].customer, o)'
                                   /\ creating'[r].quote[o] = terms'[o]
        BY <2>1, <2>3, <2>4, <2>5 DEF Billable, orderVars
      <3>2. pc = "insert" => /\ HeldBy(r)' = creating'[r].chosen
                             /\ \A o \in creating'[r].chosen : terms'[o] > 0
                             /\ OneCurrency(creating'[r].chosen)
        BY <1>2, <2>1, <2>3, <2>4, <2>5 DEF orderVars
      <3>3. creating'[r].key \in Keys /\ creating'[r].chosen # {}
        BY <2>1, <2>3 DEF SelectionStands, Stands
      <3> HIDE DEF selected, quote
      <3> QED BY <1>2, <2>3, <3>1, <3>2, <3>3 DEF Stands
    <2>11. SelectionStands'
      BY <2>1, <2>3, <2>10, StandsKept DEF SelectionStands, orderVars
    <2> QED BY <2>8, <2>9, <2>11
  <1> QED
    BY <1>1, <1>2 DEF CreateSelect

(* The insert claims rows nobody else holds and no line names yet.         *)
LEMMA InsertStep ==
  ASSUME TablesInv, NEW r \in Creators, CreateInsert(r)
  PROVE  Agreement'
  <1> USE DEF TablesInv, Agreement
  <1> DEFINE chosen == creating[r].chosen
             quote == creating[r].quote
  <1>1. CASE Reply(r, "failed") /\ UNCHANGED <<billing, stateVars, lineVars>>
    BY <1>1, CreateReleases DEF CreateInsert, orderVars, stateVars, lineVars
  <1>2. ASSUME NEW i \in Invoices,
               status[i] = "absent",
               status' = [status EXCEPT ![i] = "draft"],
               keyOf' = [keyOf EXCEPT ![i] = creating[r].key],
               line' = [line EXCEPT ![i] = quote],
               billing' = Claimed(i, chosen),
               Reply(r, "replied")
        PROVE  Agreement'
    <2>1. UNCHANGED <<terms, cancelled, archived, editing>> /\ creating[r].pc = "insert"
      BY DEF CreateInsert
    <2>2. HeldBy(r) = chosen /\ \A o \in chosen : billing[o] = NULL
      BY <2>1 DEF SelectionStands, Stands, Billable
    <2>3. /\ creating'[r] = Create("replied", NULL, NULL, {})
          /\ \A q \in Creators : q # r => creating'[q] = creating[q]
      BY <1>2 DEF Reply, TypeOK
    <2>4. /\ HeldBy(r)' = {}
          /\ \A q \in Creators : q # r => HeldBy(q)' = HeldBy(q)
          /\ \A e \in Editors : EditedBy(e)' = EditedBy(e)
      BY <2>1, <2>3 DEF HeldBy, EditedBy, Create, NoLines
    <2>5. /\ \A o \in Orders : quote[o] # NULL <=> o \in chosen
          /\ \A o \in Orders : line[i][o] = NULL
      BY <1>2, <2>2 DEF HeldBy, UnusedInvoices, NoLines
    <2>6. /\ line'[i] = quote
          /\ \A j \in Invoices : j # i => /\ line'[j] = line[j] /\ keyOf'[j] = keyOf[j]
                                          /\ status'[j] = status[j]
          /\ status'[i] = "draft"
          /\ \A o \in Orders : billing'[o] = IF o \in chosen THEN i ELSE billing[o]
      BY <1>2 DEF TypeOK, Claimed
    <2>7. PointerMatchesLine'
      BY <2>2, <2>5, <2>6, BillingAssumption DEF PointerMatchesLine
    <2>8. UnusedInvoices'
      BY <2>6 DEF UnusedInvoices
    <2>9. \A q \in Creators : q # r => Stands(q)'
      <3>1. \A q \in Creators : q # r => \A o \in HeldBy(q) : o \in Orders /\ o \notin chosen
        BY <2>2 DEF LocksExclude, HeldBy
      <3> QED BY <2>1, <2>3, <2>6, <3>1, StandsKept DEF SelectionStands
    <2>10. Stands(r)'
      BY <2>3, <2>4 DEF Stands, Create
    <2>11. LocksExclude'
      BY <2>4 DEF LocksExclude
    <2>12. EditsStand'
      <3>1. \A e \in Editors : editing[e].pc \in {"sum", "commit"} => editing[e].order \notin chosen
        BY <2>2 DEF LocksExclude, EditedBy
      <3> QED BY <2>1, <2>6, <3>1 DEF EditsStand
    <2> QED BY <2>7, <2>8, <2>9, <2>10, <2>11, <2>12 DEF SelectionStands
  <1> QED BY <1>1, <1>2 DEF CreateInsert

(* A fee edit takes a free row and remembers the invoice it found there.   *)
LEMMA EditLockStep ==
  ASSUME TablesInv, NEW e \in Editors, NEW o \in Orders, NEW fee \in Amount, EditLock(e, o, fee)
  PROVE  Agreement'
  <1> USE DEF TablesInv, Agreement
  <1>1. UNCHANGED <<orderVars, status, keyOf, line, creating>> /\ ~Locked(o)
    BY DEF EditLock, stateVars, lineVars
  <1>2. \A f \in Editors : f # e => editing'[f] = editing[f]
    BY DEF EditLock, TypeOK
  <1>3. \/ editing'[e] = Edit("done", NULL, NULL, NULL)
        \/ editing'[e] = Edit("commit", o, fee, NULL) /\ billing[o] = NULL
        \/ editing'[e] = Edit("sum", o, fee, billing[o]) /\ billing[o] # NULL /\ fee # NULL
    BY DEF EditLock, TypeOK
  <1>4. /\ EditedBy(e)' \subseteq {o}
        /\ \A f \in Editors : f # e => EditedBy(f)' = EditedBy(f)
        /\ \A q \in Creators : HeldBy(q)' = HeldBy(q)
    BY <1>1, <1>2, <1>3 DEF EditedBy, HeldBy, Edit
  <1>5. PointerMatchesLine' /\ UnusedInvoices'
    BY <1>1 DEF PointerMatchesLine, UnusedInvoices, orderVars
  <1>6. SelectionStands'
    BY <1>1, StandsKept DEF SelectionStands, orderVars
  <1>7. LocksExclude'
    BY <1>1, <1>4 DEF LocksExclude, Locked
  <1>8. EditsStand'
    BY <1>1, <1>2, <1>3 DEF EditsStand, Edit, orderVars
  <1> QED BY <1>5, <1>6, <1>7, <1>8

(* The two halves of the total: summing keeps the row and its invoice.     *)
LEMMA EditSumStep ==
  ASSUME TablesInv, NEW e \in Editors, EditSum(e)
  PROVE  Agreement'
  <1> USE DEF TablesInv, Agreement
  <1>1. UNCHANGED <<orderVars, status, keyOf, line, creating>>
    BY DEF EditSum, stateVars, lineVars
  <1>2. editing[e] \in EditState /\ editing[e].pc = "sum"
    BY DEF EditSum, TypeOK
  <1>3. /\ editing'[e].pc = "commit" /\ editing'[e].order = editing[e].order
        /\ editing'[e].invoice = editing[e].invoice /\ editing'[e].fee = editing[e].fee
        /\ \A f \in Editors : f # e => editing'[f] = editing[f]
    BY <1>2 DEF EditSum, TypeOK, EditState
  <1>4. /\ \A f \in Editors : EditedBy(f)' = EditedBy(f)
        /\ \A q \in Creators : HeldBy(q)' = HeldBy(q)
    BY <1>1, <1>2, <1>3 DEF EditedBy, HeldBy
  <1>5. PointerMatchesLine' /\ UnusedInvoices'
    BY <1>1 DEF PointerMatchesLine, UnusedInvoices, orderVars
  <1>6. SelectionStands'
    BY <1>1, StandsKept DEF SelectionStands, orderVars
  <1>7. LocksExclude'
    BY <1>4 DEF LocksExclude
  <1>8. EditsStand'
    BY <1>1, <1>2, <1>3 DEF EditsStand, orderVars
  <1> QED BY <1>5, <1>6, <1>7, <1>8

LEMMA EditEndReleases ==
  ASSUME TablesInv, NEW e \in Editors, EditEnd(e), UNCHANGED <<billing, creating>>
  PROVE  /\ \A f \in Editors : f # e => EditedBy(f)' = EditedBy(f)
         /\ EditedBy(e)' = {}
         /\ \A q \in Creators : HeldBy(q)' = HeldBy(q)
         /\ LocksExclude' /\ EditsStand'
  <1>1. /\ editing'[e] = Edit("done", NULL, NULL, NULL)
        /\ \A f \in Editors : f # e => editing'[f] = editing[f]
    BY DEF EditEnd, TablesInv, TypeOK
  <1>2. /\ \A f \in Editors : f # e => EditedBy(f)' = EditedBy(f)
        /\ EditedBy(e)' = {}
        /\ \A q \in Creators : HeldBy(q)' = HeldBy(q)
    BY <1>1 DEF EditedBy, HeldBy, Edit
  <1>3. LocksExclude'
    BY <1>2 DEF LocksExclude, TablesInv, Agreement
  <1>4. EditsStand'
    BY <1>1 DEF EditsStand, Edit, TablesInv, Agreement
  <1> QED BY <1>2, <1>3, <1>4

(* The commit rewrites a line that exists: its row has pointed to the      *)
(* invoice since the row was locked.                                       *)
LEMMA EditCommitStep ==
  ASSUME TablesInv, NEW e \in Editors, EditCommit(e)
  PROVE  /\ Agreement'
         /\ \A i \in Invoices, o \in Orders : line'[i][o] # NULL <=> line[i][o] # NULL
  <1> USE DEF TablesInv, Agreement
  <1> DEFINE i == editing[e].invoice
             o == editing[e].order
             fee == editing[e].fee
  <1>1. /\ UNCHANGED <<cancelled, archived, billing, status, keyOf, creating>>
        /\ editing[e].pc = "commit" /\ EditEnd(e)
        /\ terms' = [terms EXCEPT ![o] = fee]
        /\ i = NULL => line' = line
        /\ i # NULL => line' = [line EXCEPT ![i][o] = fee]
    BY DEF EditCommit
  <1>2. o \in Orders /\ i = billing[o] /\ (i # NULL => fee # NULL)
    BY <1>1 DEF EditsStand
  <1>3. LocksExclude' /\ EditsStand'
    BY <1>1, EditEndReleases
  <1>4. \A j \in Invoices, p \in Orders : line'[j][p] # NULL <=> line[j][p] # NULL
    <2>1. CASE i = NULL
      BY <1>1, <2>1
    <2>2. CASE i # NULL
      <3>1. i \in Invoices /\ line[i][o] # NULL
        BY <1>2, <2>2 DEF PointerMatchesLine, TypeOK
      <3>2. line \in [Invoices -> [Orders -> Amount]]
        BY DEF TypeOK
      <3>3. line' = [line EXCEPT ![i] = [@ EXCEPT ![o] = fee]] /\ fee # NULL
        BY <1>1, <1>2, <2>2
      <3> HIDE DEF i, o, fee, TablesInv, Agreement
      <3> QED BY <1>2, <3>1, <3>2, <3>3
    <2> QED BY <2>1, <2>2
  <1>5. PointerMatchesLine'
    BY <1>1, <1>4 DEF PointerMatchesLine
  <1>6. UnusedInvoices'
    <2>1. ASSUME NEW j \in Invoices, status[j] = "absent" PROVE line'[j] = line[j]
      <3>1. \A p \in Orders : line[j][p] = NULL
        BY <2>1 DEF UnusedInvoices, NoLines
      <3>2. i # j
        BY <1>2, <3>1 DEF PointerMatchesLine
      <3> QED BY <1>1, <3>2 DEF TypeOK
    <2> QED BY <1>1, <2>1 DEF UnusedInvoices
  <1>7. SelectionStands'
    <2>1. \A q \in Creators : \A p \in HeldBy(q) : p \in Orders /\ p # o
      BY <1>1 DEF LocksExclude, EditedBy, HeldBy
    <2>2. \A p \in Orders : p # o => terms'[p] = terms[p]
      BY <1>1 DEF TypeOK
    <2> QED BY <1>1, <2>1, <2>2, StandsKept DEF SelectionStands
  <1> QED BY <1>3, <1>4, <1>5, <1>6, <1>7

LEMMA EditAbortStep ==
  ASSUME TablesInv, NEW e \in Editors, EditAbort(e)
  PROVE  Agreement'
  <1> USE DEF TablesInv, Agreement
  <1>1. UNCHANGED <<orderVars, status, keyOf, line, creating>> /\ EditEnd(e)
    BY DEF EditAbort, stateVars, lineVars
  <1>2. LocksExclude' /\ EditsStand'
    BY <1>1, EditEndReleases DEF orderVars
  <1>3. PointerMatchesLine' /\ UnusedInvoices'
    BY <1>1 DEF PointerMatchesLine, UnusedInvoices, orderVars
  <1>4. SelectionStands'
    BY <1>1, StandsKept DEF SelectionStands, orderVars
  <1> QED BY <1>2, <1>3, <1>4

(* Mail, overrides and archiving wait for the row: what a transaction has  *)
(* selected is not among the rows they change.                             *)
LEMMA OrderWriterStep ==
  ASSUME TablesInv, NEW o \in Orders, ~Locked(o),
         \A p \in Orders : p # o => /\ terms'[p] = terms[p] /\ cancelled'[p] = cancelled[p]
                                    /\ archived'[p] = archived[p],
         UNCHANGED <<billing, status, keyOf, line, creating, editing>>
  PROVE  Agreement'
  <1> USE DEF TablesInv, Agreement
  <1>1. PointerMatchesLine' /\ UnusedInvoices' /\ EditsStand'
    BY DEF PointerMatchesLine, UnusedInvoices, EditsStand
  <1>2. LocksExclude'
    BY DEF LocksExclude, HeldBy, EditedBy
  <1>3. \A q \in Creators : \A p \in HeldBy(q) : p \in Orders /\ p # o
    BY DEF Locked, HeldBy
  <1>4. SelectionStands'
    BY <1>3, StandsKept DEF SelectionStands
  <1> QED BY <1>1, <1>2, <1>4

LEMMA TablesStep == TablesInv /\ [Next]_vars => TablesInv'
  <1> SUFFICES ASSUME TablesInv, [Next]_vars PROVE Agreement'
    BY TypeStep DEF TablesInv
  <1> USE DEF orderVars, stateVars, lineVars, handlers
  <1>1. ASSUME NEW r \in Creators, NEW c \in Customers, NEW k \in Keys,
               NEW chosen \in SUBSET Orders, CreateBegin(r, c, k, chosen)
        PROVE  Agreement'
    BY <1>1, CreateReleases DEF CreateBegin, ReplyExisting
  <1>2. ASSUME NEW r \in Creators, CreateSelect(r) PROVE Agreement'
    BY <1>2, SelectStep
  <1>3. ASSUME NEW r \in Creators, CreateRecheck(r) \/ CreateAbort(r) PROVE Agreement'
    BY <1>3, CreateReleases DEF CreateRecheck, CreateAbort, ReplyExisting
  <1>4. ASSUME NEW r \in Creators, CreateInsert(r) PROVE Agreement'
    BY <1>4, InsertStep
  <1>5. ASSUME NEW e \in Editors, NEW o \in Orders, NEW fee \in Amount, EditLock(e, o, fee)
        PROVE  Agreement'
    BY <1>5, EditLockStep
  <1>6. ASSUME NEW e \in Editors, EditSum(e) \/ EditCommit(e) \/ EditAbort(e) PROVE Agreement'
    BY <1>6, EditSumStep, EditCommitStep, EditAbortStep
  <1>7. ASSUME NEW o \in Orders,
               SetCancelled(o) \/ ArchiveOrder(o) \/ \E fee \in Amounts : ReviseTotal(o, fee)
        PROVE  Agreement'
    <2>1. TypeOK
      BY DEF TablesInv
    <2>2. /\ ~Locked(o)
          /\ UNCHANGED <<billing, status, keyOf, line, creating, editing>>
      BY <1>7 DEF SetCancelled, ArchiveOrder, ReviseTotal
    <2>3. \A p \in Orders : p # o => /\ terms'[p] = terms[p] /\ cancelled'[p] = cancelled[p]
                                     /\ archived'[p] = archived[p]
      BY <1>7, <2>1 DEF SetCancelled, ArchiveOrder, ReviseTotal, TypeOK
    <2> QED BY <2>2, <2>3, OrderWriterStep
  <1>8. CASE OrderStep
    BY <1>7, <1>8, BillingAssumption DEF OrderStep
  <1>9. CASE CreateStep
    BY <1>1, <1>2, <1>3, <1>4, <1>9 DEF CreateStep
  <1>10. CASE EditStep
    BY <1>5, <1>6, <1>10 DEF EditStep
  <1>11. CASE IssueStep
    BY <1>11, ElsewhereStep
       DEF IssueStep, IssueRead, StripeAccept, StripeConflict, StripeReject, IssueWrite,
           IssueAbort, Outcome, TablesInv, TypeOK
  <1>12. CASE StripeStep \/ UNCHANGED vars
    BY <1>12, ElsewhereStep DEF StripeStep, StripeSettle, vars
  <1>13. CASE HookStep
    BY <1>13, ElsewhereStep
       DEF HookStep, HookRecord, HookDuplicate, HookRead, HookApply, HookNotify, HookAbort,
           EventStatus, TablesInv, TypeOK
  <1> QED BY <1>8, <1>9, <1>10, <1>11, <1>12, <1>13 DEF Next

LEMMA TablesInvariant == Spec => []TablesInv
  <1>1. Init => Agreement
    <2> SUFFICES ASSUME Init PROVE Agreement
      OBVIOUS
    <2> USE BillingAssumption DEF Init, Agreement
    <2>1. PointerMatchesLine /\ UnusedInvoices
      BY DEF PointerMatchesLine, UnusedInvoices, NoLines
    <2>2. /\ \A r \in Creators : creating[r].pc = "idle" /\ creating[r].quote = NoLines
          /\ \A e \in Editors : editing[e].pc = "idle"
      BY DEF Create, Edit
    <2>3. /\ \A r \in Creators : HeldBy(r) = {}
          /\ \A e \in Editors : EditedBy(e) = {}
      BY <2>2, NoQuoteNoLock DEF EditedBy
    <2>4. SelectionStands /\ LocksExclude /\ EditsStand
      BY <2>2, <2>3 DEF SelectionStands, Stands, LocksExclude, EditsStand
    <2> QED BY <2>1, <2>4
  <1>2. QED
    BY <1>1, TablesStep, TypeCorrect, PTL DEF Spec, TablesInv

-----------------------------------------------------------------------------
(* The billing pointer of an order and the lines of the invoices agree in  *)
(* every reachable state (createInvoice, updateOrderFee).                  *)
THEOREM PointerAgreement == Spec => []PointerMatchesLine
  BY TablesInvariant, PTL DEF TablesInv, Agreement

(* The one step that claims orders, and what holds when it is taken.       *)
Claims(r, i) ==
    LET k == creating[r].key
        chosen == creating[r].chosen
    IN
    /\ k \in Keys /\ chosen \in (SUBSET Orders) \ {{}}
    /\ KeyUnused(k) /\ keyOf[i] = NULL
    /\ \A o \in Orders : line[i][o] = NULL
    /\ \A o \in chosen : /\ Billable(creating[r].customer, o)
                         /\ creating[r].quote[o] = terms[o] /\ terms[o] > 0
    /\ OneCurrency(chosen)
    /\ keyOf' = [keyOf EXCEPT ![i] = k]
    /\ payer' = [payer EXCEPT ![i] = creating[r].customer]
    /\ line' = [line EXCEPT ![i] = creating[r].quote]
    /\ billing' = [o \in Orders |-> IF o \in chosen THEN i ELSE billing[o]]
    /\ creating'[r].pc = "replied"

LEMMA InsertClaims ==
  ASSUME TablesInv, NEW r \in Creators, CreateInsert(r)
  PROVE  \/ UNCHANGED <<billing, keyOf, payer, line>> /\ ~KeyUnused(creating[r].key)
         \/ \E i \in Invoices : Claims(r, i)
  <1> USE DEF TablesInv, Agreement
  <1>1. ASSUME NEW i \in Invoices, KeyUnused(creating[r].key), status[i] = "absent",
               keyOf' = [keyOf EXCEPT ![i] = creating[r].key],
               payer' = [payer EXCEPT ![i] = creating[r].customer],
               line' = [line EXCEPT ![i] = creating[r].quote],
               billing' = Claimed(i, creating[r].chosen),
               Reply(r, "replied")
        PROVE  Claims(r, i)
    <2>1. creating[r].pc = "insert" /\ Stands(r)
      BY DEF CreateInsert, SelectionStands
    <2>2. creating[r].key \in Keys /\ creating[r].chosen \in (SUBSET Orders) \ {{}}
      BY <2>1, RecordFields DEF Stands, TypeOK
    <2>3. keyOf[i] = NULL /\ \A o \in Orders : line[i][o] = NULL
      BY <1>1 DEF UnusedInvoices, NoLines
    <2>4. /\ OneCurrency(creating[r].chosen)
          /\ \A o \in creating[r].chosen : /\ Billable(creating[r].customer, o)
                                           /\ creating[r].quote[o] = terms[o] /\ terms[o] > 0
      BY <2>1 DEF Stands
    <2>5. creating'[r].pc = "replied"
      BY <1>1 DEF Reply, Create, TypeOK
    <2> QED BY <1>1, <2>2, <2>3, <2>4, <2>5 DEF Claims, Claimed
  <1> QED BY <1>1 DEF CreateInsert, lineVars

LEMMA OnlyInsertClaims ==
  ASSUME TablesInv, [Next]_vars
  PROVE  UNCHANGED <<billing, keyOf, payer>> \/ \E r \in Creators, i \in Invoices : Claims(r, i)
  <1> USE DEF orderVars, lineVars
  <1>1. CASE \E r \in Creators : CreateInsert(r)
    BY <1>1, InsertClaims
  <1>2. CASE CreateStep /\ ~\E r \in Creators : CreateInsert(r)
    BY <1>2 DEF CreateStep, CreateBegin, CreateSelect, CreateRecheck, CreateAbort
  <1>3. CASE EditStep \/ OrderStep
    BY <1>3 DEF EditStep, EditLock, EditSum, EditCommit, EditAbort,
                OrderStep, SetCancelled, ReviseTotal, ArchiveOrder
  <1>4. CASE IssueStep \/ StripeStep
    BY <1>4 DEF IssueStep, IssueRead, StripeAccept, StripeConflict, StripeReject, IssueWrite,
                IssueAbort, StripeStep, StripeSettle
  <1>5. CASE HookStep \/ UNCHANGED vars
    BY <1>5 DEF HookStep, HookRecord, HookDuplicate, HookRead, HookApply, HookNotify, HookAbort, vars
  <1> QED BY <1>1, <1>2, <1>3, <1>4, <1>5 DEF Next

(* Nothing an invoice claims has changed since it was selected.            *)
THEOREM ClaimsAreBillable == Spec => BillsOnlyBillable
  <1> DEFINE A == \A o, p \in Orders : billing'[o] # billing[o] =>
                    /\ billing[o] = NULL
                    /\ ~cancelled[o] /\ ~archived[o]
                    /\ CustomerOf[o] = payer'[billing'[o]]
                    /\ line'[billing'[o]][o] = terms[o] /\ terms[o] > 0
                    /\ billing'[p] = billing'[o] => CurrencyOf[p] = CurrencyOf[o]
  <1>1. TablesInv /\ [Next]_vars => A
    <2> SUFFICES ASSUME TablesInv, NEW r \in Creators, NEW i \in Invoices, Claims(r, i) PROVE A
      BY OnlyInsertClaims
    <2> SUFFICES ASSUME NEW o \in Orders, NEW p \in Orders, billing'[o] # billing[o]
                 PROVE  /\ billing[o] = NULL
                        /\ ~cancelled[o] /\ ~archived[o]
                        /\ CustomerOf[o] = payer'[billing'[o]]
                        /\ line'[billing'[o]][o] = terms[o] /\ terms[o] > 0
                        /\ billing'[p] = billing'[o] => CurrencyOf[p] = CurrencyOf[o]
      OBVIOUS
    <2>1. o \in creating[r].chosen /\ billing'[o] = i
      BY DEF Claims
    <2>2. Billable(creating[r].customer, o) /\ creating[r].quote[o] = terms[o] /\ terms[o] > 0
      BY <2>1 DEF Claims
    <2>3. payer'[i] = creating[r].customer /\ line'[i] = creating[r].quote
      BY DEF Claims, TablesInv, TypeOK
    <2>4. billing'[p] = i => p \in creating[r].chosen
      BY DEF Claims, TablesInv, Agreement, PointerMatchesLine
    <2> QED BY <2>1, <2>2, <2>3, <2>4 DEF Claims, Billable, OneCurrency
  <1> HIDE DEF A
  <1>2. Spec => [][A]_vars
    BY <1>1, TablesInvariant, PTL DEF Spec
  <1> QED BY <1>2 DEF A, BillsOnlyBillable

(* Invoice creation, interleaved and retried as it is, implements atomic,  *)
(* exclusive claims under one invoice per key (OrderLedger).               *)
THEOREM LedgerImplemented == Spec => ImplementsLedger
  <1>1. Init => Ledger!Init
    BY DEF Init, Ledger!Init
  <1>2. TablesInv /\ [Next]_vars => [Ledger!Next]_Ledger!ledgerVars
    <2> SUFFICES ASSUME TablesInv, NEW r \in Creators, NEW i \in Invoices, Claims(r, i)
                 PROVE  Ledger!Next
      BY OnlyInsertClaims DEF Ledger!ledgerVars
    <2>1. Ledger!Claim(i, creating[r].key, creating[r].chosen)
      BY DEF Claims, Ledger!Claim, Billable, KeyUnused, InvoicesUnder
    <2> QED BY <2>1 DEF Claims, Ledger!Next
  <1>3. QED
    BY <1>1, <1>2, TablesInvariant, PTL DEF Spec, ImplementsLedger, Ledger!Spec

(* A key keeps naming the one invoice inserted under it.                   *)
LEMMA KeysUniqueInvariant == Spec => []KeysUnique
  <1>1. Init => KeysUnique
    BY DEF Init, KeysUnique
  <1>2. TablesInv /\ KeysUnique /\ [Next]_vars => KeysUnique'
    <2> SUFFICES ASSUME TablesInv, KeysUnique, NEW r \in Creators, NEW i \in Invoices, Claims(r, i)
                 PROVE  KeysUnique'
      BY OnlyInsertClaims DEF KeysUnique
    <2> QED BY DEF KeysUnique, Claims, KeyUnused, InvoicesUnder, TablesInv, TypeOK
  <1>3. QED
    BY <1>1, <1>2, TablesInvariant, PTL DEF Spec

(* A request whose own invoice exists is never turned away (the comment on *)
(* the second key lookup of createInvoice).                                *)
THEOREM RetryIsAnswered == Spec => RetryFindsInvoice
  <1> DEFINE Lost(r) == /\ creating[r].pc \in {"select", "recheck", "insert"}
                        /\ creating'[r].pc \in {"refused", "failed"}
                        /\ failures' = failures
             Own(r, i) == payer[i] = creating[r].customer /\ LinesOf(i) = creating[r].chosen
             A == \A r \in Creators : Lost(r) => ~\E i \in InvoicesUnder(creating[r].key) : Own(r, i)
  <1>1. TablesInv /\ KeysUnique /\ [Next]_vars => A
    <2> SUFFICES ASSUME TablesInv, KeysUnique, [Next]_vars, NEW r \in Creators, Lost(r),
                        NEW i \in InvoicesUnder(creating[r].key), Own(r, i)
                 PROVE  FALSE
      OBVIOUS
    <2> USE DEF TablesInv, Agreement
    <2>1. CreateSelect(r) \/ CreateRecheck(r) \/ CreateInsert(r)
      <3>1. creating' # creating
        OBVIOUS
      <3>2. CASE CreateStep
        <4>1. PICK q \in Creators :
                 \/ \E c \in Customers, k \in Keys, chosen \in SUBSET Orders : CreateBegin(q, c, k, chosen)
                 \/ CreateSelect(q) \/ CreateRecheck(q) \/ CreateInsert(q) \/ CreateAbort(q)
          BY <3>2 DEF CreateStep
        <4>2. CASE q = r
          BY <4>1, <4>2, BillingAssumption DEF CreateBegin, CreateAbort, TypeOK
        <4>3. CASE q # r
          <5>1. creating'[r] = creating[r]
            BY <4>1, <4>3 DEF CreateBegin, CreateSelect, CreateRecheck, CreateInsert, CreateAbort,
                              ReplyExisting, Reply, TypeOK
          <5> QED BY <5>1
        <4> QED BY <4>2, <4>3
      <3>3. CASE EditStep \/ OrderStep
        BY <3>1, <3>3 DEF EditStep, EditLock, EditSum, EditCommit, EditAbort,
                    OrderStep, SetCancelled, ReviseTotal, ArchiveOrder, handlers
      <3>4. CASE IssueStep \/ StripeStep
        BY <3>1, <3>4 DEF IssueStep, IssueRead, StripeAccept, StripeConflict, StripeReject,
                    IssueWrite, IssueAbort, StripeStep, StripeSettle, handlers
      <3>5. CASE HookStep \/ UNCHANGED vars
        BY <3>1, <3>5 DEF HookStep, HookRecord, HookDuplicate, HookRead, HookApply, HookNotify,
                    HookAbort, vars, handlers
      <3> QED BY <3>2, <3>3, <3>4, <3>5 DEF Next
    <2>2. /\ creating[r].key \in Keys /\ creating[r].chosen # {}
          /\ i \in Invoices /\ keyOf[i] = creating[r].key
      BY DEF SelectionStands, Stands, InvoicesUnder
    <2>3. \E o \in creating[r].chosen : o \in Orders /\ billing[o] = i
      BY <2>2 DEF LinesOf, PointerMatchesLine
    <2>4. ASSUME \A o \in creating[r].chosen : Billable(creating[r].customer, o) PROVE FALSE
      BY <2>2, <2>3, <2>4, BillingAssumption DEF Billable
    <2>5. CASE CreateSelect(r)
      <3>1. creating'[r].pc = "refused"
              => {o \in creating[r].chosen : Billable(creating[r].customer, o)} = creating[r].chosen
        <4> DEFINE quote == [o \in Orders |-> IF o \in {p \in creating[r].chosen :
                                 Billable(creating[r].customer, p)} THEN terms[o] ELSE NULL]
        <4>1. \/ {o \in creating[r].chosen : Billable(creating[r].customer, o)} = creating[r].chosen
              \/ creating' = [creating EXCEPT ![r] = [@ EXCEPT !.pc = "recheck", !.quote = quote]]
          BY <2>5 DEF CreateSelect
        <4>2. creating[r] \in CreateState /\ creating \in [Creators -> CreateState]
          BY DEF TypeOK
        <4> HIDE DEF quote, TablesInv, Agreement
        <4>3. ASSUME creating' = [creating EXCEPT ![r] = [@ EXCEPT !.pc = "recheck", !.quote = quote]]
              PROVE  creating'[r].pc = "recheck"
          BY <4>2, <4>3 DEF CreateState
        <4> QED BY <4>1, <4>3
      <3>2. creating'[r].pc \in {"recheck", "insert", "refused"}
        BY <2>5 DEF CreateSelect, Reply, Create, TypeOK, CreateState
      <3> QED BY <3>1, <3>2, <2>4
    <2>6. CASE CreateRecheck(r)
      <3>1. PICK j \in InvoicesUnder(creating[r].key) : ReplyExisting(r, creating[r].customer, j)
        BY <2>6 DEF CreateRecheck
      <3>2. j = i
        BY <3>1, <2>2, BillingAssumption DEF InvoicesUnder, KeysUnique
      <3> QED BY <3>1, <3>2 DEF ReplyExisting, Reply, Create, TypeOK
    <2>7. CASE CreateInsert(r)
      BY <2>4, <2>7 DEF CreateInsert, SelectionStands, Stands
    <2> QED BY <2>1, <2>5, <2>6, <2>7
  <1> HIDE DEF A
  <1>2. Spec => [][A]_vars
    BY <1>1, TablesInvariant, KeysUniqueInvariant, PTL DEF Spec
  <1> QED BY <1>2 DEF A, RetryFindsInvoice

-----------------------------------------------------------------------------
(* Once an order is on an invoice it stays there: a line can be repriced,  *)
(* never removed.                                                          *)
LEMMA LinesKept ==
  ASSUME TablesInv, [Next]_vars, NEW i \in Invoices, NEW o \in Orders, line[i][o] # NULL
  PROVE  line'[i][o] # NULL
  <1> USE DEF lineVars
  <1>1. CASE \E r \in Creators : CreateInsert(r)
    <2>1. PICK r \in Creators : CreateInsert(r)
      BY <1>1
    <2>2. CASE UNCHANGED line
      BY <2>2
    <2>3. CASE \E j \in Invoices : Claims(r, j)
      <3>1. PICK j \in Invoices : Claims(r, j)
        BY <2>3
      <3>2. i # j /\ line' = [line EXCEPT ![j] = creating[r].quote]
        BY <3>1 DEF Claims
      <3> QED BY <3>2 DEF TablesInv, TypeOK
    <2> QED BY <2>1, <2>2, <2>3, InsertClaims
  <1>2. CASE CreateStep /\ ~\E r \in Creators : CreateInsert(r)
    BY <1>2 DEF CreateStep, CreateBegin, CreateSelect, CreateRecheck, CreateAbort
  <1>3. CASE EditStep
    BY <1>3, EditCommitStep DEF EditStep, EditLock, EditSum, EditAbort
  <1>4. CASE OrderStep \/ StripeStep \/ UNCHANGED vars
    BY <1>4 DEF OrderStep, SetCancelled, ReviseTotal, ArchiveOrder, StripeStep, StripeSettle, vars
  <1>5. CASE IssueStep
    BY <1>5 DEF IssueStep, IssueRead, StripeAccept, StripeConflict, StripeReject, IssueWrite, IssueAbort
  <1>6. CASE HookStep
    BY <1>6 DEF HookStep, HookRecord, HookDuplicate, HookRead, HookApply, HookNotify, HookAbort
  <1> QED BY <1>1, <1>2, <1>3, <1>4, <1>5, <1>6 DEF Next

(* The items of a call are those of the lines the handler read.            *)
LEMMA ItemsFromLines ==
  ASSUME ChargesInv, item \in [Invoices -> [Orders -> Seq(Amounts)]], NEW s \in Issuers,
         issuing[s].pc = "stripe",
         NEW made \in SUBSET Chargeable(issuing[s].invoice, issuing[s].lines),
         AddItems(issuing[s].invoice, issuing[s].lines, made)
  PROVE  \A i \in Invoices, o \in Orders :
             item'[i][o] # <<>> => Len(item'[i][o]) = 1 /\ line[i][o] # NULL
  BY DEF ChargesInv, AddItems, Created, Chargeable

LEMMA ChargesStep == TablesInv /\ ChargesInv /\ [Next]_vars => ChargesInv'
  <1> SUFFICES ASSUME TablesInv, ChargesInv, [Next]_vars PROVE ChargesInv'
    OBVIOUS
  <1>1. ASSUME \A i \in Invoices, o \in Orders :
             item'[i][o] # <<>> => Len(item'[i][o]) = 1 /\ line[i][o] # NULL,
               \A s \in Issuers : issuing'[s].pc = "stripe" =>
                  /\ issuing'[s].invoice \in Invoices
                  /\ \A o \in Orders : issuing'[s].lines[o] # NULL => line[issuing'[s].invoice][o] # NULL
        PROVE  ChargesInv'
    BY <1>1, LinesKept DEF ChargesInv
  <1>2. CASE UNCHANGED <<item, issuing>>
    BY <1>1, <1>2 DEF ChargesInv
  <1>2a. ASSUME NEW s \in Issuers, issuing'[s].pc # "stripe",
                \A t \in Issuers : t # s => issuing'[t] = issuing[t]
         PROVE  \A t \in Issuers : issuing'[t].pc = "stripe" =>
                  /\ issuing'[t].invoice \in Invoices
                  /\ \A o \in Orders : issuing'[t].lines[o] # NULL => line[issuing'[t].invoice][o] # NULL
    <2>1. \A t \in Issuers : issuing'[t].pc = "stripe" => issuing'[t] = issuing[t]
      BY <1>2a
    <2> QED BY <2>1 DEF ChargesInv
  <1> USE DEF TablesInv, TypeOK
  <1>3. ASSUME NEW s \in Issuers, NEW i \in Invoices, IssueRead(s, i) PROVE ChargesInv'
    BY <1>1, <1>3 DEF IssueRead, Issue, ChargesInv, stripeVars
  <1>4. ASSUME NEW s \in Issuers, StripeAccept(s) \/ StripeConflict(s) \/ StripeReject(s)
        PROVE  ChargesInv'
    <2>1. \E made \in SUBSET Chargeable(issuing[s].invoice, issuing[s].lines) :
             AddItems(issuing[s].invoice, issuing[s].lines, made)
      BY <1>4 DEF StripeAccept, StripeConflict, StripeReject
    <2>2. issuing[s].pc = "stripe" /\ issuing'[s].pc # "stripe"
          /\ \A t \in Issuers : t # s => issuing'[t] = issuing[t]
      BY <1>4 DEF StripeAccept, StripeConflict, StripeReject, Issue
    <2>3. \A i \in Invoices, o \in Orders :
             item'[i][o] # <<>> => Len(item'[i][o]) = 1 /\ line[i][o] # NULL
      BY <2>1, <2>2, ItemsFromLines
    <2> HIDE DEF TablesInv, TypeOK
    <2> QED BY <1>1, <1>2a, <2>2, <2>3
  <1>5. ASSUME NEW s \in Issuers, IssueWrite(s) \/ IssueAbort(s) PROVE ChargesInv'
    <2>1. /\ issuing'[s].pc # "stripe" /\ item' = item
          /\ \A t \in Issuers : t # s => issuing'[t] = issuing[t]
      BY <1>5 DEF IssueWrite, IssueAbort, Issue, stripeVars
    <2> HIDE DEF TablesInv, TypeOK
    <2>2. \A i \in Invoices, o \in Orders :
             item'[i][o] # <<>> => Len(item'[i][o]) = 1 /\ line[i][o] # NULL
      BY <2>1 DEF ChargesInv
    <2> QED BY <1>1, <1>2a, <2>1, <2>2
  <1>6. CASE CreateStep
    BY <1>2, <1>6 DEF CreateStep, CreateBegin, CreateSelect, CreateRecheck, CreateInsert, CreateAbort,
                      stripeVars
  <1>7. CASE EditStep
    BY <1>2, <1>7 DEF EditStep, EditLock, EditSum, EditCommit, EditAbort, stripeVars
  <1>8. CASE OrderStep \/ StripeStep \/ UNCHANGED vars
    BY <1>2, <1>8 DEF OrderStep, SetCancelled, ReviseTotal, ArchiveOrder, StripeStep, StripeSettle,
                      vars, stripeVars, handlers
  <1>9. CASE HookStep
    BY <1>2, <1>9 DEF HookStep, HookRecord, HookDuplicate, HookRead, HookApply, HookNotify, HookAbort,
                      stripeVars, handlers
  <1> QED BY <1>3, <1>4, <1>5, <1>6, <1>7, <1>8, <1>9 DEF Next, IssueStep

(* Stripe charges an order under the one invoice the order points to,      *)
(* whatever was retried, rejected or repriced on the way (issueInvoice).   *)
THEOREM OrderChargedOnce == Spec => []ChargedOnce
  <1>1. Init => ChargesInv
    BY DEF Init, ChargesInv, NoLines, Issue
  <1>2. TablesInv /\ ChargesInv => ChargedOnce
    BY DEF TablesInv, Agreement, ChargesInv, ChargedOnce, PointerMatchesLine
  <1>3. QED
    BY <1>1, <1>2, ChargesStep, TablesInvariant, PTL DEF Spec

-----------------------------------------------------------------------------
LEMMA ProviderStep == TypeOK /\ ProviderInv /\ [Next]_vars => ProviderInv'
  <1> SUFFICES ASSUME TypeOK, ProviderInv, [Next]_vars PROVE ProviderInv'
    OBVIOUS
  <1> USE DEF stripeVars, hookVars, stateVars, handlers, ProviderInv, ProviderBacked
  <1>1. ASSUME UNCHANGED <<stripeVars, hookVars, issuing>>,
               \A i \in Invoices : status'[i] = status[i] \/ status'[i] = "draft"
        PROVE  ProviderInv'
    BY <1>1
  <1>2. ASSUME NEW r \in Creators, CreateInsert(r) PROVE ProviderInv'
    BY <1>1, <1>2 DEF CreateInsert, TypeOK
  <1>3. CASE CreateStep /\ ~\E r \in Creators : CreateInsert(r)
    BY <1>1, <1>3 DEF CreateStep, CreateBegin, CreateSelect, CreateRecheck, CreateAbort
  <1>4. CASE EditStep
    BY <1>1, <1>4 DEF EditStep, EditLock, EditSum, EditCommit, EditAbort
  <1>5. CASE OrderStep \/ UNCHANGED vars
    BY <1>1, <1>5 DEF OrderStep, SetCancelled, ReviseTotal, ArchiveOrder, vars
  <1>6. ASSUME NEW s \in Issuers, NEW i \in Invoices, IssueRead(s, i) PROVE ProviderInv'
    <2>1. /\ issuing'[s].pc = "stripe" /\ \A t \in Issuers : t # s => issuing'[t] = issuing[t]
          /\ UNCHANGED <<stripe, sent, handling, status>>
      BY <1>6 DEF IssueRead, Issue, TypeOK
    <2> QED BY <2>1
  <1>7. ASSUME NEW s \in Issuers, StripeAccept(s) \/ StripeReject(s) PROVE ProviderInv'
    <2> DEFINE i == issuing[s].invoice
    <2>1. /\ i \in Invoices /\ UNCHANGED <<handling, status>>
          /\ UNCHANGED <<stripe, sent>> \/ Finalize(i)
          /\ issuing'[s] = Issue("accepted", i, NoLines) => Finalize(i)
          /\ \/ issuing'[s] = Issue("accepted", i, NoLines)
             \/ issuing'[s] = Issue("rejected", i, NoLines)
          /\ \A t \in Issuers : t # s => issuing'[t] = issuing[t]
      BY <1>7 DEF StripeAccept, StripeReject, TypeOK, Issue
    <2>2. /\ \A j \in Invoices : stripe[j] # "none" => stripe'[j] = stripe[j]
          /\ Finalize(i) => stripe'[i] # "none" /\ sent' = sent \cup {<<i, "finalized">>}
      BY <2>1 DEF Finalize, TypeOK
    <2>3. /\ \A e \in sent' : stripe'[e[1]] # "none"
          /\ \A j \in Invoices : /\ <<j, "paid">> \in sent' => <<j, "paid">> \in sent
                                 /\ <<j, "voided">> \in sent' => <<j, "voided">> \in sent
          /\ sent \subseteq sent'
      <3>1. sent' = sent \/ (stripe'[i] # "none" /\ sent' = sent \cup {<<i, "finalized">>})
        BY <2>1, <2>2
      <3>2. \A e \in sent : e[1] \in Invoices /\ stripe'[e[1]] # "none"
        BY <2>2 DEF TypeOK, Events
      <3> QED BY <3>1, <3>2
    <2>4. issuing'[s].invoice = i /\ (issuing'[s].pc = "accepted" => stripe'[i] # "none")
      BY <2>1, <2>2 DEF Issue
    <2>5. ProviderBacked'
      BY <2>1, <2>2
    <2>6. \A j \in Invoices : /\ <<j, "paid">> \in sent' => stripe'[j] = "paid"
                              /\ <<j, "voided">> \in sent' => stripe'[j] = "void"
      BY <2>2, <2>3
    <2>7. \A t \in Issuers : issuing'[t].pc \in {"accepted", "rejected"} =>
             /\ issuing'[t].invoice \in Invoices
             /\ issuing'[t].pc = "accepted" => stripe'[issuing'[t].invoice] # "none"
      <3>1. CASE \A t \in Issuers : t # s => issuing'[t] = issuing[t]
        <4> TAKE t \in Issuers
        <4>1. CASE t = s
          BY <2>1, <2>4, <4>1
        <4>2. CASE t # s
          BY <2>2, <3>1, <4>2
        <4> QED BY <4>1, <4>2
      <3> QED BY <2>1, <3>1
    <2>8. \A e \in Events : handling'[e] # "new" => e \in sent'
      BY <2>1, <2>3
    <2> QED BY <2>3, <2>5, <2>6, <2>7, <2>8
  <1>8. ASSUME NEW s \in Issuers, StripeConflict(s) PROVE ProviderInv'
    <2>1. /\ issuing'[s].pc = "rejected" /\ issuing'[s].invoice \in Invoices
          /\ \A t \in Issuers : t # s => issuing'[t] = issuing[t]
          /\ UNCHANGED <<stripe, sent, handling, status>>
      BY <1>8 DEF StripeConflict, Issue, TypeOK
    <2> QED BY <2>1
  <1>9. ASSUME NEW s \in Issuers, IssueWrite(s) \/ IssueAbort(s) PROVE ProviderInv'
    <2>1. /\ issuing'[s].pc = "done" /\ \A t \in Issuers : t # s => issuing'[t] = issuing[t]
          /\ UNCHANGED <<stripe, sent, handling>>
      BY <1>9 DEF IssueWrite, IssueAbort, Issue, TypeOK
    <2>2. ProviderBacked'
      BY <1>9 DEF IssueWrite, IssueAbort, Outcome, TypeOK
    <2> QED BY <2>1, <2>2
  <1>10. ASSUME NEW i \in Invoices, NEW to \in Statuses, NEW type \in EventTypes,
                StripeSettle(i, to, type)
         PROVE  ProviderInv'
    <2>1. /\ stripe' = [stripe EXCEPT ![i] = to] /\ to # "none"
          /\ stripe[i] \notin {"none", "paid", "void"}
          /\ sent' = sent \cup {<<i, type>>}
          /\ type = "paid" => to = "paid"
          /\ type = "voided" => to = "void"
          /\ UNCHANGED <<handling, status, issuing>>
      BY <1>10 DEF StripeSettle
    <2>2. \A j \in Invoices : /\ stripe'[j] = IF j = i THEN to ELSE stripe[j]
      BY <2>1 DEF TypeOK
    <2>3. ProviderBacked'
      BY <2>1, <2>2
    <2>4. /\ \A e \in sent' : stripe'[e[1]] # "none"
          /\ \A j \in Invoices : /\ <<j, "paid">> \in sent' => stripe'[j] = "paid"
                                 /\ <<j, "voided">> \in sent' => stripe'[j] = "void"
      BY <2>1, <2>2 DEF TypeOK, Events
    <2> QED BY <2>1, <2>2, <2>3, <2>4
  <1>11. ASSUME NEW e \in Events, HookApply(e) PROVE ProviderInv'
    <2>1. e \in sent /\ e = <<e[1], e[2]>> /\ e[1] \in Invoices
      BY <1>11 DEF HookApply, Events
    <2>2. /\ stripe[e[1]] # "none"
          /\ EventStatus(e[2]) = "paid" => stripe[e[1]] = "paid"
          /\ EventStatus(e[2]) = "void" => stripe[e[1]] = "void"
      <3>1. PICK i \in Invoices, type \in EventTypes : e = <<i, type>>
        BY DEF Events
      <3>2. e[1] = i /\ e[2] = type /\ <<i, type>> \in sent
        BY <2>1, <3>1
      <3>3. stripe[e[1]] # "none"
        BY <2>1
      <3>4. /\ EventStatus(type) = "paid" => type = "paid"
            /\ EventStatus(type) = "void" => type = "voided"
        BY DEF EventStatus
      <3>5. EventStatus(type) = "paid" => stripe[i] = "paid"
        BY <3>2, <3>4
      <3>6. EventStatus(type) = "void" => stripe[i] = "void"
        BY <3>2, <3>4
      <3> QED BY <3>2, <3>3, <3>5, <3>6
    <2>3. ProviderBacked'
      BY <1>11, <2>1, <2>2 DEF HookApply, TypeOK
    <2>4. \A f \in Events : handling'[f] # "new" => f \in sent
      BY <1>11, <2>1 DEF HookApply, TypeOK
    <2> QED BY <1>11, <2>3, <2>4 DEF HookApply
  <1>12. ASSUME NEW e \in Events,
                HookRecord(e) \/ HookDuplicate(e) \/ HookRead(e) \/ HookNotify(e) \/ HookAbort(e)
         PROVE  ProviderInv'
    <2>1. UNCHANGED <<status, issuing, stripe, sent>>
      BY <1>12 DEF HookRecord, HookDuplicate, HookRead, HookNotify, HookAbort
    <2>2. \A f \in Events : handling'[f] # "new" => f \in sent
      BY <1>12 DEF HookRecord, HookDuplicate, HookRead, HookNotify, HookAbort, TypeOK
    <2> QED BY <2>1, <2>2
  <1> QED
    BY <1>2, <1>3, <1>4, <1>5, <1>6, <1>7, <1>8, <1>9, <1>10, <1>11, <1>12
       DEF Next, CreateStep, IssueStep, StripeStep, HookStep

(* No invoice is open, paid or void here before it is at Stripe, however   *)
(* late answers and events are applied (updateInvoiceStripeState).         *)
THEOREM NeverAheadOfStripe == Spec => []ProviderBacked
  <1>1. Init => ProviderInv
    BY DEF Init, ProviderInv, ProviderBacked, Issue
  <1>2. QED
    BY <1>1, ProviderStep, TypeCorrect, PTL DEF Spec, ProviderInv

(* At most one paid notice per invoice, however events are repeated.       *)
THEOREM PaidNoticedOnce == Spec => []PaidNoticeOnce
  <1>1. Init => NoticesInv
    BY DEF Init, NoticesInv, Events, EventTypes
  <1>2. TypeOK /\ NoticesInv /\ [Next]_vars => NoticesInv'
    <2> SUFFICES ASSUME TypeOK, NoticesInv, [Next]_vars PROVE NoticesInv'
      OBVIOUS
    <2> USE DEF hookVars, NoticesInv
    <2>0. \A i \in Invoices : <<i, "paid">> \in Events
      BY DEF Events, EventTypes
    <2>1. ASSUME NEW e \in Events, HookNotify(e) PROVE NoticesInv'
      <3>1. e[2] = "paid" /\ e[1] \in Invoices /\ e = <<e[1], "paid">> /\ notices[e[1]] = 0
        BY <2>1 DEF HookNotify, Events
      <3>2. /\ \A f \in Events : handling'[f] = IF f = e THEN "applied" ELSE handling[f]
            /\ \A i \in Invoices : notices'[i] = IF i = e[1] THEN 1 ELSE notices[i]
        BY <2>1, <3>1 DEF HookNotify, TypeOK
      <3> QED BY <2>0, <3>1, <3>2
    <2>2. ASSUME NEW e \in Events, HookRecord(e) \/ HookDuplicate(e) \/ HookRead(e) PROVE NoticesInv'
      <3>1. /\ \A f \in Events : f # e => handling'[f] = handling[f]
            /\ handling[e] # "applied" /\ handling'[e] \notin {"notify", "applied"}
            /\ notices' = notices
        BY <2>2 DEF HookRecord, HookDuplicate, HookRead, Fresh, TypeOK
      <3> QED BY <2>0, <3>1
    <2>3. ASSUME NEW e \in Events, HookApply(e) \/ HookAbort(e) PROVE NoticesInv'
      <3>1. /\ \A f \in Events : f # e => handling'[f] = handling[f]
            /\ handling[e] # "applied"
            /\ handling'[e] = "notify" => e[2] = "paid"
            /\ notices' = notices
        BY <2>3 DEF HookApply, HookAbort, TypeOK
      <3> QED BY <2>0, <3>1
    <2>4. CASE CreateStep
      BY <2>4 DEF CreateStep, CreateBegin, CreateSelect, CreateRecheck, CreateInsert, CreateAbort
    <2>5. CASE EditStep
      BY <2>5 DEF EditStep, EditLock, EditSum, EditCommit, EditAbort
    <2>6. CASE OrderStep \/ StripeStep \/ UNCHANGED vars
      BY <2>6 DEF OrderStep, SetCancelled, ReviseTotal, ArchiveOrder, StripeStep, StripeSettle, vars
    <2>7. CASE IssueStep
      BY <2>7 DEF IssueStep, IssueRead, StripeAccept, StripeConflict, StripeReject, IssueWrite, IssueAbort
    <2> QED BY <2>1, <2>2, <2>3, <2>4, <2>5, <2>6, <2>7 DEF Next, HookStep
  <1>3. NoticesInv => PaidNoticeOnce
    BY DEF NoticesInv, PaidNoticeOnce
  <1>4. QED
    BY <1>1, <1>2, <1>3, TypeCorrect, PTL DEF Spec
=============================================================================
