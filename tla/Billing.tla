------------------------------- MODULE Billing -------------------------------
(***************************************************************************)
(* Service-fee invoicing of one workspace: draft creation, fee edits,      *)
(* issuing through Stripe and the Stripe webhook (repository.ts, index.ts, *)
(* billing/stripe.ts).  Database handlers run as READ COMMITTED            *)
(* transactions: a handler is cut at the statements whose snapshots or     *)
(* locks another handler can fall between, and its writes appear when it   *)
(* commits.  A request is one member of Creators, Editors or Issuers, so   *)
(* those sets bound how many requests of each kind a behaviour holds.      *)
(***************************************************************************)
EXTENDS Integers, Sequences, FiniteSets, FiniteSetsExt

CONSTANTS
    Orders, Customers,
    CustomerOf, CurrencyOf,         \* the customer and currency of each order
    Invoices, Keys,                 \* invoice ids, Idempotency-Key values
    Amounts,                        \* fee amounts in cents
    Volatile,                       \* orders that mail and overrides still change
    Creators, Editors, Issuers,     \* HTTP requests of each kind
    MaxFailures,                    \* bound on aborted handlers
    NULL

ASSUME BillingAssumption ==
    /\ CustomerOf \in [Orders -> Customers]
    /\ DOMAIN CurrencyOf = Orders
    /\ Amounts \subseteq Nat
    /\ Volatile \subseteq Orders
    /\ MaxFailures \in Nat
    /\ NULL \notin Nat \cup Orders \cup Customers \cup Invoices \cup Keys

VARIABLES
    terms,      \* terms[o]: fee the order's terms yield; NULL without a basis
    cancelled,  \* cancelled[o]: COALESCE(status_override, status) = 'cancelled'
    archived,   \* archived[o]: archived_at IS NOT NULL
    billing,    \* billing[o]: orders.billing_invoice_id
    status,     \* status[i]: invoices.status, "absent" before the insert
    keyOf,      \* keyOf[i]: invoices.idempotency_key
    payer,      \* payer[i]: invoices.customer_id
    line,       \* line[i][o]: invoice_lines.fee_cents, NULL without a line
    summed,     \* summed[i]: the lines total_cents was last summed from
    creating,   \* createInvoice, per request
    editing,    \* updateOrderFee, per request
    issuing,    \* the issue handler, per request
    item,       \* item[i][o]: amounts of the invoice items Stripe has created
                \* under the key of that invoice and order, oldest first
    stripe,     \* stripe[i]: the invoice's status at Stripe
    sent,       \* events Stripe has emitted
    handling,   \* handling[e]: "new" until stripe_events holds e, then how
                \* far the delivery that recorded it has got
    wasPaid,    \* wasPaid[e]: wasAlreadyPaid, as that delivery read it
    notices,    \* notices[i]: invoice-paid mails queued
    failures    \* handlers aborted so far

orderVars  == <<terms, cancelled, archived, billing>>
stateVars  == <<status, summed>>
lineVars   == <<keyOf, payer, line>>
stripeVars == <<item, stripe, sent>>
hookVars   == <<handling, wasPaid, notices>>
handlers   == <<creating, editing, issuing>>
vars == <<orderVars, stateVars, lineVars, handlers, stripeVars, hookVars, failures>>

(* invoice.payment_failed is left out: apart from last_error, it does what  *)
(* a late invoice.finalized does.                                          *)
EventTypes == {"paid", "voided", "uncollectible", "finalized"}
Events     == Invoices \X EventTypes
Statuses   == {"draft", "open", "paid", "void", "uncollectible"}
Amount     == Amounts \cup {NULL}
NoLines    == [o \in Orders |-> NULL]

CreateState ==
    [pc : {"idle", "select", "recheck", "insert", "replied", "refused", "failed"},
     key : Keys \cup {NULL}, customer : Customers \cup {NULL},
     chosen : SUBSET Orders, quote : [Orders -> Amount]]
EditState ==
    [pc : {"idle", "sum", "commit", "done"}, order : Orders \cup {NULL},
     fee : Amount, invoice : Invoices \cup {NULL}, sum : [Orders -> Amount]]
IssueState ==
    [pc : {"idle", "stripe", "accepted", "rejected", "done"},
     invoice : Invoices \cup {NULL}, lines : [Orders -> Amount]]

(***************************************************************************)
(* Row locks: SELECT ... FOR UPDATE holds its orders to the transaction's  *)
(* end, and any other writer of those rows waits.                          *)
(***************************************************************************)
HeldBy(r)  == {o \in Orders : creating[r].quote[o] # NULL}
EditedBy(e) == IF editing[e].pc \in {"sum", "commit"} THEN {editing[e].order} ELSE {}

(* Mutant of Locked: FOR UPDATE left out of the selections.               *)
LockedNever(o) == FALSE

Locked(o) == \/ \E r \in Creators : o \in HeldBy(r)
             \/ \E e \in Editors : o \in EditedBy(e)

InvoicesUnder(k) == {i \in Invoices : keyOf[i] = k}
LinesOf(i) == {o \in Orders : line[i][o] # NULL}

(* Mutant of Billable: archived orders are not filtered out.               *)
BillableArchived(c, o) ==
    CustomerOf[o] = c /\ billing[o] = NULL /\ ~cancelled[o] /\ terms[o] # NULL

(* The WHERE clause of createInvoice's order selection.                    *)
Billable(c, o) ==
    /\ CustomerOf[o] = c
    /\ ~archived[o]
    /\ billing[o] = NULL
    /\ ~cancelled[o]
    /\ terms[o] # NULL

Create(pc, k, c, chosen) ==
    [pc |-> pc, key |-> k, customer |-> c, chosen |-> chosen, quote |-> NoLines]
Edit(pc, o, fee, i) == [pc |-> pc, order |-> o, fee |-> fee, invoice |-> i, sum |-> NoLines]
Issue(pc, i, lines) == [pc |-> pc, invoice |-> i, lines |-> lines]

Init ==
    /\ terms \in [Orders -> Amount]
    /\ cancelled = [o \in Orders |-> FALSE]
    /\ archived = [o \in Orders |-> FALSE]
    /\ billing = [o \in Orders |-> NULL]
    /\ status = [i \in Invoices |-> "absent"]
    /\ keyOf = [i \in Invoices |-> NULL]
    /\ payer = [i \in Invoices |-> NULL]
    /\ line = [i \in Invoices |-> NoLines]
    /\ summed = [i \in Invoices |-> NoLines]
    /\ creating = [r \in Creators |-> Create("idle", NULL, NULL, {})]
    /\ editing = [e \in Editors |-> Edit("idle", NULL, NULL, NULL)]
    /\ issuing = [s \in Issuers |-> Issue("idle", NULL, NoLines)]
    /\ item = [i \in Invoices |-> [o \in Orders |-> <<>>]]
    /\ stripe = [i \in Invoices |-> "none"]
    /\ sent = {}
    /\ handling = [e \in Events |-> "new"]
    /\ wasPaid = [e \in Events |-> FALSE]
    /\ notices = [i \in Invoices |-> 0]
    /\ failures = 0

OneCurrency(chosen) == \A o, p \in chosen : CurrencyOf[o] = CurrencyOf[p]

(***************************************************************************)
(* createInvoice.  The first key lookup is a statement of its own: the     *)
(* invoice it misses may be committed before the orders are selected.      *)
(***************************************************************************)
Reply(r, outcome) == creating' = [creating EXCEPT ![r] = Create(outcome, NULL, NULL, {})]

(* An invoice found under the key is the answer, if it is the customer's.  *)
ReplyExisting(r, c, i) == Reply(r, IF payer[i] = c THEN "replied" ELSE "refused")

CreateBegin(r, c, k, chosen) ==
    /\ creating[r].pc = "idle"
    /\ chosen # {}
    /\ \/ /\ InvoicesUnder(k) = {}
          /\ creating' = [creating EXCEPT ![r] = Create("select", k, c, chosen)]
       \/ \E i \in InvoicesUnder(k) : ReplyExisting(r, c, i)
    /\ UNCHANGED <<orderVars, stateVars, lineVars, editing, issuing, stripeVars, hookVars, failures>>

(* SELECT ... FOR UPDATE, and the checks on the rows it returned.          *)
CreateSelect(r) ==
    LET c        == creating[r].customer
        chosen   == creating[r].chosen
        selected == {o \in chosen : Billable(c, o)}
        quote    == [o \in Orders |-> IF o \in selected THEN terms[o] ELSE NULL]
    IN
    /\ creating[r].pc = "select"
    /\ \A o \in selected : ~Locked(o)
    /\ \/ /\ selected # chosen
          /\ creating' = [creating EXCEPT ![r].pc = "recheck", ![r].quote = quote]
       \/ /\ selected = chosen
          /\ \/ ~OneCurrency(chosen)
             \/ \E o \in chosen : quote[o] <= 0
          /\ Reply(r, "refused")
       \/ /\ selected = chosen
          /\ OneCurrency(chosen)
          /\ \A o \in chosen : quote[o] > 0
          /\ creating' = [creating EXCEPT ![r].pc = "insert", ![r].quote = quote]
    /\ UNCHANGED <<orderVars, stateVars, lineVars, editing, issuing, stripeVars, hookVars, failures>>

(* Mutant of CreateRecheck: any missing order is a conflict.               *)
CreateRecheckMissing(r) ==
    /\ creating[r].pc = "recheck"
    /\ Reply(r, "refused")
    /\ UNCHANGED <<orderVars, stateVars, lineVars, editing, issuing, stripeVars, hookVars, failures>>

(* Some order was not billable: a retry of a request that has committed    *)
(* finds its invoice under the key, anything else is a conflict.           *)
CreateRecheck(r) ==
    /\ creating[r].pc = "recheck"
    /\ \/ /\ InvoicesUnder(creating[r].key) = {}
          /\ Reply(r, "refused")
       \/ \E i \in InvoicesUnder(creating[r].key) : ReplyExisting(r, creating[r].customer, i)
    /\ UNCHANGED <<orderVars, stateVars, lineVars, editing, issuing, stripeVars, hookVars, failures>>

(* Mutant of KeyUnused: no unique index on (workspace_id, idempotency_key). *)
KeyUnusedUnchecked(k) == TRUE

KeyUnused(k) == InvoicesUnder(k) = {}

Claimed(i, chosen) == [o \in Orders |-> IF o \in chosen THEN i ELSE billing[o]]

(* Invoice, lines and billing pointers, committed together; the unique     *)
(* index on the key turns the second of two racing inserts into an error.  *)
CreateInsert(r) ==
    LET k == creating[r].key
        quote == creating[r].quote
    IN
    /\ creating[r].pc = "insert"
    /\ \/ /\ ~KeyUnused(k)
          /\ Reply(r, "failed")
          /\ UNCHANGED <<billing, stateVars, lineVars>>
       \/ /\ KeyUnused(k)
          /\ \E i \in Invoices :
                /\ status[i] = "absent"
                /\ status' = [status EXCEPT ![i] = "draft"]
                /\ keyOf' = [keyOf EXCEPT ![i] = k]
                /\ payer' = [payer EXCEPT ![i] = creating[r].customer]
                /\ line' = [line EXCEPT ![i] = quote]
                /\ summed' = [summed EXCEPT ![i] = quote]
                /\ billing' = Claimed(i, creating[r].chosen)
                /\ Reply(r, "replied")
    /\ UNCHANGED <<terms, cancelled, archived, editing, issuing, stripeVars, hookVars, failures>>

(* ROLLBACK: a failed query or a stopped process ends the request.         *)
CreateAbort(r) ==
    /\ creating[r].pc \in {"select", "recheck", "insert"}
    /\ failures < MaxFailures
    /\ failures' = failures + 1
    /\ Reply(r, "failed")
    /\ UNCHANGED <<orderVars, stateVars, lineVars, editing, issuing, stripeVars, hookVars>>

(***************************************************************************)
(* updateOrderFee.  The order row is locked, the invoice's status is only  *)
(* read.  The total is summed by the snapshot of the statement that then   *)
(* waits for the invoice row, so two statements divide the transaction.    *)
(***************************************************************************)
EditEnd(e) == editing' = [editing EXCEPT ![e] = Edit("done", NULL, NULL, NULL)]

EditLock(e, o, fee) ==
    LET i == billing[o]
        issued == i # NULL /\ status[i] # "draft"
        noBasis == i # NULL /\ fee = NULL
    IN
    /\ editing[e].pc = "idle"
    /\ ~Locked(o)
    /\ editing' = [editing EXCEPT ![e] =
           IF issued \/ noBasis THEN Edit("done", NULL, NULL, NULL)
                                ELSE Edit(IF i = NULL THEN "commit" ELSE "sum", o, fee, i)]
    /\ UNCHANGED <<orderVars, stateVars, lineVars, creating, issuing, stripeVars, hookVars, failures>>

EditSum(e) ==
    /\ editing[e].pc = "sum"
    /\ editing' = [editing EXCEPT ![e].pc = "commit",
           ![e].sum = [line[editing[e].invoice] EXCEPT ![editing[e].order] = editing[e].fee]]
    /\ UNCHANGED <<orderVars, stateVars, lineVars, creating, issuing, stripeVars, hookVars, failures>>

(* The line is rewritten whatever the status; the total only of a draft.   *)
EditCommit(e) ==
    LET i == editing[e].invoice
        o == editing[e].order
    IN
    /\ editing[e].pc = "commit"
    /\ terms' = [terms EXCEPT ![o] = editing[e].fee]
    /\ IF i = NULL
         THEN UNCHANGED <<line, summed>>
         ELSE /\ line' = [line EXCEPT ![i][o] = editing[e].fee]
              /\ summed' = IF status[i] = "draft"
                             THEN [summed EXCEPT ![i] = editing[e].sum] ELSE summed
    /\ EditEnd(e)
    /\ UNCHANGED <<cancelled, archived, billing, status, keyOf, payer, creating, issuing,
                   stripeVars, hookVars, failures>>

EditAbort(e) ==
    /\ editing[e].pc \in {"sum", "commit"}
    /\ failures < MaxFailures
    /\ failures' = failures + 1
    /\ EditEnd(e)
    /\ UNCHANGED <<orderVars, stateVars, lineVars, creating, issuing, stripeVars, hookVars>>

(***************************************************************************)
(* The other writers of an order row: an override or a retailer's mail     *)
(* changes the effective status, a mail revises the checkout total, the    *)
(* operator archives or restores.  Each waits for the row's lock.          *)
(***************************************************************************)
SetCancelled(o) ==
    /\ ~Locked(o)
    /\ cancelled' = [cancelled EXCEPT ![o] = ~@]
    /\ UNCHANGED <<terms, archived, billing, stateVars, lineVars, handlers, stripeVars, hookVars, failures>>

ReviseTotal(o, fee) ==
    /\ ~Locked(o)
    /\ fee # terms[o]
    /\ terms' = [terms EXCEPT ![o] = fee]
    /\ UNCHANGED <<cancelled, archived, billing, stateVars, lineVars, handlers, stripeVars, hookVars, failures>>

ArchiveOrder(o) ==
    /\ ~Locked(o)
    /\ archived' = [archived EXCEPT ![o] = ~@]
    /\ UNCHANGED <<terms, cancelled, billing, stateVars, lineVars, handlers, stripeVars, hookVars, failures>>

(***************************************************************************)
(* Stripe, as the gateway uses it.  Every create carries an idempotency    *)
(* key derived from our ids: repeating a call returns the first result,    *)
(* repeating it with another amount is an error.                           *)
(***************************************************************************)
Chargeable(i, lines) ==
    {o \in Orders : lines[o] # NULL /\ item[i][o] \in {<<>>, <<lines[o]>>}}
Conflict(i, lines)   == \E o \in Orders : lines[o] # NULL /\ o \notin Chargeable(i, lines)

(* Mutant of Created: the call carries no idempotency key.                 *)
CreatedAgain(old, amount) == Append(old, amount)

(* The items under one key after a call that creates amount under it.      *)
Created(old, amount) == IF old = <<>> THEN <<amount>> ELSE old

AddItems(i, lines, made) ==
    item' = [item EXCEPT ![i] =
                [o \in Orders |-> IF o \in made THEN Created(@[o], lines[o]) ELSE @[o]]]

Finalize(i) ==
    /\ stripe' = [stripe EXCEPT ![i] = IF @ = "none" THEN "open" ELSE @]
    /\ sent' = sent \cup {<<i, "finalized">>}

(***************************************************************************)
(* POST /api/invoices/:id/issue: read the draft, call Stripe, then write   *)
(* the outcome without looking at the status again.                        *)
(***************************************************************************)
IssueRead(s, i) ==
    /\ issuing[s].pc = "idle"
    /\ status[i] = "draft"
    /\ issuing' = [issuing EXCEPT ![s] = Issue("stripe", i, line[i])]
    /\ UNCHANGED <<orderVars, stateVars, lineVars, creating, editing, stripeVars, hookVars, failures>>

StripeAccept(s) ==
    LET i == issuing[s].invoice
        lines == issuing[s].lines
    IN
    /\ issuing[s].pc = "stripe"
    /\ ~Conflict(i, lines)
    /\ AddItems(i, lines, Chargeable(i, lines))
    /\ Finalize(i)
    /\ issuing' = [issuing EXCEPT ![s] = Issue("accepted", i, NoLines)]
    /\ UNCHANGED <<orderVars, stateVars, lineVars, creating, editing, hookVars, failures>>

(* An amount Stripe has under the same key: every retry meets it again.    *)
StripeConflict(s) ==
    LET i == issuing[s].invoice
        lines == issuing[s].lines
    IN
    /\ issuing[s].pc = "stripe"
    /\ Conflict(i, lines)
    /\ \E made \in SUBSET Chargeable(i, lines) : AddItems(i, lines, made)
    /\ issuing' = [issuing EXCEPT ![s] = Issue("rejected", i, NoLines)]
    /\ UNCHANGED <<orderVars, stateVars, lineVars, creating, editing, stripe, sent, hookVars, failures>>

(* A call fails or its answer is lost: some items exist, or everything.    *)
StripeReject(s) ==
    LET i == issuing[s].invoice
        lines == issuing[s].lines
    IN
    /\ issuing[s].pc = "stripe"
    /\ failures < MaxFailures
    /\ failures' = failures + 1
    /\ \/ /\ \E made \in SUBSET Chargeable(i, lines) : AddItems(i, lines, made)
          /\ UNCHANGED <<stripe, sent>>
       \/ /\ ~Conflict(i, lines)
          /\ AddItems(i, lines, Chargeable(i, lines))
          /\ Finalize(i)
    /\ issuing' = [issuing EXCEPT ![s] = Issue("rejected", i, NoLines)]
    /\ UNCHANGED <<orderVars, stateVars, lineVars, creating, editing, hookVars>>

(* Mutant of Outcome: the error path leaves the invoice open.              *)
OutcomeOpen(pc) == "open"

Outcome(pc) == IF pc = "accepted" THEN "open" ELSE "draft"

(* updateInvoiceStripeState: the status column, whatever it held.          *)
IssueWrite(s) ==
    /\ issuing[s].pc \in {"accepted", "rejected"}
    /\ status' = [status EXCEPT ![issuing[s].invoice] = Outcome(issuing[s].pc)]
    /\ issuing' = [issuing EXCEPT ![s] = Issue("done", NULL, NoLines)]
    /\ UNCHANGED <<orderVars, summed, lineVars, creating, editing, stripeVars, hookVars, failures>>

IssueAbort(s) ==
    /\ issuing[s].pc \in {"accepted", "rejected"}
    /\ failures < MaxFailures
    /\ failures' = failures + 1
    /\ issuing' = [issuing EXCEPT ![s] = Issue("done", NULL, NoLines)]
    /\ UNCHANGED <<orderVars, stateVars, lineVars, creating, editing, stripeVars, hookVars>>

(* The customer pays, or the operator voids or writes off, at Stripe.      *)
StripeSettle(i, to, type) ==
    /\ stripe[i] \in {"open", "uncollectible"} /\ stripe[i] # to
    /\ <<to, type>> \in {<<"paid", "paid">>, <<"void", "voided">>, <<"uncollectible", "uncollectible">>}
    /\ stripe' = [stripe EXCEPT ![i] = to]
    /\ sent' = sent \cup {<<i, type>>}
    /\ UNCHANGED <<orderVars, stateVars, lineVars, handlers, item, hookVars, failures>>

(***************************************************************************)
(* POST /api/stripe/webhook.  Stripe delivers an event, in any order, and  *)
(* again until it is answered with a 2xx.  recordStripeEvent commits       *)
(* before applyStripeEvent starts; a delivery whose id is on record is     *)
(* answered at once.                                                       *)
(***************************************************************************)
(* Mutant of EventStatus: Stripe's word for the event, not our status.     *)
EventStatusVerbatim(type) == IF type = "finalized" THEN "open" ELSE type

EventStatus(type) ==
    CASE type = "paid" -> "paid"
      [] type = "voided" -> "void"
      [] type = "uncollectible" -> "uncollectible"
      [] OTHER -> "open"

(* Mutant of Fresh: an event on record is accepted again.                  *)
FreshAgain(e) == handling[e] \in {"new", "applied"}

Fresh(e) == handling[e] = "new"

HookRecord(e) ==
    /\ e \in sent
    /\ Fresh(e)
    /\ handling' = [handling EXCEPT ![e] = "read"]
    /\ UNCHANGED <<orderVars, stateVars, lineVars, handlers, stripeVars, wasPaid, notices, failures>>

(* The redelivery of an event whose first delivery failed: its id is on    *)
(* record, so it is answered with a 2xx and Stripe stops sending it.       *)
HookDuplicate(e) ==
    /\ handling[e] = "failed"
    /\ handling' = [handling EXCEPT ![e] = "dropped"]
    /\ UNCHANGED <<orderVars, stateVars, lineVars, handlers, stripeVars, wasPaid, notices, failures>>

HookRead(e) ==
    /\ handling[e] = "read"
    /\ handling' = [handling EXCEPT ![e] = "write"]
    /\ wasPaid' = [wasPaid EXCEPT ![e] = status[e[1]] = "paid"]
    /\ UNCHANGED <<orderVars, stateVars, lineVars, handlers, stripeVars, notices, failures>>

(* The event's status replaces whatever the row holds.                     *)
HookApply(e) ==
    /\ handling[e] = "write"
    /\ status' = [status EXCEPT ![e[1]] = EventStatus(e[2])]
    /\ handling' = [handling EXCEPT ![e] =
                      IF e[2] = "paid" /\ ~wasPaid[e] THEN "notify" ELSE "applied"]
    /\ wasPaid' = [wasPaid EXCEPT ![e] = FALSE]
    /\ UNCHANGED <<orderVars, summed, lineVars, handlers, stripeVars, notices, failures>>

HookNotify(e) ==
    /\ handling[e] = "notify"
    /\ notices' = [notices EXCEPT ![e[1]] = @ + 1]
    /\ handling' = [handling EXCEPT ![e] = "applied"]
    /\ UNCHANGED <<orderVars, stateVars, lineVars, handlers, stripeVars, wasPaid, failures>>

(* A query fails or the process stops: a 500, or no answer.                *)
HookAbort(e) ==
    /\ handling[e] \in {"read", "write", "notify"}
    /\ failures < MaxFailures
    /\ failures' = failures + 1
    /\ handling' = [handling EXCEPT ![e] = IF @ = "notify" THEN "applied" ELSE "failed"]
    /\ wasPaid' = [wasPaid EXCEPT ![e] = FALSE]
    /\ UNCHANGED <<orderVars, stateVars, lineVars, handlers, stripeVars, notices>>

CreateStep == \E r \in Creators :
    \/ \E c \in Customers, k \in Keys, chosen \in SUBSET Orders : CreateBegin(r, c, k, chosen)
    \/ CreateSelect(r) \/ CreateRecheck(r) \/ CreateInsert(r) \/ CreateAbort(r)

EditStep == \E e \in Editors :
    \/ \E o \in Orders, fee \in Amount : EditLock(e, o, fee)
    \/ EditSum(e) \/ EditCommit(e) \/ EditAbort(e)

OrderStep == \E o \in Volatile :
    SetCancelled(o) \/ ArchiveOrder(o) \/ \E fee \in Amounts : ReviseTotal(o, fee)

IssueStep == \E s \in Issuers :
    \/ \E i \in Invoices : IssueRead(s, i)
    \/ StripeAccept(s) \/ StripeConflict(s) \/ StripeReject(s) \/ IssueWrite(s) \/ IssueAbort(s)

StripeStep == \E i \in Invoices :
    \E to \in Statuses, type \in EventTypes : StripeSettle(i, to, type)

HookStep == \E e \in Events :
    \/ HookRecord(e) \/ HookDuplicate(e) \/ HookRead(e)
    \/ HookApply(e) \/ HookNotify(e) \/ HookAbort(e)

Next == CreateStep \/ EditStep \/ OrderStep \/ IssueStep \/ StripeStep \/ HookStep

Spec == Init /\ [][Next]_vars

-----------------------------------------------------------------------------
(* Every variable has the values its column, request or message can hold.  *)
TypeOK ==
    /\ terms \in [Orders -> Amount]
    /\ cancelled \in [Orders -> BOOLEAN]
    /\ archived \in [Orders -> BOOLEAN]
    /\ billing \in [Orders -> Invoices \cup {NULL}]
    /\ status \in [Invoices -> Statuses \cup {"absent"}]
    /\ keyOf \in [Invoices -> Keys \cup {NULL}]
    /\ payer \in [Invoices -> Customers \cup {NULL}]
    /\ line \in [Invoices -> [Orders -> Amount]]
    /\ summed \in [Invoices -> [Orders -> Amount]]
    /\ creating \in [Creators -> CreateState]
    /\ editing \in [Editors -> EditState]
    /\ issuing \in [Issuers -> IssueState]
    /\ \A e \in Editors : editing[e].pc = "sum" => editing[e].invoice \in Invoices
    /\ \A s \in Issuers :
          issuing[s].pc \in {"stripe", "accepted", "rejected"} => issuing[s].invoice \in Invoices
    /\ item \in [Invoices -> [Orders -> Seq(Amounts)]]
    /\ stripe \in [Invoices -> {"none", "open", "paid", "void", "uncollectible"}]
    /\ sent \subseteq Events
    /\ handling \in [Events -> {"new", "read", "write", "notify", "applied", "failed", "dropped"}]
    /\ wasPaid \in [Events -> BOOLEAN]
    /\ notices \in [Invoices -> Nat]
    /\ failures \in 0..MaxFailures

(* The reconciliation query of the architecture notes finds nothing: an    *)
(* order's billing pointer names an invoice exactly when that invoice has  *)
(* a line for it, so no order is on two invoices (createInvoice).          *)
PointerMatchesLine ==
    \A o \in Orders, i \in Invoices : line[i][o] # NULL <=> billing[o] = i

(* Whatever is created, issued, retried or raced, Stripe holds at most one *)
(* service-fee item for an order, under the one invoice the order points   *)
(* to (createInvoice, issueInvoice).                                       *)
ChargedOnce ==
    \A o \in Orders, i \in Invoices :
        item[i][o] # <<>> => Len(item[i][o]) = 1 /\ billing[o] = i

(* A local state past draft is one Stripe has reached: open only after     *)
(* finalization, paid and void only after Stripe said so, even when events *)
(* and issue answers are applied late (updateInvoiceStripeState).          *)
ProviderBacked ==
    \A i \in Invoices :
        /\ status[i] \notin {"absent", "draft"} => stripe[i] # "none"
        /\ status[i] = "paid" => stripe[i] = "paid"
        /\ status[i] = "void" => stripe[i] = "void"

(* However often Stripe repeats an event, the buyer and the seller get one *)
(* paid notice for an invoice (recordStripeEvent, wasAlreadyPaid).         *)
PaidNoticeOnce == \A i \in Invoices : notices[i] <= 1

(* An order that an invoice claims is, at that very commit, the customer's *)
(* own, neither cancelled nor archived, with a positive fee and in the     *)
(* currency of the others: nothing changes between the SELECT ... FOR      *)
(* UPDATE and the insert.                                                  *)
BillsOnlyBillable ==
    [][\A o, p \in Orders : billing'[o] # billing[o] =>
          /\ billing[o] = NULL
          /\ ~cancelled[o] /\ ~archived[o]
          /\ CustomerOf[o] = payer'[billing'[o]]
          /\ line'[billing'[o]][o] = terms[o] /\ terms[o] > 0
          /\ billing'[p] = billing'[o] => CurrencyOf[p] = CurrencyOf[o]]_vars

(* The retry comment of createInvoice: a request is not refused or failed  *)
(* while its own key names an invoice of its customer for the orders it    *)
(* asked for, unless the process gave up on it.                            *)
RetryFindsInvoice ==
    [][\A r \in Creators :
          /\ creating[r].pc \in {"select", "recheck", "insert"}
          /\ creating'[r].pc \in {"refused", "failed"}
          /\ failures' = failures
          => ~\E i \in InvoicesUnder(creating[r].key) :
                 payer[i] = creating[r].customer /\ LinesOf(i) = creating[r].chosen]_vars

(* The 500 answer of the webhook says the event will be retried: no event  *)
(* is answered with a 2xx while its change has not been applied.           *)
RedeliveryApplies == \A e \in Events : handling[e] # "dropped"

(* Issue locks fee edits: once an invoice is open or paid, its lines are   *)
(* the amounts Stripe charges (updateOrderFee against the issue handler).  *)
IssuedLinesAreCharged ==
    \A i \in Invoices : status[i] \in {"open", "paid"} =>
        item[i] = [o \in Orders |-> IF line[i][o] = NULL THEN <<>> ELSE <<line[i][o]>>]

(* Locks, snapshots and rechecks together implement atomic, exclusive      *)
(* claims under one invoice per request key (createInvoice).               *)
Ledger == INSTANCE OrderLedger WITH claim <- billing, requestOf <- keyOf
ImplementsLedger == Ledger!Spec
=============================================================================
