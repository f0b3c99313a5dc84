# Order Tracker Pro: specifications, model checking and proofs

Order Tracker Pro reads order mail from customers' Gmail accounts, keeps the
orders, shipments and timelines it finds, bills service fees on them through
Stripe, and sells access to itself through Whop. One Node process (`server/`)
serves the HTTP API and runs the background work; PostgreSQL holds all state
that must survive it. This directory specifies the parts of that system in
which several actors write the same rows, and checks and proves what they
promise. Paths below are relative to the repository root.

## 1. Inventory

| Part | State | Operations | Talks to |
| --- | --- | --- | --- |
| Invoice drafts and fees (`database/repository.ts`) | `orders` (fee terms, override, archive, billing pointer), `invoices`, `invoice_lines` | createInvoice, updateOrderFee, overrides, archiving | HTTP requests; mail also writes the order rows |
| Issuing and the Stripe webhook (`index.ts`, `billing/stripe.ts`) | `invoices.status`, `stripe_events`; items and invoices at Stripe | issue handler, webhook handler | Stripe calls with idempotency keys; Stripe's repeated, unordered events |
| Orders, shipments, timelines (`database/repository.ts`) | `orders`, `shipments`, `order_events`, `processed_messages` | recordMessage, updateShipmentFromCarrier | mailbox sync and carrier poll write the same rows with opposite lock order |
| Carrier polling (`tracking/coordinator.ts`) | list of active shipments | syncAll, syncOne | the adapters |
| Carrier adapters (`tracking/providers.ts`) | OAuth token cache with its pending request, in memory | track, `OAuthTokenCache.get` | carriers' APIs |
| Mailbox sync (`email/imap.ts`, `discovery.ts`) | `customers.sync_status`, `backfill_days`, `processed_messages`; the active set in memory | enqueue, syncOne | Gmail, ingestion |
| Ingestion and AI (`workflows/*.ts`, `email/parser.ts`) | review budget of one sync | ingest, repair, item review | OpenAI |
| Whop access (`billing/whop.ts`, migrations 011, 015, 016) | `whop_memberships`, `whop_jobs` | receive, worker tick, verifyLicense | Whop's webhooks and API |
| Identity and licences (`auth/*.ts`, `solo/*.ts`) | `discord_bindings`, `discord_identities`, `solo_accounts` | linkSolo, linkExistingSolo, linkLicense, resolve | Discord OAuth, Whop |
| Sessions and gates (`security/*.ts`) | signed cookies, login counters | issue, require | - |
| Mailboxes and their limit (`database/repository.ts`) | `customers`, `solo_accounts.mailbox_limit` | createCustomer, removeCustomer | Gmail, to verify a login |
| Workspace settings (`database/repository.ts`) | `workspace_settings` | getWorkspaceSettings, updateWorkspaceSettings | - |
| Order corrections (`database/repository.ts`) | `orders.hidden_item_keys`, `parser_feedback` | hideOrderItem | - |
| Portal links (`security/portal-token.ts`, `database/repository.ts`) | `customers.portal_token_*` | getOrCreatePortalToken, customerPortal | customers' visits |
| Notifications (`notifications/smtp.ts`) | `pending`, `sent`, depth, in memory | enqueue | SMTP |
| Solo Buyer page (`src/solo/SoloBuyerApp.tsx`) | dashboard shown, request sequence, screen | refresh, act, signOut | the API |
| Operator's page (`src/App.tsx`, `OrderInspector.tsx`) | dashboard shown, selection, fee form, screen | refresh, syncInbox, saveFee, sign-out | the API |
| Other views (`src/src/`) | what is open and filtered | - | the API |

What is hard in it, and therefore modelled: requests that select rows in one
statement and write them in a later one; transactions that lock rows in
different orders; calls to a provider between reading a row and writing it;
webhooks that come twice, late, out of order or never; work that is retried by
a timer; a process that stops between any two steps and goes on from the rows;
a batch cap, an AI budget and a poll limit that run out; answers that reach a
page after it has moved on. `PROJECT.json` lists
each such place with the property that covers it.

## 2. Modules

| Module | Models |
| --- | --- |
| `OrderLedger` | abstract specification: an invoice claims a set of orders, atomically and once, under one request key |
| `Billing` | drafts, fee edits, issuing, Stripe, the webhook; implements `OrderLedger` |
| `BillingProofs` | theorems about `Billing` |
| `Orders` | recordMessage, the carrier poll, deadlocks, restarts and parser upgrades |
| `OrdersProofs` | theorems about `Orders` |
| `MailRecord` | abstract specification: each mail is put on record once under each parser version and does to the orders what its kind says; a backfill ends with all the old mail on record |
| `MailboxSync` | one mailbox's sync, across restarts and parser upgrades; implements `MailRecord` |
| `MailboxSyncProofs` | theorems about `MailboxSync` |
| `PaymentHolds` | abstract specification: each notice of a payment is worked off whole, again and again until it is done, and a hold follows the notices |
| `WhopAccess` | Whop, its webhooks, the job queue, the worker, leases and holds; implements `PaymentHolds` |
| `WhopAccessProofs` | theorems about `WhopAccess` |
| `Directory` | abstract specification: a service is given to one user, once, and a user gets one Solo service |
| `Identity` | who claims a service: serials, sessions, licences, their transactions and locks; implements `Directory` |
| `IdentityProofs` | theorems about `Identity` |
| `SerialRequests` | abstract specification: each request to a workspace is done whole, in one instant, or not at all |
| `Workspace` | mailboxes under the limit, settings, item corrections, portal links and visits; implements `SerialRequests` |
| `WorkspaceProofs` | theorems about `Workspace` |
| `CarrierTokens` | the token cache of one carrier adapter and the calls that share it |
| `CarrierTokensProofs` | theorems about `CarrierTokens` |
| `Dashboard` | what a dashboard is read from, who writes it, and the reading in two statements |
| `Pages` | a Solo Buyer page or an operator's page on top of `Dashboard` |
| `PagesProofs` | theorems about `Pages` and `Dashboard` |
| `MCBilling`, `MCOrders`, `MCMailboxSync`, `MCWhopAccess`, `MCIdentity`, `MCServer`, `MCPages` | instances for TLC; `MCServer` composes `Workspace` and `CarrierTokens` |

### Billing

The database runs READ COMMITTED. A handler is one action per statement whose
snapshot or lock another handler can come between; writes appear at commit.
`creating[r]`, `editing[e]` and `issuing[s]` are the requests in flight, so the
sets `Creators`, `Editors` and `Issuers` bound their number.

* createInvoice: `CreateBegin` is the first lookup of the idempotency key,
  `CreateSelect` the `SELECT ... FOR UPDATE` with its checks, `CreateRecheck`
  the second lookup, `CreateInsert` invoice, lines and pointers with the unique
  index on the key. `quote` holds what was selected; those orders are locked.
* updateOrderFee: `EditLock` (row lock and status check), `EditSum` (the
  snapshot of the statement that sums the lines), `EditCommit`.
* Issuing: the handler reads the lines, calls Stripe item by item under keys
  that make a repeated call answer as the first did (`Created`), and writes the
  outcome. `item[i][o]` is the sequence of items Stripe holds for an order under an
  invoice, so that a doubled item can be told from one.
* The webhook: `HookRecord` commits the event's id, `HookRead`, `HookApply` and
  `HookNotify` follow in statements of their own; a repeated delivery is
  `HookDuplicate`.
* The other writers of an order (`SetCancelled` and the like) stand for
  overrides, mail and archiving, and wait for the row.

A fee is one amount per order (`terms`); how it is computed from percentage and
basis is not modelled. `summed[i]` remembers the lines a total was summed from.

### Orders

A sync begins (`BeginSync`) with the oldest and newest of the mails that are not
on record (`batch`) and reads them in the order of their `uid` (`ReadMail`).
`MailOrder` and `MailCommit` are the two halves of recordMessage: the order is
written and locked first, the shipment after. An error of either half
(`MailAbort`) ends the whole sync (`imap.ts:155`, `imap.ts:241-252`), and the next
begins with the same mail again. `CarrierShipment` and
`CarrierCommit` do it the other way round, so the two can deadlock
(`Deadlocked`); PostgreSQL then aborts one. Every write takes the further of
the old and new status (`Later`, the rank rule of the SQL). An order without a
number is named after its tracking number (`OrderOf`). A unique index on
tracking numbers makes a mail fail (`TrackTaken`); its transaction is rolled
back with its row in `processed_messages`. `Upgrade` deploys a parser under
which all mail is read again, perhaps with another result.

### MailboxSync

One customer's mailbox; customers share only the process. A mail is its UID and
its `Kind`, what the parser makes of it. The actions follow syncOne: save the
backfill, begin, load what is known and search, the header pass (`SkipPin`),
the choice of the batch (`ChooseBatch`), one action per mail (`ReadOrder`,
`ReadOther`, `Repair`, `Defer`), the end of the batch and of the sync. An update
of an order that is on record may spend reviews on the order's items; one of an
unknown order is put to the AI like a mail the parser could not read, unless it
is a cancellation, which is recorded as it is. That an AI is configured is taken
for granted. `FailSync`
and `Restart` can strike between any two. `Manual` is possible only while no sync is
active: enqueue returns at once otherwise, before it saves the backfill, though
the request is answered with 202. The model takes it that recording a
mail does not fail for ever; the mail for which it does is in `Orders`.

`MailRecord` (instance `Mailbox`) keeps the variables that outlive a run and
forgets the rest: the queue, the window, the batch, the budget and the failures.
Putting a mail on record is one step of it, deferring one is none, and the end
of a batch ends the backfill or is none.

### WhopAccess

`remote` is the membership as Whop has it, `row` as the database has it.
Webhooks are stored by `Receive` in any order, or never. One task at a time
holds the advisory lock: the oldest ready job (`TakeJob`), a due recheck
(`TakeDue`) or a licence login (`Login`). `Answer` is the API's answer, which is
saved later, `Apply`; what Whop has changed in between is not in it. `Tick` is
time, in units of the recheck interval; `lease`, `due` and `wait` count down.
`unpaid[w]` and `owner[w]` are history: how long the workspace has not been
paid for, and whom it was made for. A user of the model is a Whop user as the
buyer of one product, since the code compares both (`whop.ts:165`): a membership
that moves to our other product is one that changes its user.

`PaymentHolds` (instance `Desk`, in `WhopAccessProofs`) sees of a job what became
of it, of the task the job it works on (`Working`), and of a row whether the
membership is unknown, clear or held (`Standing`).

### Identity

`account`, `binding` and `default` are the three places that name the owner of a
service: `solo_accounts`, `discord_bindings`, `discord_identities`. A claim is
asked for with a proof, by a serial (`AskBySerial`), by the session of an
existing Solo account (`AskBySession`) or by a licence that Whop verified and a
cookie keeps (`VerifyLicense`, `AskByLicense`), and then runs as a transaction:
`Lock` takes its first lock and checks the proof again, `Bind` writes the
identity and the binding, `Commit` the account. Claims by serial or session lock
the account's row, claims by licence the advisory lock of the Whop worker, so
two kinds of claim of one service meet only at the binding's primary key.
Meanwhile the console provisions, rotates and renews (`Provision`,
`RotateSerial`, `RenewAccess`), Whop rotates keys and transfers memberships, and
the worker applies what Whop says (`Reconcile`).

`Directory` (instance `Registry`) is told which services are open and as what
(`ProductNow`), who is bound to each and which is whose default. Locks, proofs
and refused transactions are none of its steps; `Commit` is the one that links.
It limits Solo services only, as the code does: a user may own several ACO
services. A membership keeps its product here.

A proof by session is checked when the callback of the login starts, not in the
transaction, so `ClaimedByCurrentKey` speaks of serials and licences. The leases
that `WhopAccess` counts down are one Boolean here (`LoseLease`).

### Workspace

One workspace, of either product; `requests[r]` are the transactions under way,
each cut where another can come between its statements. `Count` is the locked
count of createCustomer, after the login at Gmail (`Verified`), and `Insert` its
insert; a removal (`Remove`) may fall anywhere. `LockSettings` reads the settings
row for update and `SaveSettings` writes all fields, `LockOrder` and
`CorrectItem` do the same for the list of hidden keys. For a Solo account the
count locks the workspace's row, for which an insert or an update of a row that
refers to it waits (`WorkspaceLocked`). `MakeLink` is getOrCreatePortalToken:
the row is read as `token_ciphertext`, a name its SELECT does not give it, so
every request makes a new link. A visit (`Visit`, or `VisitSigned` with a link of
the older kind) reads orders and invoices in two transactions (`ReadOrders`,
`ReadInvoices`). `reported` keeps, of the feedback rows, what they say last.

`SerialRequests` (instance `InTurn`) knows of a request what it asks for (`Wish`)
and not how far it is: the locks, counts and reads are none of its steps, the
last write of each request is the whole of it.

### CarrierTokens

Calls of `track` take the cached token or wait for the one pending request
(`Track`); the carrier issues a token (`Issue`) before its answer is read
(`Loaded`). The carrier's clock counts a token's `left` from the first, the cache
its `usable` from the second, less the margin. `TokenTick` is time; no request
outlasts its time-out. A refused token is not taken out of the cache.

### Dashboard and Pages

`Dashboard` counts committed changes of orders (`changes`), so an answer is as new
as the count it saw (`at`); a dashboard request reads the mailboxes first and the
orders after (`ReadStep`). `Pages` is a page on it. The Solo page numbers its
requests (`sent[r].latest`) and heeds only the last; the operator's page shows
every answer and has a selection and a fee form, which the inspector's effect
fills in when the order or the fee on record is another (`Formed`). A save of a
fee goes on until the refresh it asks for has ended (`saves`, `Settle`); the
button is off only for the order whose save began last (`saving`), so that several
may be under way. `form.for` and `for` of a save are history: the order that a fee
was typed, or shown, for. Of a mailbox's status a page asks but whether it is
syncing; a sync that fails ends as one that does not, with another status.
Sign-in, sign-out and requests that fail are actions of their own; since a session
may end, and begin, in another tab, any request may be denied. `OrderInspector`'s form for overrides and the item buttons are not
modelled.

## 3. Runs

| Run | Shows | Bounds |
| --- | --- | --- |
| `drafts` | pointers and lines agree; only billable orders are billed; a retried request gets its invoice; `OrderLedger` is implemented | 2 orders, 2 invoices, 2 keys, 2 create requests, 1 edit |
| `issue` | types; an order is charged once, under the invoice it is on; the local status is one Stripe reached; one paid notice | 1 order, 2 invoices, 2 create requests with 2 keys, 2 issuers, 1 edit, 1 failure |
| `redelivery` | counterexample: an event lost after its id was recorded | as `issue` |
| `edit_race` | counterexample: an edit changes an issued line | 1 order, 1 edit, 2 issuers |
| `orders_merge` | status is the furthest told; shipment not ahead; a recorded mail was told; a mail is loaded unless it, or one older, conflicts with another order | 4 mails in any order, 2 mails per sync, 2 numbers, 2 tracking numbers, 2 parsers, 1 shipment per poll |
| `orders_poison` | counterexample: a mail that can never be loaded, and one without a conflict behind it | as `orders_merge` |
| `mailbox_drain` | an unread mail is decided by review only; `MailRecord` is implemented: no mail recorded twice under a version, no backfill ended early; a backfill does end; saved mail gets on record | 5 mails, batch 2, budget 1, 2 parser versions, 2 failures |
| `whop_access` | access was paid for within a lease; leases end with the period; own workspace; holds are lifted by payments | 1 membership, 2 users, 2 webhooks, 1 transfer, lease 2 |
| `whop_live` | jobs are processed, payers get in | 1 membership, 1 webhook |
| `identity` | `Directory` is implemented: a service is given once; a user has one Solo service; account, binding and default agree; a claim's proof is the one on record | 2 users, 2 claims, 1 console service, a Solo and an ACO membership, 2 Whop users, 2 workspaces, 1 change |
| `server` | a mailbox limit is kept; corrections of items are reported; `SerialRequests` is implemented: no patch, correction or mailbox is lost or doubled by another request; a visit is of the right customer and has the invoice of every invoiced order; no call uses a token that has run out | 2 requests, 2 addresses, limit 1, 2 fields, values and items, 2 links; 2 callers, lifetimes 1, 3 and 5, margin 2, time-out 1 |
| `console` | a page shows all that was recorded by the end of the last sync it tells of, which on the operator's page need not be the newest answer; a fee is saved for its order; the Solo page never goes back in time | 2 orders, 2 fees, 2 saves at once, 2 changes; 2 requests at once on the Solo page, 1 on the operator's |

Why these sizes. Every property of `Billing` is about an order and at most two
requests that meet on it, so one order is enough for the Stripe half, with a second
invoice and a second key for a charge under another invoice, and two for
overlapping selections. In `Orders` one poll limit of one against two active
shipments makes the limit bind, a package that two orders or a carrier's own
mail share makes the unique index bite, and four mails with two to a sync leave
some behind a mail that fails. In `MailboxSync` a batch of two from
five mails leaves a middle, and a budget of one is spent in the middle of a
message's two attempts. In `WhopAccess` a lease of two intervals with a request
that spans one lets an answer be stale when it is saved, and two webhooks are
what it takes to be out of order. In `Identity` two claims are what it takes to
race, for one service or by one user, and one change (a rotation, a transfer, a
lapse) can fall before, between or after their steps. In `Workspace` every
hazard is of two requests, and two addresses with a limit of one let a second
mailbox be refused, or let in after a removal. The lifetimes of `CarrierTokens`
are one below the margin, where `Usable` is cut off at 1, the shortest the margin
is made for, and a longer one. `Workspace` and `CarrierTokens` share nothing, so
`MCServer` explores one at a time: `moving` says which. In `Pages` two requests are what it takes to
overtake, and two changes let a sync record one mail between two others of its
steps; overtaking is a matter of the Solo page only, as the operator's page has
no sequence to keep, so its form is explored with one request at a time.
`MaxFailures`,
`MaxEvents`, `MaxTransfers`, `MaxChanges`, `MaxLinks` and `MaxVersion` bound how
often the environment acts, nothing else. Symmetry is used only in runs without
liveness properties.

`CHECK_DEADLOCK FALSE` stands where the system may come to rest: all requests
answered, no event outstanding.

Each property of a passing run is also tried against a mutated definition (the
operators commented "Mutant of"), and is violated by it.

### Counterexamples

* `redelivery`: the webhook answers 500 "will be retried", but the event's id is
  committed before the event is applied, so the retry is taken for a duplicate.
* `edit_race`: updateOrderFee checks the invoice's status without locking the
  invoice, so the line of an invoice issued meanwhile is rewritten.
* `orders_poison`: a carrier's mail that names no order makes one named after
  the tracking number; the retailer's mail for that package then fails for ever,
  and as its failure ends every sync, the mails behind it are not loaded either,
  though they conflict with nothing (`ConflictFreeLoaded`).

Four more departures from the docs need no search and have no run; the models
contain them as they are, and `PROJECT.json` lists them among the hazards:

* while a poll is active, a manual sync's backfill is not saved, and the answer
  is still 202 (`imap.ts:75`; README.md:15 calls the backfill durable);
* the retried job of an older failed payment sets a hold again after a newer
  success lifted it (`whop.ts:144` against `whop.ts:56-57`);
* one Discord user may own several ACO services: linkLicense looks for another
  service of the user for the Solo product only (`auth/repository.ts:81-84`;
  `docs/architecture.md:147-148` speaks of one service of each product type);
* a portal link that was handed out stops working when the link is asked for
  again (`repository.ts:544`; README.md:22 and `docs/architecture.md:40` call it
  static).

## 4. Fairness

* `MailboxSync!FairSpec`: the timer of `imap.ts` polls for ever and a sync that
  began goes on (weak fairness). `AiRecovers` assumes that the provider does not
  fail for ever on a mail that is put to it again and again; without it the code
  promises nothing for that mail.
* `Orders!FairSpec`: the timer begins a sync if none is under way (weak); a sync
  reads its next mail, and what can be committed again and again is committed
  once (strong, because failures and deadlocks interrupt). No mail has a fairness
  of its own: which one is next is the order of UIDs. A transaction that violates
  a constraint is aborted; PostgreSQL does not always choose the mail as the
  victim of a deadlock.
* `WhopAccess!FairSpec`: the clock runs; the interval finds the lock free once
  if it is free again and again; Whop, asked again and again, answers and the
  answer is committed once.

## 5. Proofs

`BillingProofs`. `TypeCorrect` comes first, one lemma with a step per action.
The rest is from `TablesInv`, the inductive invariant that says what the row
locks buy: the pointers and lines agree (`Agreement`), no two transactions hold
the same row (`LocksExclude`), what a create transaction selected is still
billable, at the quoted price, until it ends (`SelectionStands`), and the
invoice an edit found is still the row's (`EditsStand`). `PointerMatchesLine`
alone is not inductive: that the insert claims unclaimed rows is only known
because the locks held. From it: `PointerAgreement`, `ClaimsAreBillable`,
`RetryIsAnswered`, and `LedgerImplemented`, the refinement of `OrderLedger`.
`OrderChargedOnce`, `NeverAheadOfStripe` and `PaidNoticedOnce` add what is known
of Stripe's items, statuses and deliveries. All hold for any orders, customers,
amounts and requests under `BillingAssumption`.

`OrdersProofs`. `RowsTyped` is the part of `TypeOK` the others need.
`StatusFurthest` follows because every write adds to the timeline the status it
merges, and `Later` returns one of the two and the further; `ShipmentFollows`
because both writers merge the same status into order and shipment;
`NothingSkipped` because the row of `processed_messages` commits with the event;
`NoRegression` says no step moves a status back. `OrdersTypeCorrect`, the rest of
`TypeOK`, says that a poll never lists more shipments than it may. For that no
two shipments may be as old: touched shipments have ages below their number and
different ones (`AgesOK`), and how many are older than a shipment tells it apart
from the others (`OldestFew`, an injection into `0..(n - 1)`). All hold for any
mails, parsers and carrier answers under `OrdersAssumption`.

`IdentityProofs`. `TypeCorrect` needs `Counted`: versions lag behind the number
of changes, and rows name workspaces that exist. `OwnersInv` is about the
locks: two bound claims are for different services (`BoundExclude`), the binding
a claim found free or the user's own still is (`BoundStands`), a service nobody
made is nobody's (`Fresh`), and accounts are unique; `OneSoloService` alone is
not inductive, since only accounts are unique, and bindings only follow them.
From it: `FirstOwnerStays`, `OneSoloEach`, `AccountsFollow`, `DefaultsAreOwn`, and
`DirectoryImplemented`, the refinement of `Directory`: a commit gives what was
locked, found free and still is, and every other step of a claim is a stutter.
`CurrentKeyClaims` follows from `ProofStands`: what a transaction found under
its first lock is true until its end. All hold for any number of users, claims,
services and memberships under `IdentityAssumption`, which among the rest tells
`None` from every identifier and from the names of the two products.

`MailboxSyncProofs`. `ReviewsDecide` holds because a mail that the parser could
not read goes through `Repair`, which spends budget and notes the review in the
step that records it. `BackfillsDrain` needs more: what a run skips is on record
under the running version (`SkippedRead`), and while a batch without backlog is
read, what it has left to do is all of the window that is missing
(`MissingInBatch`). The second rests on `WholeWindow`, a lemma about the
two-ended choice: of candidates that do not exceed the cap it leaves out none,
since the mails older and newer than a given one add up to fewer than the cap.
`RecordImplemented` is the refinement of `MailRecord`. It adds that what the
search found is still in the mailbox, all old mail among it, and that a known
order number is an order's (`SearchHolds`, so what is no order's mail makes none), and
that what is still to be read is on record under no version that runs (`Outstanding`,
so nothing is recorded twice); both rest on there being one sync at a time.
All hold for any mailbox, kinds of mail, cap and budget under
`MailboxAssumption`.

`WhopAccessProofs`. `AccessIsPaid` is a balance: what is left of a lease and the
unpaid time it has covered never exceed `Longest` (`LeaseCovers`). A lease is cut
from an answer, so the balance must hold of the answer while it is on its way: no
more unpaid time has passed since it was given than its age (`AnswerRecent`), and
of a fresh answer none (`PayersOwe`). That the workspace's clock is the
membership's is `WorkspacesOwned`, which gives `WorkspacesAreOwn` as well.
`PeriodCovers` says of leases and of answers what `LeasesEndInTime` says of valid
rows. `HoldsStay` takes each step in turn. `HoldsImplemented` is the refinement of
`PaymentHolds`; it needs that the job in hand is still queued, and about the
membership that is asked for (`JobHeld`), and that only a membership on record is
on hold (`KnownHolds`). TLC found no counterexample to it on a small instance
either, but that takes too long to be a standing run. All hold for any number of memberships,
webhooks and transfers, any lease, period and request time under
`WhopAssumption`.

`WorkspaceProofs`. One part per group of rows, and each says that what a
transaction read under a lock still stands: nobody else has counted and there is
room (`Mailboxes`), the settings read are the settings stored (`Settings`), the
hidden keys read are the keys stored (`Corrections`). For a visit nothing is
locked; there it is the order of the reads, and that nobody takes an order off
an invoice (`Portals`). From it `LimitHolds`, `PatchesHold`, `CorrectionsHold` and
`PortalsWhole`, and `SerialImplemented`, the refinement of `SerialRequests`: a
request's last write, made from what it read before, is what would be made of
the rows as they are then. All hold for any number of requests, addresses and
links and any limit.

`CarrierTokensProofs`. What is left of a token by the carrier's clock is bounded
from below by what it may still be needed for: while on its way by the age of
the request, in the cache by the time the cache will hand it out plus a time-out,
in a call by what the call may still take. With `2 * Timeout <= Margin`
(`TokenAssumption`; in the code a time-out is 8 seconds and the margin 60) `NoStaleToken` follows, for
any lifetimes; tokens with less than two time-outs to live are excepted, because
the cache hands those out too.

`PagesProofs`. The data, the form and the saves are sound by themselves
(`PageSound`), whatever they were made from, which gives `FeesForTheirOrder`.
`SyncedIsWhole` is of the page's data: an answer is whole by `ReadsBehind`, since
what was read first is not newer than what was read last, and what the page makes
of it (a fee merged in, a mailbox marked as syncing or failed) leaves it so. It
does not say that the operator's page ends on the newest of its answers.
`OnlyForward` needs that at most one request is the last (`OneLatest`), that it
was made after the sign-out, and that an answer to it is not older than what is
shown (`LatestFresh`): every answer shown belonged to a request that was the last
when it came, and this one was made later and reads later. All hold for
any number of orders, fees, saves, requests and changes.

Only model-checked: the liveness properties (`AllLoaded`, `SavedMailRecorded`,
`BackfillEnds`, `JobsProcessed`, `PayerHasAccess`), which are out of the prover's
reach. Every invariant and action property, and every refinement, that a passing
run checks is a theorem as well. The properties of the three counterexamples are
false, and no theorem speaks of them.

## 6. What is left out

In the modelled parts: the sweep of other pending items into a Stripe invoice,
the expiry of Stripe's idempotency keys, `invoice.payment_failed` (it does what a
late `finalized` does); the merchant in an order's key, items and prices of
orders, overrides in `Orders`; two server processes at once during a deployment;
the removal of an inbox while it syncs (`Workspace` removes one that does not,
`MailboxSync` keeps its own); memberships without a billing period;
`whop_memberships.discord_id`, which nothing reads; the cookies of sessions and
`linkDiscord`, whose route stands behind the one of `auth/discord.ts`. Two fee
edits of two orders of one draft each sum the lines in a snapshot that may miss
the other's, so the model keeps `summed` and claims nothing about totals.

Further hazards that no property covers and that `PROJECT.json` does not list,
most of them because what goes wrong is outside the modelled state: `stripe.ts:63` sweeps in
whatever items are pending at the customer; `imap.ts:219` and `imap.ts:155`, an
update read before its order's mail, and deferred mails that fill every batch
while the provider is down; `repository.ts:475`, shipments that are never
updated and so stay at the front of the list; `repository.ts:447`, the 2,000
orders a portal visit reads; `repository.ts:1000`, an item named by its index
in a list that mail may have changed, and the cap of 100 hidden keys;
`smtp.ts:61`, notices in memory that a restart loses; `App.tsx:40`, the operator's
page, which shows an older answer that comes last (`Pages` has it so, and
`NeverBackInTime` is about the Solo page only).

Not modelled: the wording of mail and prompts, HTTP parsing, cookies and
cryptography, the carriers' vocabularies, migrations and setup, order
enrichment, and the views that draw what the server answered: the customer
portal's page, the marketing site, the super-admin view, tables and billing view.

## 7. Plan

1. The removal of an inbox while it syncs: the foreign keys that a late
   recordMessage meets, over `Workspace` and `MailboxSync`.
2. `Sessions`: the signed cookies with their versions, issued by `auth/discord.ts`
   and `security/session.ts` and checked on each request, on top of `Identity`.
3. `Enrichment`: what several mails about one order leave in its items, prices and
   contact fields, in whatever order they are read.
4. `Notifications`: the in-memory queue with its bound and its loss at a restart.
5. Abstract specifications of `Orders` (a timeline that only grows, and statuses
   that are read off it) and of `Pages` (what a page shows, with no requests under
   way), to complete the set.
