------------------------------ MODULE Workspace ------------------------------
(***************************************************************************)
(* Rows of one workspace that several requests change at once: its         *)
(* mailboxes, which a Solo Buyer account may have so many of, its          *)
(* settings, the items hidden in an order, and the links of the customer   *)
(* portal with what a visit reads (repository.ts).  Each request is cut at *)
(* the points where other transactions fall between its statements.        *)
(*                                                                         *)
(* Of a customer's orders one is kept, and of it the items that are        *)
(* hidden, those the last feedback calls hidden, and whether it is on an   *)
(* invoice.                                                                *)
(***************************************************************************)
EXTENDS Naturals, FiniteSets, Sequences

CONSTANTS
    Requests,         \* requests that may be under way at once
    Addresses,        \* Gmail addresses
    Limit,            \* mailbox_limit of the account
    Fields, Values,   \* workspace_settings
    Default,          \* what a new row of it holds
    Items,            \* keys of the items of an order
    MaxLinks          \* bound on portal links made

ASSUME WorkspaceAssumption ==
    /\ IsFiniteSet(Addresses)
    /\ Limit \in Nat /\ MaxLinks \in Nat
    /\ Default \in Values

VARIABLES
    product,    \* workspaces.product_type
    customers,  \* customers, each with its mailbox, by address
    settings,   \* workspace_settings
    links,      \* portal links made so far: the customer each was made for
    requests    \* the transactions under way

workspaceVars == <<product, customers, settings, links, requests>>

NoCustomer == [hidden |-> {}, reported |-> {}, link |-> 0, billed |-> FALSE, open |-> FALSE]
Customer == [hidden : SUBSET Items, reported : SUBSET Items,
             link : 0..MaxLinks,  \* portal_token_hash
             billed : BOOLEAN, open : BOOLEAN]
NewCustomer == [NoCustomer EXCEPT !.open = TRUE]

NoSettings == [f \in {} |-> Default]
NewSettings == [f \in Fields |-> Default]
Patches == UNION {[fs -> Values] : fs \in SUBSET Fields}

Free == [op |-> "none"]
Request ==
    {Free}
    \cup [op : {"add", "counted"}, address : Addresses]
    \cup [op : {"patch"}, want : Patches, read : [Fields -> Values]]
    \cup [op : {"correct"}, address : Addresses, item : Items, hide : BOOLEAN,
          read : SUBSET Items]
    \cup [op : {"found"}, link : 0..MaxLinks, address : Addresses]
    \cup [op : {"half"}, link : 0..MaxLinks, address : Addresses, first : BOOLEAN]
    \cup [op : {"shown"}, link : 0..MaxLinks, address : Addresses,
          portal : [billed : BOOLEAN, invoiced : BOOLEAN]]

Connected == {a \in Addresses : customers[a].open}

WorkspaceInit ==
    /\ product \in {"solo", "aco"}
    /\ customers = [a \in Addresses |-> NoCustomer]
    /\ settings = NoSettings
    /\ links = <<>>
    /\ requests = [r \in Requests |-> Free]

Becomes(r, request) == requests' = [requests EXCEPT ![r] = request]

(* A transaction fails, the server stops, what was asked for is refused,   *)
(* or the request has been answered: nothing more comes of it.             *)
Abort(r) ==
    /\ requests[r] # Free
    /\ Becomes(r, Free)
    /\ UNCHANGED <<product, customers, settings, links>>

-----------------------------------------------------------------------------
(* Mailboxes.                                                              *)

(* POST of a mailbox, as far as Gmail's answer: verifyGmailConnection      *)
(* comes before the transaction.                                           *)
Verified(r, a) ==
    /\ requests[r] = Free
    /\ Becomes(r, [op |-> "add", address |-> a])
    /\ UNCHANGED <<product, customers, settings, links>>

(* Mutant of WorkspaceLocked: the account's row is not locked for the      *)
(* count.                                                                  *)
WorkspaceLockedNever == FALSE

WorkspaceLocked == \E r \in Requests : requests[r].op = "counted"

(* createCustomer for a Solo account: the workspace is locked and its      *)
(* mailboxes are counted.                                                  *)
Count(r) ==
    /\ product = "solo"
    /\ requests[r].op = "add"
    /\ ~WorkspaceLocked
    /\ Becomes(r, IF Cardinality(Connected) >= Limit THEN Free
                  ELSE [requests[r] EXCEPT !.op = "counted"])
    /\ UNCHANGED <<product, customers, settings, links>>

(* The rows are inserted, unless the address is there (409).               *)
Insert(r) ==
    /\ requests[r].op = (IF product = "solo" THEN "counted" ELSE "add")
    /\ customers' = [customers EXCEPT ![requests[r].address] =
                        IF @.open THEN @ ELSE NewCustomer]
    /\ Becomes(r, Free)
    /\ UNCHANGED <<product, settings, links>>

(* removeCustomer, which only Solo accounts have: the orders go with it,   *)
(* so it waits for a transaction that holds one.                           *)
Remove(a) ==
    /\ product = "solo"
    /\ customers[a].open
    /\ \A r \in Requests : requests[r].op = "correct" => requests[r].address # a
    /\ customers' = [customers EXCEPT ![a] = NoCustomer]
    /\ UNCHANGED <<product, settings, links, requests>>

-----------------------------------------------------------------------------
(* Settings.                                                               *)

(* getWorkspaceSettings makes the row.                                     *)
ReadSettings ==
    /\ settings = NoSettings
    /\ settings' = NewSettings
    /\ UNCHANGED <<product, customers, links, requests>>

(* Mutant of SettingsLocked: read without FOR UPDATE.                      *)
SettingsLockedNever == FALSE

SettingsLocked == \E r \in Requests : requests[r].op = "patch"

(* updateWorkspaceSettings locks and reads the row; without one it fails.  *)
LockSettings(r, want) ==
    /\ requests[r] = Free
    /\ settings # NoSettings
    /\ ~SettingsLocked
    /\ Becomes(r, [op |-> "patch", want |-> want, read |-> settings])
    /\ UNCHANGED <<product, customers, settings, links>>

(* What was read is merged with the patch and saved, and the workspace's   *)
(* name and path with it, once nobody counts mailboxes.  A path that is    *)
(* taken is refused (409).                                                 *)
SaveSettings(r) ==
    /\ requests[r].op = "patch"
    /\ ~WorkspaceLocked
    /\ LET want == requests[r].want
       IN  settings' = [f \in Fields |->
                           IF f \in DOMAIN want THEN want[f] ELSE requests[r].read[f]]
    /\ Becomes(r, Free)
    /\ UNCHANGED <<product, customers, links>>

-----------------------------------------------------------------------------
(* Items.                                                                  *)

(* Mutant of OrderLocked: read without FOR UPDATE.                         *)
OrderLockedNever(a) == FALSE

OrderLocked(a) == \E r \in Requests : requests[r].op = "correct" /\ requests[r].address = a

(* hideOrderItem locks and reads the order.  The item is the one that has  *)
(* the index asked for in the list as it is now stored.                    *)
LockOrder(r, a, item, hide) ==
    /\ requests[r] = Free
    /\ customers[a].open
    /\ ~OrderLocked(a)
    /\ Becomes(r, [op |-> "correct", address |-> a, item |-> item, hide |-> hide,
                   read |-> customers[a].hidden])
    /\ UNCHANGED <<product, customers, settings, links>>

Marked(items, item, hide) == IF hide THEN items \cup {item} ELSE items \ {item}

(* The keys are saved, and the correction is recorded as feedback.         *)
CorrectItem(r) ==
    /\ requests[r].op = "correct"
    /\ LET q == requests[r]
       IN  customers' = [customers EXCEPT
                            ![q.address].hidden = Marked(q.read, q.item, q.hide),
                            ![q.address].reported = Marked(@, q.item, q.hide)]
    /\ Becomes(r, Free)
    /\ UNCHANGED <<product, settings, links>>

-----------------------------------------------------------------------------
(* The customer portal.                                                    *)

(* createInvoice, as far as a visit can tell: invoice and claim together.  *)
Bill(a) ==
    /\ product = "aco"
    /\ customers[a].open /\ ~customers[a].billed
    /\ customers' = [customers EXCEPT ![a].billed = TRUE]
    /\ UNCHANGED <<product, settings, links, requests>>

(* getOrCreatePortalToken: the stored token is read under a name it was    *)
(* not selected by, so every request makes a new one.                      *)
MakeLink(a) ==
    /\ product = "aco"
    /\ customers[a].open
    /\ Len(links) < MaxLinks
    /\ links' = Append(links, a)
    /\ customers' = [customers EXCEPT ![a].link = Len(links) + 1]
    /\ UNCHANGED <<product, settings, requests>>

Found(r, link, a) == Becomes(r, [op |-> "found", link |-> link, address |-> a])

(* customerPortalByStaticToken finds the customer that has the link now.   *)
Visit(r, link) ==
    /\ requests[r] = Free
    /\ \E a \in Addresses : customers[a].open /\ customers[a].link = link /\ Found(r, link, a)
    /\ UNCHANGED <<product, customers, settings, links>>

(* A link of the older, signed kind names its customer itself.             *)
VisitSigned(r, a) ==
    /\ product = "aco"
    /\ requests[r] = Free
    /\ customers[a].open
    /\ Found(r, 0, a)
    /\ UNCHANGED <<product, customers, settings, links>>

(* customerPortal reads the dashboard in one transaction and the invoices  *)
(* of the customer in the next.                                            *)
ReadOrders(r) ==
    /\ requests[r].op = "found"
    /\ LET a == requests[r].address
       IN  Becomes(r, [op |-> "half", link |-> requests[r].link, address |-> a,
                       first |-> customers[a].billed])
    /\ UNCHANGED <<product, customers, settings, links>>

(* Mutant of Portal: the invoices come from the first read.                *)
PortalInvoicesFirst(first, second) == [billed |-> second, invoiced |-> first]

(* Its orders come from the first read, its invoices from the second.      *)
Portal(first, second) == [billed |-> first, invoiced |-> second]

ReadInvoices(r) ==
    /\ requests[r].op = "half"
    /\ LET q == requests[r]
       IN  Becomes(r, [op |-> "shown", link |-> q.link, address |-> q.address,
                       portal |-> Portal(q.first, customers[q.address].billed)])
    /\ UNCHANGED <<product, customers, settings, links>>

-----------------------------------------------------------------------------
WorkspaceNext ==
    \/ \E r \in Requests :
         \/ Abort(r) \/ Count(r) \/ Insert(r) \/ SaveSettings(r) \/ CorrectItem(r)
         \/ ReadOrders(r) \/ ReadInvoices(r)
         \/ \E want \in Patches : LockSettings(r, want)
         \/ \E link \in 1..Len(links) : Visit(r, link)
         \/ \E a \in Addresses :
              \/ Verified(r, a) \/ VisitSigned(r, a)
              \/ \E item \in Items, hide \in BOOLEAN : LockOrder(r, a, item, hide)
    \/ \E a \in Addresses : Remove(a) \/ Bill(a) \/ MakeLink(a)
    \/ ReadSettings

WorkspaceSpec == WorkspaceInit /\ [][WorkspaceNext]_workspaceVars

-----------------------------------------------------------------------------
WorkspaceTypeOK ==
    /\ product \in {"solo", "aco"}
    /\ customers \in [Addresses -> Customer]
    /\ settings \in [Fields -> Values] \cup {NoSettings}
    /\ links \in Seq(Addresses) /\ Len(links) <= MaxLinks
    /\ requests \in [Requests -> Request]

(* A Solo account never has more mailboxes than its plan allows, however   *)
(* many are added at once ("Your plan supports ... connected mailboxes",   *)
(* repository.ts:1120).                                                    *)
LimitKept == product = "solo" => Cardinality(Connected) <= Limit

(* The items hidden are those whose last recorded correction hides them:   *)
(* none is lost to another made at the same time (README.md:27).           *)
HiddenAsReported == \A a \in Addresses : customers[a].hidden = customers[a].reported

(* A visit is answered with the customer its link was made for, and with   *)
(* every order that is on an invoice the invoice, though they are read one *)
(* after the other (repository.ts:447-469).  It is about the answer; the   *)
(* page does not show which order is on which invoice.                     *)
PortalWhole ==
    \A r \in Requests : requests[r].op = "shown" =>
        /\ requests[r].portal.billed => requests[r].portal.invoiced
        /\ requests[r].link > 0 => links[requests[r].link] = requests[r].address

(* What was read before another request committed never decides what is    *)
(* saved: requests that lock, count, read and save in steps of their own,  *)
(* side by side, do to mailboxes, settings and items what they would one   *)
(* after the other ("a theme-only PATCH never clears payment or            *)
(* notification settings", repository.ts:606).                             *)
Wish(q) ==
    CASE q.op \in {"add", "counted"} -> [op |-> "add", address |-> q.address]
      [] q.op = "patch" -> [op |-> "patch", want |-> q.want]
      [] q.op = "correct" -> [op |-> "correct", address |-> q.address, item |-> q.item, hide |-> q.hide]
      [] OTHER -> Free

InTurn == INSTANCE SerialRequests WITH
    Unset <- NoSettings, connected <- Connected,
    hidden <- [a \in Addresses |-> customers[a].hidden],
    asked <- [r \in Requests |-> Wish(requests[r])]

ImplementsSerial == InTurn!Spec
=============================================================================
