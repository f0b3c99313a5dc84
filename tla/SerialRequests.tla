--------------------------- MODULE SerialRequests ---------------------------
(***************************************************************************)
(* What the requests to one workspace promise, with no lock, count, read   *)
(* or other request in the way: somebody asks for something, and it is     *)
(* done whole, in one instant, to what is there in that instant, or comes  *)
(* to nothing.  A mailbox is connected where the plan has room, a patch    *)
(* changes the settings it names, a correction the item it is about.       *)
(* Workspace.tla is shown to implement this.                               *)
(***************************************************************************)
EXTENDS Naturals, FiniteSets

CONSTANTS
    Requests,           \* who may ask at once
    Addresses, Limit,   \* mailboxes, and how many a Solo plan supports
    Fields, Values,     \* settings and what they may hold,
    Default, Unset,     \* what they hold at first, and before that
    Items               \* items of an order

VARIABLES
    product,    \* "solo" or "aco"
    connected,  \* the mailboxes connected
    settings,   \* the settings, Unset until somebody looks
    hidden,     \* hidden[a]: the items hidden of a's order
    asked       \* asked[r]: what r asks for

serialVars == <<product, connected, settings, hidden, asked>>

Nothing == [op |-> "none"]
Wishes ==
    [op : {"add"}, address : Addresses]
    \cup [op : {"patch"}, want : UNION {[fs -> Values] : fs \in SUBSET Fields}]
    \cup [op : {"correct"}, address : Addresses, item : Items, hide : BOOLEAN]

Init ==
    /\ product \in {"solo", "aco"}
    /\ connected = {}
    /\ settings = Unset
    /\ hidden = [a \in Addresses |-> {}]
    /\ asked = [r \in Requests |-> Nothing]

Ask(r) ==
    /\ asked[r] = Nothing
    /\ asked'[r] \in Wishes
    /\ asked' = [asked EXCEPT ![r] = asked'[r]]
    /\ UNCHANGED <<product, connected, settings, hidden>>

(* It was refused, or did not come through.                                *)
Fail(r) ==
    /\ asked[r] # Nothing
    /\ asked' = [asked EXCEPT ![r] = Nothing]
    /\ UNCHANGED <<product, connected, settings, hidden>>

Done(r, op) ==
    /\ asked[r].op = op
    /\ asked' = [asked EXCEPT ![r] = Nothing]

(* Nothing is hidden in a new mailbox, or left behind by an old one.       *)
Connect(r) ==
    /\ Done(r, "add")
    /\ LET a == asked[r].address
       IN  /\ a \notin connected
           /\ connected' = connected \cup {a}
           /\ hidden' = [hidden EXCEPT ![a] = {}]
    /\ product = "solo" => Cardinality(connected) < Limit
    /\ UNCHANGED <<product, settings>>

Disconnect(a) ==
    /\ product = "solo"
    /\ a \in connected
    /\ connected' = connected \ {a}
    /\ hidden' = [hidden EXCEPT ![a] = {}]
    /\ UNCHANGED <<product, settings, asked>>

SetUp ==
    /\ settings = Unset
    /\ settings' = [f \in Fields |-> Default]
    /\ UNCHANGED <<product, connected, hidden, asked>>

Patch(r) ==
    /\ Done(r, "patch")
    /\ settings # Unset
    /\ LET want == asked[r].want
       IN  settings' = [f \in Fields |-> IF f \in DOMAIN want THEN want[f] ELSE settings[f]]
    /\ UNCHANGED <<product, connected, hidden>>

Correct(r) ==
    /\ Done(r, "correct")
    /\ asked[r].address \in connected
    /\ hidden' = [hidden EXCEPT ![asked[r].address] =
                     IF asked[r].hide THEN @ \cup {asked[r].item} ELSE @ \ {asked[r].item}]
    /\ UNCHANGED <<product, connected, settings>>

Next ==
    \/ \E r \in Requests :
         Ask(r) \/ Fail(r) \/ Connect(r) \/ Patch(r) \/ Correct(r)
    \/ \E a \in Addresses : Disconnect(a)
    \/ SetUp

Spec == Init /\ [][Next]_serialVars
=============================================================================
