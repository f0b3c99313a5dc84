------------------------------ MODULE MailRecord ------------------------------
(***************************************************************************)
(* What the synchronisation of a mailbox promises whoever reads the orders *)
(* it found: a mail is put on record once under each version of the        *)
(* parser, and then does to the orders what its kind says; a backfill that *)
(* was asked for is over only when all the old mail is on record.  There   *)
(* are no runs, batches or budgets here, and nothing fails.                *)
(***************************************************************************)
EXTENDS Naturals

CONSTANTS
    Mails,          \* what can ever be in the mailbox
    Kind, OrderOf,  \* what each mail is, and the order it is about
    Old             \* mail from before the window that every run reads

VARIABLES
    arrived,    \* mail in the mailbox
    parsedBy,   \* the parser version each mail is on record under, 0 for none
    orders,     \* orders found
    version,    \* the parser's version
    backfill    \* the old mail was asked for and is not all on record

vars == <<arrived, parsedBy, orders, version, backfill>>

Init ==
    /\ arrived \in SUBSET Mails
    /\ Old \subseteq arrived
    /\ parsedBy = [m \in Mails |-> 0]
    /\ orders = {}
    /\ version = 1
    /\ backfill = FALSE

Arrive(m) ==
    /\ m \notin arrived
    /\ arrived' = arrived \cup {m}
    /\ UNCHANGED <<parsedBy, orders, version, backfill>>

(* Only a mail that carries an order, or that someone could tell is about  *)
(* one, adds to the orders; noise, pins and cancellations never make one.  *)
Found(m) ==
    (IF Kind[m] \in {"order", "update", "unclear"} THEN {orders \cup {OrderOf[m]}} ELSE {})
    \cup (IF Kind[m] # "order" THEN {orders} ELSE {})

PutOnRecord(m) ==
    /\ m \in arrived
    /\ parsedBy[m] # version
    /\ parsedBy' = [parsedBy EXCEPT ![m] = version]
    /\ orders' \in Found(m)
    /\ UNCHANGED <<arrived, version, backfill>>

Ask ==
    /\ backfill' = TRUE
    /\ UNCHANGED <<arrived, parsedBy, orders, version>>

EndBackfill ==
    /\ \A m \in Old : parsedBy[m] = version
    /\ backfill' = FALSE
    /\ UNCHANGED <<arrived, parsedBy, orders, version>>

Deploy ==
    /\ version' = version + 1
    /\ UNCHANGED <<arrived, parsedBy, orders, backfill>>

Next ==
    \/ \E m \in Mails : Arrive(m) \/ PutOnRecord(m)
    \/ Ask \/ EndBackfill \/ Deploy

Spec == Init /\ [][Next]_vars
=============================================================================
