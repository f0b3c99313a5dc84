------------------------------ MODULE MCOrders ------------------------------
(***************************************************************************)
(* Two orders and the mails about them: a confirmation and a shipping mail *)
(* of the first, a carrier's own mail about the same package, which names  *)
(* no order, and a shipping mail of the second.  The second parser finds   *)
(* in the shipping mail the cancellation the first one missed.             *)
(***************************************************************************)
EXTENDS Orders

CONSTANTS n1, n2, t1, t2, confirmation, shipping, carrierMail, second

MCNumbers == {n1, n2}
MCTracks == {t1, t2}
MCMails == {confirmation, shipping, carrierMail, second}

MCNumberOf == [m \in MCMails |->
    CASE m = carrierMail -> None [] m = second -> n2 [] OTHER -> n1]

MCTrackOf == [m \in MCMails |->
    CASE m = confirmation -> None [] m = second -> t2 [] OTHER -> t1]

FirstParser == [m \in MCMails |->
    CASE m = confirmation -> "confirmed" [] m = carrierMail -> "delivered" [] OTHER -> "shipped"]

MCStatusOf == <<FirstParser, [FirstParser EXCEPT ![shipping] = "cancelled"]>>

MCCarrierStatuses == {"processing", "delivered"}
=============================================================================
