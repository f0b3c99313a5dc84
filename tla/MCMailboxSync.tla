---------------------------- MODULE MCMailboxSync ----------------------------
(* Small mailboxes for TLC. *)
EXTENDS MailboxSync

CONSTANTS p, q

(* An update older than the order it is about, a middle that both ends of  *)
(* a batch can miss, mail the parser cannot read, and a cancellation that  *)
(* a batch can hold before or after its order is known.                    *)
MixedKind == <<"update", "order", "pin", "unclear", "cancellation">>
MixedOrder == <<q, q, p, p, q>>
=============================================================================
