------------------------------ MODULE MCServer ------------------------------
(* Instances of Workspace and CarrierTokens for TLC.  They share nothing:  *)
(* a behaviour moves one of them and leaves the other as it began.         *)
EXTENDS Workspace, CarrierTokens, TLC

VARIABLE moving

Init ==
    /\ WorkspaceInit
    /\ TokensInit
    /\ moving \in {"workspace", "tokens"}

Next ==
    /\ \/ moving = "workspace" /\ WorkspaceNext /\ UNCHANGED tokenVars
       \/ moving = "tokens" /\ TokensNext /\ UNCHANGED workspaceVars
    /\ UNCHANGED moving

Spec == Init /\ [][Next]_<<workspaceVars, tokenVars, moving>>

(* Nothing tells two requests or two calls apart.                          *)
Symmetry == Permutations(Requests) \cup Permutations(Callers) \cup Permutations(Items)
=============================================================================
