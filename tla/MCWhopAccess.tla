---------------------------- MODULE MCWhopAccess ----------------------------
(* Instances of WhopAccess for TLC. *)
EXTENDS WhopAccess, TLC

(* Nothing tells two users or two workspaces apart.                        *)
Symmetry == Permutations(Users) \cup Permutations(Workspaces)
=============================================================================
