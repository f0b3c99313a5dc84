----------------------------- MODULE MCIdentity -----------------------------
(* Instances of Identity for TLC. *)
EXTENDS Identity, TLC

CONSTANTS m1, m2

SoloAndAco == [m \in Members |-> IF m = m1 THEN "solo" ELSE "aco"]

Symmetry == Permutations(Users) \cup Permutations(Buyers) \cup Permutations(Workspaces)
              \cup Permutations(Claims)
=============================================================================
