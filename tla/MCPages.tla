------------------------------- MODULE MCPages -------------------------------
(* Instances of Pages for TLC. *)
EXTENDS Pages, TLC

(* The operator's page has the form, the Solo page the overtaking.         *)
RequestsAtOnce == [solo |-> 2, aco |-> 1]

(* Nothing tells two requests, two saves or two orders apart.              *)
Symmetry == Permutations(Readers) \cup Permutations(Savers) \cup Permutations(Orders)
=============================================================================
