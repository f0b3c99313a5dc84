------------------------------ MODULE MCBilling ------------------------------
(* Small instances of Billing for TLC. *)
EXTENDS Billing, TLC

CONSTANTS o1, o2, c1, c2

OneCustomer  == [o \in Orders |-> c1]
AllUsd  == [o \in Orders |-> "usd"]

Symmetry == Permutations(Orders) \cup Permutations(Invoices) \cup Permutations(Keys)
            \cup Permutations(Creators)
IssueSymmetry == Permutations(Issuers) \cup Permutations(Creators) \cup Permutations(Keys) \cup Permutations(Invoices)
=============================================================================
