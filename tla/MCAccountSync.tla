---------------------------- MODULE MCAccountSync ---------------------------
(***************************************************************************)
(* Constants of AccountSync for TLC: a few nodes that crash and start, and *)
(* an account or two that are written at any of them.                      *)
(***************************************************************************)
EXTENDS AccountSync, TLC

CONSTANTS n1, n2, a1, a2

TwoNodes == {n1, n2}
OneAddress == {a1}
TwoAddresses == {a1, a2}

Symmetry == Permutations(Node) \cup Permutations(Address)

=============================================================================
