---------------------------- MODULE MCCollections ---------------------------
(***************************************************************************)
(* Constants of Collections for TLC: two nodes that create one collection  *)
(* or two, with valid schemas and one that is refused.                     *)
(***************************************************************************)
EXTENDS Collections, TLC

CONSTANTS n1, n2, c1, c2, s1, s2, bad

TwoNodes == {n1, n2}
OneCollection == {c1}
TwoCollections == {c1, c2}
TwoSchemas == {s1, s2}
ThreeSchemas == {s1, s2, bad}
NoneInvalid == {}
OneInvalid == {bad}

\* Schemas are alike but for those that are refused.
Symmetry == Permutations(Node) \cup Permutations(Collection)
              \cup Permutations(Schema \ Invalid)

=============================================================================
