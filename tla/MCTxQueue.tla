----------------------------- MODULE MCTxQueue -----------------------------
(***************************************************************************)
(* Constants of TxQueue for TLC.  With a smallest ring of one slot and     *)
(* resize multiplying by eight below four elements and by two from there,  *)
(* the ring has one, eight, or sixteen slots or more: five identifiers in  *)
(* the ring, some of them of elements that Remove took out, reach both     *)
(* kinds of resize, the one in Append and the one in pop.                  *)
(***************************************************************************)
EXTENDS TxQueue, TLC

CONSTANTS e1, e2, e3, c1, c2, nil

ThreeElems == {e1, e2, e3}
OneElem == {e1}
TwoConsumers == {c1, c2}
OneConsumer == {c1}

\* Elements are interchangeable.
Symmetry == Permutations(ThreeElems)

=============================================================================
