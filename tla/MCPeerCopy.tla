----------------------------- MODULE MCPeerCopy -----------------------------
(***************************************************************************)
(* Constants of PeerCopy for TLC: the main goroutine, reverse syncs and    *)
(* message handlers that race on one copy of a chain of two or three       *)
(* blocks.                                                                 *)
(***************************************************************************)
EXTENDS PeerCopy, TLC

CONSTANTS main, r1, r2, hd1, hd2

OneHandler == {hd1}
NoReverse == {}
OneReverse == {r1}
NoneRefused == {}
FirstRefused == {1}

\* Any two of the three faults, not all of them.
FewFaults == crashes + diskErrors + ownerErrors <= 2

=============================================================================
