---------------------------- MODULE MCBootstrap ----------------------------
(***************************************************************************)
(* Constants of Bootstrap for TLC: a second node key for a start that      *)
(* would draw one again, admin keys for the first start and two keygens.   *)
(***************************************************************************)
EXTENDS Bootstrap, TLC

CONSTANTS k1, k2, a1, a2, a3

PeerKeys == {k1, k2}
AdminKeys == {a1, a2, a3}

=============================================================================
