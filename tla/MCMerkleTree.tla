---------------------------- MODULE MCMerkleTree ----------------------------
(***************************************************************************)
(* Constants of MerkleTree for TLC: every order of up to five of six       *)
(* identifiers, and each of the six to look for.  Three and five leave an  *)
(* odd number of nodes on one level or two.                                *)
(***************************************************************************)
EXTENDS MerkleTree

Ids == 1..6

=============================================================================
