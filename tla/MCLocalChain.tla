---------------------------- MODULE MCLocalChain ----------------------------
(***************************************************************************)
(* Constants of LocalChain for TLC.  Three documents and four hashes allow *)
(* every split of the documents over one, two or three blocks of at most   *)
(* two, so that a batch fills up, and a last document waits for the next.  *)
(***************************************************************************)
EXTENDS LocalChain, TLC

CONSTANTS t1, t2, t3, coinbase, genesis, h1, h2, h3

Txs == {t1, t2, t3}
Hashes == {genesis, h1, h2, h3}

=============================================================================
