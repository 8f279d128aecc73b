----------------------------- MODULE MCTxFetcher -----------------------------
(* Peers announce, deliver and leave; peers and hashes are interchangeable.   *)
EXTENDS TxFetcher, TLC

Symmetry == Permutations(Peers) \cup Permutations(Hashes)
==============================================================================
