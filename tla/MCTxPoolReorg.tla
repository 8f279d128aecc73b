--------------------------- MODULE MCTxPoolReorg ---------------------------
(* Calls of AddLocals and AddRemotes with transactions of one account and    *)
(* nonce, which replace each other and one that comes back from an abandoned *)
(* block; the head moves while they run, and the pool may be stopped at any  *)
(* time.                                                                     *)
EXTENDS TxPoolReorg

MCFrom == [t \in Txs |-> "a"]
MCNonce == [t \in Txs |-> 0]
MCPrice == [t \in Txs |-> CASE t = "t1" -> 1 [] t = "mined" -> 2 [] t = "t2" -> 3]
MCTxOf == [c \in Callers |-> IF c = "local" THEN "t2" ELSE "t1"]
=============================================================================
