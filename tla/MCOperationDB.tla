---------------------------- MODULE MCOperationDB ----------------------------
(* A contract with a slot in use, and an account that does not exist yet.    *)
EXTENDS OperationDB, TLC

MCAmounts == {-1, 0, 1}
MCGenesis == "a" :> [nonce |-> 1, balance |-> 1, code |-> "c", root |-> [k \in Keys |-> 1]]
=============================================================================
