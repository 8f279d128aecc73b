------------------------------ MODULE MCTxPool ------------------------------
(* A small pool: two accounts, at most two competing offers for a nonce,    *)
(* limits of one or two so that every truncation and eviction happens.      *)
EXTENDS TxPool

CONSTANTS alice, bob

\* sender, nonce, price, cost
MCTxTable ==
  [a0 |-> <<alice, 0, 10, 1>>, a0x |-> <<alice, 0, 12, 1>>, a1 |-> <<alice, 1, 10, 3>>,
   a2 |-> <<alice, 2, 11, 1>>, b0 |-> <<bob, 0, 10, 1>>, b1 |-> <<bob, 1, 11, 1>>]

MCAccounts == {alice, bob}
MCSender == [t \in Txs |-> MCTxTable[t][1]]
MCNonce == [t \in Txs |-> MCTxTable[t][2]]
MCPrice == [t \in Txs |-> MCTxTable[t][3]]
MCCost == [t \in Txs |-> MCTxTable[t][4]]
MCGas == [t \in Txs |-> 1]

HeadState(n, bal) == [nonce |-> [a \in MCAccounts |-> IF a = alice THEN n ELSE 0],
                      balance |-> [a \in MCAccounts |-> IF a = alice THEN bal ELSE 9],
                      gas |-> 1]

MCGenesis == {HeadState(0, 9)}

\* The account's nonce moves by blocks and reorgs, its balance by payments.
MCStates == {HeadState(0, 9), HeadState(1, 9), HeadState(2, 9), HeadState(0, 2)}
=============================================================================
