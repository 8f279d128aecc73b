--------------------------- MODULE MCMinerWorker ---------------------------
(* A miner that is started, stopped and closed while blocks are sealed and   *)
(* imported.                                                                 *)
EXTENDS MinerWorker
=============================================================================
