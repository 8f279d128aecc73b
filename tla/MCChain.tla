------------------------------- MODULE MCChain -------------------------------
(* A tree with a branch a1-a2, its rival b1-b2 of equal difficulty and c1, as *)
(* heavy as two of the others.                                                *)
EXTENDS Chain

MCParent == [b \in Blocks \ {Genesis} |->
               CASE b = "a2" -> "a1" [] b = "b2" -> "b1" [] OTHER -> Genesis]
MCNumber == [b \in Blocks |-> CASE b = Genesis -> 0 [] b \in {"a2", "b2"} -> 2 [] OTHER -> 1]
MCDifficulty == [b \in Blocks |-> CASE b = Genesis -> 1 [] b = "c1" -> 4 [] OTHER -> 2]
MCSingles == {<<b>> : b \in Blocks \ {Genesis}}
MCBatches == (MCSingles \ {<<"a1">>}) \cup {<<"a1", "a2">>}
=============================================================================
