----------------------------- MODULE MCSkeleton -----------------------------
(* Skeleton on a trunk of five blocks with a branch of two: long enough for a *)
(* subchain to overlap an older one of its own chain, or of the other.        *)
EXTENDS Skeleton

MCParent == [a1 |-> "g", a2 |-> "a1", a3 |-> "a2", a4 |-> "a3", a5 |-> "a4", b3 |-> "a2", b4 |-> "b3"]
MCNumber == [g |-> 0, a1 |-> 1, a2 |-> 2, a3 |-> 3, a4 |-> 4, a5 |-> 5, b3 |-> 3, b4 |-> 4]
=============================================================================
