----------------------------- MODULE MCFreezer ------------------------------
(* Two of the five tables: one whose items share a file, and one with a file *)
(* to each item.                                                             *)
EXTENDS Freezer

MCOrder == <<"hashes", "bodies">>
MCSize == [hashes |-> 1, bodies |-> 2]
=============================================================================
