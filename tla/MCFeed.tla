------------------------------- MODULE MCFeed -------------------------------
(* Subscribers come and go, and read or do not, while values are sent.       *)
EXTENDS Feed
=============================================================================
