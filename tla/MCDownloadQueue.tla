--------------------------- MODULE MCDownloadQueue ---------------------------
(* A small sync for TLC. *)
EXTENDS DownloadQueue

\* The last header is an empty block, the others have all parts.
MCParts == [h \in 1..LastHeader |-> IF h = LastHeader THEN {} ELSE Kinds]
=============================================================================
