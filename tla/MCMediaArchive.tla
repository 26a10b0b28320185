--------------------------- MODULE MCMediaArchive ---------------------------
(* A small instance of MediaArchive for TLC. *)
EXTENDS MediaArchive, TLC
=============================================================================
