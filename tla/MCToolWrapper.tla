--------------------------- MODULE MCToolWrapper ---------------------------
(* Values of the constants of ToolWrapper for TLC. *)
EXTENDS ToolWrapper

CONSTANTS t1, t2
=============================================================================
