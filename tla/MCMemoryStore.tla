--------------------------- MODULE MCMemoryStore ---------------------------
(* Values of the constants of MemoryStore for TLC. *)
EXTENDS MemoryStore

CONSTANTS r1, r2

MCRunModes == {[r \in {r1, r2} |-> "LIVE"]}
=============================================================================
