--------------------------- MODULE MCGraphSource ---------------------------
(* Values of the constants of GraphSource for TLC. *)
EXTENDS GraphSource

CONSTANTS t1, t2

\* The subtree lives longest.
MCTtl == [k \in AllTools |-> IF k = "subtree" THEN 2 ELSE 1]
=============================================================================
