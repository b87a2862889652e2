-------------------------- MODULE MCSnapshotCache --------------------------
(* Values of the constants of SnapshotCache for TLC. *)
EXTENDS SnapshotCache

CONSTANTS l1, l2, full, gaps, made

\* Live data with all fields and with missing ones; synthetic data has them all.
MCGateOf == [d \in Data |-> IF d = gaps THEN "PARTIAL" ELSE "OK"]
=============================================================================
