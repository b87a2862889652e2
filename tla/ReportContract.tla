--------------------------- MODULE ReportContract ---------------------------
(***************************************************************************)
(* What a research run promises about its report, without saying how it is *)
(* produced.  While the run collects, the quality of its data only gets    *)
(* worse.  It then decides: BUY only on data that is OK.  A decision may   *)
(* be reconsidered any number of times, but only downwards, and a worse    *)
(* quality takes BUY away.  What is published is the last decision; the    *)
(* quality published with it may be worse than the one decided on, which   *)
(* is the one freedom the code needs (the memory note is written after the *)
(* last gate).  A run may also abort, at any time before it publishes.     *)
(***************************************************************************)
EXTENDS Integers

VARIABLES
  phase,    \* "collecting", "deciding", "published" or "aborted"
  action,   \* the decision, "NONE" while collecting
  quality   \* the data quality the run admits to

contract == <<phase, action, quality>>

Rank(q) == IF q = "DEGRADED" THEN 2 ELSE IF q = "PARTIAL" THEN 1 ELSE 0
Boldness(a) == IF a = "BUY" THEN 2 ELSE IF a = "WATCH" THEN 1 ELSE 0

Init == phase = "collecting" /\ action = "NONE" /\ quality = "OK"

\* The quality takes any value that is not better.
Worsen == quality' \in {"OK", "PARTIAL", "DEGRADED"} /\ Rank(quality') >= Rank(quality)

NoBuyOnBadData == action' = "BUY" => quality' = "OK"

Collect == phase = "collecting" /\ Worsen /\ UNCHANGED <<phase, action>>

Decide ==
  /\ phase = "collecting"
  /\ phase' = "deciding"
  /\ action' \in {"BUY", "WATCH", "AVOID"}
  /\ Worsen
  /\ NoBuyOnBadData

Reconsider ==
  /\ phase = "deciding"
  /\ phase' = "deciding"
  /\ action' \in {"BUY", "WATCH", "AVOID"}
  /\ Boldness(action') <= Boldness(action)
  /\ Worsen
  /\ NoBuyOnBadData

Publish == phase = "deciding" /\ phase' = "published" /\ Worsen /\ UNCHANGED action

Abort == phase \in {"collecting", "deciding"} /\ phase' = "aborted" /\ Worsen /\ UNCHANGED action

Next == Collect \/ Decide \/ Reconsider \/ Publish \/ Abort

Spec == Init /\ [][Next]_contract
=============================================================================
