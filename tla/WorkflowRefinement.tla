------------------------- MODULE WorkflowRefinement -------------------------
(* The research graph implements ReportContract. *)
EXTENDS ResearchWorkflow

\* The report has passed a gate: from the first gate's end on.  At risk_gate
\* itself that is so exactly when a repair sent the report back.
PassedGate ==
  \/ pc \in {"reviewer", "validate", "repair_report", "mark_invalid", "persist", "end", "db_error"}
  \/ pc = "risk_gate" /\ repairs > 0

Phase ==
  IF pc = "end" THEN "published"
  ELSE IF pc \in {"tool_error", "db_error"} THEN "aborted"
  ELSE IF PassedGate THEN "deciding" ELSE "collecting"

Contract == INSTANCE ReportContract WITH
  phase <- Phase,
  action <- IF PassedGate THEN report.action ELSE "NONE",
  quality <- IF PassedGate THEN report.dq ELSE dq

\* The run keeps the contract: its report is decided on OK data if it says
\* BUY, is only lowered afterwards, and is published as last decided.
ImplementsContract == Contract!Spec
=============================================================================
