----------------------------- MODULE Evaluation -----------------------------
(***************************************************************************)
(* The evaluation jobs beside the service: an operator runs the replay of  *)
(* reports with too little evidence, or the scripts of the model gate,     *)
(* over the reports of requests that keep being served.                    *)
(***************************************************************************)
EXTENDS LowCoverageReplay, PromotionGate

CONSTANT MaxServed  \* bound on the rows up to which requests are served, by job

VARIABLE job  \* what the operator runs

Jobs == {"replay", "promotion"}

ASSUME ServedAssumption == MaxServed \in [Jobs -> Nat]

vars == <<table, replayVars, gateVars, job>>

Init ==
  /\ table = <<>>
  /\ ReplayInit
  /\ GateInit
  /\ job \in Jobs

Next ==
  \/ Len(table) < MaxServed[job] /\ Serve /\ UNCHANGED <<replayVars, gateVars, job>>
  \/ job = "replay" /\ ReplayStep /\ UNCHANGED <<gateVars, job>>
  \/ job = "promotion" /\ GateStep /\ UNCHANGED <<replayVars, job>>

\* A job that was started runs on; nobody has to start one, nor to send requests.
Fairness == WF_vars(phase # "idle" /\ ReplayStep /\ UNCHANGED <<gateVars, job>>)

Spec == Init /\ [][Next]_vars /\ Fairness

-----------------------------------------------------------------------------
TypeOK ==
  /\ ReplayTypeOK
  /\ GateTypeOK
  /\ job \in Jobs
=============================================================================
