---------------------------- MODULE ReportTable ----------------------------
(***************************************************************************)
(* The rows of `reports' as the evaluation jobs read them                  *)
(* (load_report_samples, app/eval/m4_baseline.py): a sequence in the order *)
(* of created_at, newest last.  Rows are never deleted.                    *)
(*                                                                         *)
(* Of a report the jobs look at its scenario (ticker, asof, strategy       *)
(* version and tier), its run mode and its grade: does the schema accept   *)
(* it, do its citations resolve, is it consistent, does its evidence cover *)
(* its tier's rules, what did it cost, how long did it take, what does it  *)
(* decide.  Costs are in US cents and latencies in units of 400 ms.        *)
(***************************************************************************)
EXTENDS Integers, Sequences, FiniteSets

CONSTANTS
  Scenarios,
  Tier1,      \* the scenarios of TIER1
  Grades,     \* the grades considered
  ShadowOn,   \* M7_SHADOW_ENABLED
  Requested   \* the run modes that requests ask for

Modes == {"LIVE", "BACKTEST", "SHADOW"}
Grade == [valid : BOOLEAN, cited : BOOLEAN, consistent : BOOLEAN,
          covered : BOOLEAN, cost : Nat, latency : Nat, action : {"BUY", "WATCH", "AVOID"}]
Report == [scn : Scenarios, mode : Modes, grade : Grades]

ASSUME ScenariosAssumption == Tier1 \subseteq Scenarios
ASSUME GradesAssumption == /\ Grades \subseteq Grade
                           /\ \A g \in Grades : g.consistent => g.cited
ASSUME ShadowAssumption == ShadowOn \in BOOLEAN
ASSUME RequestedAssumption == Requested \subseteq Modes

VARIABLE table

Row(s, m, g) == [scn |-> s, mode |-> m, grade |-> g]

\* run_research_workflow: the run's report is persisted; a LIVE run may be
\* followed by a shadow run, which persists another unless it raises.  (The jobs
\* read the table before or after both.)
Persisted(rows, s, m, g) ==
  {Append(rows, Row(s, m, g))} \union
  (IF ShadowOn /\ m = "LIVE"
   THEN {rows \o <<Row(s, m, g), Row(s, "SHADOW", h)>> : h \in Grades} ELSE {})

\* The API serves a request while a job runs.
Serve ==
  \E s \in Scenarios, m \in Requested, g \in Grades :
    table' \in Persisted(table, s, m, g)

\* _rate(part, whole) >= percent / 100.  The rate of nothing is 0.
AtLeast(part, whole, percent) == whole > 0 /\ 100 * part >= percent * whole
=============================================================================
