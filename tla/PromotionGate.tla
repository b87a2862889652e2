--------------------------- MODULE PromotionGate ---------------------------
(***************************************************************************)
(* The scripts that decide whether the challenger model may replace the    *)
(* primary one (make eval-m7): the offline evaluation                      *)
(* (app/eval/m7_offline_eval.py) and the shadow compare                    *)
(* (app/eval/m7_shadow_compare.py) each read the reports and write a file, *)
(* the drift monitor (app/eval/m7_drift.py) writes a third one, and the    *)
(* model gate (app/eval/m7_model_gate.py) reads the three files, whenever  *)
(* they were written.                                                      *)
(*                                                                         *)
(* Abstractions.  Every script reads the rows of its own lookback window,  *)
(* as many days as its --lookback-days, back from the moment it runs: rows *)
(* are only added, so the window is some last part of the table, and a     *)
(* later window may well begin later.  A file is the window it was written *)
(* over; a missing file reads like one written over no rows.  Rates are    *)
(* compared by cross-multiplication.  Whether a measured distribution has  *)
(* drifted critically is a choice.                                         *)
(***************************************************************************)
EXTENDS ReportTable, Functions

CONSTANTS
  GatePairs,    \* M7_MODEL_GATE_THRESHOLDS['min_shadow_pairs']
  ComparePairs  \* M7_SHADOW_THRESHOLDS['min_paired_sample_size']

ASSUME PairsAssumption == /\ ComparePairs \in Nat \ {0}
                          /\ GatePairs \in Nat
                          /\ ComparePairs <= GatePairs

VARIABLES
  offline,   \* m7_offline_eval.json
  shadow,    \* m7_shadow_compare.json
  critical,  \* m7_drift_monitor.json has a critical dimension
  allowed    \* m7_model_gate.json says ALLOW

gateVars == <<offline, shadow, critical, allowed>>

-----------------------------------------------------------------------------
(* load_report_samples: created_at >= now - lookback_days *)

NoRows == [since |-> 1, upto |-> 0]
Windows == {[since |-> k, upto |-> Len(table)] : k \in 1..Len(table) + 1}
Rows(w) == w.since..w.upto

-----------------------------------------------------------------------------
(* The two evaluations over the rows of a window *)

Primary == {"LIVE", "BACKTEST"}
Challenger == {"SHADOW"}

NewestOrNot(w, track, i) == table[i].mode \in track  \* mutant: all rows are paired

\* _latest_by_scenario: row i is the newest of its scenario in this track.
Newest(w, track, i) ==
  /\ table[i].mode \in track
  /\ \A k \in (i + 1)..w.upto : table[k].mode \in track => table[k].scn # table[i].scn

\* The pairs: a primary and a challenger row of one scenario.
Pairs(w) ==
  {p \in Rows(w) \X Rows(w) :
     /\ Newest(w, Primary, p[1])
     /\ Newest(w, Challenger, p[2])
     /\ table[p[1]].scn = table[p[2]].scn}

Points(S) == Cardinality({b \in DOMAIN S : S[b]})

\* _sample_metrics: a report that the schema refuses has no citation errors.
OfflineQuality ==
  [g \in Grades |->
     Points(<<g.valid, g.valid /\ g.consistent, g.valid => g.cited, g.covered>>)]

\* Mutant: the shadow compare leaves the coverage out.
QualityWithoutCoverage ==
  [g \in Grades |-> IF g.valid THEN Points(<<TRUE, g.consistent, g.cited>>) ELSE 0]

\* _quality_score
ShadowQuality ==
  [g \in Grades |->
     IF g.valid THEN Points(<<TRUE, g.consistent, g.cited, g.covered>>) ELSE 0]

Wins(w, quality) ==
  {p \in Pairs(w) :
     LET old == table[p[1]].grade
         new == table[p[2]].grade
     IN  \/ quality[new] > quality[old]
         \/ /\ quality[new] = quality[old]
            /\ new.cost <= old.cost
            /\ new.latency <= old.latency}

Flips(w) == {p \in Pairs(w) : table[p[1]].grade.action # table[p[2]].grade.action}

CostDelta(w) ==
  SumFunction([p \in Pairs(w) |-> table[p[2]].grade.cost - table[p[1]].grade.cost])
LatencyDelta(w) ==
  SumFunction([p \in Pairs(w) |-> table[p[2]].grade.latency - table[p[1]].grade.latency])

\* abs(average) <= bound
Within(sum, count, bound) == sum <= bound * count /\ -sum <= bound * count

Track(w) == {i \in Rows(w) : table[i].mode \in Challenger}

\* build_m7_shadow_compare: its status is PASS.
ComparePasses(w) ==
  LET size == Cardinality(Pairs(w))
  IN  /\ size >= ComparePairs
      /\ 100 * Cardinality(Flips(w)) <= 40 * size
      /\ Within(CostDelta(w), size, 15)
      /\ Within(LatencyDelta(w), size, 3)
      /\ AtLeast(Cardinality(Wins(w, ShadowQuality)), size, 45)

-----------------------------------------------------------------------------
(* build_m7_model_gate *)

\* Mutant: the coverage rate is compared under the name of the schema rate.
SchemaByCoverage(w) ==
  AtLeast(Cardinality({i \in Track(w) : table[i].grade.covered}), Cardinality(Track(w)), 99)

SchemaHolds(w) ==
  AtLeast(Cardinality({i \in Track(w) : table[i].grade.valid}), Cardinality(Track(w)), 99)
CoverageHolds(w) ==
  AtLeast(Cardinality({i \in Track(w) : table[i].grade.covered}), Cardinality(Track(w)), 90)

\* Mutant: a cheaper or faster challenger is always fine.
DeltasNotLarge(w) ==
  /\ CostDelta(w) <= 10 * Cardinality(Pairs(w))
  /\ LatencyDelta(w) <= 2 * Cardinality(Pairs(w))

DeltasSmall(w) ==
  /\ Within(CostDelta(w), Cardinality(Pairs(w)), 10)
  /\ Within(LatencyDelta(w), Cardinality(Pairs(w)), 2)

Allowed ==
  /\ Cardinality(Pairs(shadow)) >= GatePairs
  /\ SchemaHolds(offline)
  /\ CoverageHolds(offline)
  /\ AtLeast(Cardinality(Wins(shadow, ShadowQuality)), Cardinality(Pairs(shadow)), 50)
  /\ DeltasSmall(shadow)
  /\ ~critical

-----------------------------------------------------------------------------
(* The scripts *)

GateInit ==
  /\ offline = NoRows
  /\ shadow = NoRows
  /\ critical = FALSE
  /\ allowed = FALSE

RunOfflineEval ==
  /\ offline' \in Windows
  /\ UNCHANGED <<table, shadow, critical, allowed>>

RunShadowCompare ==
  /\ shadow' \in Windows
  /\ UNCHANGED <<table, offline, critical, allowed>>

\* A report without dimensions is written when the baseline or the current rows
\* are none.  Both windows end at the newest row; w is the shorter one.
RunDriftMonitor ==
  /\ \E w \in Windows : critical' \in IF Rows(w) = {} THEN {FALSE} ELSE BOOLEAN
  /\ UNCHANGED <<table, offline, shadow, allowed>>

RunGate ==
  /\ allowed' = Allowed
  /\ UNCHANGED <<table, offline, shadow, critical>>

GateStep == RunOfflineEval \/ RunShadowCompare \/ RunDriftMonitor \/ RunGate

-----------------------------------------------------------------------------
(* Properties *)

File == {w \in [since : 1..Len(table) + 1, upto : 0..Len(table)] : w.since <= w.upto + 1}

GateTypeOK ==
  /\ offline \in File
  /\ shadow \in File
  /\ critical \in BOOLEAN
  /\ allowed \in BOOLEAN

Allows == RunGate /\ allowed'

\* The reports of the challenger that the shadow compare read and the offline
\* evaluation did not: they came after its run, or were too old for its window.
Unrated == Track(shadow) \ Track(offline)

Refused == {p \in Pairs(shadow) : ~table[p[2]].grade.valid}

\* The rates of the challenger's track carry no sample size: the gate asks for
\* enough pairs in the one file and for high rates in the other.  What an ALLOW
\* lacks in rated reports, and the pairs it counts although the schema refuses
\* the challenger's report, are made up by reports that were not rated.
AllowSpeaksForPairs ==
  [][Allows =>
       /\ Cardinality(Track(offline)) + Cardinality(Unrated) >= GatePairs
       /\ 100 * Cardinality(Refused) <= Cardinality(Track(offline)) + 100 * Cardinality(Unrated)
    ]_gateVars

\* The evaluations are two programs that score reports; over the same rows they
\* count the same wins, except where the schema refuses a paired report.
EvaluationsAgree ==
  \A w \in Windows :
    (\A p \in Pairs(w) : table[p[1]].grade.valid /\ table[p[2]].grade.valid)
      => Wins(w, OfflineQuality) = Wins(w, ShadowQuality)

\* The gate reads the figures of the shadow compare and not its status.  Its own
\* thresholds imply that status, but for the decisions that the challenger turned.
AllowedChallengerPassedShadow ==
  [][Allows => \/ ComparePasses(shadow)
               \/ 100 * Cardinality(Flips(shadow)) > 40 * Cardinality(Pairs(shadow))]_gateVars
=============================================================================
