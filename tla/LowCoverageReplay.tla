------------------------- MODULE LowCoverageReplay -------------------------
(***************************************************************************)
(* The job that re-runs TIER1 reports with too little evidence             *)
(* (app/eval/low_coverage_replay.py) until the quality baseline            *)
(* (app/eval/m4_baseline.py) passes: in every round it takes a batch of    *)
(* the reports that the baseline lists as low, leaves out those it tried   *)
(* before, and runs their requests again.  Requests are served meanwhile.  *)
(*                                                                         *)
(* Abstractions.  A row is named by its position in the table.  The        *)
(* lookback window, one number of days for all rounds of a job, is taken   *)
(* to cover the table: no row ages out of it while the job runs.  The      *)
(* batch is worked off in any order.  Whether the baseline's latency and   *)
(* cost checks pass is a choice of each baseline; the caps of 100 and 200  *)
(* on its lists are above the batch size.                                  *)
(***************************************************************************)
EXTENDS ReportTable

CONSTANTS
  BatchSize,
  MaxRounds,
  MinSamples,   \* M4_BASELINE_THRESHOLDS['min_sample_size']
  Strategies    \* the values of run_mode_strategy considered

ASSUME BatchAssumption == BatchSize \in Nat \ {0} /\ MaxRounds \in Nat \ {0}
ASSUME SamplesAssumption == MinSamples \in Nat
ASSUME StrategyAssumption == Strategies \subseteq {"same", "live", "backtest", "shadow"}

VARIABLES
  phase,     \* where the job is
  round,     \* round_index
  strategy,  \* run_mode_strategy
  batch,     \* the candidates of this round that are still to be run
  tried,     \* attempted_source_ids
  smooth     \* history: every replay so far produced a covered report

replayVars == <<phase, round, strategy, batch, tried, smooth>>

-----------------------------------------------------------------------------
(* build_m4_quality_baseline *)

\* _scenario_key
Key(r) == <<r.scn, r.mode>>

\* _dedupe_latest_samples: the newest row of every scenario and run mode.
Latest(t) == {i \in DOMAIN t : \A j \in DOMAIN t : j > i => Key(t[j]) # Key(t[i])}

Count(t, S, check) == Cardinality({i \in S : t[i].grade[check]})

\* _summarize_samples and _evaluate_thresholds; fast: latency and cost are low.
Passes(t, fast) ==
  LET S == Latest(t)
      n == Cardinality(S)
  IN  /\ n >= MinSamples
      /\ AtLeast(Count(t, S, "valid"), n, 100)
      /\ AtLeast(Count(t, S, "cited"), n, 98)
      /\ AtLeast(Count(t, S, "covered"), n, 90)
      /\ fast

LowOrNot(t) == {i \in DOMAIN t : t[i].scn \in Tier1}  \* mutant: coverage is not looked at

\* _collect_low_coverage_reports of all samples, and of the latest ones.
Low(t) == {i \in DOMAIN t : t[i].scn \in Tier1 /\ ~t[i].grade.covered}
EffectiveLow(t) == Low(t) \intersect Latest(t)

-----------------------------------------------------------------------------
(* _extract_report_ids_from_baseline: the effective ones first, and newest *)
(* first; a report that both lists name is taken once.                     *)

AheadByAge(t, i, j) == i > j  \* mutant: the raw list is read first
Ahead(t, i, j) ==
  \/ i \in EffectiveLow(t) /\ j \notin EffectiveLow(t)
  \/ (i \in EffectiveLow(t) <=> j \in EffectiveLow(t)) /\ i > j

\* Mutant: the limit keeps the end of the list.
ListedLast(t) ==
  {i \in Low(t) : Cardinality({j \in Low(t) : Ahead(t, i, j)}) < BatchSize}
Listed(t) ==
  {i \in Low(t) : Cardinality({j \in Low(t) : Ahead(t, j, i)}) < BatchSize}

\* The candidates: a baseline file given with --baseline-json may be an older
\* one.  It is used in the first round, unless it lists nothing.
Baselines == IF round = 1 THEN 0..Len(table) ELSE {Len(table)}

Candidates(n) ==
  LET old == Listed(SubSeq(table, 1, n))
  IN  (IF old # {} THEN old ELSE Listed(table)) \ tried

-----------------------------------------------------------------------------
(* replay_tier1_low_coverage_reports *)

ReplayInit ==
  /\ phase = "idle"
  /\ round = 0
  /\ strategy = "same"
  /\ batch = {}
  /\ tried = {}
  /\ smooth = TRUE

StartReplay ==
  /\ phase = "idle"
  /\ phase' = "round"
  /\ round' = 1
  /\ strategy' \in Strategies
  /\ UNCHANGED <<table, batch, tried, smooth>>

NextRound ==
  /\ phase = "replaying" /\ batch = {} /\ round < MaxRounds
  /\ phase' = "round"
  /\ round' = round + 1
  /\ UNCHANGED <<table, strategy, batch, tried, smooth>>

OutOfRounds ==
  /\ phase = "replaying" /\ batch = {} /\ round = MaxRounds
  /\ phase' = "done"
  /\ UNCHANGED <<table, round, strategy, batch, tried, smooth>>

AlreadyPasses ==
  /\ phase = "round"
  /\ Passes(table, TRUE)
  /\ phase' = "done"
  /\ UNCHANGED <<table, round, strategy, batch, tried, smooth>>

TakeBatch ==
  /\ phase = "round"
  /\ \E n \in Baselines, fast \in BOOLEAN :
       /\ ~Passes(table, fast)
       /\ Candidates(n) # {}
       /\ batch' = Candidates(n)
  /\ phase' = "replaying"
  /\ UNCHANGED <<table, round, strategy, tried, smooth>>

\* Mutant: the job waits for more reports.
WaitForMore == phase = "round" /\ UNCHANGED <<table, phase, round, strategy, batch, tried, smooth>>

\* The note `no_remaining_candidates'.
NothingLeft ==
  /\ phase = "round"
  /\ \E n \in Baselines, fast \in BOOLEAN : ~Passes(table, fast) /\ Candidates(n) = {}
  /\ phase' = "done"
  /\ UNCHANGED <<table, round, strategy, batch, tried, smooth>>

\* _build_request_from_report
ReplayMode(m) ==
  CASE strategy = "same" -> m
    [] strategy = "live" -> "LIVE"
    [] strategy = "backtest" -> "BACKTEST"
    [] strategy = "shadow" -> "SHADOW"

\* replay_single_report runs the request again.
Replayed(i) ==
  /\ phase = "replaying" /\ i \in batch
  /\ batch' = batch \ {i}
  /\ tried' = tried \union {i}
  /\ \E g \in Grades :
       /\ table' \in Persisted(table, table[i].scn, ReplayMode(table[i].mode), g)
       /\ smooth' = (smooth /\ g.covered)
  /\ UNCHANGED <<phase, round, strategy>>

\* The run raises, or the report is not fit to be run again.
ReplayFails(i) ==
  /\ phase = "replaying" /\ i \in batch
  /\ batch' = batch \ {i}
  /\ tried' = tried \union {i}
  /\ smooth' = FALSE
  /\ UNCHANGED <<table, phase, round, strategy>>

ReplayStep ==
  \/ StartReplay \/ NextRound \/ OutOfRounds \/ AlreadyPasses \/ TakeBatch \/ NothingLeft
  \/ \E i \in batch : Replayed(i) \/ ReplayFails(i)

-----------------------------------------------------------------------------
(* Properties *)

ReplayTypeOK ==
  /\ table \in Seq(Report)
  /\ phase \in {"idle", "round", "replaying", "done"}
  /\ round \in 0..MaxRounds
  /\ strategy \in Strategies \union {"same"}
  /\ batch \subseteq DOMAIN table /\ tried \subseteq DOMAIN table
  /\ smooth \in BOOLEAN

\* The job's work is bounded: no report is run twice, and at most a batch per
\* round, however many reports are low and whatever requests add.
WorkIsBounded ==
  /\ batch \intersect tried = {}
  /\ Cardinality(batch) + Cardinality(tried) <= round * BatchSize

\* When replays work, the job does not stop for want of candidates before every
\* low report is superseded by a covered one: reports that were repaired, which
\* the raw list still names, cannot crowd out those that were not.
SmoothReplayRepairsAll ==
  [][NothingLeft /\ smooth /\ strategy = "same" => EffectiveLow(table) = {}]_replayVars

\* When they do not, a low report is left untried only behind a full batch of
\* newer ones that were tried and are still low.
OnlyStubbornReportsStarve ==
  [][NothingLeft =>
       \A i \in EffectiveLow(table) \ tried :
         Cardinality({j \in EffectiveLow(table) \intersect tried : j > i}) >= BatchSize]_replayVars

CoveredNow(t) == {Key(t[i]) : i \in {j \in Latest(t) : t[j].grade.covered}}

\* The repair can undo itself: running a report again may take coverage from its
\* scenario, where a newer, covered report had superseded it (the raw list holds
\* such reports).  The newest report of its kind never does that to its own mode.
CoverageLostOnlyBySuperseded ==
  [][\A i \in batch : Replayed(i) /\ i \in Latest(table) =>
       \A k \in CoveredNow(table) \ CoveredNow(table') : k[2] # table[i].mode]_replayVars

\* The job ends.
ReplayEnds == (phase # "idle") ~> (phase = "done")
=============================================================================
