-------------------------- MODULE EvaluationProofs --------------------------
(***************************************************************************)
(* Theorems about Evaluation, for any scenarios, grades, batch size,       *)
(* thresholds, numbers of rounds and requests: type correctness; what the  *)
(* gate's verdict rests on; how much the replay of reports with too little *)
(* evidence runs, what it repairs, what it leaves out and what it undoes.  *)
(***************************************************************************)
EXTENDS Evaluation, SequenceTheorems, DataLemmas

-----------------------------------------------------------------------------
(* Rows are only added *)

Grows(t, u) ==
  /\ Len(u) >= Len(t)
  /\ \A i \in 1..Len(t) : u[i] = t[i]

LEMMA PersistedGrows ==
  ASSUME NEW t \in Seq(Report), NEW s \in Scenarios, NEW m \in Modes, NEW g \in Grades,
         NEW u \in Persisted(t, s, m, g)
  PROVE  u \in Seq(Report) /\ Grows(t, u)
<1>1. Row(s, m, g) \in Report
  BY DEF Row, Report
<1>2. CASE u = Append(t, Row(s, m, g))
  BY <1>1, <1>2, AppendProperties, LenProperties DEF Grows
<1>3. CASE \E h \in Grades : u = t \o <<Row(s, m, g), Row(s, "SHADOW", h)>>
  <2>1. PICK h \in Grades : u = t \o <<Row(s, m, g), Row(s, "SHADOW", h)>>
    BY <1>3
  <2> DEFINE two == <<Row(s, m, g), Row(s, "SHADOW", h)>>
  <2>2. Row(s, "SHADOW", h) \in Report
    BY DEF Row, Report, Modes
  <2>3. two \in Seq(Report) /\ u = t \o two
    BY <1>1, <2>1, <2>2
  <2> HIDE DEF two
  <2>4. QED
    BY <2>3, ConcatProperties, LenProperties DEF Grows
<1>4. QED
  BY <1>2, <1>3 DEF Persisted

LEMMA ServeGrows ==
  ASSUME table \in Seq(Report), Serve
  PROVE  table' \in Seq(Report) /\ Grows(table, table')
<1>1. PICK s \in Scenarios, m \in Requested, g \in Grades : table' \in Persisted(table, s, m, g)
  BY DEF Serve
<1>2. m \in Modes
  BY RequestedAssumption
<1>3. QED
  BY <1>1, <1>2, PersistedGrows

LEMMA ReplayModeType ==
  ASSUME strategy \in Strategies \union {"same"}, NEW m \in Modes
  PROVE  ReplayMode(m) \in Modes
  BY StrategyAssumption DEF ReplayMode, Modes

LEMMA ReplayedGrows ==
  ASSUME ReplayTypeOK, NEW i \in batch, Replayed(i)
  PROVE  table' \in Seq(Report) /\ Grows(table, table')
<1>1. table[i] \in Report
  BY DEF ReplayTypeOK
<1>2. ReplayMode(table[i].mode) \in Modes
  BY <1>1, ReplayModeType DEF ReplayTypeOK, Report
<1>3. PICK g \in Grades : table' \in Persisted(table, table[i].scn, ReplayMode(table[i].mode), g)
  BY DEF Replayed
<1>4. QED
  BY <1>1, <1>2, <1>3, PersistedGrows DEF ReplayTypeOK, Report

LEMMA GrowsKeepsRows ==
  ASSUME table \in Seq(Report), table' \in Seq(Report), Grows(table, table')
  PROVE  DOMAIN table \subseteq DOMAIN table'
  BY LenProperties DEF Grows

\* A file stays one: its window is a part of the longer table.
LEMMA GrowsKeepsFiles ==
  ASSUME table \in Seq(Report), table' \in Seq(Report), Len(table') >= Len(table)
  PROVE  File \subseteq File'
<1>1. Len(table) \in Nat /\ Len(table') \in Nat
  BY LenProperties
<1>2. 1..Len(table) + 1 \subseteq 1..Len(table') + 1 /\ 0..Len(table) \subseteq 0..Len(table')
  BY <1>1
<1>3. QED
  BY <1>2 DEF File

-----------------------------------------------------------------------------
(* What the baseline lists are rows of the table *)

LEMMA FirstRows ==
  ASSUME NEW t \in Seq(Report), NEW n \in 0..Len(t)
  PROVE  /\ SubSeq(t, 1, n) \in Seq(Report)
         /\ DOMAIN SubSeq(t, 1, n) = 1..n
         /\ 1..n \subseteq DOMAIN t
<1>1. 1 \in 1..Len(t) + 1 /\ n \in 0..Len(t) /\ Len(t) \in Nat
  BY LenProperties
<1>2. SubSeq(t, 1, n) \in Seq(Report) /\ Len(SubSeq(t, 1, n)) = n
  BY <1>1, SubSeqProperties
<1>3. QED
  BY <1>1, <1>2, LenProperties

LEMMA ListedRows == ASSUME NEW t PROVE Listed(t) \subseteq Low(t) /\ Low(t) \subseteq DOMAIN t
  BY DEF Listed, Low

LEMMA BaselinesType ==
  ASSUME table \in Seq(Report), NEW n \in Baselines
  PROVE  n \in 0..Len(table)
  BY LenProperties DEF Baselines

LEMMA CandidatesAreRows ==
  ASSUME table \in Seq(Report), NEW n \in Baselines
  PROVE  Candidates(n) \subseteq DOMAIN table
<1>1. DOMAIN SubSeq(table, 1, n) \subseteq DOMAIN table
  BY BaselinesType, FirstRows
<1>2. Listed(SubSeq(table, 1, n)) \subseteq DOMAIN table
  BY <1>1, ListedRows
<1>3. QED
  BY <1>2, ListedRows DEF Candidates

-----------------------------------------------------------------------------
(* Types *)

LEMMA InitTypeOK == Init => TypeOK
<1>1. Init => ReplayTypeOK
  BY BatchAssumption DEF Init, ReplayInit, ReplayTypeOK
<1>2. Init => GateTypeOK
  <2>1. ASSUME table = <<>> PROVE NoRows \in File
    BY <2>1 DEF NoRows, File
  <2>2. QED
    BY <2>1 DEF Init, GateInit, GateTypeOK
<1>3. QED
  BY <1>1, <1>2 DEF Init, TypeOK

LEMMA ServeTypeOK ==
  ASSUME TypeOK, Serve, UNCHANGED <<replayVars, gateVars, job>>
  PROVE  TypeOK'
<1>1. table' \in Seq(Report) /\ Grows(table, table')
  BY ServeGrows DEF TypeOK, ReplayTypeOK
<1>2. DOMAIN table \subseteq DOMAIN table' /\ File \subseteq File'
  BY <1>1, GrowsKeepsRows, GrowsKeepsFiles DEF TypeOK, ReplayTypeOK, Grows
<1>3. ReplayTypeOK'
  BY <1>1, <1>2 DEF TypeOK, ReplayTypeOK, replayVars
<1>4. GateTypeOK'
  BY <1>1, <1>2 DEF TypeOK, GateTypeOK, gateVars
<1>5. QED
  BY <1>3, <1>4 DEF TypeOK

LEMMA RoundStepTypeOK ==
  ASSUME ReplayTypeOK, StartReplay \/ NextRound \/ OutOfRounds \/ AlreadyPasses \/ NothingLeft
  PROVE  ReplayTypeOK'
<1>1. CASE StartReplay
  BY <1>1, BatchAssumption DEF StartReplay, ReplayTypeOK
<1>2. CASE NextRound
  BY <1>2, BatchAssumption DEF NextRound, ReplayTypeOK
<1>3. CASE OutOfRounds
  BY <1>3 DEF OutOfRounds, ReplayTypeOK
<1>4. CASE AlreadyPasses
  BY <1>4 DEF AlreadyPasses, ReplayTypeOK
<1>5. CASE NothingLeft
  BY <1>5 DEF NothingLeft, ReplayTypeOK
<1>6. QED
  BY <1>1, <1>2, <1>3, <1>4, <1>5

LEMMA TakeBatchTypeOK == ASSUME ReplayTypeOK, TakeBatch PROVE ReplayTypeOK'
<1>1. PICK n \in Baselines : batch' = Candidates(n)
  BY DEF TakeBatch
<1>2. batch' \subseteq DOMAIN table
  BY <1>1, CandidatesAreRows DEF ReplayTypeOK
<1>3. QED
  BY <1>2 DEF TakeBatch, ReplayTypeOK

LEMMA ReplayedTypeOK ==
  ASSUME ReplayTypeOK, NEW i \in batch, Replayed(i)
  PROVE  ReplayTypeOK'
<1>1. table' \in Seq(Report) /\ Grows(table, table')
  BY ReplayedGrows
<1>2. DOMAIN table \subseteq DOMAIN table'
  BY <1>1, GrowsKeepsRows DEF ReplayTypeOK
<1>3. smooth' \in BOOLEAN
  BY DEF Replayed
<1>4. QED
  BY <1>1, <1>2, <1>3 DEF Replayed, ReplayTypeOK

LEMMA ReplayFailsTypeOK ==
  ASSUME ReplayTypeOK, NEW i \in batch, ReplayFails(i)
  PROVE  ReplayTypeOK'
  BY DEF ReplayFails, ReplayTypeOK

LEMMA ReplayStepTypeOK ==
  ASSUME TypeOK, ReplayStep, UNCHANGED <<gateVars, job>>
  PROVE  TypeOK'
<1>1. ReplayTypeOK'
  BY RoundStepTypeOK, TakeBatchTypeOK, ReplayedTypeOK, ReplayFailsTypeOK DEF TypeOK, ReplayStep
<1>2. File \subseteq File'
  <2>1. table \in Seq(Report) /\ table' \in Seq(Report)
    BY <1>1 DEF TypeOK, ReplayTypeOK
  <2>2. table' = table \/ Grows(table, table')
    BY ReplayedGrows DEF TypeOK, ReplayStep, StartReplay, NextRound, OutOfRounds,
         AlreadyPasses, TakeBatch, NothingLeft, ReplayFails
  <2>3. Len(table') >= Len(table)
    BY <2>1, <2>2, LenProperties DEF Grows
  <2>4. QED
    BY <2>1, <2>3, GrowsKeepsFiles
<1>3. GateTypeOK'
  BY <1>2 DEF TypeOK, GateTypeOK, gateVars
<1>4. QED
  BY <1>1, <1>3 DEF TypeOK

LEMMA WindowsAreFiles == ASSUME table \in Seq(Report) PROVE Windows \subseteq File
<1>1. Len(table) \in Nat
  BY LenProperties
<1>2. QED
  BY <1>1 DEF Windows, File

LEMMA GateStepTypeOK ==
  ASSUME TypeOK, GateStep, UNCHANGED <<replayVars, job>>
  PROVE  TypeOK'
<1>1. table' = table
  BY DEF GateStep, RunOfflineEval, RunShadowCompare, RunDriftMonitor, RunGate
<1>2. ReplayTypeOK'
  BY <1>1 DEF TypeOK, ReplayTypeOK, replayVars
<1>3. Windows \subseteq File /\ File' = File
  BY <1>1, WindowsAreFiles DEF TypeOK, ReplayTypeOK, File
<1>4. ASSUME RunOfflineEval \/ RunShadowCompare PROVE GateTypeOK'
  BY <1>3, <1>4 DEF TypeOK, GateTypeOK, RunOfflineEval, RunShadowCompare
<1>5. ASSUME RunDriftMonitor PROVE GateTypeOK'
  BY <1>3, <1>5 DEF TypeOK, GateTypeOK, RunDriftMonitor
<1>6. ASSUME RunGate PROVE GateTypeOK'
  <2>1. Allowed \in BOOLEAN
    BY DEF Allowed, AtLeast, SchemaHolds, CoverageHolds, DeltasSmall, Within
  <2>2. QED
    BY <1>3, <1>6, <2>1 DEF TypeOK, GateTypeOK, RunGate
<1>7. GateTypeOK'
  BY <1>4, <1>5, <1>6 DEF GateStep
<1>8. QED
  BY <1>2, <1>7 DEF TypeOK

LEMMA StutterTypeOK == ASSUME TypeOK, UNCHANGED vars PROVE TypeOK'
  BY DEF TypeOK, ReplayTypeOK, GateTypeOK, File, vars, replayVars, gateVars

LEMMA NextTypeOK == TypeOK /\ [Next]_vars => TypeOK'
  BY ServeTypeOK, ReplayStepTypeOK, GateStepTypeOK, StutterTypeOK DEF Next

\* Every variable of both jobs has its type, whatever is served meanwhile.
THEOREM TypeCorrect == Spec => []TypeOK
<1>1. QED
  BY InitTypeOK, NextTypeOK, PTL DEF Spec

-----------------------------------------------------------------------------
(* The pairs *)

Span == [since : Nat, upto : Nat]

LEMMA FilesAreSpans == ASSUME TypeOK PROVE File \subseteq Span
<1>1. Len(table) \in Nat
  BY LenProperties DEF TypeOK, ReplayTypeOK
<1>2. QED
  BY <1>1 DEF File, Span

LEMMA RowType ==
  ASSUME TypeOK, NEW w \in File, NEW i \in Rows(w)
  PROVE  table[i] \in Report
<1>1. Len(table) \in Nat /\ w.since \in 1..Len(table) + 1 /\ w.upto \in 0..Len(table)
  BY LenProperties DEF TypeOK, ReplayTypeOK, File
<1>2. i \in 1..Len(table) /\ table \in Seq(Report)
  BY <1>1 DEF TypeOK, ReplayTypeOK, Rows
<1>3. QED
  BY <1>2, ElementOfSeq

LEMMA RowsFinite == ASSUME NEW w \in Span PROVE IsFiniteSet(Rows(w))
<1>1. w.since \in Int /\ w.upto \in Int
  BY DEF Span
<1>2. QED
  BY <1>1, FS_Interval DEF Rows

LEMMA TrackFinite ==
  ASSUME NEW w \in Span
  PROVE  IsFiniteSet(Track(w)) /\ Cardinality(Track(w)) \in Nat
<1>1. Track(w) \in SUBSET Rows(w)
  BY DEF Track
<1>2. IsFiniteSet(Track(w))
  BY <1>1, RowsFinite, FS_Subset
<1>3. QED
  BY <1>2, FS_CardinalityType

LEMMA PairsFinite ==
  ASSUME NEW w \in Span
  PROVE  IsFiniteSet(Pairs(w)) /\ Cardinality(Pairs(w)) \in Nat
<1>1. IsFiniteSet(Rows(w) \X Rows(w))
  BY RowsFinite, FS_Product
<1>2. IsFiniteSet(Pairs(w))
  BY <1>1, FS_Subset DEF Pairs
<1>3. QED
  BY <1>2, FS_CardinalityType

\* A scenario has one newest row in a track.
LEMMA NewestUnique ==
  ASSUME NEW w \in Span, NEW track, NEW i \in Rows(w), NEW j \in Rows(w),
         Newest(w, track, i), Newest(w, track, j), table[i].scn = table[j].scn
  PROVE  i = j
<1>1. w.since \in Nat /\ w.upto \in Nat /\ i \in w.since..w.upto /\ j \in w.since..w.upto
  BY DEF Span, Rows
<1>2. CASE i < j
  <2>1. j \in (i + 1)..w.upto
    BY <1>1, <1>2
  <2>2. QED
    BY <2>1 DEF Newest
<1>3. CASE j < i
  <2>1. i \in (j + 1)..w.upto
    BY <1>1, <1>3
  <2>2. QED
    BY <2>1 DEF Newest
<1>4. QED
  BY <1>1, <1>2, <1>3

\* A row of the challenger is in one pair at most.
LEMMA PairOfChallenger ==
  ASSUME NEW w \in Span, NEW p \in Pairs(w), NEW q \in Pairs(w), p[2] = q[2]
  PROVE  p = q
<1>1. /\ p \in Rows(w) \X Rows(w) /\ q \in Rows(w) \X Rows(w)
      /\ Newest(w, Primary, p[1]) /\ Newest(w, Primary, q[1])
      /\ table[p[1]].scn = table[q[1]].scn
  BY DEF Pairs
<1>2. p[1] = q[1]
  BY <1>1, NewestUnique
<1>3. QED
  BY <1>1, <1>2

\* Pairs have a challenger row each: there are no more of them than there are rows
\* in a set that holds these.
LEMMA PairsAreFewer ==
  ASSUME NEW w \in Span, NEW P \in SUBSET Pairs(w), NEW T, IsFiniteSet(T),
         \A p \in P : p[2] \in T
  PROVE  Cardinality(P) <= Cardinality(T)
<1> DEFINE f == [p \in P |-> p[2]]
<1>1. f \in [P -> T]
  OBVIOUS
<1>2. \A p, q \in P : f[p] = f[q] => p = q
  BY PairOfChallenger
<1>3. f \in Injection(P, T)
  BY <1>1, <1>2 DEF Injection, IsInjective
<1>4. QED
  BY <1>3, FS_Injection

-----------------------------------------------------------------------------
(* What an ALLOW rests on *)

LEMMA AllowsAllowed == Allows => Allowed
  BY DEF Allows, RunGate

\* The two files are read as sets of rows of the challenger.
LEMMA TracksFinite ==
  ASSUME TypeOK
  PROVE  /\ offline \in Span /\ shadow \in Span
         /\ IsFiniteSet(Track(offline)) /\ Cardinality(Track(offline)) \in Nat
         /\ IsFiniteSet(Unrated) /\ Cardinality(Unrated) \in Nat
<1>1. offline \in Span /\ shadow \in Span
  BY FilesAreSpans DEF TypeOK, GateTypeOK
<1>2. IsFiniteSet(Track(offline)) /\ IsFiniteSet(Track(shadow))
  BY <1>1, TrackFinite
<1>3. Unrated \in SUBSET Track(shadow)
  BY DEF Unrated
<1>4. IsFiniteSet(Unrated)
  BY <1>2, <1>3, FS_Subset
<1>5. QED
  BY <1>1, <1>2, <1>4, FS_CardinalityType

LEMMA UnionIsSmaller ==
  ASSUME NEW S, NEW T, IsFiniteSet(S), IsFiniteSet(T)
  PROVE  /\ IsFiniteSet(S \union T)
         /\ Cardinality(S \union T) <= Cardinality(S) + Cardinality(T)
<1>1. /\ IsFiniteSet(S \union T)
      /\ Cardinality(S \union T) = Cardinality(S) + Cardinality(T) - Cardinality(S \intersect T)
  BY FS_Union
<1>2. IsFiniteSet(S \intersect T)
  BY FS_Intersection
<1>3. /\ Cardinality(S) \in Nat /\ Cardinality(T) \in Nat
      /\ Cardinality(S \intersect T) \in Nat
  BY <1>2, FS_CardinalityType
<1>4. QED
  BY <1>1, <1>3

LEMMA PairChallenger ==
  ASSUME NEW p \in Pairs(shadow)
  PROVE  p[2] \in Track(offline) \union Unrated
<1>1. p[2] \in Track(shadow)
  BY DEF Pairs, Newest, Track
<1>2. QED
  BY <1>1 DEF Unrated

\* The challenger rows of the pairs are rated or not.
LEMMA EnoughEvidence ==
  ASSUME TypeOK, Allowed
  PROVE  Cardinality(Track(offline)) + Cardinality(Unrated) >= GatePairs
<1>1. Cardinality(Pairs(shadow)) >= GatePairs
  BY DEF Allowed
<1>2. /\ IsFiniteSet(Track(offline) \union Unrated)
      /\ Cardinality(Track(offline) \union Unrated)
           <= Cardinality(Track(offline)) + Cardinality(Unrated)
  BY TracksFinite, UnionIsSmaller
<1>3. Cardinality(Pairs(shadow)) <= Cardinality(Track(offline) \union Unrated)
  <2>1. Pairs(shadow) \in SUBSET Pairs(shadow)
    OBVIOUS
  <2>2. QED
    BY <1>2, <2>1, TracksFinite, PairChallenger, PairsAreFewer
<1>4. Cardinality(Pairs(shadow)) \in Nat /\ Cardinality(Track(offline) \union Unrated) \in Nat
  BY <1>2, TracksFinite, PairsFinite, FS_CardinalityType
<1>5. QED
  BY <1>1, <1>2, <1>3, <1>4, TracksFinite, PairsAssumption

\* Few of the rated reports are refused, so many refused pairs were not rated.
LEMMA FewRefused ==
  ASSUME TypeOK, Allowed
  PROVE  100 * Cardinality(Refused) <= Cardinality(Track(offline)) + 100 * Cardinality(Unrated)
<1> DEFINE good == {i \in Track(offline) : table[i].grade.valid}
           bad == Track(offline) \ good
<1>1. /\ IsFiniteSet(good) /\ IsFiniteSet(bad)
      /\ Cardinality(good) \in Nat /\ Cardinality(bad) \in Nat
  <2>1. good \in SUBSET Track(offline) /\ bad \in SUBSET Track(offline)
    OBVIOUS
  <2>2. IsFiniteSet(good) /\ IsFiniteSet(bad)
    BY <2>1, TracksFinite, FS_Subset
  <2>3. QED
    BY <2>2, FS_CardinalityType
<1>2. Cardinality(bad) = Cardinality(Track(offline)) - Cardinality(good)
  <2>1. Track(offline) \intersect good = good
    OBVIOUS
  <2>2. QED
    BY <2>1, TracksFinite, FS_Difference
<1>3. 100 * Cardinality(good) >= 99 * Cardinality(Track(offline))
  BY DEF Allowed, SchemaHolds, AtLeast
<1>4. /\ IsFiniteSet(bad \union Unrated)
      /\ Cardinality(bad \union Unrated) <= Cardinality(bad) + Cardinality(Unrated)
  BY <1>1, TracksFinite, UnionIsSmaller
<1>5. Refused \in SUBSET Pairs(shadow) /\ \A p \in Refused : p[2] \in bad \union Unrated
  BY PairChallenger DEF Refused
<1> HIDE DEF good, bad
<1>6. Cardinality(Refused) <= Cardinality(bad \union Unrated)
  BY <1>4, <1>5, TracksFinite, PairsAreFewer
<1>7. Cardinality(Refused) \in Nat
  <2>1. IsFiniteSet(Refused)
    BY <1>5, TracksFinite, PairsFinite, FS_Subset
  <2>2. QED
    BY <2>1, FS_CardinalityType
<1>8. Cardinality(bad \union Unrated) \in Nat
  BY <1>4, FS_CardinalityType
<1>9. QED
  BY <1>1, <1>2, <1>3, <1>4, <1>6, <1>7, <1>8, TracksFinite

\* Whatever windows the two files were written over, and in whichever order:
\* what an ALLOW lacks in rated reports of the challenger, and the pairs it
\* counts although the schema refuses the challenger's report, are made up by
\* reports that the shadow compare read and the offline evaluation did not.
THEOREM GateEvidence == Spec => AllowSpeaksForPairs
<1>1. TypeOK /\ [Next]_vars =>
        [Allows =>
           /\ Cardinality(Track(offline)) + Cardinality(Unrated) >= GatePairs
           /\ 100 * Cardinality(Refused)
                <= Cardinality(Track(offline)) + 100 * Cardinality(Unrated)]_gateVars
  BY AllowsAllowed, EnoughEvidence, FewRefused
<1>2. QED
  BY <1>1, TypeCorrect, PTL DEF Spec, AllowSpeaksForPairs

-----------------------------------------------------------------------------
(* The two evaluations *)

LEMMA QualitiesAgree ==
  ASSUME NEW g \in Grades, g.valid
  PROVE  OfflineQuality[g] = ShadowQuality[g]
<1>1. g.valid = TRUE /\ g.consistent \in BOOLEAN /\ g.cited \in BOOLEAN
  BY GradesAssumption DEF Grade
<1>2. (g.valid /\ g.consistent) = g.consistent /\ (g.valid => g.cited) = g.cited
  BY <1>1
<1>3. OfflineQuality[g] =
        Points(<<g.valid, g.valid /\ g.consistent, g.valid => g.cited, g.covered>>)
  BY DEF OfflineQuality
<1>4. ShadowQuality[g] = Points(<<TRUE, g.consistent, g.cited, g.covered>>)
  BY <1>1 DEF ShadowQuality
<1>5. QED
  BY <1>1, <1>2, <1>3, <1>4

\* The programs that score reports count the same wins over pairs that the schema
\* accepts.
THEOREM ScoresAgree == Spec => []EvaluationsAgree
<1>1. TypeOK => EvaluationsAgree
  <2> SUFFICES ASSUME TypeOK, NEW w \in Windows,
                      \A p \in Pairs(w) : table[p[1]].grade.valid /\ table[p[2]].grade.valid
               PROVE  Wins(w, OfflineQuality) = Wins(w, ShadowQuality)
    BY DEF EvaluationsAgree
  <2>1. w \in File
    BY WindowsAreFiles DEF TypeOK, ReplayTypeOK
  <2>2. ASSUME NEW p \in Pairs(w)
        PROVE  /\ OfflineQuality[table[p[1]].grade] = ShadowQuality[table[p[1]].grade]
               /\ OfflineQuality[table[p[2]].grade] = ShadowQuality[table[p[2]].grade]
    <3>1. table[p[1]] \in Report /\ table[p[2]] \in Report
      BY <2>1, RowType DEF Pairs
    <3>2. table[p[1]].grade \in Grades /\ table[p[2]].grade \in Grades
      BY <3>1 DEF Report
    <3>3. QED
      BY <3>2, QualitiesAgree
  <2>3. QED
    BY <2>2 DEF Wins
<1>2. QED
  BY <1>1, TypeCorrect, PTL

-----------------------------------------------------------------------------
(* The gate and the shadow compare *)

LEMMA AtLeastWeaker ==
  ASSUME NEW part \in Nat, NEW whole \in Nat, AtLeast(part, whole, 50)
  PROVE  AtLeast(part, whole, 45)
  BY DEF AtLeast

LEMMA WithinWeaker ==
  ASSUME NEW sum \in Int, NEW count \in Nat, NEW low \in Nat, NEW high \in Nat, low <= high,
         Within(sum, count, low)
  PROVE  Within(sum, count, high)
<1>1. low * count <= high * count /\ low * count \in Nat /\ high * count \in Nat
  OBVIOUS
<1>2. QED
  BY <1>1 DEF Within

\* The deltas are sums of integers, over finitely many pairs.
LEMMA DeltasAreIntegers ==
  ASSUME TypeOK, NEW w \in File
  PROVE  CostDelta(w) \in Int /\ LatencyDelta(w) \in Int
<1> DEFINE cost == [p \in Pairs(w) |-> table[p[2]].grade.cost - table[p[1]].grade.cost]
           latency == [p \in Pairs(w) |-> table[p[2]].grade.latency - table[p[1]].grade.latency]
<1>1. w \in Span
  BY FilesAreSpans
<1>2. IsFiniteSet(Pairs(w))
  BY <1>1, PairsFinite
<1>3. ASSUME NEW p \in Pairs(w)
      PROVE  /\ table[p[1]].grade.cost \in Int /\ table[p[1]].grade.latency \in Int
             /\ table[p[2]].grade.cost \in Int /\ table[p[2]].grade.latency \in Int
  <2>1. table[p[1]] \in Report /\ table[p[2]] \in Report
    BY RowType DEF Pairs
  <2>2. QED
    BY <2>1, GradesAssumption DEF Report, Grade
<1>4. \A p \in Pairs(w) : cost[p] \in Int /\ latency[p] \in Int
  BY <1>3
<1> HIDE DEF cost, latency
<1>5. SumFunctionOnSet(cost, Pairs(w)) \in Int /\ SumFunctionOnSet(latency, Pairs(w)) \in Int
  BY <1>2, <1>4, SumType
<1>6. DOMAIN cost = Pairs(w) /\ DOMAIN latency = Pairs(w)
  BY DEF cost, latency
<1>7. SumFunction(cost) \in Int /\ SumFunction(latency) \in Int
  BY <1>5, <1>6 DEF SumFunction
<1>8. QED
  BY <1>7 DEF CostDelta, LatencyDelta, cost, latency

LEMMA AllowImpliesCompare ==
  ASSUME TypeOK, Allowed
  PROVE  \/ ComparePasses(shadow)
         \/ 100 * Cardinality(Flips(shadow)) > 40 * Cardinality(Pairs(shadow))
<1> DEFINE size == Cardinality(Pairs(shadow))
<1>1. shadow \in Span
  BY FilesAreSpans DEF TypeOK, GateTypeOK
<1>2. size \in Nat /\ IsFiniteSet(Pairs(shadow))
  BY <1>1, PairsFinite
<1>3. size >= ComparePairs
  BY <1>2, PairsAssumption DEF Allowed
<1>4. Within(CostDelta(shadow), size, 15) /\ Within(LatencyDelta(shadow), size, 3)
  <2>1. Within(CostDelta(shadow), size, 10) /\ Within(LatencyDelta(shadow), size, 2)
    BY DEF Allowed, DeltasSmall
  <2>2. CostDelta(shadow) \in Int /\ LatencyDelta(shadow) \in Int
    BY DeltasAreIntegers DEF TypeOK, GateTypeOK
  <2> HIDE DEF size
  <2>3. QED
    BY <1>2, <2>1, <2>2, WithinWeaker
<1>5. AtLeast(Cardinality(Wins(shadow, ShadowQuality)), size, 45)
  <2>1. Cardinality(Wins(shadow, ShadowQuality)) \in Nat
    BY <1>2, FS_Subset, FS_CardinalityType DEF Wins
  <2>2. QED
    BY <1>2, <2>1, AtLeastWeaker DEF Allowed
<1>6. Cardinality(Flips(shadow)) \in Nat
  BY <1>2, FS_Subset, FS_CardinalityType DEF Flips
<1> HIDE DEF size
<1>7. CASE 100 * Cardinality(Flips(shadow)) <= 40 * size
  BY <1>3, <1>4, <1>5, <1>7 DEF ComparePasses, size
<1>8. CASE ~(100 * Cardinality(Flips(shadow)) <= 40 * size)
  BY <1>2, <1>6, <1>8 DEF size
<1>9. QED
  BY <1>7, <1>8

\* The gate's thresholds imply those of the shadow compare, whose status it never
\* reads, but for the decisions the challenger turned: an ALLOW without that status
\* is an ALLOW over too many turned decisions.
THEOREM AllowedPassesCompare == Spec => AllowedChallengerPassedShadow
<1>1. TypeOK /\ [Next]_vars =>
        [Allows => \/ ComparePasses(shadow)
                   \/ 100 * Cardinality(Flips(shadow)) > 40 * Cardinality(Pairs(shadow))]_gateVars
  BY AllowsAllowed, AllowImpliesCompare
<1>2. QED
  BY <1>1, TypeCorrect, PTL DEF Spec, AllowedChallengerPassedShadow

-----------------------------------------------------------------------------
(* First and last rows *)

LEMMA Smallest ==
  ASSUME NEW n \in Nat, NEW S, S \subseteq 0..n, S # {}
  PROVE  \E x \in S : \A y \in S : x <= y
<1>1. \A x \in 0..n : x \in Nat
  OBVIOUS
<1>2. S \in SUBSET Nat
  BY <1>1
<1>3. QED
  BY <1>2, LeastNatural

LEMMA Largest ==
  ASSUME NEW n \in Nat, NEW S, S \subseteq 1..n, S # {}
  PROVE  \E x \in S : \A y \in S : y <= x
<1> DEFINE T == {n - i : i \in S}
<1>1. T \subseteq 0..n /\ T # {}
  <2>1. \A i \in S : n - i \in 0..n
    OBVIOUS
  <2>2. QED
    BY <2>1
<1>2. PICK d \in T : \A e \in T : d <= e
  BY <1>1, Smallest
<1>3. PICK x \in S : d = n - x
  BY <1>2
<1>4. \A y \in S : n - y \in T
  OBVIOUS
<1>5. ASSUME NEW y \in S PROVE y <= x
  <2>1. d <= n - y
    BY <1>2, <1>4
  <2>2. y \in Int /\ x \in Int
    OBVIOUS
  <2>3. QED
    BY <1>3, <2>1, <2>2
<1>6. QED
  BY <1>5

-----------------------------------------------------------------------------
(* The order of the list *)

LEMMA Foremost ==
  ASSUME NEW t, NEW n \in Nat, NEW S, S \subseteq 1..n, S # {}
  PROVE  \E x \in S : \A y \in S : y = x \/ Ahead(t, x, y)
<1> DEFINE E == S \intersect EffectiveLow(t)
<1>1. CASE E # {}
  <2>1. PICK x \in E : \A y \in E : y <= x
    BY <1>1, Largest
  <2>2. QED
    BY <2>1 DEF Ahead
<1>2. CASE E = {}
  <2>1. PICK x \in S : \A y \in S : y <= x
    BY Largest
  <2>2. QED
    BY <1>2, <2>1 DEF Ahead
<1>3. QED
  BY <1>1, <1>2

LEMMA Hindmost ==
  ASSUME NEW t, NEW n \in Nat, NEW S, S \subseteq 1..n, S # {}
  PROVE  \E x \in S : \A y \in S : y = x \/ Ahead(t, y, x)
<1> DEFINE L == S \ EffectiveLow(t)
<1>1. CASE L # {}
  <2>1. L \subseteq 0..n
    <3>1. \A y \in 1..n : y \in 0..n
      OBVIOUS
    <3>2. \A y \in L : y \in 1..n
      OBVIOUS
    <3>3. QED
      BY <3>1, <3>2
  <2>2. PICK x \in L : \A y \in L : x <= y
    BY <1>1, <2>1, Smallest
  <2>3. QED
    BY <2>2 DEF Ahead
<1>2. CASE L = {}
  <2>1. S \subseteq 0..n
    OBVIOUS
  <2>2. PICK x \in S : \A y \in S : x <= y
    BY <2>1, Smallest
  <2>3. QED
    BY <1>2, <2>2 DEF Ahead
<1>3. QED
  BY <1>1, <1>2

LEMMA AheadAsymmetric ==
  ASSUME NEW t, NEW i \in Nat, NEW j \in Nat, Ahead(t, i, j)
  PROVE  i # j /\ ~Ahead(t, j, i)
  BY DEF Ahead

-----------------------------------------------------------------------------
(* The list *)

\* The low rows ahead of row i.
Before(t, i) == {j \in Low(t) : Ahead(t, j, i)}

LEMMA LowRows ==
  ASSUME NEW t \in Seq(Report)
  PROVE  /\ Low(t) \subseteq 1..Len(t) /\ Len(t) \in Nat
         /\ IsFiniteSet(Low(t))
<1>1. Low(t) \subseteq 1..Len(t) /\ Len(t) \in Nat
  BY LenProperties DEF Low
<1>2. IsFiniteSet(1..Len(t))
  BY <1>1, FS_Interval
<1>3. QED
  BY <1>1, <1>2, FS_Subset

LEMMA BeforeFinite ==
  ASSUME NEW t \in Seq(Report), NEW i
  PROVE  IsFiniteSet(Before(t, i)) /\ Cardinality(Before(t, i)) \in Nat
<1>1. Before(t, i) \in SUBSET Low(t)
  BY DEF Before
<1>2. IsFiniteSet(Before(t, i))
  BY <1>1, LowRows, FS_Subset
<1>3. QED
  BY <1>2, FS_CardinalityType

LEMMA ListedBefore ==
  ASSUME NEW t, NEW i \in Low(t)
  PROVE  i \in Listed(t) <=> Cardinality(Before(t, i)) < BatchSize
  BY DEF Listed, Before

\* It holds a batch at most.
LEMMA ListedSize ==
  ASSUME NEW t \in Seq(Report)
  PROVE  IsFiniteSet(Listed(t)) /\ Cardinality(Listed(t)) \in Nat
         /\ Cardinality(Listed(t)) <= BatchSize
<1>1. Listed(t) \in SUBSET Low(t)
  BY DEF Listed
<1>2. IsFiniteSet(Listed(t)) /\ Cardinality(Listed(t)) \in Nat
  BY <1>1, LowRows, FS_Subset, FS_CardinalityType
<1>3. CASE Listed(t) = {}
  BY <1>2, <1>3, FS_EmptySet, BatchAssumption
<1>4. CASE Listed(t) # {}
  <2>1. Listed(t) \subseteq 1..Len(t)
    BY <1>1, LowRows
  <2>2. PICK x \in Listed(t) : \A y \in Listed(t) : y = x \/ Ahead(t, y, x)
    BY <1>4, <2>1, LowRows, Hindmost
  <2>3. Listed(t) \ {x} \in SUBSET Before(t, x)
    BY <1>1, <2>2 DEF Before
  <2>4. Cardinality(Listed(t) \ {x}) <= Cardinality(Before(t, x))
    BY <2>3, BeforeFinite, FS_Subset
  <2>5. Cardinality(Listed(t) \ {x}) = Cardinality(Listed(t)) - 1
    BY <1>2, <2>2, FS_RemoveElement
  <2>6. Cardinality(Before(t, x)) < BatchSize
    BY <1>1, <2>2, ListedBefore
  <2>7. QED
    BY <1>2, <2>4, <2>5, <2>6, BeforeFinite, BatchAssumption
<1>5. QED
  BY <1>2, <1>3, <1>4

\* The first low row is in it.
LEMMA FirstIsListed ==
  ASSUME NEW t \in Seq(Report), EffectiveLow(t) # {}
  PROVE  \E x \in EffectiveLow(t) : x \in Listed(t)
<1>1. EffectiveLow(t) \subseteq Low(t) /\ Low(t) # {}
  BY DEF EffectiveLow
<1>2. PICK x \in Low(t) : \A y \in Low(t) : y = x \/ Ahead(t, x, y)
  BY <1>1, LowRows, Foremost
<1>3. x \in EffectiveLow(t)
  BY <1>1, <1>2 DEF Ahead
<1>4. Before(t, x) = {}
  BY <1>2, LowRows, AheadAsymmetric DEF Before
<1>5. Cardinality(Before(t, x)) = 0
  BY <1>4, FS_EmptySet
<1>6. QED
  BY <1>2, <1>3, <1>5, ListedBefore, BatchAssumption

\* A row is left out only behind a whole batch that is in it.
LEMMA LeftOutBehindBatch ==
  ASSUME NEW t \in Seq(Report), NEW i \in EffectiveLow(t), i \notin Listed(t)
  PROVE  \E A \in SUBSET Listed(t) :
           /\ IsFiniteSet(A) /\ Cardinality(A) \in Nat /\ Cardinality(A) >= BatchSize
           /\ \A j \in A : j \in EffectiveLow(t) /\ j > i
<1> DEFINE Out == Low(t) \ Listed(t)
<1>1. i \in Out /\ Out \subseteq 1..Len(t) /\ Len(t) \in Nat
  BY LowRows DEF EffectiveLow
<1>2. PICK x \in Out : \A y \in Out : y = x \/ Ahead(t, x, y)
  BY <1>1, Foremost
<1>3. x \in EffectiveLow(t) /\ x >= i
  <2>1. i = x \/ Ahead(t, x, i)
    BY <1>1, <1>2
  <2>2. QED
    BY <1>1, <2>1 DEF Ahead
<1>4. Before(t, x) \subseteq Listed(t)
  <2> SUFFICES ASSUME NEW j \in Low(t), Ahead(t, j, x), j \in Out PROVE FALSE
    BY DEF Before
  <2>1. j = x \/ Ahead(t, x, j)
    BY <1>2
  <2>2. j \in Nat /\ x \in Nat
    BY <1>1, <1>2
  <2>3. QED
    BY <2>1, <2>2, AheadAsymmetric
<1>5. Cardinality(Before(t, x)) >= BatchSize
  <2>1. x \in Low(t) /\ x \notin Listed(t)
    OBVIOUS
  <2>2. QED
    BY <2>1, ListedBefore, BeforeFinite, BatchAssumption
<1>6. \A j \in Before(t, x) : j \in EffectiveLow(t) /\ j > i
  <2> SUFFICES ASSUME NEW j \in Before(t, x) PROVE j \in EffectiveLow(t) /\ j > i
    OBVIOUS
  <2>1. Ahead(t, j, x) /\ j \in 1..Len(t)
    BY LowRows DEF Before
  <2>2. QED
    BY <1>1, <1>3, <2>1 DEF Ahead
<1>7. QED
  BY <1>4, <1>5, <1>6, BeforeFinite

-----------------------------------------------------------------------------
(* The work of a job *)

LEMMA CandidatesSize ==
  ASSUME ReplayTypeOK, NEW n \in Baselines
  PROVE  Cardinality(Candidates(n)) \in Nat /\ Cardinality(Candidates(n)) <= BatchSize
<1>1. SubSeq(table, 1, n) \in Seq(Report)
  BY BaselinesType, FirstRows DEF ReplayTypeOK
<1>2. PICK t \in Seq(Report) : Candidates(n) \in SUBSET Listed(t)
  BY <1>1 DEF Candidates, ReplayTypeOK
<1>3. /\ Cardinality(Candidates(n)) <= Cardinality(Listed(t))
      /\ IsFiniteSet(Candidates(n))
  BY <1>2, ListedSize, FS_Subset
<1>4. Cardinality(Candidates(n)) \in Nat
  BY <1>3, FS_CardinalityType
<1>5. QED
  BY <1>3, <1>4, ListedSize, BatchAssumption

LEMMA FiniteWork ==
  ASSUME ReplayTypeOK
  PROVE  /\ IsFiniteSet(batch) /\ Cardinality(batch) \in Nat
         /\ IsFiniteSet(tried) /\ Cardinality(tried) \in Nat
         /\ round \in Nat
<1>1. Len(table) \in Nat /\ DOMAIN table = 1..Len(table)
  BY LenProperties DEF ReplayTypeOK
<1>2. IsFiniteSet(DOMAIN table)
  BY <1>1, FS_Interval
<1>3. batch \in SUBSET DOMAIN table /\ tried \in SUBSET DOMAIN table
  BY DEF ReplayTypeOK
<1>4. IsFiniteSet(batch) /\ IsFiniteSet(tried)
  BY <1>2, <1>3, FS_Subset
<1>5. round \in Nat
  BY BatchAssumption DEF ReplayTypeOK
<1>6. QED
  BY <1>4, <1>5, FS_CardinalityType

\* Strengthening: before a batch is taken, the rounds before were enough for
\* what was tried.
WorkInv ==
  /\ WorkIsBounded
  /\ phase = "idle" => tried = {} /\ batch = {} /\ round = 0
  /\ phase = "round" => /\ batch = {} /\ round >= 1
                        /\ Cardinality(tried) <= (round - 1) * BatchSize

LEMMA InitWork == Init => WorkInv
  BY FS_EmptySet, BatchAssumption DEF Init, ReplayInit, WorkInv, WorkIsBounded

LEMMA RoundStepWork ==
  ASSUME TypeOK, WorkInv,
         StartReplay \/ NextRound \/ OutOfRounds \/ AlreadyPasses \/ NothingLeft
  PROVE  WorkInv'
<1> USE BatchAssumption, FiniteWork DEF TypeOK, WorkInv, WorkIsBounded
<1>1. CASE StartReplay
  <2>1. Cardinality({}) = 0
    BY FS_EmptySet
  <2>2. QED
    BY <1>1, <2>1 DEF StartReplay
<1>2. CASE NextRound
  <2>1. Cardinality({}) = 0
    BY FS_EmptySet
  <2>2. batch = {} /\ tried' = tried /\ batch' = {} /\ round' = round + 1 /\ phase' = "round"
    BY <1>2 DEF NextRound
  <2>3. Cardinality(tried) <= round * BatchSize
    BY <2>1, <2>2
  <2>4. round * BatchSize <= (round + 1) * BatchSize /\ round' - 1 = round
    BY <2>2
  <2>5. Cardinality(batch') + Cardinality(tried') <= round' * BatchSize
    BY <2>1, <2>2, <2>3, <2>4
  <2>6. round' >= 1 /\ Cardinality(tried') <= (round' - 1) * BatchSize
    BY <2>2, <2>3, <2>4
  <2>7. QED
    BY <2>2, <2>5, <2>6
<1>3. CASE OutOfRounds
  BY <1>3 DEF OutOfRounds
<1>4. CASE AlreadyPasses
  BY <1>4 DEF AlreadyPasses
<1>5. CASE NothingLeft
  BY <1>5 DEF NothingLeft
<1>6. QED
  BY <1>1, <1>2, <1>3, <1>4, <1>5

LEMMA TakeBatchWork == ASSUME TypeOK, WorkInv, TakeBatch PROVE WorkInv'
<1>1. PICK n \in Baselines : batch' = Candidates(n)
  BY DEF TakeBatch
<1>2. Cardinality(batch') \in Nat /\ Cardinality(batch') <= BatchSize
  BY <1>1, CandidatesSize DEF TypeOK
<1>3. batch' \intersect tried' = {}
  BY <1>1 DEF Candidates, TakeBatch
<1>4. Cardinality(tried) <= (round - 1) * BatchSize /\ tried' = tried /\ round' = round
  BY DEF TakeBatch, WorkInv
<1>5. (round - 1) * BatchSize + BatchSize = round * BatchSize
  BY FiniteWork, BatchAssumption DEF TypeOK
<1>6. (round - 1) * BatchSize \in Int
  BY FiniteWork, BatchAssumption DEF TypeOK
<1>7. Cardinality(batch') + Cardinality(tried') <= round' * BatchSize
  BY <1>2, <1>4, <1>5, <1>6, FiniteWork, BatchAssumption DEF TypeOK
<1>8. QED
  BY <1>3, <1>7 DEF WorkInv, WorkIsBounded, TakeBatch

LEMMA OneRunWork ==
  ASSUME TypeOK, WorkInv, NEW i \in batch, Replayed(i) \/ ReplayFails(i)
  PROVE  WorkInv'
<1>1. /\ phase = "replaying" /\ phase' = phase /\ round' = round
      /\ batch' = batch \ {i} /\ tried' = tried \union {i}
  BY DEF Replayed, ReplayFails
<1>2. i \notin tried /\ batch' \intersect tried' = {}
  BY <1>1 DEF WorkInv, WorkIsBounded
<1>3. /\ Cardinality(batch') = Cardinality(batch) - 1
      /\ Cardinality(tried') = Cardinality(tried) + 1
  BY <1>1, <1>2, FiniteWork, FS_RemoveElement, FS_AddElement DEF TypeOK
<1>4. Cardinality(batch') + Cardinality(tried') <= round' * BatchSize
  BY <1>1, <1>3, FiniteWork, BatchAssumption DEF TypeOK, WorkInv, WorkIsBounded
<1>5. QED
  BY <1>1, <1>2, <1>4 DEF WorkInv, WorkIsBounded

LEMMA NextWork == ASSUME TypeOK, WorkInv, [Next]_vars PROVE WorkInv'
<1>1. CASE ReplayStep
  BY <1>1, RoundStepWork, TakeBatchWork, OneRunWork DEF ReplayStep
<1>2. CASE UNCHANGED replayVars
  BY <1>2 DEF WorkInv, WorkIsBounded, replayVars
<1>3. QED
  BY <1>1, <1>2 DEF Next, vars

LEMMA WorkAndTypes == Spec => [](TypeOK /\ WorkInv)
<1>1. Init => TypeOK /\ WorkInv
  BY InitTypeOK, InitWork
<1>2. TypeOK /\ WorkInv /\ [Next]_vars => (TypeOK /\ WorkInv)'
  BY NextTypeOK, NextWork
<1>3. QED
  BY <1>1, <1>2, PTL DEF Spec

\* A job runs a report once at most, and at most a batch in every round,
\* however many reports are low and whatever is served meanwhile.
THEOREM BoundedWork == Spec => []WorkIsBounded
<1>1. TypeOK /\ WorkInv => WorkIsBounded
  BY DEF WorkInv
<1>2. QED
  BY <1>1, WorkAndTypes, PTL

-----------------------------------------------------------------------------
(* What is left when no candidate is *)

LEMMA EverythingTried ==
  ASSUME TypeOK, WorkInv, NothingLeft
  PROVE  Listed(table) \subseteq tried
<1>1. PICK n \in Baselines : Candidates(n) = {}
  BY DEF NothingLeft
<1>2. phase = "round"
  BY DEF NothingLeft
<1>3. CASE round = 1
  <2>1. (round - 1) * BatchSize = 0
    BY <1>3, BatchAssumption
  <2>2. Cardinality(tried) <= 0 /\ Cardinality(tried) \in Nat /\ IsFiniteSet(tried)
    BY <1>2, <2>1, FiniteWork DEF TypeOK, WorkInv
  <2>3. tried = {}
    BY <2>2, FS_EmptySet
  <2>4. QED
    BY <1>1, <2>3 DEF Candidates
<1>4. CASE round # 1
  <2>1. n = Len(table)
    BY <1>4 DEF Baselines
  <2>2. SubSeq(table, 1, n) = table
    BY <2>1, LenProperties, SubSeqProperties DEF TypeOK, ReplayTypeOK
  <2>3. QED
    BY <1>1, <2>2 DEF Candidates
<1>5. QED
  BY <1>3, <1>4

\* A low report is left untried only behind a whole batch of newer ones that
\* were tried and are still low.
THEOREM OnlyBehindABatch == Spec => OnlyStubbornReportsStarve
<1> DEFINE Tried(i) == {j \in EffectiveLow(table) \intersect tried : j > i}
<1>1. ASSUME TypeOK, WorkInv, NothingLeft, NEW i \in EffectiveLow(table) \ tried
      PROVE  Cardinality(Tried(i)) >= BatchSize
  <2>1. Listed(table) \subseteq tried /\ table \in Seq(Report)
    BY <1>1, EverythingTried DEF TypeOK, ReplayTypeOK
  <2>2. i \in EffectiveLow(table) /\ i \notin Listed(table)
    BY <1>1, <2>1
  <2>3. PICK A \in SUBSET Listed(table) :
             /\ IsFiniteSet(A) /\ Cardinality(A) \in Nat /\ Cardinality(A) >= BatchSize
             /\ \A j \in A : j \in EffectiveLow(table) /\ j > i
    BY <2>1, <2>2, LeftOutBehindBatch
  <2>4. A \in SUBSET Tried(i)
    BY <2>1, <2>3
  <2>5. IsFiniteSet(Tried(i)) /\ Cardinality(Tried(i)) \in Nat
    <3>1. Tried(i) \in SUBSET tried
      OBVIOUS
    <3>2. QED
      BY <1>1, <3>1, FiniteWork, FS_Subset, FS_CardinalityType DEF TypeOK
  <2>6. Cardinality(A) <= Cardinality(Tried(i))
    BY <2>4, <2>5, FS_Subset
  <2>7. QED
    BY <2>3, <2>5, <2>6, BatchAssumption
<1>2. TypeOK /\ WorkInv =>
        (NothingLeft =>
           \A i \in EffectiveLow(table) \ tried :
             Cardinality({j \in EffectiveLow(table) \intersect tried : j > i}) >= BatchSize)
  BY <1>1
<1>3. QED
  BY <1>2, WorkAndTypes, PTL DEF OnlyStubbornReportsStarve

-----------------------------------------------------------------------------
(* New rows *)

LEMMA OldRowsStay ==
  ASSUME NEW t \in Seq(Report), NEW u \in Seq(Report), Grows(t, u)
  PROVE  /\ DOMAIN t \subseteq DOMAIN u
         /\ \A i \in DOMAIN t : u[i] = t[i]
         /\ EffectiveLow(u) \intersect DOMAIN t \subseteq EffectiveLow(t)
         /\ Latest(u) \intersect DOMAIN t \subseteq Latest(t)
<1>1. DOMAIN t \subseteq DOMAIN u /\ \A i \in DOMAIN t : u[i] = t[i]
  BY LenProperties DEF Grows
<1>2. Latest(u) \intersect DOMAIN t \subseteq Latest(t)
  BY <1>1 DEF Latest
<1>3. Low(u) \intersect DOMAIN t \subseteq Low(t)
  BY <1>1 DEF Low
<1>4. QED
  BY <1>1, <1>2, <1>3 DEF EffectiveLow

LEMMA TwoMoreRows ==
  ASSUME NEW t \in Seq(Report), NEW two \in Seq(Report), Len(two) = 2
  PROVE  /\ DOMAIN (t \o two) = 1..(Len(t) + 2)
         /\ (t \o two)[Len(t) + 1] = two[1] /\ (t \o two)[Len(t) + 2] = two[2]
<1> DEFINE u == t \o two
<1>1. /\ u \in Seq(Report) /\ Len(u) = Len(t) + Len(two)
      /\ \A p \in 1..Len(t) + Len(two) : u[p] = IF p <= Len(t) THEN t[p] ELSE two[p - Len(t)]
  BY ConcatProperties
<1> HIDE DEF u
<1>2. Len(t) \in Nat
  BY LenProperties
<1>3. DOMAIN u = 1..(Len(t) + 2)
  BY <1>1, <1>2, LenProperties
<1>4. /\ Len(t) + 1 \in 1..(Len(t) + 2) /\ ~(Len(t) + 1 <= Len(t)) /\ Len(t) + 1 - Len(t) = 1
      /\ Len(t) + 2 \in 1..(Len(t) + 2) /\ ~(Len(t) + 2 <= Len(t)) /\ Len(t) + 2 - Len(t) = 2
  BY <1>2
<1>5. u[Len(t) + 1] = two[1] /\ u[Len(t) + 2] = two[2]
  BY <1>1, <1>4
<1>6. QED
  BY <1>3, <1>5 DEF u

LEMMA NewRows ==
  ASSUME NEW t \in Seq(Report), NEW s \in Scenarios, NEW m \in Modes, NEW g \in Grades,
         NEW u \in Persisted(t, s, m, g)
  PROVE  /\ Len(t) + 1 \in DOMAIN u /\ u[Len(t) + 1] = Row(s, m, g)
         /\ \A p \in DOMAIN u \ DOMAIN t : u[p].scn = s
<1>1. Row(s, m, g) \in Report /\ Len(t) \in Nat /\ DOMAIN t = 1..Len(t)
  BY LenProperties DEF Row, Report
<1>2. CASE u = Append(t, Row(s, m, g))
  <2>1. /\ u \in Seq(Report) /\ Len(u) = Len(t) + 1 /\ u[Len(t) + 1] = Row(s, m, g)
    BY <1>1, <1>2, AppendProperties
  <2>2. DOMAIN u = 1..(Len(t) + 1)
    BY <2>1, LenProperties
  <2>3. \A p \in DOMAIN u \ DOMAIN t : p = Len(t) + 1
    BY <1>1, <2>2
  <2>4. QED
    BY <1>1, <2>1, <2>2, <2>3 DEF Row
<1>3. CASE \E h \in Grades : u = t \o <<Row(s, m, g), Row(s, "SHADOW", h)>>
  <2>1. PICK h \in Grades : u = t \o <<Row(s, m, g), Row(s, "SHADOW", h)>>
    BY <1>3
  <2> DEFINE two == <<Row(s, m, g), Row(s, "SHADOW", h)>>
  <2>2. Row(s, "SHADOW", h) \in Report
    BY DEF Row, Report, Modes
  <2>3. /\ two \in Seq(Report) /\ Len(two) = 2 /\ u = t \o two
        /\ two[1] = Row(s, m, g) /\ two[2] = Row(s, "SHADOW", h)
    BY <1>1, <2>1, <2>2
  <2> HIDE DEF two
  <2>4. /\ DOMAIN u = 1..(Len(t) + 2)
        /\ u[Len(t) + 1] = two[1] /\ u[Len(t) + 2] = two[2]
    BY <2>3, TwoMoreRows
  <2>5. \A p \in DOMAIN u \ DOMAIN t : p = Len(t) + 1 \/ p = Len(t) + 2
    BY <1>1, <2>4
  <2>6. u[Len(t) + 1].scn = s /\ u[Len(t) + 2].scn = s
    BY <2>3, <2>4 DEF Row
  <2>7. QED
    BY <1>1, <2>3, <2>4, <2>5, <2>6
<1>4. QED
  BY <1>2, <1>3 DEF Persisted

LEMMA ReplayedRows ==
  ASSUME ReplayTypeOK, NEW i \in batch, Replayed(i)
  PROVE  /\ Len(table) + 1 \in DOMAIN table'
         /\ Key(table'[Len(table) + 1]) = <<table[i].scn, ReplayMode(table[i].mode)>>
         /\ \A p \in DOMAIN table' \ DOMAIN table : table'[p].scn = table[i].scn
<1>1. table[i] \in Report /\ i \in DOMAIN table
  BY DEF ReplayTypeOK
<1>2. ReplayMode(table[i].mode) \in Modes
  BY <1>1, ReplayModeType DEF ReplayTypeOK, Report
<1>3. PICK g \in Grades : table' \in Persisted(table, table[i].scn, ReplayMode(table[i].mode), g)
  BY DEF Replayed
<1>4. table \in Seq(Report) /\ table[i].scn \in Scenarios
  BY <1>1 DEF ReplayTypeOK, Report
<1>5. /\ Len(table) + 1 \in DOMAIN table'
      /\ table'[Len(table) + 1] = Row(table[i].scn, ReplayMode(table[i].mode), g)
      /\ \A p \in DOMAIN table' \ DOMAIN table : table'[p].scn = table[i].scn
  BY <1>2, <1>3, <1>4, NewRows
<1>6. QED
  BY <1>5 DEF Key, Row

-----------------------------------------------------------------------------
(* What a job repairs *)

\* Strengthening: a report that was tried by smooth replays is superseded.
MendInv == smooth /\ strategy = "same" => tried \intersect EffectiveLow(table) = {}

\* Strengthening: what is waiting to be run is low.
LowInv == batch \subseteq Low(table)

LEMMA GrowthMends ==
  ASSUME ReplayTypeOK, table' \in Seq(Report), Grows(table, table')
  PROVE  /\ tried \intersect EffectiveLow(table) = {} => tried \intersect EffectiveLow(table') = {}
         /\ LowInv => batch \subseteq Low(table')
<1>1. table \in Seq(Report) /\ tried \subseteq DOMAIN table
  BY DEF ReplayTypeOK
<1>2. EffectiveLow(table') \intersect DOMAIN table \subseteq EffectiveLow(table)
  BY <1>1, OldRowsStay
<1>3. DOMAIN table \subseteq DOMAIN table' /\ \A i \in DOMAIN table : table'[i] = table[i]
  BY <1>1, OldRowsStay
<1>4. Low(table) \subseteq Low(table')
  BY <1>3 DEF Low
<1>5. QED
  BY <1>1, <1>2, <1>4 DEF LowInv

LEMMA CandidatesAreLow ==
  ASSUME ReplayTypeOK, NEW n \in Baselines
  PROVE  Candidates(n) \subseteq Low(table)
<1>1. n \in 0..Len(table) /\ table \in Seq(Report)
  BY BaselinesType DEF ReplayTypeOK
<1>2. /\ DOMAIN SubSeq(table, 1, n) = 1..n /\ 1..n \subseteq DOMAIN table
      /\ SubSeq(table, 1, n) \in Seq(Report)
  BY <1>1, FirstRows
<1>3. \A i \in 1..n : SubSeq(table, 1, n)[i] = table[i]
  <2>1. 1 \in 1..Len(table) + 1 /\ Len(table) \in Nat
    BY <1>1, LenProperties
  <2>2. \A i \in 1..n - 1 + 1 : SubSeq(table, 1, n)[i] = table[1 + i - 1]
    BY <1>1, <2>1, SubSeqProperties
  <2>3. n - 1 + 1 = n /\ \A i \in 1..n : 1 + i - 1 = i
    BY <1>1, <2>1
  <2>4. QED
    BY <2>2, <2>3
<1>4. Low(SubSeq(table, 1, n)) \subseteq Low(table)
  BY <1>2, <1>3 DEF Low
<1>5. Listed(table) \subseteq Low(table)
      /\ Listed(SubSeq(table, 1, n)) \subseteq Low(SubSeq(table, 1, n))
  BY ListedRows
<1>6. QED
  BY <1>4, <1>5 DEF Candidates

LEMMA ReplayedMends ==
  ASSUME ReplayTypeOK, MendInv, NEW i \in batch, Replayed(i)
  PROVE  MendInv'
<1>1. /\ table \in Seq(Report) /\ table' \in Seq(Report) /\ Grows(table, table')
      /\ i \in DOMAIN table
  BY ReplayedGrows DEF ReplayTypeOK
<1>2. tried' = tried \union {i} /\ strategy' = strategy /\ (smooth' => smooth)
  BY DEF Replayed
<1>3. ASSUME smooth', strategy' = "same" PROVE i \notin EffectiveLow(table')
  <2>1. ReplayMode(table[i].mode) = table[i].mode
    BY <1>2, <1>3 DEF ReplayMode
  <2>2. Len(table) + 1 \in DOMAIN table' /\ Key(table'[Len(table) + 1]) = Key(table[i])
    BY <2>1, ReplayedRows DEF Key
  <2>3. table'[i] = table[i]
    BY <1>1, OldRowsStay
  <2>4. Len(table) + 1 > i
    BY <1>1, LenProperties
  <2>5. i \notin Latest(table')
    BY <2>2, <2>3, <2>4 DEF Latest
  <2>6. QED
    BY <2>5 DEF EffectiveLow
<1>4. QED
  BY <1>1, <1>2, <1>3, GrowthMends DEF MendInv

LEMMA InitMends == Init => MendInv /\ LowInv
  BY DEF Init, ReplayInit, MendInv, LowInv

LEMMA ReplayStepMends ==
  ASSUME TypeOK, WorkInv, MendInv, LowInv, ReplayStep
  PROVE  MendInv' /\ LowInv'
<1>1. CASE StartReplay
  <2>1. tried' = {} /\ batch' = {}
    BY <1>1 DEF StartReplay, WorkInv
  <2>2. QED
    BY <2>1 DEF MendInv, LowInv
<1>2. CASE NextRound \/ OutOfRounds \/ AlreadyPasses \/ NothingLeft
  <2>1. UNCHANGED <<table, strategy, batch, tried, smooth>>
    BY <1>2 DEF NextRound, OutOfRounds, AlreadyPasses, NothingLeft
  <2>2. QED
    BY <2>1 DEF MendInv, LowInv
<1>3. CASE TakeBatch
  <2>1. PICK n \in Baselines : batch' = Candidates(n)
    BY <1>3 DEF TakeBatch
  <2>2. UNCHANGED <<table, strategy, tried, smooth>>
    BY <1>3 DEF TakeBatch
  <2>3. batch' \subseteq Low(table)
    BY <2>1, CandidatesAreLow DEF TypeOK
  <2>4. QED
    BY <2>2, <2>3 DEF MendInv, LowInv
<1>4. ASSUME NEW i \in batch, Replayed(i) PROVE MendInv' /\ LowInv'
  <2>1. MendInv'
    BY <1>4, ReplayedMends DEF TypeOK
  <2>2. batch \subseteq Low(table')
    BY <1>4, ReplayedGrows, GrowthMends DEF TypeOK
  <2>3. batch' \subseteq batch
    BY <1>4 DEF Replayed
  <2>4. QED
    BY <2>1, <2>2, <2>3 DEF LowInv
<1>5. ASSUME NEW i \in batch, ReplayFails(i) PROVE MendInv' /\ LowInv'
  <2>1. table' = table /\ batch' \subseteq batch /\ smooth' = FALSE
    BY <1>5 DEF ReplayFails
  <2>2. QED
    BY <2>1 DEF MendInv, LowInv
<1>6. QED
  BY <1>1, <1>2, <1>3, <1>4, <1>5 DEF ReplayStep

LEMMA ServeMends ==
  ASSUME TypeOK, MendInv, LowInv, Serve, UNCHANGED replayVars
  PROVE  MendInv' /\ LowInv'
<1>1. table' \in Seq(Report) /\ Grows(table, table')
  BY ServeGrows DEF TypeOK, ReplayTypeOK
<1>2. tried' = tried /\ batch' = batch /\ smooth' = smooth /\ strategy' = strategy
  BY DEF replayVars
<1>3. QED
  BY <1>1, <1>2, GrowthMends DEF TypeOK, MendInv, LowInv

LEMMA NextMends ==
  ASSUME TypeOK, WorkInv, MendInv, LowInv, [Next]_vars
  PROVE  MendInv' /\ LowInv'
<1>1. CASE GateStep /\ UNCHANGED replayVars
  <2>1. table' = table
    BY <1>1 DEF GateStep, RunOfflineEval, RunShadowCompare, RunDriftMonitor, RunGate
  <2>2. QED
    BY <1>1, <2>1 DEF MendInv, LowInv, replayVars
<1>2. CASE UNCHANGED vars
  BY <1>2 DEF MendInv, LowInv, vars, replayVars
<1>3. QED
  BY <1>1, <1>2, ReplayStepMends, ServeMends DEF Next

IInv == TypeOK /\ WorkInv /\ MendInv /\ LowInv

LEMMA Inductive == Spec => []IInv
<1>1. Init => IInv
  BY InitTypeOK, InitWork, InitMends DEF IInv
<1>2. IInv /\ [Next]_vars => IInv'
  BY NextTypeOK, NextWork, NextMends DEF IInv
<1>3. QED
  BY <1>1, <1>2, PTL DEF Spec

\* When every replay produced a covered report, the job stops for want of
\* candidates only when no report of TIER1 is low that is the newest of its kind.
THEOREM SmoothMeansRepaired == Spec => SmoothReplayRepairsAll
<1>1. ASSUME IInv, NothingLeft, smooth, strategy = "same"
      PROVE  EffectiveLow(table) = {}
  <2>1. Listed(table) \subseteq tried /\ table \in Seq(Report)
    BY <1>1, EverythingTried DEF IInv, TypeOK, ReplayTypeOK
  <2>2. tried \intersect EffectiveLow(table) = {}
    BY <1>1 DEF IInv, MendInv
  <2>3. QED
    BY <2>1, <2>2, FirstIsListed
<1>2. IInv => (NothingLeft /\ smooth /\ strategy = "same" => EffectiveLow(table) = {})
  BY <1>1
<1>3. QED
  BY <1>2, Inductive, PTL DEF SmoothReplayRepairsAll

\* Running the newest report of its kind again never takes coverage from its
\* mode: what a replay may uncover was superseded before.
THEOREM NewestUncoversNothing == Spec => CoverageLostOnlyBySuperseded
<1>1. ASSUME IInv, NEW i \in batch, Replayed(i), i \in Latest(table),
             NEW k \in CoveredNow(table) \ CoveredNow(table'), k[2] = table[i].mode
      PROVE  FALSE
  <2>1. PICK j \in Latest(table) : table[j].grade.covered /\ k = Key(table[j])
    BY <1>1 DEF CoveredNow
  <2>2. /\ table \in Seq(Report) /\ table' \in Seq(Report) /\ Grows(table, table')
        /\ i \in DOMAIN table /\ j \in DOMAIN table /\ i \in Nat /\ j \in Nat
    BY <1>1, ReplayedGrows, LenProperties DEF IInv, TypeOK, ReplayTypeOK, Latest
  <2>3. table'[j] = table[j] /\ j \in DOMAIN table' /\ \A p \in DOMAIN table : table'[p] = table[p]
    BY <2>2, OldRowsStay
  <2>4. CASE table[j].scn = table[i].scn
    <3>1. table[j].mode = table[i].mode
      BY <1>1, <2>1 DEF Key
    <3>2. Key(table[j]) = Key(table[i])
      BY <2>4, <3>1 DEF Key
    <3>3. i = j
      BY <1>1, <2>1, <2>2, <3>2 DEF Latest
    <3>4. ~table[i].grade.covered
      BY <1>1 DEF IInv, LowInv, Low
    <3>5. QED
      BY <2>1, <3>3, <3>4
  <2>5. CASE table[j].scn # table[i].scn
    <3>1. \A p \in DOMAIN table' \ DOMAIN table : table'[p].scn = table[i].scn
      BY <1>1, ReplayedRows DEF IInv, TypeOK
    <3>2. \A p \in DOMAIN table' \ DOMAIN table : Key(table'[p]) # Key(table'[j])
      BY <2>3, <2>5, <3>1 DEF Key
    <3>3. \A p \in DOMAIN table : p > j => Key(table'[p]) # Key(table'[j])
      BY <2>1, <2>3 DEF Latest
    <3>4. j \in Latest(table')
      BY <2>3, <3>2, <3>3 DEF Latest
    <3>5. k \in CoveredNow(table')
      BY <2>1, <2>3, <3>4 DEF CoveredNow
    <3>6. QED
      BY <1>1, <3>5
  <2>6. QED
    BY <2>4, <2>5
<1>2. IInv => \A i \in batch : Replayed(i) /\ i \in Latest(table) =>
                \A k \in CoveredNow(table) \ CoveredNow(table') : k[2] # table[i].mode
  BY <1>1
<1>3. QED
  BY <1>2, Inductive, PTL DEF CoverageLostOnlyBySuperseded
=============================================================================
