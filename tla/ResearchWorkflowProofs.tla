----------------------- MODULE ResearchWorkflowProofs -----------------------
(***************************************************************************)
(* Theorems about ResearchWorkflow, for every budget, impact limit, repair *)
(* limit, set of scores and provider.                                      *)
(***************************************************************************)
EXTENDS WorkflowRefinement, FiniteSetTheorems, TLAPS

-----------------------------------------------------------------------------
(* Facts about the operators *)

LEMMA WorstType == ASSUME NEW S PROVE Worst(S) \in Status
  BY DEF Worst, Status

\* Merging is the maximum of the two statuses.
LEMMA MergeIsMax ==
  ASSUME NEW a \in Status, NEW b \in Status
  PROVE  /\ Merge(a, b) \in Status
         /\ Merge(a, b) = "OK" <=> a = "OK" /\ b = "OK"
         /\ a = "DEGRADED" \/ b = "DEGRADED" => Merge(a, b) = "DEGRADED"
  BY DEF Merge, Worst, Status

\* Noting a degradation keeps the matrix a matrix, never clears a DEGRADED
\* entry, and changes only the entry it names.
LEMMA NoteKeeps ==
  ASSUME NEW m \in [Dependencies -> Status], NEW dep \in Dependencies, NEW s \in Status
  PROVE  /\ Note(m, dep, s) \in [Dependencies -> Status]
         /\ Note(m, dep, s)[dep] = Merge(m[dep], s)
         /\ \A d \in Dependencies : m[d] = "DEGRADED" => Note(m, dep, s)[d] = "DEGRADED"
         /\ \A d \in Dependencies \ {dep} : Note(m, dep, s)[d] = m[d]
<1>1. m[dep] \in Status
  OBVIOUS
<1>2. Merge(m[dep], s) \in Status
  BY <1>1, MergeIsMax
<1>3. m[dep] = "DEGRADED" => Merge(m[dep], s) = "DEGRADED"
  BY <1>1, MergeIsMax
<1>4. QED
  BY <1>2, <1>3 DEF Note

\* A synced quality is OK only if it was, and every dependency is.
LEMMA SyncOK ==
  ASSUME NEW q, NEW m
  PROVE  /\ Sync(q, m) \in Status
         /\ q \in Status /\ m \in [Dependencies -> Status] /\ Sync(q, m) = "OK"
            => q = "OK" /\ \A d \in Dependencies : m[d] = "OK"
  BY WorstType DEF Sync, Worst, Status

LEMMA ExhaustedKeeps ==
  ASSUME NEW m \in [Dependencies -> Status]
  PROVE  /\ Exhausted(m) \in [Dependencies -> Status]
         /\ Exhausted(m)["budget"] = "DEGRADED"
<1>1. "budget" \in Dependencies /\ "DEGRADED" \in Status
  BY DEF Dependencies, Status
<1>2. m["budget"] \in Status
  BY <1>1
<1>3. QED
  BY <1>1, <1>2, NoteKeeps, MergeIsMax DEF Exhausted

LEMMA ConfidenceType ==
  ASSUME NEW s \in 0..100
  PROVE  /\ ScoreConfidence(s) \in 450..850
         /\ ProposedAction(s) \in Actions
  BY DEF ScoreConfidence, Smaller, ProposedAction, Actions

\* The smaller of two confidences.
LEMMA SmallerIsLeast ==
  ASSUME NEW a \in Confidence, NEW b \in Confidence
  PROVE  Smaller(a, b) \in Confidence /\ Smaller(a, b) <= a /\ Smaller(a, b) <= b
  BY DEF Smaller, Confidence

\* The drafts and fallbacks are reports.
LEMMA FallbackType == TypeOK => Fallback \in Report
<1> SUFFICES ASSUME TypeOK PROVE Fallback \in Report
  OBVIOUS
<1>1. ScoreConfidence(score) \in 450..850
  BY ConfidenceType DEF TypeOK
<1>2. Smaller(ScoreConfidence(score), 450) \in Confidence
  BY <1>1 DEF Smaller, Confidence
<1>3. QED
  BY <1>2 DEF Fallback, Report, RequestDefects, Actions, Status

LEMMA DraftType ==
  ASSUME TypeOK, NEW extra \in SUBSET DraftDefects
  PROVE  Draft(extra) \in Report
<1>1. ScoreConfidence(score) \in 450..850 /\ ProposedAction(score) \in Actions
  BY ConfidenceType DEF TypeOK
<1>2. ScoreConfidence(score) \in Confidence
  BY <1>1 DEF Confidence
<1>3. RequestDefects \cup extra \in SUBSET {"request", "links", "graph", "meta"}
  BY DefectsAssumption DEF RequestDefects
<1>4. dq \in Status
  BY DEF TypeOK
<1>5. QED
  BY <1>1, <1>2, <1>3, <1>4 DEF Draft, Report

LEMMA ReportFields ==
  ASSUME NEW r \in Report
  PROVE  /\ r.action \in Actions \cup {"NONE"}
         /\ r.conf \in Confidence
         /\ r.dq \in Status
         /\ r.highRisk \in BOOLEAN
         /\ r.reviewer \in {"NONE", "SKIPPED_BUDGET", "rule-reviewer-v1"}
         /\ r.defects \in SUBSET {"request", "links", "graph", "meta"}
  BY DEF Report

LEMMA ConfIsInt == ASSUME NEW r \in Report PROVE r.conf \in Int
  BY DEF Report, Confidence

\* Reports with one field set.
LEMMA SetAction ==
  ASSUME NEW r \in Report, NEW a \in Actions \cup {"NONE"}
  PROVE  /\ [r EXCEPT !.action = a] \in Report
         /\ [r EXCEPT !.action = a].action = a
         /\ [r EXCEPT !.action = a].conf = r.conf
         /\ [r EXCEPT !.action = a].dq = r.dq
         /\ [r EXCEPT !.action = a].highRisk = r.highRisk
         /\ [r EXCEPT !.action = a].reviewer = r.reviewer
         /\ [r EXCEPT !.action = a].defects = r.defects
  BY DEF Report

LEMMA SetConf ==
  ASSUME NEW r \in Report, NEW c \in Confidence
  PROVE  /\ [r EXCEPT !.conf = c] \in Report
         /\ [r EXCEPT !.conf = c].conf = c
         /\ [r EXCEPT !.conf = c].action = r.action
         /\ [r EXCEPT !.conf = c].dq = r.dq
         /\ [r EXCEPT !.conf = c].highRisk = r.highRisk
         /\ [r EXCEPT !.conf = c].reviewer = r.reviewer
         /\ [r EXCEPT !.conf = c].defects = r.defects
  BY DEF Report

LEMMA SetQuality ==
  ASSUME NEW r \in Report, NEW q \in Status
  PROVE  /\ [r EXCEPT !.dq = q] \in Report
         /\ [r EXCEPT !.dq = q].dq = q
         /\ [r EXCEPT !.dq = q].action = r.action
         /\ [r EXCEPT !.dq = q].conf = r.conf
         /\ [r EXCEPT !.dq = q].highRisk = r.highRisk
         /\ [r EXCEPT !.dq = q].reviewer = r.reviewer
         /\ [r EXCEPT !.dq = q].defects = r.defects
  BY DEF Report

LEMMA SetReviewer ==
  ASSUME NEW r \in Report, NEW w \in {"NONE", "SKIPPED_BUDGET", "rule-reviewer-v1"}
  PROVE  /\ [r EXCEPT !.reviewer = w] \in Report
         /\ [r EXCEPT !.reviewer = w].reviewer = w
         /\ [r EXCEPT !.reviewer = w].action = r.action
         /\ [r EXCEPT !.reviewer = w].conf = r.conf
         /\ [r EXCEPT !.reviewer = w].dq = r.dq
         /\ [r EXCEPT !.reviewer = w].highRisk = r.highRisk
         /\ [r EXCEPT !.reviewer = w].defects = r.defects
  BY DEF Report

LEMMA SetDefects ==
  ASSUME NEW r \in Report, NEW d \in SUBSET {"request", "links", "graph", "meta"}
  PROVE  /\ [r EXCEPT !.defects = d] \in Report
         /\ [r EXCEPT !.defects = d].defects = d
         /\ [r EXCEPT !.defects = d].action = r.action
         /\ [r EXCEPT !.defects = d].conf = r.conf
         /\ [r EXCEPT !.defects = d].dq = r.dq
         /\ [r EXCEPT !.defects = d].highRisk = r.highRisk
         /\ [r EXCEPT !.defects = d].reviewer = r.reviewer
  BY DEF Report

LEMMA CappedFields ==
  ASSUME NEW r \in Report, NEW cap \in Confidence
  PROVE  /\ Capped(r, cap) \in Report
         /\ Capped(r, cap).conf <= r.conf /\ Capped(r, cap).conf <= cap
         /\ Capped(r, cap).action = r.action /\ Capped(r, cap).dq = r.dq
         /\ Capped(r, cap).highRisk = r.highRisk
         /\ Capped(r, cap).reviewer = r.reviewer
         /\ Capped(r, cap).defects = r.defects
<1> DEFINE least == Smaller(r.conf, cap)
           c == [r EXCEPT !.conf = least]
<1>1. least \in Confidence /\ least <= r.conf /\ least <= cap
  BY ReportFields, SmallerIsLeast, Zenon
<1>2. Capped(r, cap) = c
  BY DEF Capped
<1> HIDE DEF least
<1>3. /\ c \in Report /\ c.conf = least /\ c.action = r.action /\ c.dq = r.dq
      /\ c.highRisk = r.highRisk /\ c.reviewer = r.reviewer /\ c.defects = r.defects
  BY <1>1, SetConf, Zenon
<1> HIDE DEF c
<1>4. QED
  BY <1>1, <1>2, <1>3

LEMMA DemotedFields ==
  ASSUME NEW r \in Report, NEW cap \in Confidence
  PROVE  /\ Demoted(r, cap) \in Report
         /\ Demoted(r, cap).conf <= r.conf /\ Demoted(r, cap).conf <= cap
         /\ Demoted(r, cap).action = Lowered(r.action) /\ Demoted(r, cap).dq = r.dq
         /\ Demoted(r, cap).highRisk = r.highRisk
         /\ Demoted(r, cap).reviewer = r.reviewer
         /\ Demoted(r, cap).defects = r.defects
<1> DEFINE low == Lowered(r.action)
           lowered == [r EXCEPT !.action = low]
<1>1. low \in Actions \cup {"NONE"}
  BY ReportFields DEF Lowered, Actions
<1>2. Demoted(r, cap) = Capped(lowered, cap)
  BY DEF Demoted
<1> HIDE DEF low
<1>3. /\ lowered \in Report /\ lowered.action = low /\ lowered.conf = r.conf
      /\ lowered.highRisk = r.highRisk /\ lowered.dq = r.dq
      /\ lowered.reviewer = r.reviewer /\ lowered.defects = r.defects
  BY <1>1, SetAction, Zenon
<1> HIDE DEF lowered
<1>4. QED
  BY <1>2, <1>3, CappedFields DEF low

\* No step lowers to BUY.
LEMMA LoweredIsNotBuy == \A a : Lowered(a) # "BUY"
  BY DEF Lowered

\* The gate keeps everything but the decision, and BUY only on OK data.
LEMMA GatedFields ==
  ASSUME NEW r \in Report
  PROVE  /\ Gated(r) \in Report
         /\ Gated(r).action \in {r.action, Lowered(r.action)}
         /\ Gated(r).action = "BUY" => r.action = "BUY" /\ r.dq = "OK"
         /\ Gated(r).conf <= r.conf
         /\ Gated(r).dq = r.dq
         /\ Gated(r).highRisk = r.highRisk
         /\ Gated(r).reviewer = r.reviewer
         /\ Gated(r).defects = r.defects
<1> DEFINE capped == IF r.action = "BUY" THEN Capped(r, 700) ELSE r
           cap == IF r.dq = "PARTIAL" THEN 500 ELSE 450
<1>1. 700 \in Confidence /\ cap \in Confidence
  BY DEF Confidence
<1>2. r.conf \in Int
  BY ReportFields DEF Confidence
<1>3. /\ capped \in Report /\ capped.conf <= r.conf /\ capped.action = r.action
      /\ capped.dq = r.dq /\ capped.highRisk = r.highRisk
      /\ capped.reviewer = r.reviewer /\ capped.defects = r.defects
  BY <1>1, <1>2, CappedFields
<1>4. Gated(r) = IF r.dq = "OK" THEN capped ELSE Demoted(capped, cap)
  BY DEF Gated
<1> HIDE DEF capped, cap
<1> DEFINE d == Demoted(capped, cap)
<1>5. /\ d \in Report /\ d.conf <= capped.conf /\ d.action = Lowered(capped.action)
      /\ d.dq = capped.dq /\ d.highRisk = capped.highRisk
      /\ d.reviewer = capped.reviewer /\ d.defects = capped.defects
  BY <1>1, <1>3, DemotedFields
<1> HIDE DEF d
<1>6. d.conf \in Int /\ capped.conf \in Int
  BY <1>3, <1>5, ConfIsInt, Zenon
<1>7. QED
  BY <1>2, <1>3, <1>4, <1>5, <1>6, LoweredIsNotBuy DEF d

\* A review signs the report; a BUY survives it only without critical finding.
LEMMA ReviewedFields ==
  ASSUME NEW r \in Report
  PROVE  /\ Reviewed(r) \in Report
         /\ Reviewed(r).reviewer = "rule-reviewer-v1"
         /\ Reviewed(r).action \in {r.action, Lowered(r.action)}
         /\ Reviewed(r).action = "BUY" => r.action = "BUY" /\ ~Critical(r) /\ Reviewed(r).dq = r.dq
         /\ Reviewed(r).conf <= r.conf
         /\ Reviewed(r).dq \in {r.dq, Merge(r.dq, "PARTIAL")}
         /\ Reviewed(r).defects = r.defects
<1> DEFINE signed == [r EXCEPT !.reviewer = "rule-reviewer-v1"]
           worst == Merge(r.dq, "PARTIAL")
           worse == [signed EXCEPT !.dq = worst]
           d == Demoted(worse, 550)
<1>1. r.conf \in Int /\ worst \in Status /\ 550 \in Confidence
  BY ReportFields, WorstType DEF Confidence, Merge
<1>2. /\ signed \in Report /\ signed.reviewer = "rule-reviewer-v1" /\ signed.dq = r.dq
      /\ signed.action = r.action /\ signed.conf = r.conf /\ signed.defects = r.defects
  BY SetReviewer, Zenon
<1>3. Reviewed(r) = IF Critical(r) THEN d ELSE signed
  BY <1>2 DEF Reviewed
<1> HIDE DEF signed, worst
<1>4. /\ worse \in Report /\ worse.reviewer = signed.reviewer /\ worse.dq = worst
      /\ worse.action = signed.action /\ worse.conf = signed.conf /\ worse.defects = signed.defects
  BY <1>1, <1>2, SetQuality, Zenon
<1> HIDE DEF worse
<1>5. /\ d \in Report /\ d.reviewer = worse.reviewer /\ d.dq = worse.dq
      /\ d.action = Lowered(worse.action) /\ d.conf <= worse.conf /\ d.defects = worse.defects
  BY <1>1, <1>4, DemotedFields
<1> HIDE DEF d
<1>6. QED
  BY <1>1, <1>2, <1>3, <1>4, <1>5, LoweredIsNotBuy DEF worst

\* A repair removes link defects, and takes BUY away from data that is not OK.
LEMMA RepairedFields ==
  ASSUME NEW r \in Report
  PROVE  /\ Repaired(r) \in Report
         /\ Repaired(r).reviewer = r.reviewer
         /\ Repaired(r).action \in {r.action, Lowered(r.action)}
         /\ Repaired(r).action = "BUY" => r.action = "BUY" /\ Repaired(r).dq = "OK"
         /\ Repaired(r).conf <= r.conf
         /\ Repaired(r).dq \in {r.dq, Merge(r.dq, "PARTIAL")}
<1> DEFINE rest == r.defects \ {"links"}
           linked == [r EXCEPT !.defects = rest]
           worst == Merge(r.dq, "PARTIAL")
           worse == [linked EXCEPT !.dq = worst]
           honest == IF covered THEN linked ELSE worse
           d == Demoted(honest, 550)
<1>1. r.conf \in Int /\ worst \in Status /\ 550 \in Confidence
  BY ReportFields, WorstType DEF Confidence, Merge
<1>2. rest \in SUBSET {"request", "links", "graph", "meta"}
  BY ReportFields
<1> HIDE DEF rest
<1>3. /\ linked \in Report /\ linked.reviewer = r.reviewer /\ linked.dq = r.dq
      /\ linked.action = r.action /\ linked.conf = r.conf
  BY <1>2, SetDefects, Zenon
<1>4. Repaired(r) = IF honest.dq # "OK" /\ honest.action = "BUY" THEN d ELSE honest
  BY <1>3 DEF Repaired, rest
<1> HIDE DEF linked, worst
<1>5. /\ worse \in Report /\ worse.reviewer = linked.reviewer /\ worse.dq = worst
      /\ worse.action = linked.action /\ worse.conf = linked.conf
  BY <1>1, <1>3, SetQuality, Zenon
<1> HIDE DEF worse
<1>6. /\ honest \in Report /\ honest.reviewer = r.reviewer /\ honest.dq \in {r.dq, worst}
      /\ honest.action = r.action /\ honest.conf = r.conf
  BY <1>3, <1>5
<1> HIDE DEF honest
<1>7. /\ d \in Report /\ d.reviewer = honest.reviewer /\ d.dq = honest.dq
      /\ d.action = Lowered(honest.action) /\ d.conf <= honest.conf
  BY <1>1, <1>6, DemotedFields
<1> HIDE DEF d
<1>8. QED
  BY <1>1, <1>4, <1>6, <1>7, LoweredIsNotBuy DEF worst

-----------------------------------------------------------------------------
(* Type correctness *)

\* What the types of `used' and `repairs' rest on: nothing is called before
\* build_facts, and a repair starts below the limit.
TypeInv ==
  /\ TypeOK
  /\ pc = "build_facts" => used = 0
  /\ pc = "repair_report" => repairs < MaxRepairs

LEMMA InitTypeInv == Init => TypeInv
<1> SUFFICES ASSUME Init PROVE TypeInv
  OBVIOUS
<1>1. maxCalls \in Nat
  BY BudgetAssumption DEF Init
<1>2. repairs \in 0..MaxRepairs
  BY RepairsAssumption DEF Init
<1>3. report \in Report
  BY DEF Init, NoReport, Report, Confidence, Status
<1>4. matrix \in [Dependencies -> Status] /\ dq \in Status
  BY DEF Init, Status
<1>5. pc \in Nodes \cup Ended
  BY DEF Init, Nodes
<1>6. evidence \in EvidenceCounts
  BY DEF Init, EvidenceCounts
<1>7. score \in 0..100 /\ used \in Nat /\ entities \in Nat
  BY DEF Init
<1>8. /\ requestFits \in BOOLEAN /\ budgetDegraded \in BOOLEAN /\ covered \in BOOLEAN
      /\ errors \in BOOLEAN /\ invalid \in BOOLEAN /\ noteWritten \in BOOLEAN
      /\ status \in {"NONE", "DONE", "FAILED"} /\ tier \in Tiers
  BY DEF Init
<1>9. TypeOK
  BY <1>1, <1>2, <1>3, <1>4, <1>5, <1>6, <1>7, <1>8, Zenon DEF TypeOK
<1>10. QED
  BY <1>9 DEF Init, TypeInv

\* What calls and their accounting change keeps its type.
CallTyped ==
  /\ used' \in Nat /\ budgetDegraded' \in BOOLEAN
  /\ matrix' \in [Dependencies -> Status] /\ dq' \in Status

\* A guarded call or a skipped one keeps the types of what it changes.
LEMMA EnrichType ==
  ASSUME TypeOK, NEW dep \in Dependencies, NEW o, NEW failed \in Status,
         Enrich(dep, o, failed)
  PROVE  CallTyped
<1> DEFINE s == IF o = "failed" THEN failed ELSE IF o = "degraded" THEN "PARTIAL" ELSE "OK"
<1>1. s \in Status
  BY DEF Status
<1>2. matrix' = Note(matrix, dep, s)
  BY DEF Enrich
<1> HIDE DEF s
<1>3. matrix' \in [Dependencies -> Status]
  BY <1>1, <1>2, NoteKeeps DEF TypeOK
<1>4. dq' \in Status
  BY SyncOK DEF Enrich
<1>5. used' \in Nat /\ budgetDegraded' \in BOOLEAN
  BY DEF Enrich, TypeOK
<1>6. QED
  BY <1>3, <1>4, <1>5 DEF CallTyped

LEMMA SkipType ==
  ASSUME TypeOK, NEW m \in [Dependencies -> Status], Skip(m)
  PROVE  CallTyped
<1>1. used' \in Nat /\ budgetDegraded' \in BOOLEAN
  BY DEF Skip, TypeOK
<1>2. matrix' \in [Dependencies -> Status]
  BY ExhaustedKeeps DEF Skip
<1>3. dq' \in Status
  BY SyncOK DEF Skip
<1>4. QED
  BY <1>1, <1>2, <1>3 DEF CallTyped

LEMMA EvidenceType ==
  ASSUME TypeOK, NEW n \in Nat
  PROVE  /\ [evidence EXCEPT !.facts = n] \in EvidenceCounts
         /\ [evidence EXCEPT !.docs = n] \in EvidenceCounts
         /\ [evidence EXCEPT !.notes = n] \in EvidenceCounts
         /\ [evidence EXCEPT !.graph = n] \in EvidenceCounts
  BY DEF TypeOK, EvidenceCounts

\* build_facts
LEMMA BuildFactsType == TypeInv /\ BuildFacts => TypeInv'
<1> SUFFICES ASSUME TypeInv, BuildFacts PROVE TypeInv'
  OBVIOUS
<1> USE DEF TypeInv
<1> DEFINE calls == Smaller(FactTools(tier), maxCalls - used)
           short == calls < FactTools(tier)
<1>1. PICK out \in [1..calls -> FactOutcome] :
        LET noted == Note(matrix, "data_source", Worst({FactNote(out[i]) : i \in 1..calls}))
            m == IF short THEN Exhausted(noted) ELSE noted
        IN  /\ used' = used + calls
            /\ budgetDegraded' = short
            /\ matrix' = m
            /\ dq' = Sync(Worst({FactQuality(out[i]) : i \in 1..calls}), m)
            /\ evidence' = [evidence EXCEPT !.facts = Cardinality({i \in 1..calls : out[i] # "failed"})]
  BY DEF BuildFacts
<1>2. calls \in Nat
  BY DEF BuildFacts, TypeOK, FactTools, Smaller
<1> DEFINE noted == Note(matrix, "data_source", Worst({FactNote(out[i]) : i \in 1..calls}))
           live == {i \in 1..calls : out[i] # "failed"}
<1>3. used' \in Nat /\ budgetDegraded' \in BOOLEAN
  BY <1>1, <1>2 DEF TypeOK
<1>4. noted \in [Dependencies -> Status]
  BY WorstType, NoteKeeps DEF TypeOK, Dependencies
<1>5. matrix' \in [Dependencies -> Status]
  BY <1>1, <1>4, ExhaustedKeeps
<1>6. dq' \in Status
  BY <1>1, SyncOK
<1>7. Cardinality(live) \in Nat
  <2>1. IsFiniteSet(1..calls)
    BY <1>2, FS_Interval
  <2>2. IsFiniteSet(live)
    BY <2>1, FS_Subset
  <2>3. QED
    BY <2>2, FS_CardinalityType
<1>8. evidence' \in EvidenceCounts
  BY <1>1, <1>7, EvidenceType
<1>9. pc' = "score_signal" /\ UNCHANGED <<request, score, entities, covered, report, repairs, outcome>>
  BY DEF BuildFacts
<1>10. QED
  BY <1>3, <1>5, <1>6, <1>8, <1>9 DEF TypeOK, request, outcome, Nodes

\* score_signal, generate_price_bands
LEMMA ScoreSignalType == TypeInv /\ ScoreSignal => TypeInv'
<1> SUFFICES ASSUME TypeInv, ScoreSignal PROVE TypeInv'
  OBVIOUS
<1> USE DEF TypeInv
<1>1. used' \in Nat /\ score' \in 0..100
  <2>1. used' \in Nat
    BY DEF ScoreSignal, TypeOK
  <2>2. score' \in ScoreValues \/ score' = score
    BY DEF ScoreSignal
  <2>3. QED
    BY <2>1, <2>2, ScoreAssumption DEF TypeOK
<1>2. pc' \in {"price_bands", "tool_error"}
  BY DEF ScoreSignal
<1>3. UNCHANGED <<request, budgetDegraded, dq, matrix, evidence, entities, covered, report, repairs, outcome>>
  BY DEF ScoreSignal
<1>4. QED
  BY <1>1, <1>2, <1>3 DEF TypeOK, request, outcome, Nodes, Ended

LEMMA PriceBandsType == TypeInv /\ PriceBands => TypeInv'
<1> SUFFICES ASSUME TypeInv, PriceBands PROVE TypeInv'
  OBVIOUS
<1> USE DEF TypeInv
<1>1. used' \in Nat
  BY DEF PriceBands, TypeOK
<1>2. pc' \in {"retrieve_memory", "tool_error"}
  BY DEF PriceBands
<1>3. UNCHANGED <<request, budgetDegraded, dq, matrix, score, evidence, entities, covered, report, repairs, outcome>>
  BY DEF PriceBands
<1>4. QED
  BY <1>1, <1>2, <1>3 DEF TypeOK, request, outcome, Nodes, Ended
\* retrieve_memory
LEMMA RetrieveMemoryType == TypeInv /\ RetrieveMemory => TypeInv'
<1> SUFFICES ASSUME TypeInv, RetrieveMemory PROVE TypeInv'
  OBVIOUS
<1> USE DEF TypeInv
<1>1. CallTyped /\ evidence' \in EvidenceCounts
  <2>1. CASE ~HasBudget
    <3>1. /\ budgetDegraded' = TRUE /\ matrix' = Exhausted(matrix) /\ dq' = Sync(dq, matrix')
          /\ UNCHANGED <<used, evidence>>
      BY <2>1 DEF RetrieveMemory
    <3>2. QED
      BY <3>1, ExhaustedKeeps, SyncOK DEF CallTyped, TypeOK
  <2>2. CASE HasBudget
    <3> DEFINE short == tier \in Enriched /\ used' >= maxCalls
    <3>1. used' = used + 1
      BY <2>2 DEF RetrieveMemory
    <3>2. PICK ok \in BOOLEAN, notes \in 0..MaxNotes :
            LET noted == IF ok THEN matrix ELSE Note(matrix, "data_source", "PARTIAL")
            IN  /\ budgetDegraded' = (budgetDegraded \/ short)
                /\ matrix' = IF short THEN Exhausted(noted) ELSE noted
                /\ dq' = Sync(IF ok THEN dq ELSE "DEGRADED", matrix')
                /\ evidence' = [evidence EXCEPT !.notes = notes]
      BY <2>2 DEF RetrieveMemory
    <3> DEFINE noted == IF ok THEN matrix ELSE Note(matrix, "data_source", "PARTIAL")
    <3>3. noted \in [Dependencies -> Status]
      BY NoteKeeps DEF TypeOK, Dependencies, Status
    <3>4. matrix' \in [Dependencies -> Status]
      BY <3>2, <3>3, ExhaustedKeeps
    <3>5. dq' \in Status
      BY <3>2, SyncOK
    <3>6. evidence' \in EvidenceCounts
      <4>1. notes \in Nat
        BY NotesAssumption
      <4>2. QED
        BY <3>2, <4>1, EvidenceType
    <3>7. used' \in Nat /\ budgetDegraded' \in BOOLEAN
      BY <3>1, <3>2 DEF TypeOK
    <3>8. QED
      BY <3>4, <3>5, <3>6, <3>7 DEF CallTyped
  <2>3. QED
    BY <2>1, <2>2
<1>2. pc' \in {"build_context", "graph_subtree", "search_docs"}
  BY DEF RetrieveMemory, AfterMemory
<1>3. UNCHANGED <<request, score, entities, covered, report, repairs, outcome>>
  BY DEF RetrieveMemory
<1>4. QED
  BY <1>1, <1>2, <1>3 DEF CallTyped, TypeOK, request, outcome, Nodes

\* The RAG chain and the subtree.
LEMMA SearchDocsType == TypeInv /\ SearchDocs => TypeInv'
<1> SUFFICES ASSUME TypeInv, SearchDocs PROVE TypeInv'
  OBVIOUS
<1> USE DEF TypeInv
<1>1. CallTyped /\ evidence' \in EvidenceCounts
  <2>1. CASE Skip(matrix) /\ UNCHANGED evidence
    BY <2>1, SkipType DEF TypeOK
  <2>2. ASSUME NEW o \in ToolOutcome, NEW docs \in 0..MaxDocs, Enrich("rag", o, "DEGRADED"),
               evidence' = [evidence EXCEPT !.docs = docs]
        PROVE  CallTyped /\ evidence' \in EvidenceCounts
    <3>1. CallTyped
      BY <2>2, EnrichType DEF Dependencies, Status
    <3>2. docs \in Nat
      BY DocsAssumption
    <3>3. QED
      BY <2>2, <3>1, <3>2, EvidenceType
  <2>3. QED
    BY <2>1, <2>2 DEF SearchDocs
<1>2. pc' = "rerank_docs" /\ UNCHANGED <<request, score, entities, covered, report, repairs, outcome>>
  BY DEF SearchDocs
<1>3. QED
  BY <1>1, <1>2 DEF CallTyped, TypeOK, request, outcome, Nodes

LEMMA RerankDocsType == TypeInv /\ RerankDocs => TypeInv'
<1> SUFFICES ASSUME TypeInv, RerankDocs PROVE TypeInv'
  OBVIOUS
<1> USE DEF TypeInv
<1>1. CallTyped
  <2>1. CASE Idle
    BY <2>1 DEF Idle, CallTyped, TypeOK
  <2>2. CASE Skip(matrix)
    BY <2>2, SkipType DEF TypeOK
  <2>3. ASSUME NEW o \in ToolOutcome, Enrich("rag", o, "PARTIAL") PROVE CallTyped
    BY <2>3, EnrichType DEF Dependencies, Status
  <2>4. QED
    BY <2>1, <2>2, <2>3 DEF RerankDocs
<1>2. pc' = "extract_events" /\ UNCHANGED <<request, score, evidence, entities, covered, report, repairs, outcome>>
  BY DEF RerankDocs
<1>3. QED
  BY <1>1, <1>2 DEF CallTyped, TypeOK, request, outcome, Nodes

LEMMA ExtractEventsType == TypeInv /\ ExtractEvents => TypeInv'
<1> SUFFICES ASSUME TypeInv, ExtractEvents PROVE TypeInv'
  OBVIOUS
<1> USE DEF TypeInv
<1>1. CallTyped /\ entities' \in Nat
  <2>1. CASE Idle /\ entities' = 0
    BY <2>1 DEF Idle, CallTyped, TypeOK
  <2>2. CASE Skip(matrix) /\ entities' = 0
    BY <2>2, SkipType DEF TypeOK
  <2>3. ASSUME NEW o \in ToolOutcome, NEW n \in 0..ImpactLimit[tier],
               Enrich("rag", o, "PARTIAL"), entities' = n
        PROVE CallTyped /\ entities' \in Nat
    <3>1. ImpactLimit[tier] \in Nat
      BY ImpactAssumption DEF TypeOK
    <3>2. n \in Nat
      BY <3>1
    <3>3. QED
      BY <2>3, <3>2, EnrichType DEF Dependencies, Status
  <2>4. QED
    BY <2>1, <2>2, <2>3 DEF ExtractEvents
<1>2. pc' = "graph_subtree" /\ UNCHANGED <<request, score, evidence, covered, report, repairs, outcome>>
  BY DEF ExtractEvents
<1>3. QED
  BY <1>1, <1>2 DEF CallTyped, TypeOK, request, outcome, Nodes

LEMMA GraphSubtreeType == TypeInv /\ GraphSubtree => TypeInv'
<1> SUFFICES ASSUME TypeInv, GraphSubtree PROVE TypeInv'
  OBVIOUS
<1> USE DEF TypeInv
<1>1. CallTyped /\ evidence' \in EvidenceCounts
  <2>1. CASE Skip(Note(matrix, "graph", "PARTIAL")) /\ UNCHANGED evidence
    <3>1. Note(matrix, "graph", "PARTIAL") \in [Dependencies -> Status]
      BY NoteKeeps DEF TypeOK, Dependencies, Status
    <3>2. QED
      BY <2>1, <3>1, SkipType DEF TypeOK
  <2>2. ASSUME NEW o \in ToolOutcome, Enrich("graph", o, "DEGRADED"),
               evidence' = [evidence EXCEPT !.graph = IF o = "failed" THEN 0 ELSE 2]
        PROVE  CallTyped /\ evidence' \in EvidenceCounts
    <3>1. CallTyped
      BY <2>2, EnrichType DEF Dependencies, Status
    <3>2. (IF o = "failed" THEN 0 ELSE 2) \in Nat
      OBVIOUS
    <3>3. QED
      BY <2>2, <3>1, <3>2, EvidenceType
  <2>3. QED
    BY <2>1, <2>2 DEF GraphSubtree
<1>2. pc' = "impact_paths" /\ UNCHANGED <<request, score, entities, covered, report, repairs, outcome>>
  BY DEF GraphSubtree
<1>3. QED
  BY <1>1, <1>2 DEF CallTyped, TypeOK, request, outcome, Nodes

LEMMA ImpactPathsType == TypeInv /\ ImpactPaths => TypeInv'
<1> SUFFICES ASSUME TypeInv, ImpactPaths PROVE TypeInv'
  OBVIOUS
<1> USE DEF TypeInv
<1> DEFINE left == IF HasBudget THEN maxCalls - used ELSE 0
           Calls(n) == Smaller(2 * n, left)
           Asked(n) == (Calls(n) + 1) \div 2
           Noted(failures) == IF failures = 0 THEN matrix ELSE Note(matrix, "graph", "PARTIAL")
<1>1. PICK n \in 0..ImpactLimit[tier] :
        \E failures \in 0..Calls(n), lost \in 0..Asked(n) :
          /\ used' = used + Calls(n)
          /\ budgetDegraded' = (budgetDegraded \/ Calls(n) < 2 * n)
          /\ matrix' = IF Calls(n) < 2 * n THEN Exhausted(Noted(failures)) ELSE Noted(failures)
          /\ dq' = Sync(dq, matrix')
          /\ evidence' = [evidence EXCEPT !.graph = @ + Asked(n) - lost]
  BY DEF ImpactPaths
<1>2. n \in Nat
  BY ImpactAssumption DEF TypeOK
<1>3. left \in Nat
  BY DEF HasBudget, TypeOK
<1>4. Calls(n) \in Nat
  BY <1>2, <1>3 DEF Smaller
<1>5. Asked(n) \in Nat
  BY <1>4
<1> HIDE DEF left, Calls, Asked
<1>6. PICK failures \in 0..Calls(n), lost \in 0..Asked(n) :
          /\ used' = used + Calls(n)
          /\ budgetDegraded' = (budgetDegraded \/ Calls(n) < 2 * n)
          /\ matrix' = IF Calls(n) < 2 * n THEN Exhausted(Noted(failures)) ELSE Noted(failures)
          /\ dq' = Sync(dq, matrix')
          /\ evidence' = [evidence EXCEPT !.graph = @ + Asked(n) - lost]
  BY <1>1
<1>7. Noted(failures) \in [Dependencies -> Status]
  BY NoteKeeps DEF TypeOK, Dependencies, Status
<1>8. matrix' \in [Dependencies -> Status]
  BY <1>6, <1>7, ExhaustedKeeps
<1>9. dq' \in Status
  BY <1>6, SyncOK
<1>10. used' \in Nat /\ budgetDegraded' \in BOOLEAN
  BY <1>4, <1>6 DEF TypeOK
<1>11. evidence' \in EvidenceCounts
  <2>1. evidence.graph + Asked(n) - lost \in Nat
    BY <1>5 DEF TypeOK, EvidenceCounts
  <2>2. QED
    BY <1>6, <2>1, EvidenceType
<1>12. pc' = "build_context" /\ UNCHANGED <<request, score, entities, covered, report, repairs, outcome>>
  BY DEF ImpactPaths
<1>13. QED
  BY <1>8, <1>9, <1>10, <1>11, <1>12 DEF TypeOK, request, outcome, Nodes

\* Context, draft and gate.
LEMMA BuildContextType == TypeInv /\ BuildContext => TypeInv'
<1> SUFFICES ASSUME TypeInv, BuildContext PROVE TypeInv'
  OBVIOUS
<1> USE DEF TypeInv
<1>1. /\ used' \in Nat /\ budgetDegraded' \in BOOLEAN
      /\ matrix' \in [Dependencies -> Status] /\ evidence' \in EvidenceCounts
  <2> DEFINE Goal == /\ used' \in Nat /\ budgetDegraded' \in BOOLEAN
                     /\ matrix' \in [Dependencies -> Status] /\ evidence' \in EvidenceCounts
  <2>1. \A m \in [Dependencies -> Status] : Note(m, "rag", "PARTIAL") \in [Dependencies -> Status]
    BY NoteKeeps DEF Dependencies, Status
  <2>2. ASSUME ~NeedsNews, UNCHANGED <<used, budgetDegraded, matrix, evidence>> PROVE Goal
    BY <2>2 DEF TypeOK
  <2>3. ASSUME budgetDegraded' = TRUE, matrix' = Note(Exhausted(matrix), "rag", "PARTIAL"),
               UNCHANGED <<used, evidence>>
        PROVE  Goal
    BY <2>1, <2>3, ExhaustedKeeps DEF TypeOK
  <2>4. ASSUME used' = used + 1, UNCHANGED budgetDegraded,
               NEW docs \in 0..MaxDocs, NEW o \in ToolOutcome,
               matrix' = (IF o = "ok" /\ docs > 0 THEN matrix ELSE Note(matrix, "rag", "PARTIAL")),
               evidence' = [evidence EXCEPT !.docs = docs]
        PROVE  Goal
    <3>1. docs \in Nat
      BY DocsAssumption
    <3>2. evidence' \in EvidenceCounts
      BY <2>4, <3>1, EvidenceType
    <3>3. matrix' \in [Dependencies -> Status]
      BY <2>1, <2>4 DEF TypeOK
    <3>4. used' \in Nat /\ budgetDegraded' \in BOOLEAN
      BY <2>4 DEF TypeOK
    <3>5. QED
      BY <3>2, <3>3, <3>4
  <2> HIDE DEF Goal
  <2>5. Goal
    BY <2>2, <2>3, <2>4 DEF BuildContext
  <2>6. QED
    BY <2>5 DEF Goal
<1>2. dq' \in Status
  BY SyncOK DEF BuildContext
<1>3. covered' \in BOOLEAN
  BY DEF BuildContext, Coverage
<1>4. pc' = "draft_report" /\ UNCHANGED <<request, score, entities, report, repairs, outcome>>
  BY DEF BuildContext
<1>5. QED
  BY <1>1, <1>2, <1>3, <1>4 DEF TypeOK, request, outcome, Nodes

LEMMA DraftReportType == TypeInv /\ DraftReport => TypeInv'
<1> SUFFICES ASSUME TypeInv, DraftReport PROVE TypeInv'
  OBVIOUS
<1> USE DEF TypeInv
<1>1. \A m \in [Dependencies -> Status], s \in Status : Note(m, "llm", s) \in [Dependencies -> Status]
  BY NoteKeeps DEF Dependencies
<1>2. report' \in Report
  BY DraftType, FallbackType DEF DraftReport
<1>3. matrix' \in [Dependencies -> Status]
  <2>1. "DEGRADED" \in Status /\ "PARTIAL" \in Status
    BY DEF Status
  <2>2. \/ matrix' = Note(Exhausted(matrix), "llm", "DEGRADED")
        \/ matrix' = matrix
        \/ matrix' = Note(matrix, "llm", "PARTIAL")
        \/ matrix' = Note(matrix, "llm", "DEGRADED")
    BY DEF DraftReport
  <2>3. matrix \in [Dependencies -> Status] /\ Exhausted(matrix) \in [Dependencies -> Status]
    BY ExhaustedKeeps DEF TypeOK
  <2>4. QED
    BY <1>1, <2>1, <2>2, <2>3
<1>4. used' \in Nat /\ budgetDegraded' \in BOOLEAN
  <2>1. \/ budgetDegraded' = TRUE /\ used' = used
        \/ budgetDegraded' = budgetDegraded /\ used' = used + 1
    BY DEF DraftReport
  <2>2. used \in Nat /\ budgetDegraded \in BOOLEAN
    BY DEF TypeOK
  <2>3. used' \in Nat
    BY <2>1, <2>2
  <2>4. budgetDegraded' \in BOOLEAN
    BY <2>1, <2>2, Zenon
  <2>5. QED
    BY <2>3, <2>4
<1>5. dq' \in Status
  BY SyncOK DEF DraftReport
<1>6. pc' = "risk_gate" /\ UNCHANGED <<request, score, evidence, entities, covered, repairs, outcome>>
  BY DEF DraftReport
<1>7. QED
  BY <1>2, <1>3, <1>4, <1>5, <1>6 DEF TypeOK, request, outcome, Nodes

LEMMA RiskGateType == TypeInv /\ RiskGate => TypeInv'
<1> SUFFICES ASSUME TypeInv, RiskGate PROVE TypeInv'
  OBVIOUS
<1> USE DEF TypeInv
<1>1. used' \in Nat
  BY DEF RiskGate, TypeOK
<1>2. dq' \in Status
  BY SyncOK DEF RiskGate
<1>3. report' \in Report
  <2> DEFINE merged == Merge(report.dq, dq')
             r == [report EXCEPT !.dq = merged]
  <2>1. merged \in Status
    BY WorstType DEF Merge
  <2>2. report' = Gated(r) \/ report' = Fallback
    BY DEF RiskGate
  <2> HIDE DEF merged
  <2>3. r \in Report
    BY <2>1, SetQuality, Zenon DEF TypeOK
  <2> HIDE DEF r
  <2>4. QED
    BY <2>2, <2>3, GatedFields, FallbackType
<1>4. matrix' \in [Dependencies -> Status]
  <2>1. matrix' = matrix \/ matrix' = Note(matrix, "llm", "DEGRADED")
    BY DEF RiskGate
  <2>2. QED
    BY <2>1, NoteKeeps DEF TypeOK, Dependencies, Status
<1>5. pc' \in {"reviewer", "validate"}
  BY DEF RiskGate
<1>6. UNCHANGED <<request, budgetDegraded, score, evidence, entities, covered, repairs, outcome>>
  BY DEF RiskGate
<1>7. QED
  BY <1>1, <1>2, <1>3, <1>4, <1>5, <1>6 DEF TypeOK, request, outcome, Nodes

LEMMA ReviewerType == TypeInv /\ Reviewer => TypeInv'
<1> SUFFICES ASSUME TypeInv, Reviewer PROVE TypeInv'
  OBVIOUS
<1> USE DEF TypeInv
<1>1. report' \in Report
  <2>1. [report EXCEPT !.reviewer = "SKIPPED_BUDGET"] \in Report
    BY SetReviewer, Zenon DEF TypeOK
  <2>2. Reviewed(report) \in Report
    BY ReviewedFields DEF TypeOK
  <2>3. \/ report' = [report EXCEPT !.reviewer = "SKIPPED_BUDGET"]
        \/ report' = Reviewed(report)
    BY Zenon DEF Reviewer
  <2>4. QED
    BY <2>1, <2>2, <2>3, Zenon
<1>2. matrix' \in [Dependencies -> Status] /\ dq' \in Status
  <2>1. \/ UNCHANGED <<matrix, dq>>
        \/ matrix' = Note(matrix, "budget", "DEGRADED") /\ dq' = Sync(dq, matrix')
    BY DEF Reviewer
  <2>2. QED
    BY <2>1, NoteKeeps, SyncOK DEF TypeOK, Dependencies, Status
<1>3. pc' = "validate" /\ UNCHANGED <<request, used, budgetDegraded, score, evidence, entities, covered, repairs, outcome>>
  BY DEF Reviewer
<1>4. QED
  BY <1>1, <1>2, <1>3 DEF TypeOK, request, outcome, Nodes

\* Validation, repair and persistence.
LEMMA ValidateType == TypeInv /\ Validate => TypeInv'
<1> SUFFICES ASSUME TypeInv, Validate PROVE TypeInv'
  OBVIOUS
<1> USE DEF TypeInv
<1>1. errors' \in BOOLEAN
  BY DEF Validate, Consistent
<1>2. /\ pc' \in {"persist", "mark_invalid", "repair_report"}
      /\ pc' = "repair_report" => ~(repairs >= MaxRepairs)
  BY DEF Validate, RepairsExhausted
<1>3. UNCHANGED <<request, used, budgetDegraded, dq, matrix, score, evidence,
                 entities, covered, report, repairs, invalid, noteWritten, status>>
  BY DEF Validate
<1>4. repairs \in Nat
  BY RepairsAssumption DEF TypeOK
<1>5. QED
  BY <1>1, <1>2, <1>3, <1>4, RepairsAssumption DEF TypeOK, request, Nodes

LEMMA RepairReportType == TypeInv /\ RepairReport => TypeInv'
<1> SUFFICES ASSUME TypeInv, RepairReport PROVE TypeInv'
  OBVIOUS
<1> USE DEF TypeInv
<1>1. repairs' \in 0..MaxRepairs
  BY RepairsAssumption DEF RepairReport, TypeOK
<1>2. report' \in Report
  BY RepairedFields DEF RepairReport, TypeOK
<1>3. pc' = "risk_gate" /\ UNCHANGED <<request, used, budgetDegraded, dq, matrix, score, evidence, entities, covered, outcome>>
  BY DEF RepairReport
<1>4. QED
  BY <1>1, <1>2, <1>3 DEF TypeOK, request, outcome, Nodes

LEMMA MarkInvalidType == TypeInv /\ MarkInvalid => TypeInv'
<1> SUFFICES ASSUME TypeInv, MarkInvalid PROVE TypeInv'
  OBVIOUS
<1> USE DEF TypeInv
<1>1. report' \in Report
  BY FallbackType DEF MarkInvalid
<1>2. pc' = "persist" /\ invalid' \in BOOLEAN /\ errors' \in BOOLEAN
  BY DEF MarkInvalid
<1>3. UNCHANGED <<request, used, budgetDegraded, dq, matrix, score, evidence,
                 entities, covered, repairs, noteWritten, status>>
  BY DEF MarkInvalid
<1>4. QED
  BY <1>1, <1>2, <1>3 DEF TypeOK, request, Nodes

LEMMA PersistType == TypeInv /\ Persist => TypeInv'
<1> SUFFICES ASSUME TypeInv, Persist PROVE TypeInv'
  OBVIOUS
<1> USE DEF TypeInv
<1>1. used' \in Nat /\ noteWritten' \in BOOLEAN
  BY DEF Persist, TypeOK
<1>2. matrix' \in [Dependencies -> Status]
  <2>1. matrix' = matrix \/ matrix' = Note(matrix, "data_source", "PARTIAL")
    BY DEF Persist
  <2>2. QED
    BY <2>1, NoteKeeps DEF TypeOK, Dependencies, Status
<1>3. dq' \in Status
  BY SyncOK DEF Persist
<1>4. report' \in Report
  <2> DEFINE merged == Merge(report.dq, dq')
  <2>1. merged \in Status
    BY WorstType DEF Merge
  <2>2. report' = [report EXCEPT !.dq = merged]
    BY DEF Persist
  <2> HIDE DEF merged
  <2>3. QED
    BY <2>1, <2>2, SetQuality, Zenon DEF TypeOK
<1>5. status' \in {"NONE", "DONE", "FAILED"} /\ pc' \in {"end", "db_error"}
  BY DEF Persist, TypeOK
<1>6. UNCHANGED <<request, budgetDegraded, score, evidence, entities, covered,
                 repairs, errors, invalid>>
  BY DEF Persist
<1>7. QED
  BY <1>1, <1>2, <1>3, <1>4, <1>5, <1>6 DEF TypeOK, request, Nodes, Ended

LEMMA StepTypeInv == TypeInv /\ [Next]_vars => TypeInv'
<1> SUFFICES ASSUME TypeInv, [Next]_vars PROVE TypeInv'
  OBVIOUS
<1>1. CASE UNCHANGED vars
  BY <1>1 DEF vars, TypeInv, TypeOK
<1>2. CASE Next
  BY <1>2, BuildFactsType, ScoreSignalType, PriceBandsType, RetrieveMemoryType,
     SearchDocsType, RerankDocsType, ExtractEventsType, GraphSubtreeType,
     ImpactPathsType, BuildContextType, DraftReportType, RiskGateType, ReviewerType,
     ValidateType, RepairReportType, MarkInvalidType, PersistType DEF Next
<1>3. QED
  BY <1>1, <1>2

\* Every reachable state of a run is well typed, whatever the budgets, limits,
\* scores and provider (the state of app/workflows/state.py).
THEOREM TypeCorrect == Spec => []TypeOK
<1>1. Spec => []TypeInv
  BY InitTypeInv, StepTypeInv, PTL DEF Spec
<1>2. TypeInv => TypeOK
  BY DEF TypeInv
<1>3. QED
  BY <1>1, <1>2, PTL

-----------------------------------------------------------------------------
(* The budget *)

\* The calls made without a guard before node `pc' is entered: score_signal,
\* generate_price_bands, one risk_gate per round, write_memory_note.
Ungated ==
  IF pc \in {"build_facts", "score_signal"} THEN 0
  ELSE IF pc = "price_bands" THEN 1
  ELSE IF pc \in GuardedNodes \cup {"tool_error"} THEN 2
  ELSE IF pc = "risk_gate" THEN 2 + repairs
  ELSE IF pc \in {"end", "db_error"} THEN 4 + repairs ELSE 3 + repairs

BudgetInv == TypeInv /\ used <= maxCalls + Ungated

\* A guarded call fits the budget by itself.
LEMMA EnrichInBudget ==
  ASSUME TypeOK, NEW dep, NEW o, NEW failed, Enrich(dep, o, failed)
  PROVE  used' <= maxCalls
  BY DEF Enrich, HasBudget, TypeOK

\* A node of memory, RAG, graph, context or draft keeps within the budget or
\* makes no call.
LEMMA GuardedInBudget ==
  ASSUME TypeInv, Next, pc \in GuardedNodes
  PROVE  /\ used' = used \/ used' <= maxCalls
         /\ pc' \in GuardedNodes \cup {"risk_gate"}
         /\ maxCalls' = maxCalls
<1> USE DEF TypeInv
<1>1. maxCalls \in Nat /\ used \in Nat
  BY DEF TypeOK
<1>2. CASE RetrieveMemory
  <2>1. used' = used \/ used' <= maxCalls
    BY <1>1, <1>2 DEF RetrieveMemory, HasBudget
  <2>2. QED
    BY <1>2, <2>1 DEF RetrieveMemory, AfterMemory, GuardedNodes, request
<1>3. CASE SearchDocs
  <2>1. used' = used \/ used' <= maxCalls
    BY <1>3, EnrichInBudget DEF SearchDocs, Skip
  <2>2. QED
    BY <1>3, <2>1 DEF SearchDocs, GuardedNodes, request
<1>4. CASE RerankDocs
  <2>1. used' = used \/ used' <= maxCalls
    BY <1>4, EnrichInBudget DEF RerankDocs, Skip, Idle
  <2>2. QED
    BY <1>4, <2>1 DEF RerankDocs, GuardedNodes, request
<1>5. CASE ExtractEvents
  <2>1. used' = used \/ used' <= maxCalls
    BY <1>5, EnrichInBudget DEF ExtractEvents, Skip, Idle
  <2>2. QED
    BY <1>5, <2>1 DEF ExtractEvents, GuardedNodes, request
<1>6. CASE GraphSubtree
  <2>1. used' = used \/ used' <= maxCalls
    BY <1>6, EnrichInBudget DEF GraphSubtree, Skip
  <2>2. QED
    BY <1>6, <2>1 DEF GraphSubtree, GuardedNodes, request
<1>7. CASE ImpactPaths
  <2> DEFINE left == IF HasBudget THEN maxCalls - used ELSE 0
  <2>1. PICK n \in 0..ImpactLimit[tier] : used' = used + Smaller(2 * n, left)
    BY <1>7 DEF ImpactPaths
  <2>2. n \in Nat
    BY ImpactAssumption DEF TypeOK
  <2>3. used' = used \/ used' <= maxCalls
    BY <1>1, <2>1, <2>2 DEF Smaller, HasBudget
  <2>4. QED
    BY <1>7, <2>3 DEF ImpactPaths, GuardedNodes, request
<1>8. CASE BuildContext
  <2>1. used' = used \/ (HasBudget /\ used' = used + 1)
    BY <1>8 DEF BuildContext
  <2>2. used' = used \/ used' <= maxCalls
    BY <1>1, <2>1 DEF HasBudget
  <2>3. QED
    BY <1>8, <2>2 DEF BuildContext, GuardedNodes, request
<1>9. CASE DraftReport
  <2>1. used' = used \/ (HasBudget /\ used' = used + 1)
    BY <1>9 DEF DraftReport
  <2>2. used' = used \/ used' <= maxCalls
    BY <1>1, <2>1 DEF HasBudget
  <2>3. QED
    BY <1>9, <2>2 DEF DraftReport, GuardedNodes, request
<1>10. QED
  BY <1>2, <1>3, <1>4, <1>5, <1>6, <1>7, <1>8, <1>9
  DEF Next, GuardedNodes, BuildFacts, ScoreSignal, PriceBands, RiskGate, Reviewer,
      Validate, RepairReport, MarkInvalid, Persist

LEMMA StepBudgetInv == BudgetInv /\ [Next]_vars => BudgetInv'
<1> SUFFICES ASSUME BudgetInv, [Next]_vars PROVE BudgetInv'
  OBVIOUS
<1>1. TypeInv /\ TypeInv'
  BY StepTypeInv DEF BudgetInv
<1>2. /\ maxCalls \in Nat /\ used \in Nat /\ repairs \in Nat
      /\ maxCalls' \in Nat /\ used' \in Nat /\ repairs' \in Nat
  BY <1>1, RepairsAssumption DEF TypeInv, TypeOK
<1>3. used' <= maxCalls' + Ungated'
  <2>1. CASE UNCHANGED vars
    BY <2>1 DEF vars, BudgetInv, Ungated
  <2>2. CASE BuildFacts
    <3>1. /\ used = 0 /\ used' = used + Smaller(FactTools(tier), maxCalls - used)
          /\ maxCalls' = maxCalls /\ pc' = "score_signal"
      BY <1>1, <2>2 DEF BuildFacts, TypeInv, request
    <3>2. QED
      BY <1>2, <3>1 DEF Smaller, FactTools, Ungated
  <2>3. CASE ScoreSignal
    BY <1>2, <2>3 DEF ScoreSignal, BudgetInv, Ungated, request, GuardedNodes
  <2>4. CASE PriceBands
    BY <1>2, <2>4 DEF PriceBands, BudgetInv, Ungated, request, GuardedNodes
  <2>5. CASE Next /\ pc \in GuardedNodes
    <3>1. /\ used' = used \/ used' <= maxCalls
          /\ pc' \in GuardedNodes \cup {"risk_gate"} /\ maxCalls' = maxCalls
      BY <1>1, <2>5, GuardedInBudget
    <3>2. Ungated = 2 /\ used <= maxCalls + Ungated
      BY <2>5 DEF BudgetInv, Ungated, GuardedNodes
    <3>3. Ungated' = 2 \/ Ungated' = 2 + repairs'
      BY <3>1 DEF Ungated, GuardedNodes
    <3>4. QED
      BY <1>2, <3>1, <3>2, <3>3
  <2>6. CASE RiskGate
    <3>1. /\ pc = "risk_gate" /\ used' = used + 1 /\ maxCalls' = maxCalls
          /\ repairs' = repairs /\ pc' \in {"reviewer", "validate"}
      BY <2>6 DEF RiskGate, request
    <3>2. QED
      BY <1>2, <3>1 DEF BudgetInv, Ungated, GuardedNodes
  <2>7. CASE Reviewer \/ Validate \/ MarkInvalid
    <3>1. /\ pc \in {"reviewer", "validate", "mark_invalid"} /\ used' = used
          /\ maxCalls' = maxCalls /\ repairs' = repairs
          /\ pc' \in {"validate", "repair_report", "mark_invalid", "persist"}
      BY <2>7 DEF Reviewer, Validate, MarkInvalid, request
    <3>2. QED
      BY <1>2, <3>1 DEF BudgetInv, Ungated, GuardedNodes
  <2>8. CASE RepairReport
    <3>1. /\ pc = "repair_report" /\ used' = used /\ maxCalls' = maxCalls
          /\ repairs' = repairs + 1 /\ pc' = "risk_gate"
      BY <2>8 DEF RepairReport, request
    <3>2. QED
      BY <1>2, <3>1 DEF BudgetInv, Ungated, GuardedNodes
  <2>9. CASE Persist
    <3>1. /\ pc = "persist" /\ used' = used + 1 /\ maxCalls' = maxCalls
          /\ repairs' = repairs /\ pc' \in {"end", "db_error"}
      BY <2>9 DEF Persist, request
    <3>2. QED
      BY <1>2, <3>1 DEF BudgetInv, Ungated, GuardedNodes
  <2>10. QED
    BY <2>1, <2>2, <2>3, <2>4, <2>5, <2>6, <2>7, <2>8, <2>9
    DEF Next, GuardedNodes, RetrieveMemory, SearchDocs, RerankDocs, ExtractEvents,
        GraphSubtree, ImpactPaths, BuildContext, DraftReport
<1>4. QED
  BY <1>1, <1>3 DEF BudgetInv

\* Whatever the budget, the route and the number of repairs, a run makes at
\* most four calls and one per repair beyond its budget (_budget_guardrail
\* stands before every call except those Ungated counts).
THEOREM BudgetOvershoot == Spec => []BudgetOvershootBounded
<1>1. Init => BudgetInv
  <2>1. Init => TypeInv
    BY InitTypeInv
  <2>2. Init => used = 0 /\ maxCalls \in Nat /\ pc = "build_facts"
    BY <2>1 DEF Init, TypeInv, TypeOK
  <2>3. QED
    BY <2>1, <2>2 DEF BudgetInv, Ungated
<1>2. BudgetInv => BudgetOvershootBounded
  <2> SUFFICES ASSUME BudgetInv PROVE BudgetOvershootBounded
    OBVIOUS
  <2>1. maxCalls \in Nat /\ used \in Nat /\ repairs \in Nat /\ repairs <= MaxRepairs
    BY RepairsAssumption DEF BudgetInv, TypeInv, TypeOK
  <2>2. used <= maxCalls + Ungated
    BY DEF BudgetInv
  <2>3. Ungated \in {0, 1, 2, 2 + repairs, 3 + repairs, 4 + repairs}
    BY DEF Ungated
  <2>4. used <= maxCalls + 4 + repairs
    BY <2>1, <2>2, <2>3
  <2>5. QED
    BY <2>1, <2>4, RepairsAssumption DEF BudgetOvershootBounded
<1>3. QED
  BY <1>1, <1>2, StepBudgetInv, PTL DEF Spec

-----------------------------------------------------------------------------
(* BUY *)

AfterGate == {"reviewer", "validate", "repair_report", "mark_invalid", "persist"}
AfterContext == AfterGate \cup {"draft_report", "risk_gate"}
ReviewDone == AfterGate \ {"reviewer"}

\* A budget that ran out is in the matrix, from where no sync forgets it.
BudgetNoted == budgetDegraded => matrix["budget"] = "DEGRADED"

\* Evidence that does not cover is in the quality once the context is built.
GapNoted == pc \in AfterContext /\ ~covered => dq # "OK"

\* Between gate and persistence a BUY stands on data that is OK throughout.
BuyIsHealthy ==
  pc \in AfterGate /\ report.action = "BUY" =>
    report.dq = "OK" /\ dq = "OK" /\ \A d \in Dependencies : matrix[d] = "OK"

\* After the reviewer's place in the graph a BUY has its review.
BuyHasReview ==
  pc \in ReviewDone /\ report.action = "BUY" /\ tier \in Enriched =>
    /\ report.reviewer = "rule-reviewer-v1"
    /\ tier = "TIER2" => evidence.graph > 0

PublishedAtEnd == status # "NONE" => pc = "end"

BuyInv ==
  /\ TypeInv
  /\ BudgetNoted /\ GapNoted /\ BuyIsHealthy /\ BuyHasReview /\ PublishedAtEnd
  /\ BuyOnlyFromHealthyRun /\ BuyIsReviewed

\* Noting and exhausting keep the budget's mark; the nodes of a matrix that
\* note other dependencies therefore do, too.
LEMMA KeepsMark ==
  ASSUME NEW m \in [Dependencies -> Status], m["budget"] = "DEGRADED",
         NEW dep \in Dependencies, NEW s \in Status
  PROVE  Note(m, dep, s)["budget"] = "DEGRADED"
  BY NoteKeeps DEF Dependencies

LEMMA StatusMembers == "OK" \in Status /\ "PARTIAL" \in Status /\ "DEGRADED" \in Status
  BY DEF Status

LEMMA DependencyMembers ==
  /\ "budget" \in Dependencies /\ "data_source" \in Dependencies
  /\ "rag" \in Dependencies /\ "graph" \in Dependencies /\ "llm" \in Dependencies
  BY DEF Dependencies

LEMMA EnrichMarks ==
  ASSUME TypeOK, BudgetNoted, NEW dep \in Dependencies, NEW o, NEW failed \in Status,
         Enrich(dep, o, failed)
  PROVE  BudgetNoted'
<1> DEFINE s == IF o = "failed" THEN failed ELSE IF o = "degraded" THEN "PARTIAL" ELSE "OK"
<1>1. s \in Status
  BY DEF Status
<1>2. matrix' = Note(matrix, dep, s) /\ budgetDegraded' = budgetDegraded
  BY DEF Enrich
<1> HIDE DEF s
<1>3. QED
  BY <1>1, <1>2, KeepsMark DEF TypeOK, BudgetNoted

LEMMA SkipMarks ==
  ASSUME NEW m \in [Dependencies -> Status], Skip(m)
  PROVE  BudgetNoted'
  BY ExhaustedKeeps DEF Skip, BudgetNoted

LEMMA StepBudgetNoted == TypeInv /\ BudgetNoted /\ [Next]_vars => BudgetNoted'
<1> SUFFICES ASSUME TypeInv, BudgetNoted, [Next]_vars PROVE BudgetNoted'
  OBVIOUS
<1> USE DEF TypeInv
<1> USE StatusMembers, DependencyMembers
<1>1. matrix \in [Dependencies -> Status]
  BY DEF TypeOK
<1>2. CASE BuildFacts
  <2> DEFINE calls == Smaller(FactTools(tier), maxCalls - used)
             short == calls < FactTools(tier)
  <2>1. PICK out \in [1..calls -> FactOutcome] :
          LET noted == Note(matrix, "data_source", Worst({FactNote(out[i]) : i \in 1..calls}))
          IN  /\ budgetDegraded' = short
              /\ matrix' = IF short THEN Exhausted(noted) ELSE noted
    BY <1>2 DEF BuildFacts
  <2>2. Note(matrix, "data_source", Worst({FactNote(out[i]) : i \in 1..calls})) \in [Dependencies -> Status]
    BY <1>1, WorstType, NoteKeeps
  <2>3. QED
    BY <2>1, <2>2, ExhaustedKeeps DEF BudgetNoted
<1>3. CASE RetrieveMemory
  <2>1. CASE ~HasBudget
    <3>1. matrix' = Exhausted(matrix)
      BY <1>3, <2>1 DEF RetrieveMemory
    <3>2. QED
      BY <1>1, <3>1, ExhaustedKeeps DEF BudgetNoted
  <2>2. CASE HasBudget
    <3> DEFINE short == tier \in Enriched /\ used' >= maxCalls
    <3>1. PICK ok \in BOOLEAN :
            LET noted == IF ok THEN matrix ELSE Note(matrix, "data_source", "PARTIAL")
            IN  /\ budgetDegraded' = (budgetDegraded \/ short)
                /\ matrix' = IF short THEN Exhausted(noted) ELSE noted
      BY <1>3, <2>2 DEF RetrieveMemory
    <3> HIDE DEF short
    <3> DEFINE noted == IF ok THEN matrix ELSE Note(matrix, "data_source", "PARTIAL")
    <3>2. /\ noted \in [Dependencies -> Status]
          /\ budgetDegraded => noted["budget"] = "DEGRADED"
      BY <1>1, NoteKeeps, KeepsMark DEF BudgetNoted
    <3>3. QED
      BY <3>1, <3>2, ExhaustedKeeps DEF BudgetNoted
  <2>3. QED
    BY <2>1, <2>2
<1>4. CASE SearchDocs
  BY <1>1, <1>4, EnrichMarks, SkipMarks DEF SearchDocs
<1>5. CASE RerankDocs
  BY <1>1, <1>5, EnrichMarks, SkipMarks DEF RerankDocs, Idle, BudgetNoted
<1>6. CASE ExtractEvents
  BY <1>1, <1>6, EnrichMarks, SkipMarks DEF ExtractEvents, Idle, BudgetNoted
<1>7. CASE GraphSubtree
  BY <1>1, <1>7, EnrichMarks, SkipMarks, NoteKeeps DEF GraphSubtree
<1>8. CASE ImpactPaths
  <2> DEFINE left == IF HasBudget THEN maxCalls - used ELSE 0
             Short(n) == Smaller(2 * n, left) < 2 * n
  <2>1. PICK n \in 0..ImpactLimit[tier] : \E failures \in 0..Smaller(2 * n, left) :
          LET noted == IF failures = 0 THEN matrix ELSE Note(matrix, "graph", "PARTIAL")
          IN  /\ budgetDegraded' = (budgetDegraded \/ Short(n))
              /\ matrix' = IF Short(n) THEN Exhausted(noted) ELSE noted
    BY <1>8 DEF ImpactPaths
  <2> HIDE DEF left, Short
  <2>3. PICK failures :
          LET noted == IF failures = 0 THEN matrix ELSE Note(matrix, "graph", "PARTIAL")
          IN  /\ budgetDegraded' = (budgetDegraded \/ Short(n))
              /\ matrix' = IF Short(n) THEN Exhausted(noted) ELSE noted
    BY <2>1
  <2> DEFINE noted == IF failures = 0 THEN matrix ELSE Note(matrix, "graph", "PARTIAL")
  <2>2. /\ noted \in [Dependencies -> Status]
        /\ budgetDegraded => noted["budget"] = "DEGRADED"
    BY <1>1, NoteKeeps, KeepsMark DEF BudgetNoted
  <2>4. QED
    BY <2>3, <2>2, ExhaustedKeeps DEF BudgetNoted
<1>9. CASE BuildContext
  <2>1. \/ matrix' = matrix /\ budgetDegraded' = budgetDegraded
        \/ matrix' = Note(Exhausted(matrix), "rag", "PARTIAL")
        \/ matrix' = Note(matrix, "rag", "PARTIAL") /\ budgetDegraded' = budgetDegraded
    BY <1>9 DEF BuildContext
  <2>2. Exhausted(matrix) \in [Dependencies -> Status] /\ Exhausted(matrix)["budget"] = "DEGRADED"
    BY <1>1, ExhaustedKeeps
  <2>3. Note(Exhausted(matrix), "rag", "PARTIAL")["budget"] = "DEGRADED"
    BY <2>2, KeepsMark
  <2>4. QED
    BY <1>1, <2>1, <2>3, KeepsMark DEF BudgetNoted
<1>10. CASE DraftReport
  <2>1. \/ matrix' = matrix /\ budgetDegraded' = budgetDegraded
        \/ matrix' = Note(Exhausted(matrix), "llm", "DEGRADED")
        \/ matrix' = Note(matrix, "llm", "PARTIAL") /\ budgetDegraded' = budgetDegraded
        \/ matrix' = Note(matrix, "llm", "DEGRADED") /\ budgetDegraded' = budgetDegraded
    BY <1>10 DEF DraftReport
  <2>2. Exhausted(matrix) \in [Dependencies -> Status] /\ Exhausted(matrix)["budget"] = "DEGRADED"
    BY <1>1, ExhaustedKeeps
  <2>3. Note(Exhausted(matrix), "llm", "DEGRADED")["budget"] = "DEGRADED"
    BY <2>2, KeepsMark
  <2>4. budgetDegraded => /\ matrix["budget"] = "DEGRADED"
                          /\ Note(matrix, "llm", "PARTIAL")["budget"] = "DEGRADED"
                          /\ Note(matrix, "llm", "DEGRADED")["budget"] = "DEGRADED"
    BY <1>1, KeepsMark DEF BudgetNoted
  <2>5. QED
    BY <2>1, <2>3, <2>4 DEF BudgetNoted
<1>11. CASE RiskGate
  <2>1. /\ budgetDegraded' = budgetDegraded
        /\ matrix' = matrix \/ matrix' = Note(matrix, "llm", "DEGRADED")
    BY <1>11 DEF RiskGate
  <2>2. QED
    BY <1>1, <2>1, KeepsMark DEF BudgetNoted
<1>12. CASE Reviewer
  <2>1. /\ budgetDegraded' = budgetDegraded
        /\ matrix' = matrix \/ matrix' = Note(matrix, "budget", "DEGRADED")
    BY <1>12 DEF Reviewer
  <2>2. QED
    BY <1>1, <2>1, KeepsMark DEF BudgetNoted
<1>13. CASE Persist
  <2>1. /\ budgetDegraded' = budgetDegraded
        /\ matrix' = matrix \/ matrix' = Note(matrix, "data_source", "PARTIAL")
    BY <1>13 DEF Persist
  <2>2. QED
    BY <1>1, <2>1, KeepsMark DEF BudgetNoted
<1>14. CASE UNCHANGED <<budgetDegraded, matrix>>
  BY <1>14 DEF BudgetNoted
<1>15. QED
  BY <1>2, <1>3, <1>4, <1>5, <1>6, <1>7, <1>8, <1>9, <1>10, <1>11, <1>12, <1>13, <1>14
  DEF Next, vars, ScoreSignal, PriceBands, Validate, RepairReport, MarkInvalid

LEMMA SyncKeepsWorse ==
  ASSUME NEW q \in Status, q # "OK", NEW m \in [Dependencies -> Status]
  PROVE  Sync(q, m) # "OK"
  BY SyncOK

LEMMA StepGapNoted == TypeInv /\ GapNoted /\ [Next]_vars => GapNoted'
<1> SUFFICES ASSUME TypeInv, GapNoted, [Next]_vars PROVE GapNoted'
  OBVIOUS
<1> USE StatusMembers
<1>1. /\ dq \in Status /\ dq' \in Status /\ matrix' \in [Dependencies -> Status]
      /\ evidence \in EvidenceCounts
  BY StepTypeInv DEF TypeInv, TypeOK
<1>2. CASE BuildContext
  <2>1. CASE Coverage(tier, evidence)
    <3>1. ~NeedsNews
      BY <2>1 DEF Coverage, NeedsNews, Enriched
    <3>2. covered' = TRUE
      BY <1>2, <2>1, <3>1 DEF BuildContext
    <3>3. QED
      BY <3>2 DEF GapNoted
  <2>2. CASE ~Coverage(tier, evidence)
    <3>1. dq' = Sync(Merge(dq, "PARTIAL"), matrix')
      BY <1>2, <2>2 DEF BuildContext
    <3>2. Merge(dq, "PARTIAL") \in Status /\ Merge(dq, "PARTIAL") # "OK"
      BY <1>1, MergeIsMax
    <3>3. QED
      BY <1>1, <3>1, <3>2, SyncKeepsWorse DEF GapNoted
  <2>3. QED
    BY <2>1, <2>2
<1>3. CASE DraftReport \/ RiskGate \/ Reviewer \/ Validate \/ RepairReport \/ MarkInvalid
  <2>1. covered' = covered /\ pc \in AfterContext
    BY <1>3 DEF DraftReport, RiskGate, Reviewer, Validate, RepairReport, MarkInvalid,
                AfterContext, AfterGate
  <2>2. dq' = dq \/ dq' = Sync(dq, matrix') \/ dq' = Sync(dq, matrix)
    BY <1>3 DEF DraftReport, RiskGate, Reviewer, Validate, RepairReport, MarkInvalid
  <2>3. matrix \in [Dependencies -> Status]
    BY DEF TypeInv, TypeOK
  <2>4. dq # "OK" => dq' # "OK"
    BY <1>1, <2>2, <2>3, SyncKeepsWorse
  <2>5. QED
    BY <2>1, <2>4 DEF GapNoted
<1>4. CASE UNCHANGED vars
  BY <1>4 DEF vars, GapNoted
<1>5. CASE pc' \notin AfterContext
  BY <1>5 DEF GapNoted
<1>6. pc' \notin AfterContext \/ UNCHANGED vars \/ BuildContext \/ DraftReport
      \/ RiskGate \/ Reviewer \/ Validate \/ RepairReport \/ MarkInvalid
  BY DEF Next, AfterContext, AfterGate, BuildFacts, ScoreSignal, PriceBands,
         RetrieveMemory, AfterMemory, SearchDocs, RerankDocs, ExtractEvents,
         GraphSubtree, ImpactPaths, Persist
<1>7. QED
  BY <1>2, <1>3, <1>4, <1>5, <1>6

\* The gate lets BUY pass only when the sync just before found nothing.
LEMMA GateBuy ==
  ASSUME TypeInv, RiskGate, report'.action = "BUY"
  PROVE  /\ report'.dq = "OK" /\ dq' = "OK" /\ matrix' = matrix
         /\ \A d \in Dependencies : matrix[d] = "OK"
<1> DEFINE merged == Merge(report.dq, dq')
           r == [report EXCEPT !.dq = merged]
<1>1. dq \in Status /\ matrix \in [Dependencies -> Status] /\ report \in Report
  BY DEF TypeInv, TypeOK
<1>2. dq' = Sync(dq, matrix)
  BY DEF RiskGate
<1>3. dq' \in Status /\ report.dq \in Status
  BY <1>1, <1>2, SyncOK, ReportFields
<1>4. merged \in Status /\ (merged = "OK" => dq' = "OK")
  BY <1>3, MergeIsMax
<1>5. Fallback.action # "BUY"
  BY DEF Fallback
<1>6. report' = Gated(r) /\ matrix' = matrix
  BY <1>5 DEF RiskGate
<1> HIDE DEF merged
<1>7. r \in Report /\ r.dq = merged
  BY <1>1, <1>4, SetQuality, Zenon
<1> HIDE DEF r
<1>8. r.dq = "OK" /\ report'.dq = r.dq
  BY <1>6, <1>7, GatedFields
<1>9. QED
  BY <1>1, <1>2, <1>4, <1>6, <1>7, <1>8, SyncOK

\* The reviewer lets BUY pass only when it read the report.
LEMMA ReviewBuy ==
  ASSUME TypeInv, BudgetNoted, BuyIsHealthy, Reviewer, report'.action = "BUY"
  PROVE  /\ report.action = "BUY" /\ report'.dq = report.dq /\ UNCHANGED <<matrix, dq>>
         /\ report'.reviewer = "rule-reviewer-v1"
         /\ tier = "TIER2" => evidence.graph > 0
<1>1. report \in Report /\ evidence.graph \in Nat
  BY DEF TypeInv, TypeOK, EvidenceCounts
<1>2. CASE budgetDegraded
  <2>1. report' = [report EXCEPT !.reviewer = "SKIPPED_BUDGET"]
    BY <1>2, Zenon DEF Reviewer
  <2>2. report'.action = report.action
    BY <1>1, <2>1, SetReviewer, Zenon
  <2>3. pc \in AfterGate
    BY DEF Reviewer, AfterGate
  <2>4. matrix["budget"] = "OK"
    BY <2>2, <2>3, DependencyMembers DEF BuyIsHealthy
  <2>5. QED
    BY <1>2, <2>4 DEF BudgetNoted
<1>3. CASE ~budgetDegraded
  <2>1. report' = Reviewed(report) /\ UNCHANGED <<matrix, dq>>
    BY <1>3, Zenon DEF Reviewer
  <2>2. /\ report.action = "BUY" /\ ~Critical(report) /\ report'.dq = report.dq
        /\ report'.reviewer = "rule-reviewer-v1"
    BY <1>1, <2>1, ReviewedFields
  <2>3. tier = "TIER2" => evidence.graph > 0
    BY <1>1, <2>2 DEF Critical
  <2>4. QED
    BY <2>1, <2>2, <2>3
<1>4. QED
  BY <1>2, <1>3

LEMMA StepBuyIsHealthy ==
  TypeInv /\ BudgetNoted /\ BuyIsHealthy /\ [Next]_vars => BuyIsHealthy'
<1> SUFFICES ASSUME TypeInv, BudgetNoted, BuyIsHealthy, [Next]_vars PROVE BuyIsHealthy'
  OBVIOUS
<1>1. CASE RiskGate
  BY <1>1, GateBuy DEF BuyIsHealthy
<1>2. CASE Reviewer
  <2>1. pc \in AfterGate
    BY <1>2 DEF Reviewer, AfterGate
  <2>2. QED
    BY <1>2, <2>1, ReviewBuy DEF BuyIsHealthy
<1>3. CASE Validate
  BY <1>3 DEF Validate, BuyIsHealthy, AfterGate
<1>4. CASE MarkInvalid
  <2>1. report'.action # "BUY"
    BY <1>4 DEF MarkInvalid, Fallback
  <2>2. QED
    BY <2>1 DEF BuyIsHealthy
<1>5. CASE UNCHANGED vars
  BY <1>5 DEF vars, BuyIsHealthy
<1>6. CASE pc' \notin AfterGate
  BY <1>6 DEF BuyIsHealthy
<1>7. pc' \notin AfterGate \/ UNCHANGED vars \/ RiskGate \/ Reviewer \/ Validate \/ MarkInvalid
  BY DEF Next, AfterGate, BuildFacts, ScoreSignal, PriceBands, RetrieveMemory,
         AfterMemory, SearchDocs, RerankDocs, ExtractEvents, GraphSubtree, ImpactPaths,
         BuildContext, DraftReport, RepairReport, Persist
<1>8. QED
  BY <1>1, <1>2, <1>3, <1>4, <1>5, <1>6, <1>7

LEMMA StepBuyHasReview ==
  TypeInv /\ BudgetNoted /\ BuyIsHealthy /\ BuyHasReview /\ [Next]_vars => BuyHasReview'
<1> SUFFICES ASSUME TypeInv, BudgetNoted, BuyIsHealthy, BuyHasReview, [Next]_vars
             PROVE  BuyHasReview'
  OBVIOUS
<1>1. CASE RiskGate
  <2>1. pc' \in ReviewDone => ~NeedsReview(report')
    BY <1>1 DEF RiskGate, ReviewDone, AfterGate
  <2>2. tier' = tier
    BY <1>1 DEF RiskGate, request
  <2>3. pc' \in ReviewDone /\ tier \in Enriched => report'.action # "BUY"
    BY <2>1 DEF NeedsReview, Enriched
  <2>4. QED
    BY <2>2, <2>3 DEF BuyHasReview
<1>2. CASE Reviewer
  <2>1. UNCHANGED <<tier, evidence>>
    BY <1>2 DEF Reviewer, request
  <2>2. QED
    BY <1>2, <2>1, ReviewBuy DEF BuyHasReview
<1>3. CASE Validate
  BY <1>3 DEF Validate, request, BuyHasReview, ReviewDone, AfterGate
<1>4. CASE MarkInvalid
  <2>1. report'.action # "BUY"
    BY <1>4 DEF MarkInvalid, Fallback
  <2>2. QED
    BY <2>1 DEF BuyHasReview
<1>5. CASE UNCHANGED vars
  BY <1>5 DEF vars, BuyHasReview
<1>6. CASE pc' \notin ReviewDone
  BY <1>6 DEF BuyHasReview
<1>7. pc' \notin ReviewDone \/ UNCHANGED vars \/ RiskGate \/ Reviewer \/ Validate \/ MarkInvalid
  BY DEF Next, ReviewDone, AfterGate, BuildFacts, ScoreSignal, PriceBands, RetrieveMemory,
         AfterMemory, SearchDocs, RerankDocs, ExtractEvents, GraphSubtree, ImpactPaths,
         BuildContext, DraftReport, RepairReport, Persist
<1>8. QED
  BY <1>1, <1>2, <1>3, <1>4, <1>5, <1>6, <1>7

LEMMA NotePartial ==
  ASSUME NEW m \in [Dependencies -> Status], NEW n, n = Note(m, "data_source", "PARTIAL")
  PROVE  /\ n["data_source"] = Merge(m["data_source"], "PARTIAL")
         /\ \A d \in Dependencies \ {"data_source"} : n[d] = m[d]
<1>1. n["data_source"] = Merge(m["data_source"], "PARTIAL")
  BY NoteKeeps, DependencyMembers, StatusMembers
<1>2. ASSUME NEW d \in Dependencies \ {"data_source"} PROVE n[d] = m[d]
  BY DEF Note
<1>3. QED
  BY <1>1, <1>2

\* What persisting makes of the facts about BUY that hold before it.
LEMMA PersistBuy ==
  ASSUME BuyInv, Persist
  PROVE  BuyOnlyFromHealthyRun' /\ BuyIsReviewed'
<1> USE DEF BuyInv
<1>1. report \in Report /\ matrix \in [Dependencies -> Status] /\ dq \in Status
  BY DEF TypeInv, TypeOK
<1>2. UNCHANGED <<tier, budgetDegraded, covered, evidence>> /\ pc = "persist"
  BY DEF Persist, request
<1>3. report'.action = report.action /\ report'.reviewer = report.reviewer
  <2> DEFINE merged == Merge(report.dq, dq')
  <2>1. merged \in Status
    BY WorstType DEF Merge
  <2>2. report' = [report EXCEPT !.dq = merged]
    BY DEF Persist
  <2> HIDE DEF merged
  <2>3. QED
    BY <1>1, <2>1, <2>2, SetQuality, Zenon
<1>4. ASSUME report.action = "BUY"
      PROVE  /\ covered /\ ~budgetDegraded
             /\ \A d \in Dependencies : matrix[d] = "OK"
  <2>1. dq = "OK" /\ \A d \in Dependencies : matrix[d] = "OK"
    BY <1>2, <1>4 DEF BuyIsHealthy, AfterGate
  <2>2. covered
    BY <1>2, <2>1 DEF GapNoted, AfterContext, AfterGate
  <2>3. ~budgetDegraded
    BY <2>1, DependencyMembers DEF BudgetNoted
  <2>4. QED
    BY <2>1, <2>2, <2>3
<1>5. ASSUME report.action = "BUY"
      PROVE  \A d \in Dependencies :
               matrix'[d] = "OK" \/ (d = "data_source" /\ matrix'[d] = "PARTIAL" /\ ~noteWritten')
  <2>1. PICK ok \in BOOLEAN : /\ noteWritten' = ok
                              /\ matrix' = IF ok THEN matrix ELSE Note(matrix, "data_source", "PARTIAL")
    BY DEF Persist
  <2>2. CASE ok
    BY <1>4, <1>5, <2>1, <2>2
  <2>3. CASE ~ok
    <3>1. matrix' = Note(matrix, "data_source", "PARTIAL") /\ ~noteWritten'
      BY <2>1, <2>3
    <3>2. Merge("OK", "PARTIAL") = "PARTIAL"
      BY DEF Merge, Worst
    <3>3. /\ matrix'["data_source"] = Merge(matrix["data_source"], "PARTIAL")
          /\ \A d \in Dependencies \ {"data_source"} : matrix'[d] = matrix[d]
      BY <1>1, <3>1, NotePartial
    <3>4. matrix'["data_source"] = "PARTIAL"
      BY <1>4, <1>5, <3>2, <3>3, DependencyMembers
    <3>5. \A d \in Dependencies \ {"data_source"} : matrix'[d] = "OK"
      BY <1>4, <1>5, <3>3
    <3>6. QED
      BY <3>1, <3>4, <3>5
  <2>4. QED
    BY <2>2, <2>3
<1>6. BuyOnlyFromHealthyRun'
  BY <1>2, <1>3, <1>4, <1>5 DEF BuyOnlyFromHealthyRun
<1>7. BuyIsReviewed'
  BY <1>2, <1>3 DEF BuyIsReviewed, BuyHasReview, ReviewDone, AfterGate
<1>8. QED
  BY <1>6, <1>7

LEMMA StepBuyInv == BuyInv /\ [Next]_vars => BuyInv'
<1> SUFFICES ASSUME BuyInv, [Next]_vars PROVE BuyInv'
  OBVIOUS
<1>1. TypeInv /\ BudgetNoted /\ GapNoted /\ BuyIsHealthy /\ BuyHasReview /\ PublishedAtEnd
  BY DEF BuyInv
<1>2. TypeInv' /\ BudgetNoted' /\ GapNoted' /\ BuyIsHealthy' /\ BuyHasReview'
  BY <1>1, StepTypeInv, StepBudgetNoted, StepGapNoted, StepBuyIsHealthy, StepBuyHasReview
<1>3. CASE Persist
  <2>1. BuyOnlyFromHealthyRun' /\ BuyIsReviewed'
    BY <1>3, PersistBuy
  <2>2. PublishedAtEnd'
    BY <1>1, <1>3 DEF Persist, PublishedAtEnd
  <2>3. QED
    BY <1>2, <2>1, <2>2 DEF BuyInv
<1>4. CASE Next /\ ~Persist
  <2>1. status' = status /\ pc # "end"
    BY <1>4 DEF Next, outcome, BuildFacts, ScoreSignal, PriceBands, RetrieveMemory,
       SearchDocs, RerankDocs, ExtractEvents, GraphSubtree, ImpactPaths, BuildContext,
       DraftReport, RiskGate, Reviewer, Validate, RepairReport, MarkInvalid
  <2>2. status' = "NONE"
    BY <1>1, <2>1 DEF PublishedAtEnd
  <2>3. QED
    BY <1>2, <2>2 DEF BuyInv, PublishedAtEnd, BuyOnlyFromHealthyRun, BuyIsReviewed
<1>5. CASE UNCHANGED vars
  BY <1>2, <1>5 DEF vars, BuyInv, PublishedAtEnd, BuyOnlyFromHealthyRun, BuyIsReviewed
<1>6. QED
  BY <1>3, <1>4, <1>5

LEMMA BuyInvariant == Spec => []BuyInv
<1>1. Init => BuyInv
  <2> SUFFICES ASSUME Init PROVE BuyInv
    OBVIOUS
  <2>1. TypeInv
    BY InitTypeInv
  <2>2. /\ pc = "build_facts" /\ budgetDegraded = FALSE /\ status = "NONE"
    BY DEF Init
  <2>3. QED
    BY <2>1, <2>2 DEF BuyInv, BudgetNoted, GapNoted, BuyIsHealthy, BuyHasReview,
       PublishedAtEnd, BuyOnlyFromHealthyRun, BuyIsReviewed, AfterContext, AfterGate, ReviewDone
<1>2. QED
  BY <1>1, StepBuyInv, PTL DEF Spec

\* A persisted BUY stands on covered evidence, an unexhausted budget and clean
\* dependencies (but for its own memory note), for every run of every tier.
THEOREM BuyIsHealthyAtEnd == Spec => []BuyOnlyFromHealthyRun
<1>1. BuyInv => BuyOnlyFromHealthyRun
  BY DEF BuyInv
<1>2. QED
  BY <1>1, BuyInvariant, PTL

\* No BUY of a tier with a reviewer is persisted unreviewed, and none of TIER2
\* without graph evidence.
THEOREM BuyIsReviewedAtEnd == Spec => []BuyIsReviewed
<1>1. BuyInv => BuyIsReviewed
  BY DEF BuyInv
<1>2. QED
  BY <1>1, BuyInvariant, PTL

-----------------------------------------------------------------------------
(* How a decision is lowered *)

\* A report became another one that is not bolder, nor admits better data; its
\* confidence stays at or above the fallback's.
Lowers(r, s) ==
  /\ s.action \in {r.action, Lowered(r.action), "AVOID"}
  /\ s.conf <= r.conf /\ s.conf >= 450
  /\ Contract!Rank(s.dq) >= Contract!Rank(r.dq)

LEMMA MergeRank ==
  ASSUME NEW a \in Status, NEW b \in Status
  PROVE  /\ Contract!Rank(Merge(a, b)) >= Contract!Rank(a)
         /\ Contract!Rank(Merge(a, b)) >= Contract!Rank(b)
  BY DEF Status, Merge, Worst, Contract!Rank

LEMMA RankType == ASSUME NEW a \in Status PROVE Contract!Rank(a) \in 0..2
  BY DEF Status, Contract!Rank

LEMMA SyncRank ==
  ASSUME NEW q \in Status, NEW m
  PROVE  Contract!Rank(Sync(q, m)) >= Contract!Rank(q)
  BY DEF Status, Sync, Worst, Contract!Rank

LEMMA FallbackLowers ==
  ASSUME TypeOK, NEW r \in Report, r.conf >= 450
  PROVE  Lowers(r, Fallback)
<1>1. Fallback.conf = 450
  <2>1. ScoreConfidence(score) \in 450..850
    BY ConfidenceType DEF TypeOK
  <2>2. QED
    BY <2>1 DEF Fallback, Smaller
<1>2. Fallback.action = "AVOID" /\ Fallback.dq = "DEGRADED"
  BY DEF Fallback
<1>3. Contract!Rank(Fallback.dq) = 2 /\ Contract!Rank(r.dq) \in 0..2
  BY <1>2, ReportFields, RankType DEF Contract!Rank
<1>4. r.conf \in Int
  BY ConfIsInt
<1> HIDE DEF Fallback
<1>5. QED
  BY <1>1, <1>2, <1>3, <1>4 DEF Lowers

LEMMA QualityLowers ==
  ASSUME NEW r \in Report, NEW q \in Status, r.conf >= 450
  PROVE  /\ [r EXCEPT !.dq = Merge(@, q)] \in Report
         /\ Lowers(r, [r EXCEPT !.dq = Merge(@, q)])
         /\ [r EXCEPT !.dq = Merge(@, q)].dq = Merge(r.dq, q)
         /\ [r EXCEPT !.dq = Merge(@, q)].action = r.action
<1> DEFINE merged == Merge(r.dq, q)
           s == [r EXCEPT !.dq = merged]
<1>1. r.dq \in Status /\ r.conf \in Int
  BY ReportFields, ConfIsInt
<1>2. merged \in Status /\ Contract!Rank(merged) >= Contract!Rank(r.dq)
  BY <1>1, MergeRank, MergeIsMax
<1>3. [r EXCEPT !.dq = Merge(@, q)] = s
  OBVIOUS
<1> HIDE DEF merged
<1>4. s \in Report /\ s.dq = merged /\ s.action = r.action /\ s.conf = r.conf
  BY <1>2, SetQuality, Zenon
<1> HIDE DEF s
<1>5. Lowers(r, s)
  BY <1>1, <1>2, <1>4 DEF Lowers
<1>6. QED
  BY <1>3, <1>4, <1>5 DEF merged

LEMMA CappedFloor ==
  ASSUME NEW r \in Report, NEW cap \in Confidence, r.conf >= 450, cap >= 450
  PROVE  Capped(r, cap).conf >= 450
<1> DEFINE least == Smaller(r.conf, cap)
<1>1. least \in Confidence /\ least >= 450
  BY ReportFields, SmallerIsLeast DEF Smaller
<1>2. Capped(r, cap) = [r EXCEPT !.conf = least]
  BY DEF Capped
<1> HIDE DEF least
<1>3. [r EXCEPT !.conf = least].conf = least
  BY <1>1, SetConf, Zenon
<1>4. QED
  BY <1>1, <1>2, <1>3

LEMMA DemotedFloor ==
  ASSUME NEW r \in Report, NEW cap \in Confidence, r.conf >= 450, cap >= 450
  PROVE  Demoted(r, cap).conf >= 450
<1> DEFINE low == Lowered(r.action)
           lowered == [r EXCEPT !.action = low]
<1>1. low \in Actions \cup {"NONE"}
  BY ReportFields DEF Lowered, Actions
<1>2. Demoted(r, cap) = Capped(lowered, cap)
  BY DEF Demoted
<1> HIDE DEF low
<1>3. lowered \in Report /\ lowered.conf = r.conf
  BY <1>1, SetAction, Zenon
<1> HIDE DEF lowered
<1>4. QED
  BY <1>2, <1>3, CappedFloor

LEMMA GatedLowers ==
  ASSUME NEW r \in Report, r.conf >= 450
  PROVE  Lowers(r, Gated(r))
<1> DEFINE capped == IF r.action = "BUY" THEN Capped(r, 700) ELSE r
           cap == IF r.dq = "PARTIAL" THEN 500 ELSE 450
<1>1. 700 \in Confidence /\ cap \in Confidence /\ cap >= 450 /\ 700 >= 450
  BY DEF Confidence
<1>2. capped \in Report /\ capped.conf >= 450
  BY <1>1, CappedFields, CappedFloor
<1>3. Gated(r) = IF r.dq = "OK" THEN capped ELSE Demoted(capped, cap)
  BY DEF Gated
<1> HIDE DEF capped, cap
<1>4. Demoted(capped, cap).conf >= 450
  BY <1>1, <1>2, DemotedFloor
<1>5. Gated(r).conf >= 450
  BY <1>2, <1>3, <1>4
<1>6. /\ Gated(r).action \in {r.action, Lowered(r.action)}
      /\ Gated(r).conf <= r.conf /\ Gated(r).dq = r.dq
  BY GatedFields
<1>7. Contract!Rank(r.dq) \in 0..2
  BY ReportFields, RankType
<1>8. QED
  BY <1>5, <1>6, <1>7 DEF Lowers

LEMMA WorseRank ==
  ASSUME NEW a \in Status, NEW b, b \in {a, Merge(a, "PARTIAL")}
  PROVE  Contract!Rank(b) >= Contract!Rank(a)
  BY StatusMembers, MergeRank, RankType

LEMMA ReviewedLowers ==
  ASSUME NEW r \in Report, r.conf >= 450
  PROVE  Lowers(r, Reviewed(r))
<1> DEFINE signed == [r EXCEPT !.reviewer = "rule-reviewer-v1"]
           worst == Merge(r.dq, "PARTIAL")
           worse == [signed EXCEPT !.dq = worst]
<1>1. worst \in Status /\ 550 \in Confidence /\ 550 >= 450
  BY WorstType DEF Confidence, Merge
<1>2. signed \in Report /\ signed.dq = r.dq /\ signed.conf = r.conf
  BY SetReviewer, Zenon
<1>3. Reviewed(r) = IF Critical(r) THEN Demoted(worse, 550) ELSE signed
  BY <1>2 DEF Reviewed
<1> HIDE DEF signed, worst
<1>4. worse \in Report /\ worse.conf = signed.conf
  BY <1>1, <1>2, SetQuality, Zenon
<1> HIDE DEF worse
<1>5. Demoted(worse, 550).conf >= 450
  BY <1>1, <1>2, <1>4, DemotedFloor
<1>6. Reviewed(r).conf >= 450
  BY <1>2, <1>3, <1>5
<1>7. r.dq \in Status
  BY ReportFields
<1>8. /\ Reviewed(r).action \in {r.action, Lowered(r.action)}
      /\ Reviewed(r).conf <= r.conf
      /\ Contract!Rank(Reviewed(r).dq) >= Contract!Rank(r.dq)
  BY <1>7, ReviewedFields, WorseRank
<1>9. QED
  BY <1>6, <1>8 DEF Lowers

LEMMA RepairedLowers ==
  ASSUME NEW r \in Report, r.conf >= 450
  PROVE  Lowers(r, Repaired(r))
<1> DEFINE rest == r.defects \ {"links"}
           linked == [r EXCEPT !.defects = rest]
           worst == Merge(r.dq, "PARTIAL")
           worse == [linked EXCEPT !.dq = worst]
           honest == IF covered THEN linked ELSE worse
<1>1. worst \in Status /\ 550 \in Confidence /\ 550 >= 450
  BY WorstType DEF Confidence, Merge
<1>2. rest \in SUBSET {"request", "links", "graph", "meta"}
  BY ReportFields
<1> HIDE DEF rest
<1>3. linked \in Report /\ linked.dq = r.dq /\ linked.conf = r.conf
  BY <1>2, SetDefects, Zenon
<1>4. \/ Repaired(r) = Demoted(honest, 550)
      \/ Repaired(r) = honest
  BY <1>3 DEF Repaired, rest
<1> HIDE DEF linked, worst
<1>5. worse \in Report /\ worse.conf = linked.conf
  BY <1>1, <1>3, SetQuality, Zenon
<1> HIDE DEF worse
<1>6. honest \in Report /\ honest.conf >= 450
  BY <1>3, <1>5
<1> HIDE DEF honest
<1>7. Repaired(r).conf >= 450
  BY <1>1, <1>4, <1>6, DemotedFloor
<1>8. r.dq \in Status
  BY ReportFields
<1>9. /\ Repaired(r).action \in {r.action, Lowered(r.action)}
      /\ Repaired(r).conf <= r.conf
      /\ Contract!Rank(Repaired(r).dq) >= Contract!Rank(r.dq)
  BY <1>8, RepairedFields, WorseRank
<1>10. QED
  BY <1>7, <1>9 DEF Lowers

LEMMA LowersTwice ==
  ASSUME NEW r \in Report, NEW s \in Report, NEW t \in Report, Lowers(r, s), Lowers(s, t)
  PROVE  Lowers(r, t)
<1>1. r.conf \in Int /\ s.conf \in Int /\ t.conf \in Int
  BY ConfIsInt
<1>2. Contract!Rank(r.dq) \in 0..2 /\ Contract!Rank(s.dq) \in 0..2 /\ Contract!Rank(t.dq) \in 0..2
  BY ReportFields, RankType
<1>3. t.conf <= r.conf /\ t.conf >= 450 /\ Contract!Rank(t.dq) >= Contract!Rank(r.dq)
  BY <1>1, <1>2 DEF Lowers
<1>4. t.action \in {r.action, Lowered(r.action), "AVOID"}
  BY DEF Lowers, Lowered
<1>5. QED
  BY <1>3, <1>4 DEF Lowers

-----------------------------------------------------------------------------
(* Decisions are only lowered *)

BeforeDraft == {"build_facts", "score_signal", "price_bands", "retrieve_memory",
                "search_docs", "rerank_docs", "extract_events", "graph_subtree",
                "impact_paths", "build_context", "draft_report"}
Undecided == BeforeDraft \cup {"tool_error"}

\* Strengthening: there is a decision from the draft on, and its confidence
\* never falls below the fallback's.
DecidedInv ==
  /\ pc = "build_facts" => dq = "OK"
  /\ pc \in Undecided => report.action = "NONE" /\ repairs = 0
  /\ pc \notin Undecided => report.action \in Actions /\ report.conf >= 450

\* The nodes before the draft, and those that work on the draft.
Collecting ==
  \/ BuildFacts \/ ScoreSignal \/ PriceBands \/ RetrieveMemory \/ SearchDocs
  \/ RerankDocs \/ ExtractEvents \/ GraphSubtree \/ ImpactPaths \/ BuildContext
Deciding == RiskGate \/ Reviewer \/ RepairReport \/ MarkInvalid \/ Persist

LEMMA NextParts == [Next]_vars => Collecting \/ DraftReport \/ Deciding \/ Validate \/ UNCHANGED vars
  BY DEF Next, Collecting, Deciding

LEMMA CollectingMoves ==
  ASSUME Collecting
  PROVE  /\ pc \in BeforeDraft /\ pc' \in Undecided \ {"build_facts"}
         /\ report' = report /\ repairs' = repairs
  BY DEF Collecting, BeforeDraft, Undecided, BuildFacts, ScoreSignal, PriceBands,
         RetrieveMemory, AfterMemory, SearchDocs, RerankDocs, ExtractEvents, GraphSubtree,
         ImpactPaths, BuildContext

LEMMA DraftDecides ==
  ASSUME TypeInv, DraftReport
  PROVE  /\ pc = "draft_report" /\ pc' = "risk_gate" /\ repairs' = repairs
         /\ report'.action \in Actions /\ report'.conf >= 450
<1>1. ScoreConfidence(score) \in 450..850 /\ ProposedAction(score) \in Actions
  BY ConfidenceType DEF TypeInv, TypeOK
<1>2. ASSUME NEW extra PROVE Draft(extra).action \in Actions /\ Draft(extra).conf >= 450
  BY <1>1 DEF Draft
<1>3. Fallback.action \in Actions /\ Fallback.conf >= 450
  BY <1>1 DEF Fallback, Actions, Smaller
<1>4. report' = Fallback \/ \E extra \in SUBSET DraftDefects : report' = Draft(extra)
  BY DEF DraftReport
<1> HIDE DEF Draft, Fallback
<1>5. QED
  BY <1>2, <1>3, <1>4 DEF DraftReport

LEMMA DecidingMoves ==
  ASSUME Deciding
  PROVE  pc \notin Undecided /\ pc' \notin Undecided
  BY DEF Deciding, BeforeDraft, Undecided, RiskGate, Reviewer, RepairReport, MarkInvalid, Persist

LEMMA DecidingLowers ==
  ASSUME TypeInv, DecidedInv, Deciding
  PROVE  Lowers(report, report')
<1>1. report \in Report /\ report.conf >= 450 /\ dq \in Status /\ matrix \in [Dependencies -> Status]
  BY DecidingMoves DEF TypeInv, TypeOK, DecidedInv
<1>2. Lowers(report, Fallback)
  BY <1>1, FallbackLowers DEF TypeInv
<1>3. CASE RiskGate
  <2> DEFINE r == [report EXCEPT !.dq = Merge(@, dq')]
  <2>1. dq' \in Status
    BY <1>3, SyncOK DEF RiskGate
  <2>2. r \in Report /\ Lowers(report, r)
    BY <1>1, <2>1, QualityLowers
  <2>3. report' = Gated(r) \/ report' = Fallback
    BY <1>3 DEF RiskGate
  <2> HIDE DEF r
  <2>4. r.conf >= 450
    BY <2>2 DEF Lowers
  <2>5. Lowers(r, Gated(r)) /\ Gated(r) \in Report
    BY <2>2, <2>4, GatedLowers, GatedFields
  <2>6. Lowers(report, Gated(r))
    BY <1>1, <2>2, <2>5, LowersTwice
  <2>7. QED
    BY <1>2, <2>3, <2>6
<1>4. CASE Reviewer
  <2>1. CASE budgetDegraded
    <3> DEFINE s == [report EXCEPT !.reviewer = "SKIPPED_BUDGET"]
    <3>1. report' = s
      BY <1>4, <2>1, Zenon DEF Reviewer
    <3>2. s.action = report.action /\ s.conf = report.conf /\ s.dq = report.dq
      BY <1>1, SetReviewer, Zenon
    <3> HIDE DEF s
    <3>3. report.conf \in Int /\ Contract!Rank(report.dq) \in 0..2
      BY <1>1, ConfIsInt, ReportFields, RankType
    <3>4. QED
      BY <1>1, <3>1, <3>2, <3>3 DEF Lowers
  <2>2. CASE ~budgetDegraded
    <3>1. report' = Reviewed(report)
      BY <1>4, <2>2, Zenon DEF Reviewer
    <3>2. QED
      BY <1>1, <3>1, ReviewedLowers
  <2>3. QED
    BY <2>1, <2>2
<1>5. CASE RepairReport
  BY <1>1, <1>5, RepairedLowers DEF RepairReport
<1>6. CASE MarkInvalid
  BY <1>2, <1>6 DEF MarkInvalid
<1>7. CASE Persist
  <2>1. dq' \in Status
    BY <1>7, SyncOK DEF Persist
  <2>2. report' = [report EXCEPT !.dq = Merge(@, dq')]
    BY <1>7 DEF Persist
  <2>3. QED
    BY <1>1, <2>1, <2>2, QualityLowers
<1>8. QED
  BY <1>3, <1>4, <1>5, <1>6, <1>7 DEF Deciding

\* Lowering keeps an action an action, and never makes it bolder.
LEMMA LowersKeepsAction ==
  ASSUME NEW r, NEW s, Lowers(r, s), r.action \in Actions
  PROVE  /\ s.action \in Actions
         /\ ActionRank(s.action) <= ActionRank(r.action)
         /\ Contract!Boldness(s.action) <= Contract!Boldness(r.action)
  BY DEF Lowers, Lowered, Actions, ActionRank, Contract!Boldness

LEMMA StepDecided == TypeInv /\ DecidedInv /\ [Next]_vars => DecidedInv'
<1> SUFFICES ASSUME TypeInv, DecidedInv, [Next]_vars PROVE DecidedInv'
  OBVIOUS
<1>1. CASE Collecting
  BY <1>1, CollectingMoves DEF DecidedInv, Undecided
<1>2. CASE DraftReport
  BY <1>2, DraftDecides DEF DecidedInv, Undecided, BeforeDraft
<1>3. CASE Deciding
  <2>1. pc \notin Undecided /\ pc' \notin Undecided
    BY <1>3, DecidingMoves
  <2>2. report'.action \in Actions /\ report'.conf >= 450
    BY <1>3, <2>1, DecidingLowers, LowersKeepsAction DEF Lowers, DecidedInv
  <2>3. QED
    BY <2>1, <2>2 DEF DecidedInv, Undecided, BeforeDraft
<1>4. CASE Validate
  <2>1. /\ pc = "validate" /\ pc' \in {"persist", "mark_invalid", "repair_report"}
        /\ report' = report
    BY <1>4 DEF Validate
  <2>2. QED
    BY <2>1 DEF DecidedInv, Undecided, BeforeDraft
<1>5. CASE UNCHANGED vars
  BY <1>5 DEF vars, DecidedInv
<1>6. QED
  BY <1>1, <1>2, <1>3, <1>4, <1>5, NextParts

LEMMA DecidedInvariant == Spec => [](TypeInv /\ DecidedInv)
<1>1. Init => TypeInv /\ DecidedInv
  BY InitTypeInv DEF Init, DecidedInv, NoReport, Undecided, BeforeDraft
<1>2. TypeInv /\ DecidedInv /\ [Next]_vars => (TypeInv /\ DecidedInv)'
  BY StepTypeInv, StepDecided
<1>3. QED
  BY <1>1, <1>2, PTL DEF Spec

\* Once there is a draft, no gate, review, repair or fallback raises its action
\* or its confidence again, in any round of the repair loop.
THEOREM DecisionsOnlyFall == Spec => DecisionNeverRaised
<1>1. ASSUME TypeInv, DecidedInv, [Next]_vars, report.action # "NONE"
      PROVE  /\ ActionRank(report'.action) <= ActionRank(report.action)
             /\ report'.conf <= report.conf
  <2>1. CASE Deciding
    BY <1>1, <2>1, DecidingMoves, DecidingLowers, LowersKeepsAction DEF Lowers, DecidedInv
  <2>2. CASE report' = report
    <3>1. report.conf \in Int
      BY <1>1, ConfIsInt DEF TypeInv, TypeOK
    <3>2. ActionRank(report.action) \in Int
      BY DEF ActionRank
    <3>3. QED
      BY <2>2, <3>1, <3>2
  <2>3. CASE DraftReport
    BY <1>1, <2>3, DraftDecides DEF DecidedInv, Undecided, BeforeDraft
  <2>4. QED
    BY <1>1, <2>1, <2>2, <2>3, NextParts, CollectingMoves DEF Validate, vars
<1>2. TypeInv /\ DecidedInv /\ [Next]_vars =>
        [report.action # "NONE" => /\ ActionRank(report'.action) <= ActionRank(report.action)
                                   /\ report'.conf <= report.conf]_vars
  BY <1>1
<1>3. QED
  BY <1>2, DecidedInvariant, PTL DEF Spec, DecisionNeverRaised

-----------------------------------------------------------------------------
(* The run keeps its contract *)

\* Whatever a run learns before its first gate only worsens its data quality.
LEMMA QualityWorsens ==
  ASSUME TypeInv, DecidedInv, [Next]_vars
  PROVE  dq' \in Status /\ Contract!Rank(dq') >= Contract!Rank(dq)
<1>1. /\ dq \in Status /\ dq' \in Status /\ Contract!Rank(dq) \in 0..2
      /\ Contract!Rank(dq') \in 0..2
  BY StepTypeInv, RankType DEF TypeInv, TypeOK
<1>2. CASE BuildFacts
  <2>1. Contract!Rank(dq) = 0
    BY <1>2 DEF BuildFacts, DecidedInv, Contract!Rank
  <2>2. QED
    BY <1>1, <2>1
<1>3. ASSUME NEW q \in Status, NEW m, dq' = Sync(q, m), q \in {dq, Merge(dq, "PARTIAL"), "DEGRADED"}
      PROVE  Contract!Rank(dq') >= Contract!Rank(dq)
  <2>1. Contract!Rank(q) >= Contract!Rank(dq) /\ Contract!Rank(q) \in 0..2
    <3>1. CASE q = "DEGRADED"
      BY <1>1, <3>1 DEF Contract!Rank
    <3>2. CASE q \in {dq, Merge(dq, "PARTIAL")}
      BY <1>1, <3>2, WorseRank, RankType
    <3>3. QED
      BY <1>3, <3>1, <3>2
  <2>2. QED
    BY <1>1, <1>3, <2>1, SyncRank
<1>4. CASE dq' = dq
  BY <1>1, <1>4
<1>5. CASE Next /\ ~BuildFacts /\ dq' # dq
  <2>1. \E q \in {dq, Merge(dq, "PARTIAL"), "DEGRADED"} : \E m : dq' = Sync(q, m)
    <3>1. ASSUME NEW o, NEW dep, NEW failed, Enrich(dep, o, failed)
          PROVE  \E q \in {dq, Merge(dq, "PARTIAL"), "DEGRADED"} : \E m : dq' = Sync(q, m)
      BY <3>1 DEF Enrich
    <3>2. ASSUME NEW m, Skip(m)
          PROVE  \E q \in {dq, Merge(dq, "PARTIAL"), "DEGRADED"} : \E n : dq' = Sync(q, n)
      BY <3>2 DEF Skip
    <3>3. CASE SearchDocs \/ RerankDocs \/ ExtractEvents \/ GraphSubtree
      BY <1>5, <3>1, <3>2, <3>3 DEF SearchDocs, RerankDocs, ExtractEvents, GraphSubtree, Idle
    <3>4. CASE RetrieveMemory
      BY <3>4 DEF RetrieveMemory
    <3>5. CASE ImpactPaths
      BY <3>5 DEF ImpactPaths
    <3>6. CASE BuildContext
      BY <3>6 DEF BuildContext
    <3>7. CASE DraftReport \/ RiskGate \/ Reviewer \/ Persist
      BY <1>5, <3>7 DEF DraftReport, RiskGate, Reviewer, Persist
    <3>8. QED
      BY <1>5, <3>3, <3>4, <3>5, <3>6, <3>7
         DEF Next, ScoreSignal, PriceBands, Validate, RepairReport, MarkInvalid
  <2>2. PICK q \in {dq, Merge(dq, "PARTIAL"), "DEGRADED"} : \E m : dq' = Sync(q, m)
    BY <2>1
  <2>3. q \in Status
    BY <1>1, <2>2, MergeIsMax, StatusMembers
  <2>4. QED
    BY <1>1, <1>3, <2>2, <2>3
<1>6. QED
  BY <1>1, <1>2, <1>4, <1>5 DEF vars

LEMMA InitKeepsContract == Init => Contract!Init
  BY DEF Init, Contract!Init, Phase, PassedGate, NoReport

LEMMA CollectKeepsContract ==
  ASSUME TypeInv, DecidedInv, Collecting
  PROVE  Contract!Next
<1>1. /\ pc \in BeforeDraft /\ pc' \in Undecided \ {"build_facts"} /\ report.action = "NONE"
      /\ repairs = 0 /\ repairs' = 0
  BY CollectingMoves DEF DecidedInv, Undecided
<1>2. ~PassedGate /\ ~PassedGate' /\ Phase = "collecting"
  BY <1>1 DEF PassedGate, Phase, BeforeDraft, Undecided
<1>3. Phase' = "collecting" \/ Phase' = "aborted"
  BY <1>1, <1>2 DEF Phase, BeforeDraft, Undecided
<1>4. [Next]_vars
  BY DEF Collecting, Next
<1>5. dq' \in {"OK", "PARTIAL", "DEGRADED"} /\ Contract!Rank(dq') >= Contract!Rank(dq)
  BY <1>4, QualityWorsens DEF Status
<1>6. Contract!Worsen
  BY <1>2, <1>5 DEF Contract!Worsen
<1>7. Contract!Collect \/ Contract!Abort
  BY <1>2, <1>3, <1>6 DEF Contract!Collect, Contract!Abort
<1>8. QED
  BY <1>7 DEF Contract!Next

LEMMA DraftKeepsContract ==
  ASSUME TypeInv, DecidedInv, DraftReport
  PROVE  Contract!Next
<1>1. /\ pc = "draft_report" /\ pc' = "risk_gate" /\ repairs = 0 /\ repairs' = 0
  BY DraftDecides DEF DecidedInv, Undecided, BeforeDraft
<1>2. ~PassedGate /\ ~PassedGate' /\ Phase = "collecting" /\ Phase' = "collecting"
  BY <1>1 DEF PassedGate, Phase
<1>3. dq' \in {"OK", "PARTIAL", "DEGRADED"} /\ Contract!Rank(dq') >= Contract!Rank(dq)
  BY QualityWorsens DEF Status, Next
<1>4. Contract!Collect
  BY <1>2, <1>3 DEF Contract!Worsen, Contract!Collect
<1>5. QED
  BY <1>4 DEF Contract!Next

\* The gate and the nodes after it work on a report that admits its quality.
LEMMA GateQuality ==
  ASSUME TypeInv, DecidedInv, RiskGate
  PROVE  Contract!Rank(report'.dq) >= Contract!Rank(dq)
<1>1. report \in Report /\ dq \in Status /\ dq' \in Status /\ report.conf >= 450
  BY SyncOK, DecidingMoves DEF RiskGate, TypeInv, TypeOK, DecidedInv, Deciding
<1>2. Contract!Rank(dq') >= Contract!Rank(dq)
  BY QualityWorsens DEF Next
<1>3. CASE report' = Fallback
  <2>1. report'.dq = "DEGRADED"
    BY <1>3 DEF Fallback
  <2>2. QED
    BY <1>1, <2>1, RankType DEF Contract!Rank
<1>4. CASE report' = Gated([report EXCEPT !.dq = Merge(@, dq')])
  <2>1. report'.dq = Merge(report.dq, dq')
    <3> DEFINE merged == [report EXCEPT !.dq = Merge(@, dq')]
    <3>1. merged \in Report /\ merged.dq = Merge(report.dq, dq')
      BY <1>1, QualityLowers
    <3>2. report' = Gated(merged)
      BY <1>4
    <3> HIDE DEF merged
    <3>3. report'.dq = merged.dq
      BY <3>1, <3>2, GatedFields
    <3>4. QED
      BY <3>1, <3>3
  <2>2. report.dq \in Status
    BY <1>1, ReportFields
  <2>3. Contract!Rank(report'.dq) >= Contract!Rank(dq')
    BY <1>1, <2>1, <2>2, MergeRank
  <2>4. Merge(report.dq, dq') \in Status
    BY <1>1, <2>2, MergeIsMax
  <2>5. QED
    BY <1>1, <1>2, <2>1, <2>3, <2>4, RankType
<1>5. QED
  BY <1>3, <1>4 DEF RiskGate

\* The nodes that decide again: BUY stays only on OK data.
LEMMA BuyStaysOnOK ==
  ASSUME TypeInv, BudgetNoted, BuyIsHealthy, RiskGate \/ Reviewer \/ RepairReport \/ MarkInvalid,
         report'.action = "BUY"
  PROVE  report'.dq = "OK"
<1>1. CASE RiskGate
  BY <1>1, GateBuy
<1>2. CASE Reviewer
  <2>1. pc \in AfterGate
    BY <1>2 DEF Reviewer, AfterGate
  <2>2. QED
    BY <1>2, <2>1, ReviewBuy DEF BuyIsHealthy
<1>3. CASE RepairReport
  <2>1. report \in Report /\ report' = Repaired(report)
    BY <1>3 DEF RepairReport, TypeInv, TypeOK
  <2>2. QED
    BY <2>1, RepairedFields
<1>4. CASE MarkInvalid
  <2>1. report'.action # "BUY"
    BY <1>4 DEF MarkInvalid, Fallback
  <2>2. QED
    BY <2>1
<1>5. QED
  BY <1>1, <1>2, <1>3, <1>4

LEMMA DecideKeepsContract ==
  ASSUME TypeInv, DecidedInv, BudgetNoted, BuyIsHealthy,
         RiskGate \/ Reviewer \/ RepairReport \/ MarkInvalid
  PROVE  Contract!Next
<1>1. Deciding /\ pc \notin Undecided /\ report.action \in Actions
  BY DecidingMoves DEF Deciding, DecidedInv
<1>2. Lowers(report, report')
  BY <1>1, DecidingLowers
<1>3. /\ report'.action \in Actions
      /\ Contract!Boldness(report'.action) <= Contract!Boldness(report.action)
  BY <1>1, <1>2, LowersKeepsAction
<1>4. report'.dq \in Status
  <2>1. report' \in Report
    BY StepTypeInv DEF TypeInv, TypeOK, Next
  <2>2. QED
    BY <2>1, ReportFields
<1>5. report'.action = "BUY" => report'.dq = "OK"
  BY BuyStaysOnOK
<1>6. PassedGate' /\ Phase' = "deciding"
  <2>1. RepairReport => repairs' = repairs + 1 /\ repairs \in Nat
    BY RepairsAssumption DEF RepairReport, TypeInv, TypeOK
  <2>2. \/ pc' \in {"reviewer", "validate", "mark_invalid", "persist"}
        \/ pc' = "risk_gate" /\ RepairReport
    BY DEF RiskGate, Reviewer, RepairReport, MarkInvalid
  <2>3. QED
    BY <2>1, <2>2 DEF PassedGate, Phase
<1>7. CASE PassedGate
  <2>1. Phase = "deciding"
    BY <1>7 DEF Phase, RiskGate, Reviewer, RepairReport, MarkInvalid
  <2>2. Contract!Worsen
    BY <1>2, <1>4, <1>6, <1>7 DEF Contract!Worsen, Lowers, Status
  <2>3. Contract!NoBuyOnBadData
    BY <1>5, <1>6 DEF Contract!NoBuyOnBadData
  <2>4. Contract!Reconsider
    BY <1>3, <1>6, <1>7, <2>1, <2>2, <2>3 DEF Contract!Reconsider, Actions
  <2>5. QED
    BY <2>4 DEF Contract!Next
<1>8. CASE ~PassedGate
  <2>1. RiskGate /\ Phase = "collecting"
    BY <1>8 DEF PassedGate, Phase, RiskGate, Reviewer, RepairReport, MarkInvalid
  <2>2. Contract!Worsen
    BY <1>4, <1>6, <1>8, <2>1, GateQuality DEF Contract!Worsen, Status
  <2>3. Contract!NoBuyOnBadData
    BY <1>5, <1>6 DEF Contract!NoBuyOnBadData
  <2>4. Contract!Decide
    BY <1>3, <1>6, <2>1, <2>2, <2>3 DEF Contract!Decide, Actions
  <2>5. QED
    BY <2>4 DEF Contract!Next
<1>9. QED
  BY <1>7, <1>8

LEMMA PersistKeepsContract ==
  ASSUME TypeInv, DecidedInv, Persist
  PROVE  Contract!Next
<1>1. Deciding /\ report \in Report
  BY DEF Deciding, TypeInv, TypeOK
<1>2. Lowers(report, report')
  BY <1>1, DecidingLowers
<1>3. report'.dq \in Status
  <2>1. report' \in Report
    BY StepTypeInv DEF TypeInv, TypeOK, Next
  <2>2. QED
    BY <2>1, ReportFields
<1>4. report'.action = report.action
  <2>1. dq' \in Status /\ report.conf >= 450
    BY <1>1, SyncOK, DecidingMoves DEF Persist, DecidedInv
  <2>2. QED
    BY <1>1, <2>1, QualityLowers DEF Persist
<1>5. PassedGate /\ PassedGate' /\ Phase = "deciding" /\ Phase' \in {"published", "aborted"}
  BY DEF PassedGate, Phase, Persist
<1>6. Contract!Worsen
  BY <1>2, <1>3, <1>5 DEF Contract!Worsen, Lowers, Status
<1>7. Contract!Publish \/ Contract!Abort
  BY <1>4, <1>5, <1>6 DEF Contract!Publish, Contract!Abort
<1>8. QED
  BY <1>7 DEF Contract!Next

LEMMA StepKeepsContract ==
  ASSUME TypeInv, DecidedInv, BudgetNoted, BuyIsHealthy, [Next]_vars
  PROVE  [Contract!Next]_(Contract!contract)
<1>1. CASE Validate
  <2>1. pc = "validate" /\ pc' \in {"persist", "mark_invalid", "repair_report"} /\ report' = report
    BY <1>1 DEF Validate
  <2>2. UNCHANGED Contract!contract
    BY <2>1 DEF Contract!contract, Phase, PassedGate
  <2>3. QED
    BY <2>2
<1>2. CASE UNCHANGED vars
  <2>1. UNCHANGED <<pc, report, dq, repairs>>
    BY <1>2 DEF vars
  <2>2. UNCHANGED Contract!contract
    BY <2>1 DEF Contract!contract, Phase, PassedGate
  <2>3. QED
    BY <2>2
<1>3. CASE Collecting
  BY <1>3, CollectKeepsContract
<1>4. CASE DraftReport
  BY <1>4, DraftKeepsContract
<1>5. CASE RiskGate \/ Reviewer \/ RepairReport \/ MarkInvalid
  BY <1>5, DecideKeepsContract
<1>6. CASE Persist
  BY <1>6, PersistKeepsContract
<1>7. QED
  BY <1>1, <1>2, <1>3, <1>4, <1>5, <1>6, NextParts DEF Deciding

\* Every run keeps the contract: it decides on OK data if it decides BUY, then
\* only lowers its decision, and publishes what it decided last.
THEOREM RunKeepsContract == Spec => ImplementsContract
<1>1. BuyInv => BudgetNoted /\ BuyIsHealthy
  BY DEF BuyInv
<1>2. TypeInv /\ DecidedInv /\ BudgetNoted /\ BuyIsHealthy /\ [Next]_vars
        => [Contract!Next]_(Contract!contract)
  BY StepKeepsContract
<1>3. QED
  BY <1>1, <1>2, InitKeepsContract, BuyInvariant, DecidedInvariant, PTL
     DEF Spec, ImplementsContract, Contract!Spec

-----------------------------------------------------------------------------
(* What is persisted is honest *)

\* Nothing is published before the node that persists.
LEMMA UnpublishedElsewhere ==
  ASSUME PublishedAtEnd, Next, ~Persist
  PROVE  status' = "NONE"
<1>1. status' = status /\ pc # "end"
  BY DEF Next, outcome, BuildFacts, ScoreSignal, PriceBands, RetrieveMemory,
     SearchDocs, RerankDocs, ExtractEvents, GraphSubtree, ImpactPaths, BuildContext,
     DraftReport, RiskGate, Reviewer, Validate, RepairReport, MarkInvalid
<1>2. QED
  BY <1>1 DEF PublishedAtEnd

\* A report merged with the synced quality admits what every dependency noted.
LEMMA MergedCovers ==
  ASSUME NEW r \in Status, NEW q \in Status, NEW m \in [Dependencies -> Status],
         NEW d \in Dependencies
  PROVE  Merge(Merge(r, Sync(q, m)), m[d]) = Merge(r, Sync(q, m))
<1>1. m[d] \in Status
  OBVIOUS
<1>2. m[d] = "DEGRADED" => Sync(q, m) = "DEGRADED"
  BY DEF Sync, Worst
<1>3. m[d] = "PARTIAL" => Sync(q, m) \in {"PARTIAL", "DEGRADED"}
  BY DEF Sync, Worst
<1>4. QED
  BY <1>1, <1>2, <1>3 DEF Merge, Worst, Status

LEMMA StepCovers ==
  ASSUME BuyInv, PersistedQualityCoversMatrix, [Next]_vars
  PROVE  PersistedQualityCoversMatrix'
<1> USE DEF PersistedQualityCoversMatrix
<1>1. CASE UNCHANGED vars
  BY <1>1 DEF vars
<1>2. CASE Next /\ ~Persist
  BY <1>2, UnpublishedElsewhere DEF BuyInv
<1>3. CASE Persist
  <2> DEFINE merged == Merge(report.dq, dq')
  <2>1. report \in Report /\ dq \in Status /\ matrix' \in [Dependencies -> Status]
    BY <1>3, PersistType DEF BuyInv, TypeInv, TypeOK
  <2>2. dq' = Sync(dq, matrix') /\ report' = [report EXCEPT !.dq = merged]
    BY <1>3 DEF Persist
  <2>3. merged \in Status /\ report.dq \in Status
    BY <2>1, WorstType, ReportFields DEF Merge
  <2>4. \A d \in Dependencies : Merge(merged, matrix'[d]) = merged
    BY <2>1, <2>2, <2>3, MergedCovers
  <2> HIDE DEF merged
  <2>5. report'.dq = merged
    BY <2>1, <2>2, <2>3, SetQuality
  <2>6. QED
    BY <2>4, <2>5
<1>4. QED
  BY <1>1, <1>2, <1>3

\* The report that is persisted admits at least what any dependency noted, the
\* failed note of its own run included (persist_node's last merge).
THEOREM PersistedQuality == Spec => []PersistedQualityCoversMatrix
<1>1. Init => PersistedQualityCoversMatrix
  BY DEF Init, PersistedQualityCoversMatrix
<1>2. BuyInv /\ PersistedQualityCoversMatrix /\ [Next]_vars => PersistedQualityCoversMatrix'
  BY StepCovers
<1>3. QED
  BY <1>1, <1>2, BuyInvariant, PTL DEF Spec

-----------------------------------------------------------------------------
(* The status is the truth *)

\* Only a report without defects, or the fallback of a run that used up its
\* repairs, is on its way to being persisted.
StatusInv ==
  /\ pc = "mark_invalid" => repairs = MaxRepairs
  /\ invalid => /\ pc \in {"persist"} \cup Ended
                /\ repairs = MaxRepairs
                /\ report.action = "AVOID"
                /\ report.dq = "DEGRADED"
  /\ pc = "persist" /\ ~invalid => report.defects = {}
  /\ StatusIsTruthful

LEMMA PersistIsTruthful ==
  ASSUME BuyInv, StatusInv, Persist
  PROVE  StatusInv'
<1> DEFINE merged == Merge(report.dq, dq')
<1>1. report \in Report /\ report.dq \in Status /\ pc = "persist" /\ status = "NONE"
  BY ReportFields DEF Persist, BuyInv, TypeInv, TypeOK, PublishedAtEnd
<1>2. merged \in Status /\ (report.dq = "DEGRADED" => merged = "DEGRADED")
  BY WorstType DEF Merge, Worst
<1>3. report' = [report EXCEPT !.dq = merged]
  BY DEF Persist
<1>4. /\ pc' \in Ended /\ invalid' = invalid /\ repairs' = repairs
      /\ status' \in {status, IF invalid THEN "FAILED" ELSE "DONE"}
  BY DEF Persist, Ended
<1> HIDE DEF merged
<1>5. report'.dq = merged /\ report'.action = report.action /\ report'.defects = report.defects
  BY <1>1, <1>2, <1>3, SetQuality
<1>6. QED
  BY <1>1, <1>2, <1>4, <1>5 DEF StatusInv, StatusIsTruthful, Ended

LEMMA StepStatusInv ==
  ASSUME BuyInv, StatusInv, [Next]_vars
  PROVE  StatusInv'
<1>1. CASE UNCHANGED vars
  BY <1>1 DEF vars, StatusInv, StatusIsTruthful
<1>2. CASE Persist
  BY <1>2, PersistIsTruthful
<1>3. ASSUME Next, ~Persist
      PROVE  StatusIsTruthful'
  BY <1>3, UnpublishedElsewhere DEF BuyInv, StatusIsTruthful
<1>4. CASE MarkInvalid
  <2>1. /\ pc' = "persist" /\ invalid' = TRUE /\ repairs' = repairs
        /\ pc = "mark_invalid" /\ report' = Fallback
    BY <1>4 DEF MarkInvalid
  <2>2. Fallback.action = "AVOID" /\ Fallback.dq = "DEGRADED"
    BY DEF Fallback
  <2>3. Next /\ ~Persist
    BY <1>4, <2>1 DEF Next, Persist
  <2>4. QED
    BY <1>3, <2>1, <2>2, <2>3 DEF StatusInv
<1>5. CASE Validate
  <2>1. /\ pc = "validate" /\ UNCHANGED <<report, repairs, invalid>>
        /\ pc' \in {"persist", "mark_invalid", "repair_report"}
        /\ pc' = "persist" => Consistent(report)
        /\ pc' = "mark_invalid" => repairs >= MaxRepairs
    BY <1>5 DEF Validate, RepairsExhausted
  <2>2. repairs \in 0..MaxRepairs
    BY DEF BuyInv, TypeInv, TypeOK
  <2>3. ~invalid
    BY <2>1 DEF StatusInv, Ended
  <2>4. Next /\ ~Persist
    BY <1>5, <2>1 DEF Next, Persist
  <2>5. pc' = "mark_invalid" => repairs' = MaxRepairs
    BY <2>1, <2>2, RepairsAssumption
  <2>6. pc' = "persist" => report'.defects = {}
    BY <2>1 DEF Consistent
  <2>7. QED
    BY <1>3, <2>1, <2>3, <2>4, <2>5, <2>6 DEF StatusInv
<1>6. CASE Collecting \/ DraftReport \/ RiskGate \/ Reviewer \/ RepairReport
  <2>1. /\ pc \notin {"persist"} \cup Ended /\ invalid' = invalid
        /\ pc' \notin {"persist", "mark_invalid"}
        /\ Next /\ ~Persist
    BY <1>6 DEF Collecting, Ended, outcome, AfterMemory, Next, Persist, BuildFacts,
       ScoreSignal, PriceBands, RetrieveMemory, SearchDocs, RerankDocs, ExtractEvents,
       GraphSubtree, ImpactPaths, BuildContext, DraftReport, RiskGate, Reviewer, RepairReport
  <2>2. ~invalid'
    BY <2>1 DEF StatusInv
  <2>3. QED
    BY <1>3, <2>1, <2>2 DEF StatusInv
<1>7. QED
  BY <1>1, <1>2, <1>4, <1>5, <1>6, NextParts DEF Deciding

\* A DONE report has no defect, whichever gate, review or repair it came
\* through; a FAILED one used up every repair and says AVOID, DEGRADED.
THEOREM TruthfulStatus == Spec => []StatusIsTruthful
<1>1. Init => StatusInv
  BY DEF Init, StatusInv, StatusIsTruthful
<1>2. BuyInv /\ StatusInv /\ [Next]_vars => StatusInv'
  BY StepStatusInv
<1>3. StatusInv => StatusIsTruthful
  BY DEF StatusInv
<1>4. QED
  BY <1>1, <1>2, <1>3, BuyInvariant, PTL DEF Spec

-----------------------------------------------------------------------------
(* A degraded budget stops the guarded calls *)

\* A budget is degraded only once it is used up.
SpentInv == budgetDegraded => used >= maxCalls

\* No node takes a call back, and one that newly degrades the budget leaves
\* nothing of it.
LEMMA BudgetSpent ==
  ASSUME TypeInv, Next
  PROVE  /\ used' >= used /\ maxCalls' = maxCalls
         /\ budgetDegraded' => budgetDegraded \/ used' >= maxCalls
<1>1. maxCalls \in Nat /\ used \in Nat
  BY DEF TypeInv, TypeOK
<1>2. maxCalls' = maxCalls
  BY DEF Next, BuildFacts, ScoreSignal, PriceBands, RetrieveMemory, SearchDocs, RerankDocs,
     ExtractEvents, GraphSubtree, ImpactPaths, BuildContext, DraftReport, RiskGate, Reviewer,
     Validate, RepairReport, MarkInvalid, Persist, request
<1>3. CASE BuildFacts
  <2>1. /\ used = 0
        /\ used' = used + Smaller(FactTools(tier), maxCalls - used)
        /\ budgetDegraded' => Smaller(FactTools(tier), maxCalls - used) < FactTools(tier)
    BY <1>3 DEF BuildFacts, TypeInv
  <2>2. QED
    BY <1>1, <1>2, <2>1 DEF Smaller, FactTools
<1>4. CASE RetrieveMemory
  <2>1. \/ used' = used /\ ~HasBudget
        \/ used' = used + 1 /\ (budgetDegraded' => budgetDegraded \/ used' >= maxCalls)
    BY <1>4, Zenon DEF RetrieveMemory
  <2>2. QED
    BY <1>1, <1>2, <2>1 DEF HasBudget
<1>5. CASE SearchDocs
  BY <1>1, <1>2, <1>5 DEF SearchDocs, Skip, Enrich, HasBudget
<1>6. CASE RerankDocs
  BY <1>1, <1>2, <1>6 DEF RerankDocs, Idle, Skip, Enrich, HasBudget
<1>7. CASE ExtractEvents
  BY <1>1, <1>2, <1>7 DEF ExtractEvents, Idle, Skip, Enrich, HasBudget
<1>8. CASE GraphSubtree
  BY <1>1, <1>2, <1>8 DEF GraphSubtree, Skip, Enrich, HasBudget
<1>9. CASE ImpactPaths
  <2> DEFINE left == IF HasBudget THEN maxCalls - used ELSE 0
  <2>1. PICK n \in 0..ImpactLimit[tier] :
          /\ used' = used + Smaller(2 * n, left)
          /\ budgetDegraded' => budgetDegraded \/ Smaller(2 * n, left) < 2 * n
    BY <1>9, Zenon DEF ImpactPaths
  <2>2. n \in Nat
    BY ImpactAssumption DEF TypeInv, TypeOK
  <2>3. QED
    BY <1>1, <1>2, <2>1, <2>2 DEF Smaller, HasBudget
<1>10. CASE BuildContext
  BY <1>1, <1>2, <1>10 DEF BuildContext, HasBudget
<1>11. CASE DraftReport
  BY <1>1, <1>2, <1>11 DEF DraftReport, HasBudget
<1>12. CASE ScoreSignal \/ PriceBands \/ RiskGate \/ Persist
  BY <1>1, <1>2, <1>12 DEF ScoreSignal, PriceBands, RiskGate, Persist
<1>13. CASE Reviewer \/ Validate \/ RepairReport \/ MarkInvalid
  BY <1>1, <1>2, <1>13 DEF Reviewer, Validate, RepairReport, MarkInvalid
<1>14. QED
  BY <1>3, <1>4, <1>5, <1>6, <1>7, <1>8, <1>9, <1>10, <1>11, <1>12, <1>13 DEF Next

LEMMA StepSpentInv == TypeInv /\ SpentInv /\ [Next]_vars => SpentInv'
<1> SUFFICES ASSUME TypeInv, SpentInv, [Next]_vars PROVE SpentInv'
  OBVIOUS
<1>1. CASE UNCHANGED vars
  BY <1>1 DEF vars, SpentInv
<1>2. CASE Next
  <2>1. TypeInv'
    BY StepTypeInv
  <2>2. used \in Nat /\ used' \in Nat /\ maxCalls \in Nat
    BY <2>1 DEF TypeInv, TypeOK
  <2>3. QED
    BY <1>2, <2>2, BudgetSpent DEF SpentInv
<1>3. QED
  BY <1>1, <1>2

\* However the budget ran out, and whichever node noticed, no later node of
\* memory, RAG, graph, context or draft calls a tool.
THEOREM SpentBudgetStopsCalls == Spec => DegradedBudgetStopsCalls
<1>1. Init => TypeInv /\ SpentInv
  <2>1. Init => SpentInv
    BY DEF Init, SpentInv
  <2>2. QED
    BY <2>1, InitTypeInv
<1>2. TypeInv /\ SpentInv /\ [Next]_vars => (TypeInv /\ SpentInv)'
  BY StepTypeInv, StepSpentInv
<1>3. TypeInv /\ SpentInv /\ [Next]_vars
        => [budgetDegraded /\ pc \in GuardedNodes => used' = used]_vars
  <2> SUFFICES ASSUME TypeInv, SpentInv, Next, budgetDegraded, pc \in GuardedNodes
               PROVE  used' = used
    OBVIOUS
  <2>1. TypeInv'
    BY StepTypeInv
  <2>2. used \in Nat /\ used' \in Nat /\ maxCalls \in Nat
    BY <2>1 DEF TypeInv, TypeOK
  <2>3. used >= maxCalls /\ used' >= used /\ (used' = used \/ used' <= maxCalls)
    BY BudgetSpent, GuardedInBudget DEF SpentInv
  <2>4. QED
    BY <2>2, <2>3
<1>4. QED
  BY <1>1, <1>2, <1>3, PTL DEF Spec, DegradedBudgetStopsCalls
=============================================================================
