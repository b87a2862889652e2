-------------------------- MODULE ResearchWorkflow --------------------------
(***************************************************************************)
(* One run of the research graph (app/workflows/graph.py), node by node.   *)
(*                                                                         *)
(* Every node of the graph is one action; `pc' is the node that runs next. *)
(* A node is sequential code, so nothing interleaves inside it: what makes *)
(* the run hard is that each tool call may succeed, succeed degraded or    *)
(* fail, that the call budget may run out before any of the guarded calls, *)
(* and that the status of the run is kept in four places that the nodes    *)
(* merge at different moments:                                             *)
(*                                                                         *)
(*   dq      state['data_quality'].status                                  *)
(*   matrix  state['degradation_matrix'][dependency].status                *)
(*   budget  state['budget'].degraded, against the count of tool traces    *)
(*   report  the report's own data_quality.status                          *)
(*                                                                         *)
(* Abstractions.  Texts, reasons and notes are left out.  A confidence is  *)
(* an integer number of thousandths.  Evidence is the number of references *)
(* of each kind, which is all that coverage looks at.  A schema or         *)
(* consistency error is a defect of the report:                            *)
(*   "request"  a field copied from the request that the report schema     *)
(*              refuses (e.g. a market outside its enum)                   *)
(*   "links"    an evidence_id that is missing or unknown                  *)
(*   "graph"    a driver's graph_ref that no GRAPH_QUERY evidence carries  *)
(*   "meta"     a `meta' object, which the schema refuses; a provider that *)
(*              reports a degraded success has to return one               *)
(* The shipped provider produces none of the last three (DraftDefects =    *)
(* {}); the nodes are written for a provider that can.                     *)
(***************************************************************************)
EXTENDS Integers, FiniteSets

CONSTANTS
  Tiers,          \* the tiers requests ask for
  Budgets,        \* the values of budget.max_tool_calls considered for each tier
  ImpactLimit,    \* graph.impact_top_entities of each tier
  MaxRepairs,     \* state['max_repairs']
  ScoreValues,    \* the overall scores considered
  MaxDocs,        \* bound on the documents one search returns
  MaxNotes,       \* bound on the memory notes cited as evidence, at most 2
  DraftDefects    \* defects a drafted report may have

AllTiers == {"TIER0", "TIER1", "TIER2"}
Enriched == {"TIER1", "TIER2"}   \* the tiers with RAG, graph and reviewer

ASSUME TiersAssumption == Tiers \subseteq AllTiers /\ Tiers # {}
ASSUME BudgetAssumption == Budgets \in [Tiers -> SUBSET Nat]
ASSUME ImpactAssumption == ImpactLimit \in [Tiers -> Nat]
ASSUME RepairsAssumption == MaxRepairs \in Nat
ASSUME ScoreAssumption == ScoreValues \subseteq 0..100
ASSUME DocsAssumption == MaxDocs \in Nat
ASSUME NotesAssumption == MaxNotes \in 0..2
ASSUME DefectsAssumption == DraftDefects \subseteq {"links", "graph", "meta"}

VARIABLES
  pc,              \* the node that runs next, or how the run ended
  tier,            \* request.tier
  requestFits,     \* do the request's fields fit the report schema
  maxCalls,        \* budget.max_tool_calls
  used,            \* len(state['tool_traces']), i.e. budget.used_tool_calls
  budgetDegraded,  \* budget.degraded
  dq,              \* state['data_quality'].status
  matrix,          \* status of each dependency in the degradation matrix
  score,           \* score.overall_score
  evidence,        \* evidence references by kind
  entities,        \* entities named by the extracted events
  covered,         \* evidence_coverage.ok
  report,          \* state['report_draft']
  repairs,         \* state['repair_attempts']
  errors,          \* validation_errors or consistency_errors is not empty
  invalid,         \* state['workflow_invalid']
  noteWritten,     \* the run's memory note is committed
  status           \* workflow status of the persisted report

vars == <<pc, tier, requestFits, maxCalls, used, budgetDegraded, dq, matrix, score,
          evidence, entities, covered, report, repairs, errors, invalid,
          noteWritten, status>>

request == <<tier, requestFits, maxCalls>>
outcome == <<errors, invalid, noteWritten, status>>

-----------------------------------------------------------------------------
(* Statuses *)

Status == {"OK", "PARTIAL", "DEGRADED"}
Dependencies == {"budget", "data_source", "rag", "graph", "llm"}

\* The worst of a set of statuses: _merge_status, folded.
Worst(S) == IF "DEGRADED" \in S THEN "DEGRADED"
            ELSE IF "PARTIAL" \in S THEN "PARTIAL" ELSE "OK"

MergeLast(a, b) == b  \* mutant: the last status wins
Merge(a, b) == Worst({a, b})

\* _note_degradation: a dependency's status never improves.
Note(m, dep, s) == [m EXCEPT ![dep] = Merge(@, s)]

SyncNothing(q, m) == q  \* mutant: the matrix is not merged
\* _sync_data_quality_from_matrix
Sync(q, m) == Worst({q} \cup {m[d] : d \in Dependencies})

\* _budget_guardrail with reserve_tool_calls = 1 (the cost estimate of every
\* call is 0, so the cost half of the guard never fails).
HasBudgetLate == used <= maxCalls   \* mutant: no call is reserved
HasBudgetByCost == TRUE             \* mutant: only the cost is compared
HasBudget == used < maxCalls

\* budget.max_tool_calls of _default_tier_policy
ShippedBudget == [t \in AllTiers |-> IF t = "TIER0" THEN 20 ELSE IF t = "TIER1" THEN 45 ELSE 90]

\* _mark_budget_degraded.  The PARTIAL it merges into data_quality is absorbed
\* by the DEGRADED that the node's sync takes from the matrix.
Exhausted(m) == Note(m, "budget", "DEGRADED")

-----------------------------------------------------------------------------
(* Score, coverage and reports *)

Actions == {"BUY", "WATCH", "AVOID"}
Smaller(a, b) == IF a <= b THEN a ELSE b

\* score_signal
ProposedAction(s) == IF s >= 75 THEN "BUY" ELSE IF s < 45 THEN "AVOID" ELSE "WATCH"
ScoreConfidence(s) == Smaller(850, 450 + 5 * s)

\* _coverage_details_for_refs.  A context without any evidence gets one
\* fallback reference; min_type_count is implied by the required types.
MinRefs(t) == IF t = "TIER0" THEN 1 ELSE IF t = "TIER1" THEN 4 ELSE 6

Coverage(t, ev) ==
  /\ ev.facts + ev.docs + ev.notes + ev.graph >= MinRefs(t)
  /\ ev.facts > 0
  /\ t \in Enriched => ev.docs > 0

RequestDefects == IF requestFits THEN {} ELSE {"request"}

NoReport == [action |-> "NONE", conf |-> 0, dq |-> "OK", highRisk |-> FALSE,
             reviewer |-> "NONE", defects |-> {}]

\* _fallback_report_from_context: data_quality is merged with DEGRADED, so the
\* action is AVOID; its evidence is the context's, so only the request's own
\* fields can be wrong.
Fallback == [action |-> "AVOID", conf |-> Smaller(ScoreConfidence(score), 450),
             dq |-> "DEGRADED", highRisk |-> TRUE, reviewer |-> "NONE",
             defects |-> RequestDefects]

\* provider.generate_report_draft; context['data_quality'] is still dq here.
Draft(extra) == [action |-> ProposedAction(score), conf |-> ScoreConfidence(score),
                 dq |-> dq, highRisk |-> FALSE, reviewer |-> "NONE",
                 defects |-> RequestDefects \cup extra]

\* "BUY" is lowered to "WATCH"; the other actions are kept.
Lowered(a) == IF a = "BUY" THEN "WATCH" ELSE a

\* How gate, reviewer and repair lower a decision: no BUY, and a capped confidence.
CappedAlways(r, cap) == [r EXCEPT !.conf = cap]  \* mutant: assigned, not capped
Capped(r, cap) == [r EXCEPT !.conf = Smaller(@, cap)]
Demoted(r, cap) == Capped([r EXCEPT !.action = Lowered(@)], cap)

\* risk_gate, with risk_profile LOW
Gated(r) ==
  LET capped == IF r.action = "BUY" THEN Capped(r, 700) ELSE r
  IN  IF r.dq = "OK" THEN capped
      ELSE Demoted(capped, IF r.dq = "PARTIAL" THEN 500 ELSE 450)

ConsistentButGraph(r) == r.defects \subseteq {"graph"}  \* mutant: graph_refs unchecked
\* The rules of check_consistency and of the report schema.
Consistent(r) ==
  /\ r.defects = {}
  /\ ~ (r.dq # "OK" /\ r.action = "BUY" /\ r.conf > 600)

-----------------------------------------------------------------------------
(* Facts, scoring and memory *)

\* How one snapshot call ends: a live snapshot that the quality gate rates OK,
\* PARTIAL or DEGRADED; a stale or synthetic one, always marked DEGRADED; or an
\* error.  FactQuality is what the call merges into data_quality, FactNote what
\* it notes for data_source.
FactOutcome == {"live", "live_partial", "live_degraded", "fallback", "failed"}
FactQuality(o) == IF o = "live" THEN "OK"
                  ELSE IF o = "live_partial" THEN "PARTIAL" ELSE "DEGRADED"
FactNote(o) == IF o = "failed" THEN "DEGRADED"
               ELSE IF o = "fallback" THEN "PARTIAL" ELSE "OK"

FactTools(t) == IF t \in Enriched THEN 4 ELSE 3

Init ==
  /\ pc = "build_facts"
  /\ tier \in Tiers
  /\ requestFits \in BOOLEAN
  /\ maxCalls \in Budgets[tier]
  /\ used = 0
  /\ budgetDegraded = FALSE
  /\ dq = "OK"
  /\ matrix = [d \in Dependencies |-> "OK"]
  /\ score = 0
  /\ evidence = [facts |-> 0, docs |-> 0, notes |-> 0, graph |-> 0]
  /\ entities = 0
  /\ covered = FALSE
  /\ report = NoReport
  /\ repairs = 0
  /\ errors = FALSE
  /\ invalid = FALSE
  /\ noteWritten = FALSE
  /\ status = "NONE"

\* build_facts: the guard before each call breaks out of the loop, so the
\* calls made are the first of the list that the budget allows.
BuildFacts ==
  /\ pc = "build_facts"
  /\ LET calls == Smaller(FactTools(tier), maxCalls - used)
         short == calls < FactTools(tier)
     IN  \E out \in [1..calls -> FactOutcome] :
           LET noted == Note(matrix, "data_source",
                             Worst({FactNote(out[i]) : i \in 1..calls}))
               m == IF short THEN Exhausted(noted) ELSE noted
           IN  /\ used' = used + calls
               /\ budgetDegraded' = short
               /\ matrix' = m
               /\ dq' = Sync(Worst({FactQuality(out[i]) : i \in 1..calls}), m)
               /\ evidence' = [evidence EXCEPT !.facts =
                                 Cardinality({i \in 1..calls : out[i] # "failed"})]
  /\ pc' = "score_signal"
  /\ UNCHANGED <<request, score, entities, covered, report, repairs, outcome>>

\* build_features and score_signal_node.  The call is not guarded, and its
\* output is read as a success: an error output raises KeyError.
ScoreSignal ==
  /\ pc = "score_signal"
  /\ used' = used + 1
  /\ \/ score' \in ScoreValues /\ pc' = "price_bands"
     \/ score' = score /\ pc' = "tool_error"
  /\ UNCHANGED <<request, budgetDegraded, dq, matrix, evidence, entities,
                 covered, report, repairs, outcome>>

\* generate_price_bands_node: not guarded and not checked, like score_signal.
PriceBands ==
  /\ pc = "price_bands"
  /\ used' = used + 1
  /\ pc' \in {"retrieve_memory", "tool_error"}
  /\ UNCHANGED <<request, budgetDegraded, dq, matrix, score, evidence,
                 entities, covered, report, repairs, outcome>>

\* _route_after_memory, on the state retrieve_memory_node leaves.
AfterMemory(degraded) ==
  IF tier \notin Enriched THEN "build_context"
  ELSE IF degraded THEN "graph_subtree" ELSE "search_docs"

\* retrieve_memory_node.  After the call a second guard looks one call ahead
\* on behalf of the RAG chain.
RetrieveMemory ==
  /\ pc = "retrieve_memory"
  /\ \/ /\ ~HasBudget
        /\ budgetDegraded' = TRUE
        /\ matrix' = Exhausted(matrix)
        /\ dq' = Sync(dq, matrix')
        /\ UNCHANGED <<used, evidence>>
     \/ /\ HasBudget
        /\ used' = used + 1
        /\ LET short == tier \in Enriched /\ used' >= maxCalls
           IN  \E ok \in BOOLEAN, notes \in 0..MaxNotes :
                 LET noted == IF ok THEN matrix ELSE Note(matrix, "data_source", "PARTIAL")
                 IN  /\ ok \/ notes = 0
                     /\ budgetDegraded' = (budgetDegraded \/ short)
                     /\ matrix' = IF short THEN Exhausted(noted) ELSE noted
                     /\ dq' = Sync(IF ok THEN dq ELSE "DEGRADED", matrix')
                     /\ evidence' = [evidence EXCEPT !.notes = notes]
  /\ pc' = AfterMemory(budgetDegraded')
  /\ UNCHANGED <<request, score, entities, covered, report, repairs, outcome>>

-----------------------------------------------------------------------------
(* RAG and graph *)

ToolOutcome == {"ok", "degraded", "failed"}

\* A guarded call of the RAG or graph chain that ended with outcome o: an
\* error merges PARTIAL into data_quality and notes `failed' for the
\* dependency, a degraded success notes PARTIAL; then the node syncs.
Enrich(dep, o, failed) ==
  /\ HasBudget
  /\ used' = used + 1
  /\ matrix' = Note(matrix, dep, IF o = "failed" THEN failed
                                 ELSE IF o = "degraded" THEN "PARTIAL" ELSE "OK")
  /\ dq' = Sync(IF o = "failed" THEN Merge(dq, "PARTIAL") ELSE dq, matrix')
  /\ UNCHANGED budgetDegraded

\* The guard of such a call fails: nothing is called.
Skip(m) ==
  /\ ~HasBudget
  /\ budgetDegraded' = TRUE
  /\ matrix' = Exhausted(m)
  /\ dq' = Sync(dq, matrix')
  /\ UNCHANGED used

\* The node has nothing to work on.
Idle == UNCHANGED <<used, budgetDegraded, matrix, dq>>

SearchDocs ==
  /\ pc = "search_docs"
  /\ \/ Skip(matrix) /\ UNCHANGED evidence
     \/ \E o \in ToolOutcome, docs \in 0..MaxDocs :
          /\ o = "failed" => docs = 0
          /\ Enrich("rag", o, "DEGRADED")
          /\ evidence' = [evidence EXCEPT !.docs = docs]
  /\ pc' = "rerank_docs"
  /\ UNCHANGED <<request, score, entities, covered, report, repairs, outcome>>

\* A failed or skipped rerank keeps the candidates.
RerankDocs ==
  /\ pc = "rerank_docs"
  /\ \/ evidence.docs = 0 /\ Idle
     \/ evidence.docs > 0 /\ Skip(matrix)
     \/ evidence.docs > 0 /\ \E o \in ToolOutcome : Enrich("rag", o, "PARTIAL")
  /\ pc' = "extract_events"
  /\ UNCHANGED <<request, score, evidence, entities, covered, report, repairs, outcome>>

ExtractEvents ==
  /\ pc = "extract_events"
  /\ \/ evidence.docs = 0 /\ Idle /\ entities' = 0
     \/ evidence.docs > 0 /\ Skip(matrix) /\ entities' = 0
     \/ /\ evidence.docs > 0
        /\ \E o \in ToolOutcome, n \in 0..ImpactLimit[tier] :
             /\ o = "failed" => n = 0
             /\ Enrich("rag", o, "PARTIAL")
             /\ entities' = n
  /\ pc' = "graph_subtree"
  /\ UNCHANGED <<request, score, evidence, covered, report, repairs, outcome>>

\* A subtree brings two references, its graph_id and its path_id.
GraphSubtree ==
  /\ pc = "graph_subtree"
  /\ \/ Skip(Note(matrix, "graph", "PARTIAL")) /\ UNCHANGED evidence
     \/ \E o \in ToolOutcome :
          /\ Enrich("graph", o, "DEGRADED")
          /\ evidence' = [evidence EXCEPT !.graph = IF o = "failed" THEN 0 ELSE 2]
  /\ pc' = "impact_paths"
  /\ UNCHANGED <<request, score, entities, covered, report, repairs, outcome>>

\* impact_paths_node: find_impact_paths and compute_exposure_score for each
\* entity, each behind its own guard.  A guard that fails stops every later
\* call, so the loop makes the first calls that the budget allows.  Entities
\* come from the events or, when those name none, from the subtree's nodes.
\* An entity brings one reference unless every call made for it failed.
\* (Without entities the node does not sync; graph_subtree_node just did.)
ImpactPaths ==
  /\ pc = "impact_paths"
  /\ \E n \in 0..ImpactLimit[tier] :
       /\ entities > 0 => n = entities
       /\ entities = 0 /\ evidence.graph = 0 => n = 0
       /\ LET left == IF HasBudget THEN maxCalls - used ELSE 0
              calls == Smaller(2 * n, left)
              short == calls < 2 * n
              asked == (calls + 1) \div 2
          IN  \E failures \in 0..calls, lost \in 0..asked :
                LET noted == IF failures = 0 THEN matrix ELSE Note(matrix, "graph", "PARTIAL")
                IN  /\ failures - (calls \div 2) <= lost
                    /\ 2 * lost <= failures + (calls % 2)
                    /\ lost <= failures
                    /\ used' = used + calls
                    /\ budgetDegraded' = (budgetDegraded \/ short)
                    /\ matrix' = IF short THEN Exhausted(noted) ELSE noted
                    /\ dq' = Sync(dq, matrix')
                    /\ evidence' = [evidence EXCEPT !.graph = @ + asked - lost]
  /\ pc' = "build_context"
  /\ UNCHANGED <<request, score, entities, covered, report, repairs, outcome>>

-----------------------------------------------------------------------------
(* Context, draft and gate *)

\* _attempt_tier1_coverage_repair applies: the NEWS_DOC rule is the missing one.
NeedsNews == tier \in Enriched /\ evidence.docs = 0

\* build_context without a coverage repair, with one skipped for lack of
\* budget, or with one more search, whose documents may complete the evidence.
\* The PARTIAL of evidence that did not cover stays when the repair completes it.
BuildContext ==
  /\ pc = "build_context"
  /\ \/ /\ ~NeedsNews
        /\ UNCHANGED <<used, budgetDegraded, matrix, evidence>>
     \/ /\ NeedsNews
        /\ ~HasBudget
        /\ budgetDegraded' = TRUE
        /\ matrix' = Note(Exhausted(matrix), "rag", "PARTIAL")
        /\ UNCHANGED <<used, evidence>>
     \/ /\ NeedsNews
        /\ HasBudget
        /\ used' = used + 1
        /\ \E docs \in 0..MaxDocs, o \in ToolOutcome :
             /\ o = "failed" => docs = 0
             /\ matrix' = IF o = "ok" /\ docs > 0 THEN matrix
                          ELSE Note(matrix, "rag", "PARTIAL")
             /\ evidence' = [evidence EXCEPT !.docs = docs]
        /\ UNCHANGED budgetDegraded
  /\ covered' = Coverage(tier, evidence')
  /\ dq' = Sync(IF Coverage(tier, evidence) THEN dq ELSE Merge(dq, "PARTIAL"), matrix')
  /\ pc' = "draft_report"
  /\ UNCHANGED <<request, score, entities, report, repairs, outcome>>

\* draft_report_node
DraftReport ==
  /\ pc = "draft_report"
  /\ \/ /\ ~HasBudget
        /\ budgetDegraded' = TRUE
        /\ matrix' = Note(Exhausted(matrix), "llm", "DEGRADED")
        /\ report' = Fallback
        /\ UNCHANGED used
     \/ /\ HasBudget
        /\ used' = used + 1
        /\ \/ \E extra \in SUBSET DraftDefects :
                /\ report' = Draft(extra)
                /\ matrix' = IF "meta" \in extra THEN Note(matrix, "llm", "PARTIAL") ELSE matrix
           \/ /\ report' = Fallback
              /\ matrix' = Note(matrix, "llm", "DEGRADED")
        /\ UNCHANGED budgetDegraded
  /\ dq' = Sync(dq, matrix')
  /\ pc' = "risk_gate"
  /\ UNCHANGED <<request, score, evidence, entities, covered, repairs, outcome>>

NeedsReviewIfRisky(r) ==  \* mutant: a TIER1 BUY is not sent to the reviewer
  tier = "TIER2" \/ (tier = "TIER1" /\ (r.highRisk \/ r.dq # "OK"))
\* _route_need_review
NeedsReview(r) ==
  \/ tier = "TIER2"
  \/ tier = "TIER1" /\ (r.action = "BUY" \/ r.highRisk \/ r.dq # "OK")

\* risk_gate_node.  The call is not guarded; a failed gate notes the llm
\* dependency without syncing data_quality.
RiskGate ==
  /\ pc = "risk_gate"
  /\ used' = used + 1
  /\ dq' = Sync(dq, matrix)
  /\ \/ /\ report' = Gated([report EXCEPT !.dq = Merge(@, dq')])
        /\ UNCHANGED matrix
     \/ /\ report' = Fallback
        /\ matrix' = Note(matrix, "llm", "DEGRADED")
  /\ pc' = IF NeedsReview(report') THEN "reviewer" ELSE "validate"
  /\ UNCHANGED <<request, budgetDegraded, score, evidence, entities, covered,
                 repairs, outcome>>

\* reviewer_node: without budget the review is skipped; otherwise a critical
\* finding worsens the report's data quality and lowers its decision.
Critical(r) ==
  \/ tier = "TIER2" /\ evidence.graph = 0
  \/ r.highRisk
  \/ ~covered
  \/ r.dq # "OK"

Reviewed(r) ==
  LET signed == [r EXCEPT !.reviewer = "rule-reviewer-v1"]
  IN  IF Critical(r) THEN Demoted([signed EXCEPT !.dq = Merge(@, "PARTIAL")], 550)
      ELSE signed

Reviewer ==
  /\ pc = "reviewer"
  /\ \/ /\ budgetDegraded
        /\ report' = [report EXCEPT !.reviewer = "SKIPPED_BUDGET"]
        /\ matrix' = Note(matrix, "budget", "DEGRADED")
        /\ dq' = Sync(dq, matrix')
     \/ /\ ~budgetDegraded
        /\ report' = Reviewed(report)
        /\ UNCHANGED <<matrix, dq>>
  /\ pc' = "validate"
  /\ UNCHANGED <<request, used, budgetDegraded, score, evidence, entities,
                 covered, repairs, outcome>>

-----------------------------------------------------------------------------
(* Validation, repair and persistence *)

\* _route_need_repair
RepairsExhausted == repairs >= MaxRepairs

\* validate_node
Validate ==
  /\ pc = "validate"
  /\ errors' = ~Consistent(report)
  /\ pc' = IF ~errors' THEN "persist"
           ELSE IF RepairsExhausted THEN "mark_invalid" ELSE "repair_report"
  /\ UNCHANGED <<request, used, budgetDegraded, dq, matrix, score, evidence,
                 entities, covered, report, repairs, invalid, noteWritten, status>>

\* repair_report_node relinks the evidence, which is all it can repair.
Repaired(r) ==
  LET linked == [r EXCEPT !.defects = @ \ {"links"}]
      honest == IF covered THEN linked ELSE [linked EXCEPT !.dq = Merge(@, "PARTIAL")]
  IN  IF honest.dq # "OK" /\ honest.action = "BUY" THEN Demoted(honest, 550) ELSE honest

RepairReport ==
  /\ pc = "repair_report"
  /\ repairs' = repairs + 1
  /\ report' = Repaired(report)
  /\ pc' = "risk_gate"
  /\ UNCHANGED <<request, used, budgetDegraded, dq, matrix, score, evidence,
                 entities, covered, outcome>>

MarkInvalidRevalidates ==  \* mutant: the fallback is validated again
  /\ pc = "mark_invalid"
  /\ report' = Fallback
  /\ invalid' = TRUE
  /\ errors' = FALSE
  /\ pc' = "validate"
  /\ UNCHANGED <<request, used, budgetDegraded, dq, matrix, score, evidence,
                 entities, covered, repairs, noteWritten, status>>
\* mark_invalid_node clears the errors; the fallback is not validated again.
MarkInvalid ==
  /\ pc = "mark_invalid"
  /\ report' = Fallback
  /\ invalid' = TRUE
  /\ errors' = FALSE
  /\ pc' = "persist"
  /\ UNCHANGED <<request, used, budgetDegraded, dq, matrix, score, evidence,
                 entities, covered, repairs, noteWritten, status>>

\* persist_node and publish_node: the memory note is committed first, a
\* failure to write it is merged into the report after the gate and the
\* validation, and the transaction that persists the report may raise.
Persist ==
  /\ pc = "persist"
  /\ used' = used + 1
  /\ \E ok \in BOOLEAN :
       /\ noteWritten' = ok
       /\ matrix' = IF ok THEN matrix ELSE Note(matrix, "data_source", "PARTIAL")
  /\ dq' = Sync(dq, matrix')
  /\ report' = [report EXCEPT !.dq = Merge(@, dq')]
  /\ \/ status' = (IF invalid THEN "FAILED" ELSE "DONE") /\ pc' = "end"
     \/ status' = status /\ pc' = "db_error"
  /\ UNCHANGED <<request, budgetDegraded, score, evidence, entities, covered,
                 repairs, errors, invalid>>

Next ==
  \/ BuildFacts \/ ScoreSignal \/ PriceBands \/ RetrieveMemory
  \/ SearchDocs \/ RerankDocs \/ ExtractEvents \/ GraphSubtree \/ ImpactPaths
  \/ BuildContext \/ DraftReport \/ RiskGate \/ Reviewer
  \/ Validate \/ RepairReport \/ MarkInvalid \/ Persist

Spec == Init /\ [][Next]_vars

\* The graph's runner calls the next node as soon as a node returns.
FairSpec == Spec /\ WF_vars(Next)

-----------------------------------------------------------------------------
(* Properties *)

Nodes == {"build_facts", "score_signal", "price_bands", "retrieve_memory",
          "search_docs", "rerank_docs", "extract_events", "graph_subtree",
          "impact_paths", "build_context", "draft_report", "risk_gate",
          "reviewer", "validate", "repair_report", "mark_invalid", "persist"}
Ended == {"end", "tool_error", "db_error"}

Confidence == 0..1000
Report == [action : Actions \cup {"NONE"}, conf : Confidence, dq : Status,
           highRisk : BOOLEAN, reviewer : {"NONE", "SKIPPED_BUDGET", "rule-reviewer-v1"},
           defects : SUBSET {"request", "links", "graph", "meta"}]

EvidenceCounts == [facts : Nat, docs : Nat, notes : Nat, graph : Nat]

\* Every variable of the run has its type.
TypeOK ==
  /\ pc \in Nodes \cup Ended
  /\ tier \in Tiers
  /\ requestFits \in BOOLEAN
  /\ maxCalls \in Nat
  /\ used \in Nat
  /\ budgetDegraded \in BOOLEAN
  /\ dq \in Status
  /\ matrix \in [Dependencies -> Status]
  /\ score \in 0..100
  /\ evidence \in EvidenceCounts
  /\ entities \in Nat
  /\ covered \in BOOLEAN
  /\ report \in Report
  /\ repairs \in 0..MaxRepairs
  /\ errors \in BOOLEAN
  /\ invalid \in BOOLEAN
  /\ noteWritten \in BOOLEAN
  /\ status \in {"NONE", "DONE", "FAILED"}

\* A run that persists a BUY had full evidence coverage, never ran out of
\* budget, and noted no degraded dependency, except that writing its own
\* memory note may have failed (the gate, the reviewer, the repair loop and
\* their merges in nodes.py, taken together).
BuyOnlyFromHealthyRun ==
  status = "DONE" /\ report.action = "BUY" =>
    /\ covered
    /\ ~budgetDegraded
    /\ \A d \in Dependencies :
         matrix[d] = "OK" \/ (d = "data_source" /\ matrix[d] = "PARTIAL" /\ ~noteWritten)

\* In the tiers with a reviewer no BUY is persisted unless the reviewer really
\* read the report (it was not skipped for lack of budget), and at TIER2 the
\* run has graph evidence (_route_need_review, reviewer_node).
BuyIsReviewed ==
  status = "DONE" /\ report.action = "BUY" /\ tier \in Enriched =>
    /\ report.reviewer = "rule-reviewer-v1"
    /\ tier = "TIER2" => evidence.graph > 0

\* A persisted report admits at least the worst status that the run noted for
\* any dependency, also when the gate itself failed after the last sync.
PersistedQualityCoversMatrix ==
  status # "NONE" => \A d \in Dependencies : Merge(report.dq, matrix[d]) = report.dq

\* The workflow status is the truth: a DONE report is free of schema and link
\* defects, a FAILED one used up every repair and says AVOID, DEGRADED.
StatusIsTruthful ==
  /\ status = "DONE" => report.defects = {} /\ ~invalid
  /\ status = "FAILED" => /\ repairs = MaxRepairs
                          /\ report.action = "AVOID"
                          /\ report.dq = "DEGRADED"

\* Calls made without the guard (score_signal, generate_price_bands, one
\* risk_gate per round and write_memory_note) exceed the budget by no more
\* than their own number, whatever the budget and the route.
BudgetOvershootBounded == used <= maxCalls + 4 + MaxRepairs

\* Once the budget is degraded no later node of memory, RAG, graph, context or
\* draft calls a tool.
GuardedNodes == {"retrieve_memory", "search_docs", "rerank_docs", "extract_events",
                 "graph_subtree", "impact_paths", "build_context", "draft_report"}
DegradedBudgetStopsCalls ==
  [][budgetDegraded /\ pc \in GuardedNodes => used' = used]_vars

\* After the draft the decision only gets more conservative: no gate, review,
\* repair or fallback raises the action or the confidence again.
ActionRank(a) == IF a = "BUY" THEN 2 ELSE IF a = "WATCH" THEN 1 ELSE 0
DecisionNeverRaised ==
  [][report.action # "NONE" => /\ ActionRank(report'.action) <= ActionRank(report.action)
                              /\ report'.conf <= report.conf]_vars

\* Every run ends: the repair loop leaves the graph's only cycle.
RunEnds == <>(pc \in Ended)

-----------------------------------------------------------------------------
(* Claims of the repository that the code does not keep *)

\* check_consistency refuses a confident BUY on data that is not OK; persist_node
\* merges the failure of the memory note after the report was validated.
PersistedReportConsistent == status = "DONE" => Consistent(report)

\* Unless the database refuses it, a run ends with a report, whatever tools fail.
DependencyFailureStillReports ==
  pc \in Ended \ {"db_error"} => status \in {"DONE", "FAILED"}

=============================================================================
