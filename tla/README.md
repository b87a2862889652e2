# FiPro research assistant: specifications, model checking and proofs

FiPro is a FastAPI service that writes investment research reports. A request
runs a fixed graph of some twenty nodes (langgraph): collect facts, score,
retrieve memory, search documents, query a supply-chain graph, draft a report
with an LLM provider, gate, review, validate, repair, persist. This directory
holds TLA+ modules that model the program from its source, the TLC
configurations that check them on small instances, and TLAPS proofs that hold
for all values of the constants. Line numbers refer to `src/app/...`.

## 1. Inventory

| Component | State it keeps | Operations | Hard behaviour | What makes it correct |
|---|---|---|---|---|
| Research workflow `workflows/graph.py`, `nodes.py`, `state.py` | the state dict of a run: data quality, degradation matrix, budget, report draft, repair counter | one function per node, three routing functions, shadow run | every call may fail or degrade; the budget may run out anywhere; quality is kept in four places merged at different moments; repair loop | a BUY only from a healthy, reviewed run; decisions only lowered; quality never understated; bounded calls; termination |
| Deterministic tools `tools/deterministic.py` | none | `score_signal`, `generate_price_bands`, `risk_gate` | numeric edges of the caps | gate lowers, never raises |
| Validation `validation/*.py`, `tools/qa.py` | none | schema and consistency checks | run before the last merges | what is persisted was validated |
| LLM provider `llm/provider.py` | none | `generate_report_draft` | forced failures; drafts with defects | fallback on every failure |
| Tool wrapper `tools/wrapper.py` | rate limiters and their call windows, shared by all threads | `execute_tool`, `_SlidingWindowLimiter.acquire` | concurrent callers, clock read outside the lock, retries, timeouts | window never over-full; attempts bounded; side effects not retried |
| Facts and cache `tools/facts.py`, `cache.py` | process-wide TTL cache of snapshots, adapter singleton | four `get_*_snapshot`, cache `get`/`get_stale`/`set`/`clear` | live call between cache read and write; expired entries re-used on failure | fallback data stays marked as such |
| Memory notes `tools/memory.py` | SQLite table `memory_notes_runtime`, retrieval cache | write, retrieve, rollup, reset | cache cleared while a reader computes; select-then-insert dedupe; shadow and live runs share the table | a committed note is found; one note per dedupe key |
| RAG store `tools/rag.py` | SQLite `event_docs`, search cache | search, ingest, rerank, extract | mixed store/live/made-up documents; the row of a document is rewritten by every run that cites it | made-up documents recognisable; cited documents stored |
| Graph tools `tools/graph.py` | Neo4j driver, time of the last failure, result caches | subtree, impact paths, exposure | BFS bounds; driver created without a lock; synthetic graph when Neo4j is down; caches on top of caches | paths simple, bounded and nearest first; drivers and retries bounded; recovery after an outage |
| Persistence `workflows/persistence.py` | reports, decision logs, tool traces, memory notes, snapshots, event docs, feedback (SQLite or Postgres) | `persist_workflow_state`, lookups, feedback | one transaction over six tables; the runtime note is committed before it | all or nothing; upserts idempotent |
| Checkpointer `workflows/checkpoint.py` | langgraph `SqliteSaver` singleton | get, latest checkpoint | same thread id reused | external library |
| HTTP API `api/routes.py`, `main.py` | in-memory report and watchlist stores | generate, fetch, feedback, memory, graph, watchlist | concurrent requests, thread id with one-second resolution | a report can be fetched after generation |
| Database `db/*.py`, `migrations/` | schema version | `initialize_database_schema` | two processes starting at once | schema complete at start |
| Low-coverage replay `eval/low_coverage_replay.py`, `m4_baseline.py` | the job's round, batch and tried ids; the baseline file | baseline, take a batch, run each report again, repeat | every replay adds rows to the table the next round reads, requests add more, a baseline file may be old | what can be repaired is; bounded work; the job ends |
| Promotion `eval/m7_offline_eval.py`, `m7_shadow_compare.py`, `m7_drift.py`, `m7_model_gate.py` | one JSON file per script | two evaluations, drift monitor, gate | the gate combines files written at different times over different rows | a promotion needs evidence |
| Other evaluation `eval/m5_*`, `m6_*`, `m7_dataset.py`, `m7_monthly_review.py`, `scripts/` | none (files) | calibration, load, reliability, rollout drill, data sets | missing samples, zero denominators | arithmetic of one report each |

How they interact: the API calls the workflow synchronously in a worker thread
of the server, so several runs execute at the same time. Every node calls tools
through `execute_tool`; tools share their caches, rate limiters and the SQLite
file across runs. A run writes its memory note first and its report afterwards,
in separate transactions; later runs of the same ticker read the note. The
evaluation jobs are processes of their own: they read the `reports` table while
the API adds to it, run requests themselves, and hand each other files.

The hazards of the code, each with its line and the properties that watch it,
are listed in `PROJECT.json`.

## 2. Plan

Order, most important behaviour first:

1. `ResearchWorkflow`, `ReportContract`, `WorkflowRefinement`, proofs. *Done.*
2. `ToolWrapper`: concurrent `execute_tool` over one sliding-window limiter,
   with proofs of the types, of truthful traces and of the limit. *Done.*
3. `SnapshotCache`: `_load_snapshot` over `TTLCache`, concurrent loaders, with
   proofs. *Done.*
4. `MemoryStore`: notes table, retrieval cache, live and shadow runs. *Done.*
5. `GraphSource` (driver and caches) and `GraphSearch` (the two searches), with
   proofs. *Done.*
6. `DocSearch`: the document table and the search cache, with proofs. *Done.*
7. `ReportService`: the composition of memory note, report transaction, shadow
   run, answer, reading back and feedback, through crashes; with proofs. *Done.*
8. `ReportTable`, `LowCoverageReplay`, `PromotionGate`, composed in
   `Evaluation`: the jobs over the reports table; with proofs. *Done.*
9. The refinement of `ReportContract`, proved. *Done.*
10. Rollups of the memory notes, and the branch of `write_memory_note` for a
    key that exists. *To do.*
11. Every safety property of the passing runs as a theorem. *Done.*

## 3. Modules

### `ResearchWorkflow`

One run of the graph. `pc` is the node that runs next; each node is one action
(`build_features` is folded into `score_signal`, `load_strategy_config` and
`init_data_quality` into `Init`, `publish_node`, which does nothing, into
`Persist`). The variables stand for entries of the state dict:

| Variable | Code |
|---|---|
| `dq` | `state['data_quality']['status']` |
| `matrix` | `state['degradation_matrix'][dep]['status']` |
| `used`, `maxCalls`, `budgetDegraded` | `state['budget']` and the length of `tool_traces` |
| `evidence`, `covered` | counts of `evidence_refs` by type, `evidence_coverage.ok` |
| `report` | `state['report_draft']`: action, confidence in thousandths, status, HIGH risk flag, reviewer mark, defects |
| `errors`, `invalid`, `repairs`, `status` | validation lists, `workflow_invalid`, `repair_attempts`, persisted status |
| `noteWritten` | the note row committed by `write_memory_note` |

`ScoreSignal` and `PriceBands` may end the run in `tool_error`: these nodes
read a failed call's output as a success and raise. `Persist` may end in
`db_error`: the transaction raises after the note was committed. Documents,
notes and graph references appear as counts, because coverage and the reviewer
look at nothing else. A report's defects are `request`, `links`, `graph` and
`meta` (see the header of the module); the shipped provider produces only
drafts without the last three, and `DraftDefects` says which ones a run allows.

### `ReportContract` and `WorkflowRefinement`

`ReportContract` is what a run promises: quality only worsens while collecting;
a decision is BUY only on OK data; it may be reconsidered downwards; it is
published as last decided, possibly with a worse quality; a run may abort.
`WorkflowRefinement` maps the run to it: the decision becomes visible when the
first gate has passed. `ImplementsContract` is checked by TLC as a property.

### `ToolWrapper`

`execute_tool` by several threads for one tool. `calls` is the deque of clock
readings, kept as ages; `recent` counts the real calls of the tool, which the
limiter is there to bound. `ReadClock`, `Acquire` and `Invoke` are separate
steps since the clock is read before the lock is taken and the tool is called
after it is released. `Wait` and `WakeUp` are the loop of `acquire`; `Finish`,
`Retry` and `Return` the retry loop of `execute_tool`.

### `SnapshotCache`

`_load_snapshot` by several loaders of one key: `StartLoad` (cache `get`),
`FetchAnswers` or `FetchFails`, `FallBack` (`get_stale`, else synthetic data),
`Store` (`set`), and `EndRequest`, which writes the row of `daily_snapshots`.
A snapshot is its data, source, quality and age. `UpstreamChanges` starts and
ends outages at any moment.

### `MemoryStore`

The notes of one ticker: `Lookup`, `Fetch`, `Fill` are
`retrieve_memory_notes` (cache, table, cache), `Commit` and `Clear`
`write_memory_note`. The age cutoff of the query and its `limit 500`
(`memory.py:140-148`) are left out: they concern notes that are days old or far
down the list, while the properties are about notes of the last TTL and lag. `EndRun` starts the shadow run that follows a live one.
`due`, `settled` and `overlapped` are history for the properties. It has no run
of its own that passes: its states and properties are checked as part of
`ReportService`, which extends it, and `claim_shadow` runs it alone.

### `ReportService`

`MemoryStore` end to end. `asked` is the mode of the request, `mode` that of the
run that is going on for it (the shadow run, once the request's own is over).
`PersistAndEnd` is `persist_workflow_state`, one transaction over six tables of
which the report stands for all; `Raise` a run that fails anywhere after its
note (the exception of a shadow run is caught in `graph.py`); `Respond`,
`GetReport` and `SubmitFeedback` the three handlers of `routes.py`, which look at
`REPORT_STORE` (`store`) before the database (`reports`). `Crash` empties what
the process holds: the store, the cache, the runs under way.

### `ReportTable`, `LowCoverageReplay`, `PromotionGate`, `Evaluation`

`ReportTable` is the table as the jobs read it, in the order of `created_at`, and
`Serve`, the API that adds rows (a LIVE run may add its SHADOW row with it: a job
reads the table before or after both, never between).
`LowCoverageReplay` is the job of `low_coverage_replay.py`, with the baseline it
rests on: `Low` and `EffectiveLow` are the raw list and the one without
superseded reports, `Listed` the batch cut from both, `Candidates` the batch
without what was tried; `TakeBatch`, `Replayed`, `ReplayFails`, `NextRound` and
the four ways to stop are its loop. `PromotionGate` has a script per action.
A script reads the rows with `created_at >= now - lookback_days`
(`m4_baseline.py:156,172`), where both the moment and `--lookback-days` are its
own. As rows are only added, that is some last part of the table, and the state
of a file is the window it was written over, its first and its last row
(`since`, `upto`): a later file never ends earlier, but it may well begin later,
because rows aged out or because it looks back fewer days. `Windows` offers every
such part to every script; an operator runs them in any order and as often as
he likes. Rates are compared by cross-multiplication. The replay's window, one
number of days for all its rounds, is taken to cover the table, since the job is
about the rows it lists and not about when they leave the list.
`Evaluation` composes the two: one operator, who runs one of the two jobs,
while requests are served.

### `GraphSource` and `GraphSearch`

`GraphSource` has the shared state of `tools/graph.py`: the driver (`driver`,
and `opened`, the drivers nobody closed), the failures within the cool-down, and
the cached results with their times to live. `Call`, `AskPaths`, `GetDriver`,
`Connect`, `Query`, `Store` and `StoreExposure` are the steps between which
threads interleave: `_get_neo4j_driver` takes no lock. A result is its source
and the age of the graph behind it. `GraphSearch` has what is computed from a
graph: one action per turn of the loops of `_find_paths` and
`_subtree_by_depth`, on every graph over a universe of edges.

### `DocSearch`

`search_event_docs` by several runs: `Ask` (cache), `ReadStore` per query,
`Fetch` per query (news API or made-up documents, stored at once), `Merge` (cut,
cache, return) and `Persist` (the rows are rewritten with the query the run's
copy has). `table` maps each stored document to the query it is found by.

### The MC modules and the proof modules

Each `...Proofs` module holds the theorems about the module it is named after
(`GraphToolsProofs`: about `GraphSource` and `GraphSearch`). `DataLemmas` has what
several of them need and no component owns: induction, recursive functions, sums
over finite sets, sequences of sequences, queues. The `MC` modules have the values of the constants for TLC.
Definitions commented `mutant` in a module state a plausible bug beside the
operator they alter; nothing uses them in the specification. They record, in `PROJECT.json`, that each property notices one.

## 4. Runs

| Run | Question | Bounds |
|---|---|---|
| `workflow` | Is every exhaustion of the budget handled, whatever the place; are quality, status and decision honest through gates, review and repairs; is the contract kept; does every run end? | all tiers; the shipped budgets, 0..12 at TIER0, and every fourth of 0..24 above; one repair; scores for BUY and AVOID; drafts with and without a defect that cannot be repaired |
| `limiter` | How far can the window be exceeded, do traces count real calls, does every call return? | two threads, both preempted for up to 2 ticks; 1 call per window of 2 ticks; 2 attempts |
| `snapshots` | Can old or made-up data ever look good, and does the cache recover? | two loaders, one key, two live data (with and without gaps), TTL 2 ticks |
| `service` | Which interleavings hide a committed note, and for how long; do answers, reports, notes and feedback fit together through crashes; is every request answered? | two requests, one with a shadow run, two notes cited, TTL 2 ticks, two crashes |
| `graph_source` | Are drivers, retries and ages bounded, does the synthetic graph leave? | two threads, paths and exposure, cool-down 2 ticks, lag 1 |
| `graph_search` | Do the searches find what they should? | all 256 graphs of eight edges on four nodes, three start nodes, 3 hops, limit 1 |
| `docs` | Are made-up documents flagged, cited ones stored, errors cleared? | two runs, two queries, two documents wanted, one genuine and one made-up per query |
| `evaluation` | What does the replay repair, starve and undo, and does it end; what does the gate's verdict rest on? | two scenarios, three grades, batches of one, two rounds, all strategies but `backtest`; two served rows during a replay, three or four before the scripts; gate asks for two pairs, compare for one |
| `claim_consistent_buy` | (violated) persisted reports satisfy `check_consistency` | shipped, TIER0 |
| `claim_conservative_report` | (violated) any dependency failure still yields a report | shipped, TIER0 |
| `claim_shadow` | (violated) shadow runs do not affect live output | two live requests |
| `claim_made_up_docs` | (violated) results with made-up documents say so | as `docs` |

The bounds are enough because what the code distinguishes is small. The
workflow's nodes tell apart zero or some documents, notes and references, one
call left or none, and a score on either side of the two thresholds. The caches
and the limiter compare ages with one or two constants, so that a window or TTL
of 2 ticks has readings before, at and after each; the races between a
read and a write need two actors, one of which may repeat. In `graph_search`
paths arrive over one, two and three edges, limit 1 lets the search stop early
(after three), and the universe has parallel, doubled and looping edges. In
`docs` a search can be filled by the store, by one query or by both. In
`service` a second request reads what the first one's run or shadow run wrote,
and a first crash may hit every step of both while a second one hits what came
of it. In `evaluation` a batch of one over two scenarios leaves a low report out,
two rounds come to it or not, and with `same`, `live` and `shadow` a replay
supersedes its own report or adds one of another mode; four rows are two pairs,
the gate's minimum and above the compare's. Named
bounds of the models are `MaxCrashes`, `MaxServed` (requests served beside a
job), `MaxLag` (ticks between two steps of one call that
the code does not bound, but timeouts of the calls do), `OldestAge` (ages
beyond every bound are not told apart) and `MadeUpMax` (6 in the code).

Deadlock checking is off where a run ends: in the workflow, in `graph_search`, in
`service` once every request was answered, and in `evaluation` once the job is
done. The other systems never stop.

Fairness. `ResearchWorkflow`: weak fairness of `Next`; the graph's runner calls
the next node as soon as one returns, and every tool call is bounded in time by
its own timeouts. `SnapshotCache`, `GraphSource`, `DocSearch`: a call that was
begun goes on (weak fairness of each thread's steps unless it is idle) and time
passes; nobody need begin a call, and outages need not end (the recovery
properties assume that they do). `ToolWrapper` has strong fairness of `Tick`,
since other threads may stop the clock of the model again and again by starting
calls, which they cannot do to the clock on the wall; and `DocSearch` of
`Expire`, which abstracts the same clock. `ReportService` has weak fairness of
each request's own steps, the threads of the server; nothing makes it crash, and
nobody has to read a report or comment on it. `Evaluation` has weak fairness of
the steps of a replay that was started, a loop in one process; requests need not
come, and no script need be run.

### What the runs show

The properties of the passing runs hold; the findings are the counterexamples
of the violated ones:

* A failure of the memory note is merged after validation, so a DONE report may
  pair a confident BUY with PARTIAL data (`nodes.py:1605`).
* A failed scoring or price-band call raises `KeyError`, and no report is
  returned (`nodes.py:430`).
* A shadow run writes its note into the table that live runs cite
  (`graph.py:191` of the workflows).
* Documents made up in an outage are stored like genuine ones and later
  returned without any error (`rag.py:364`).

What the passing runs of the service and of the evaluation jobs say, in words:

* A note without a report is left by a run that raised or was cut off between
  the two commits, and by nothing else; the answer a client got is true
  afterwards, whatever crashed, and feedback always has its report, although the
  check looks at the memory of the process and the row has no foreign key.
* The replay cuts its batch before it leaves out what was tried
  (`low_coverage_replay.py:142`). A low report is therefore starved only behind a
  full batch of newer ones that were tried and are still low; if replays work,
  none is left.
* The replay also takes reports from the raw list that newer, covered ones have
  superseded, and running such a report again may take the coverage of its
  scenario away, since the newest report counts (`docs/EVAL_PLAN.md:35`). The
  newest report of its kind never does that to its own run mode; a replay in
  another mode may do it to that mode. The stated purpose
  (`docs/EVAL_PLAN.md:38`) is to repair coverage.
* The gate reads the figures of the shadow compare, not its status. Its own
  thresholds imply that status but for the share of turned decisions, which it
  never looks at: a challenger that turned too many may be allowed.
* The rates of the challenger come from the offline file and the number of pairs
  from the shadow file, and the rates carry no sample size. What an ALLOW lacks in
  rated reports is made up by reports that the shadow compare read and the offline
  evaluation did not, and so are the pairs it counts although the schema refuses
  the challenger's report, beyond a hundredth of the rated ones
  (`AllowSpeaksForPairs`). So the evidence is there
  when the offline window covers the other one, and only then is it sure to be:
  it is not when the offline file is the older one and reports came since, and
  not when it is the newer one and reports left its window meanwhile. In the run,
  a shadow file over two pairs and a later offline file over one SHADOW report
  (the other pair, whose challenger's report the schema refuses, has aged out)
  are an ALLOW; with the defaults of 30 days and 20 pairs nothing but `make
  eval-m7`, which runs the scripts one after the other, keeps the files together.
* A drift monitor over an empty window writes a report without dimensions, which
  overwrites a critical one and passes the gate, as does a file that is missing.
* The two evaluations score reports by different programs; they count the same
  wins except where the schema refuses a report, which keeps its citation and
  coverage points in one and none in the other.

Met on the way. The comment at `nodes.py:1567` calls the fallback report of a
run that fails validation schema-valid; the fallback keeps the request's fields,
so it is only where these are, and it is not validated again. `StatusIsTruthful`
is about its status, decision and quality, not about its schema. What follows
contradicts no document, and is worth knowing: a fallback copy of synthetic data from the cache is
labelled `TUSHARE_PRO_CACHE`; the row of a snapshot is overwritten by the last
run that persists the same data; a reader that overlaps a commit of a note may
put a list without it back into the cache, for up to the TTL; the synthetic
graph is cached and returned as if Neo4j had answered, but for its `source`, and
`compute_exposure_score` drops that; an edge and its reverse of the same type
make the search return one path twice, and the subtree lists every edge in both
directions; a document read from the store is labelled with the first query of
the search, and persisting it moves its row to that query.

## 5. Proofs

`ResearchWorkflowProofs` holds for every set of tiers, budgets, impact limits,
repair limits and defects that satisfies the named assumptions:

* `TypeCorrect`: `Spec => []TypeOK`, by `TypeInv`.
* `BudgetOvershoot`: `Spec => []BudgetOvershootBounded`. The bound alone is not
  inductive: `BudgetInv` adds, per node, how many ungated calls may have been
  made so far (`Ungated`), counting one gate per repair round.
* `BuyIsHealthyAtEnd` and `BuyIsReviewedAtEnd`. `BuyInv` carries what must be
  known earlier: an exhausted budget and a coverage gap are noted in the matrix
  or in `dq` from the moment they arise (`BudgetNoted`, `GapNoted`), a report
  that says BUY after a gate comes from a healthy state (`BuyIsHealthy`), and
  after the reviewer it carries a real review (`BuyHasReview`).

* `PersistedQuality`: `[]PersistedQualityCoversMatrix`. It is inductive once
  it is known that nothing is published before `persist` (part of `BuyInv`).
* `TruthfulStatus`: `[]StatusIsTruthful`, by `StatusInv`: a report on its way to
  `persist` has no defects, or is the fallback of a run that used up its repairs.
* `SpentBudgetStopsCalls`: the action property `DegradedBudgetStopsCalls`. A
  degraded budget is a spent one (`SpentInv`), and a guarded node that makes a
  call stays within the budget (`GuardedInBudget`).
* `DecisionsOnlyFall`: the action property `DecisionNeverRaised`. `DecidedInv`
  says where in the graph a report exists and that its confidence is at least the
  fallback's, 450, which is why a fallback never raises it; one lemma per
  operator shows that it only lowers (`Lowers`).
* `RunKeepsContract`: the refinement, `Spec => ImplementsContract`. Initial
  states map to initial states, and every step to a step of `ReportContract` or a
  stutter, under `BuyInv` (a BUY that a gate let pass stands on OK data) and
  `DecidedInv`.

`ToolWrapperProofs` holds for any finite set of threads, window, timeout, lag
and retry policy. `TypeCorrect` includes that the deque never outgrows
`MaxCalls`; it rests on a lemma about `Unexpired`, whose least index exists
because the natural numbers are well-founded. `TracesAreTruthful` needs
`Counted`, which says how many calls a thread has made at each place of
`execute_tool`, for each attempt.

`CallsAreLimited` (`WindowBound`) has two arguments, one for each term of the
slack. `Straddling` says for every age that the calls made since then, and those
yet to be made, are entries of the deque up to that age, but for one of each
thread that lost the processor while it held an older reading. `Chained` follows
how calls are popped too early: whoever pops an entry appends a reading that is
a window younger, so that before an entry k windows younger than the start of a
span there are at most `MaxCalls * k` calls besides those still in the deque.
The lag cannot hold more than `LostWindows` of these windows. An earlier form of
the property claimed twice `MaxCalls` for every lag; the second argument failed
for a lag beyond the window, and TLC confirmed that three threads with
`MaxCalls` 1, a window of 1 and a lag of 2 make three calls. The property now
counts the windows that the lag spans.

`SnapshotCacheProofs` holds for any loaders, data and times. `IInv` adds to the
types that the cached record, the record's age against the time it has left,
and the snapshots held between answer and return are good only if they are live
and young; `GoodSnapshotsAreFreshLive` follows.

`GraphToolsProofs` holds, for `GraphSource`, for any finite set of threads, tools,
times to live and cool-down. `IInv` says for each place of a call, and for each
cached record, how old the result may be against its lag or the time it has left;
`ResultsStayFresh` follows. `DriversAreBounded` needs `DriverInv`: while there is
no driver none was opened, and otherwise the drivers opened and the threads that
are connecting are together at most the threads. `FailuresStaySpaced` needs
`FailureInv`: a thread that connects and a failure within the cool-down each use
up one thread, since nobody starts to connect while a failure is that young.
`TypeCorrect` combines types and drivers.

For `GraphSearch` the theorems hold for every graph over every universe of edges
with distinct keys, every number of hops and every limit. The reference
definitions `Ball` and `PathsOf` are recursive functions; `RecursionExists` (in
`DataLemmas`) gives the equations they satisfy (`BallAt`, `PathsOfAt`), and
`ReachingIsRoutes` says that the paths of the reference are all there are.

* `SubtreeIsTheBall` rests on `TreeInv`: the nodes to visit stand in the order of
  their depths, which differ by one at most; no node is deeper than the next one's
  depth and one; each is in the ball of its depth; and the edges of a node that was
  expanded have been followed and used. When nothing is left to visit, the
  depths are the distances.
* `FoundPathsAreSound` and `NearestAreReturned` rest on `PathInv`: the queue has
  simple paths in the order of their lengths; until there are enough, each
  route that was not found begins with a path of the queue; and no route that was
  not found is shorter than one that was. Hence the break of both loops at three
  times the limit loses no nearer path.
* That none is returned twice, unless an edge is doubled, needs `Distinct`: no path
  is queued or found twice, and none in the queue was continued before.
  `ReturnInv` puts these together.
* `Returned` sorts by length and weight with `Rank`, the number of paths that come
  before; the order is strict, so ranks are a bijection, and what is cut off comes
  after what is kept. This gives `NearestAreReturned` and `HeaviestAreReturned`.

`DocSearchProofs` holds for any threads, searches, queries and sizes. `IInv` says of a
search that goes on (`Working`) and of a result that is returned or cached
(`Sound`) the same: its documents are in the table, which only ever gains documents,
there are no more of them than were counted (or asked for), and if some are made
up it knows of the failure or has documents of the store. `TypeCorrect`,
`MadeUpIsFlagged` and `CitedDocsAreStored` follow.

`ReportServiceProofs` holds for any finite set of requests, run modes, cited
notes, time to live and number of crashes. Its inductive invariant has a part per
concern. `MemoryInv`: between reading the table and filling the cache a reader
lacks only notes committed meanwhile, and no note older than its lag
(`FetchedInv`); the same of the cached record, against the time it has left
(`RecordInv`). With `CommittedInv` (a note is in the table before its write
returns) these give `HiddenByOverlap` and `BoundedStaleness`. `RunInv` and
`ReportInv` tie the result of a request to its run, its shadow run and its row;
`AttachInv` says that store and feedback are subsets of the table, and `OrphanInv`
excuses each note without a report. `TruthfulAnswers`, `AttachedFeedback` and
`ExcusedOrphans` follow, and `ServiceTypeCorrect` contains the types of
`MemoryStore`.

`EvaluationProofs` holds for any
scenarios, grades, batch size, rounds and thresholds. The replay's invariant
is `WorkInv` (what was tried fits the rounds before this one), `MendInv` (as long
as every replay was covered and kept its report's mode, what was tried is
superseded) and `LowInv` (what waits to be run is low); they rest on lemmas on
what growing a table does to the newest rows. `BoundedWork` and
`SmoothMeansRepaired` are about the former; `OnlyBehindABatch` counts the reports
ahead of one that the batch left out; `NewestUncoversNothing` needs `LowInv`.
`GateEvidence` and `ScoresAgree` are about the two evaluations, over any windows.
`GateEvidence` maps each pair to its challenger's row, which no other pair has
(`PairsAreFewer`): all of them are rated or unrated, and those that the schema
refuses are unrated or among the hundredth that the offline rates leave.
`ScoresAgree` needs that a consistent report resolves its citations (`GradesAssumption`), as
`check_consistency` does. `AllowedPassesCompare` takes the gate's thresholds to those of
the compare; that the sums of the pairs' cost and latency differences are integers is
an induction over the finite set of pairs (`SumType` in `DataLemmas`).

`DataLemmas` makes inductions over data possible without operators as parameters:
an induction is stated with a set in the place of the predicate (`Induction` over
the natural numbers, `SubsetInduction` over the subsets of a finite set), and a
recursive function is built from the tables of its first values (`RecursionExists`).
From these come the sums over finite sets, what `FlattenSeq` contains and repeats
(`ToSetOfConcat`, `OnceInConcat`), and that a queue stays in layers when what is
appended lies one layer behind its head (`StaysLayered`).

Each invariant was first checked by TLC on the instances above. The type
invariants of six systems and `WorkIsBounded` are no longer properties of the
runs, since the theorems say more; `graph_search` and `docs` still check theirs,
which say how many paths are kept and how many documents returned. The proofs have
one lemma per operator or action that needs one, and one step per action. They
assume nothing but the named assumptions on the constants.

Only model-checked: liveness (`RunEnds`, `EveryCallReturns`,
`RecoversAfterOutage`, `GraphRecovers`, `FlagClears`, `RequestsAreAnswered`,
`ReplayEnds`), since these provers know neither fairness nor ENABLED. Every other
property of a passing run, invariant or action property, is stated by a theorem.

## 6. Not modelled

Texts, reasons and reports' layout; costs (every call is estimated at 0, so the
cost half of the budget guard never fails); weights, scores and explanations
computed from paths; ranking of notes and documents (a choice); markdown
renderers, argument parsing and configuration. Also:

* The langgraph library and its checkpoints, which live outside `src/`. Before a
  run the library loads the channels of its thread; the first two nodes reset
  those that the run uses, and each run works on its own copy in memory. So two
  requests of the same second, which share a thread id, mix only what that library
  stores.
* The schema initialisation of `db/session.py`. It is one transaction on a fresh
  PostgreSQL database that looks for `alembic_version` and the core tables and then
  stamps the baseline, creates everything or (when only some tables exist)
  does nothing. What two of them do at once is decided by PostgreSQL's locks on
  concurrent DDL. The PostgreSQL variant of persistence is not told apart from the
  SQLite one.
* The calibration of TIER2 (M5), the load and reliability panels and the rollout
  drill (M6), the monthly review, the strata of the dataset and the PSI sums of the
  drift monitor: each reads samples and writes one file no other part reads, or
  (the drift's sums) a choice stands for what they compute. `sample_seed` makes
  test data.
* Rollups of memory notes and the branch of `write_memory_note` for a key that
  exists already: the key is the report's random id.
* `tools/rag.py`'s event extraction, a classification of texts.
