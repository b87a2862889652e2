---------------------------- MODULE MemoryStore ----------------------------
(***************************************************************************)
(* The memory notes of one ticker (app/tools/memory.py) as the requests of *)
(* a server process use them: a run looks its notes up in a per-process    *)
(* cache or in the table, cites them, and at its end writes a note and     *)
(* clears the cache.  With shadow runs enabled a LIVE run is followed by a *)
(* SHADOW run of the same request (run_research_workflow).                 *)
(*                                                                         *)
(* All runs of a ticker and tier ask the same query, hence one cache key.  *)
(* The query's own limits, the days of the tier's memory policy and the    *)
(* newest 500 rows, are taken to admit every note of the table: what they  *)
(* leave out is far older than the TTL and lag that the properties bound.  *)
(* A note's dedupe key is the id of its report, which is fresh: the branch *)
(* for duplicates is not reached from the workflow.  Time is discrete and  *)
(* kept as ages.                                                           *)
(***************************************************************************)
EXTENDS Integers, FiniteSets, FiniteSetsExt

CONSTANTS
  Requests,
  RunModes,  \* the combinations of run modes that the requests ask for
  ShadowOn,  \* M7_SHADOW_ENABLED
  TopK,      \* top_k of the tier's memory policy
  Ttl,       \* MEMORY_CACHE_TTL_SECONDS, in ticks
  MaxLag     \* bound on the ticks from reading the table to `set'

Modes == {"LIVE", "SHADOW", "BACKTEST"}
Note == [by : Requests, mode : Modes]

ASSUME RequestsAssumption == IsFiniteSet(Requests)
ASSUME ModesAssumption == RunModes \subseteq [Requests -> Modes] /\ ShadowOn \in BOOLEAN
ASSUME BoundsAssumption == TopK \in Nat \ {0} /\ Ttl \in Nat \ {0} /\ MaxLag \in Nat

VARIABLES
  pc,         \* where each request is
  mode,       \* run_mode of its current run
  got,        \* the notes it has read or cites
  due,        \* history: the notes its lookup should not miss
  lag,        \* ticks since it read the table
  notes,      \* memory_notes_runtime: the age of every committed note
  record,     \* the result in the cache record
  left,       \* ticks until the record expires; 0 also when there is none
  settled,    \* history: notes whose write has returned
  overlapped  \* history: notes committed while a reader was before its `set'

vars == <<pc, mode, got, due, lag, notes, record, left, settled, overlapped>>

Places == {"lookup", "fetch", "fetched", "cites", "committed", "written", "done"}
OldestAge == Ttl + MaxLag + 1
Table == DOMAIN notes

Init ==
  /\ pc = [r \in Requests |-> "lookup"]
  /\ mode \in RunModes
  /\ got = [r \in Requests |-> {}]
  /\ due = [r \in Requests |-> {}]
  /\ lag = [r \in Requests |-> 0]
  /\ notes = [n \in {} |-> 0]
  /\ record = {}
  /\ left = 0
  /\ settled = {}
  /\ overlapped = {}

Go(r, place) == pc' = [pc EXCEPT ![r] = place]
Take(r, S) == got' = [got EXCEPT ![r] = S]

HitsAlways == record # {}  \* mutant: an expired record is served
Hits == left > 0

\* retrieve_memory_notes asks the cache.
Lookup(r) ==
  /\ pc[r] = "lookup"
  /\ due' = [due EXCEPT ![r] = settled \ overlapped]
  /\ \/ Hits /\ Go(r, "cites") /\ Take(r, record)
     \/ ~Hits /\ Go(r, "fetch") /\ UNCHANGED got
  /\ UNCHANGED <<mode, lag, notes, record, left, settled, overlapped>>

\* The table is read and ranked: the best TopK notes, whichever they are.
Fetch(r) ==
  /\ pc[r] = "fetch"
  /\ Go(r, "fetched")
  /\ \E k \in {TopK, Cardinality(Table)} :
       /\ k <= TopK /\ k <= Cardinality(Table)
       /\ \E S \in kSubset(k, Table) : Take(r, S)
  /\ lag' = [lag EXCEPT ![r] = 0]
  /\ UNCHANGED <<mode, due, notes, record, left, settled, overlapped>>

Fill(r) ==
  /\ pc[r] = "fetched"
  /\ Go(r, "cites")
  /\ record' = got[r]
  /\ left' = Ttl
  /\ UNCHANGED <<mode, got, due, lag, notes, settled, overlapped>>

\* The call fails or the budget forbids it: the run goes on without notes.
NoNotes(r) ==
  /\ pc[r] \in {"lookup", "fetch"}
  /\ Go(r, "cites")
  /\ Take(r, {})
  /\ due' = [due EXCEPT ![r] = {}]
  /\ UNCHANGED <<mode, lag, notes, record, left, settled, overlapped>>

\* write_memory_note commits its row ...
Commit(r) ==
  LET note == [by |-> r, mode |-> mode[r]]
  IN  /\ pc[r] = "cites"
      /\ Go(r, "committed")
      /\ notes' = [n \in Table \union {note} |-> IF n = note THEN 0 ELSE notes[n]]
      /\ overlapped' = IF \E q \in Requests : pc[q] = "fetched"
                       THEN overlapped \union {note} ELSE overlapped
      /\ UNCHANGED <<mode, got, due, lag, record, left, settled>>

\* Mutant: a write that keeps the cached results.
ClearNothing(r) ==
  /\ pc[r] = "committed"
  /\ Go(r, "written")
  /\ settled' = settled \union {[by |-> r, mode |-> mode[r]]}
  /\ UNCHANGED <<mode, got, due, lag, notes, record, left, overlapped>>

\* ... and then clears the cache.
Clear(r) ==
  /\ pc[r] = "committed"
  /\ Go(r, "written")
  /\ record' = {}
  /\ left' = 0
  /\ settled' = settled \union {[by |-> r, mode |-> mode[r]]}
  /\ UNCHANGED <<mode, got, due, lag, notes, overlapped>>

WriteFails(r) ==
  /\ pc[r] = "cites"
  /\ Go(r, "written")
  /\ UNCHANGED <<mode, got, due, lag, notes, record, left, settled, overlapped>>

ShadowFollowsAll(r) == ShadowOn  \* mutant: a shadow run is followed by another

\* The run ends.  The shadow run follows a LIVE run that did not raise.
ShadowFollows(r) == ShadowOn /\ mode[r] = "LIVE"

EndRun(r) ==
  /\ pc[r] = "written"
  /\ \/ Go(r, "done") /\ ~ShadowFollows(r) /\ UNCHANGED mode
     \/ Go(r, "lookup") /\ ShadowFollows(r) /\ mode' = [mode EXCEPT ![r] = "SHADOW"]
  /\ Take(r, {})
  /\ due' = [due EXCEPT ![r] = {}]
  /\ UNCHANGED <<lag, notes, record, left, settled, overlapped>>

\* A node raises, or the report cannot be persisted: the request is over.
RunRaises(r) ==
  /\ pc[r] \in {"cites", "written"}
  /\ Go(r, "done")
  /\ Take(r, {})
  /\ due' = [due EXCEPT ![r] = {}]
  /\ UNCHANGED <<mode, lag, notes, record, left, settled, overlapped>>

Older(a) == IF a < OldestAge THEN a + 1 ELSE a

Tick ==
  /\ \A r \in Requests : pc[r] = "fetched" => lag[r] < MaxLag
  /\ lag' = [r \in Requests |-> IF pc[r] = "fetched" THEN lag[r] + 1 ELSE 0]
  /\ notes' = [n \in Table |-> Older(notes[n])]
  /\ left' = IF left > 0 THEN left - 1 ELSE 0
  /\ UNCHANGED <<pc, mode, got, due, record, settled, overlapped>>

Step(r) ==
  \/ Lookup(r) \/ Fetch(r) \/ Fill(r) \/ NoNotes(r) \/ Commit(r) \/ Clear(r)
  \/ WriteFails(r) \/ EndRun(r) \/ RunRaises(r)

Next == Tick \/ \E r \in Requests : Step(r)

Spec == Init /\ [][Next]_vars

-----------------------------------------------------------------------------
(* Properties *)

TypeOK ==
  /\ pc \in [Requests -> Places]
  /\ mode \in [Requests -> Modes]
  /\ got \in [Requests -> SUBSET Table]
  /\ due \in [Requests -> SUBSET settled]
  /\ lag \in [Requests -> 0..MaxLag]
  /\ Table \subseteq Note /\ \A n \in Table : notes[n] \in 0..OldestAge
  /\ record \subseteq Table
  /\ left \in 0..Ttl
  /\ settled \subseteq Table /\ overlapped \subseteq Table

Full(r) == Cardinality(got[r]) = TopK

\* A run cites every note whose write had returned when it looked its notes up,
\* unless TopK others are cited or some reader was between reading the table and
\* filling the cache when that note was committed: no other interleaving of
\* lookups, writes and expiries hides a note from the next run.
OnlyOverlapHidesNotes ==
  \A r \in Requests : pc[r] = "cites" => due[r] \subseteq got[r] \/ Full(r)

\* A note hidden by such an overlap is hidden for at most a TTL and a lag.
StalenessIsBounded ==
  [][\A r \in Requests :
       (Hits /\ Lookup(r)) \/ Fill(r) =>
         \/ Cardinality(got'[r]) = TopK
         \/ {n \in Table : notes[n] > Ttl + MaxLag} \subseteq got'[r]]_vars

\* IMPLEMENTATION_LOG.md: a shadow run does not affect live output.
ShadowDoesNotAffectLive ==
  \A r \in Requests :
    pc[r] = "cites" /\ mode[r] = "LIVE" => \A n \in got[r] : n.mode # "SHADOW"
=============================================================================
