--------------------------- MODULE SnapshotCache ---------------------------
(***************************************************************************)
(* _load_snapshot (app/tools/facts.py) called for one cache key by the     *)
(* threads of the server, over the snapshot cache (app/tools/cache.py),    *)
(* and what persist_workflow_state keeps of the snapshots.                 *)
(*                                                                         *)
(* Only `get', `get_stale' and `set' are atomic: between them a loader     *)
(* waits for the upstream, and others load the same key.  The snapshot id  *)
(* is a digest of the data and is kept by a copy from the cache, so the    *)
(* data stands for it.  Time is discrete and kept as ages.                 *)
(***************************************************************************)
EXTENDS Integers

CONSTANTS
  Loaders,
  Live,        \* data the upstream may answer
  Synthetic,   \* data the synthetic fallback may make up
  GateOf,      \* status of the missing-field and outlier checks, per data
  Ttl,         \* MARKET_TTL_SECONDS and so on, in ticks
  Freshness,   \* freshness_seconds, in ticks
  MaxLag,      \* bound on the ticks from the answer to its `set'
  Nothing

Status == {"OK", "PARTIAL", "DEGRADED"}
Data == Live \union Synthetic

ASSUME DataAssumption == Live \intersect Synthetic = {} /\ GateOf \in [Data -> Status]
ASSUME TimeAssumption == Ttl \in Nat \ {0} /\ Freshness \in Nat /\ MaxLag \in Nat

VARIABLES
  pc,       \* where each loader is in _load_snapshot
  held,     \* the snapshot it works on or has returned
  record,   \* the cache record of the key
  left,     \* ticks until the record expires
  up,       \* the upstream answers
  rows      \* daily_snapshots, by snapshot id

vars == <<pc, held, record, left, up, rows>>

\* Ages beyond every bound they are compared with need not be told apart.
OldestAge == 1 + IF Ttl + MaxLag > Freshness THEN Ttl + MaxLag ELSE Freshness

Places == {"idle", "fetching", "failed", "loaded", "returned"}
Sources == {"TUSHARE_PRO", "TUSHARE_PRO_CACHE", "SYNTHETIC_FALLBACK"}
Snapshot == [data : Data, source : Sources, quality : Status, age : 0..OldestAge]

ASSUME NothingAssumption == Nothing \notin Snapshot

Older(s) == [s EXCEPT !.age = IF @ < OldestAge THEN @ + 1 ELSE @]

Init ==
  /\ pc = [l \in Loaders |-> "idle"]
  /\ held = [l \in Loaders |-> Nothing]
  /\ record = Nothing
  /\ left = 0
  /\ up \in BOOLEAN
  /\ rows = [d \in Data |-> Nothing]

Go(l, place) == pc' = [pc EXCEPT ![l] = place]
Hold(l, s) == held' = [held EXCEPT ![l] = s]

\* _quality_gate on data captured `age' ago.
Gate(data, age) == IF age > Freshness THEN "DEGRADED" ELSE GateOf[data]

\* _finalize_snapshot after an answer, and after a failure (_mark_fallback_status).
Answered(data) ==
  [data |-> data, source |-> "TUSHARE_PRO", quality |-> Gate(data, 0), age |-> 0]
FellBackUnmarked(data, source, age) ==  \* mutant: the failure is not merged
  [data |-> data, source |-> source, quality |-> Gate(data, age), age |-> age]
FellBack(data, source, age) ==
  [data |-> data, source |-> source, quality |-> "DEGRADED", age |-> age]

HitsAlways == record # Nothing  \* mutant: an expired record is served
Hits == record # Nothing /\ left > 0

\* The cache is asked first; a hit is returned as it is.
StartLoad(l) ==
  /\ pc[l] = "idle"
  /\ \/ Hits /\ Go(l, "returned") /\ Hold(l, record)
     \/ ~Hits /\ Go(l, "fetching") /\ UNCHANGED held
  /\ UNCHANGED <<record, left, up, rows>>

FetchAnswers(l) ==
  /\ pc[l] = "fetching" /\ up
  /\ Go(l, "loaded")
  /\ \E d \in Live : Hold(l, Answered(d))
  /\ UNCHANGED <<record, left, up, rows>>

FetchFails(l) ==
  /\ pc[l] = "fetching" /\ ~up
  /\ Go(l, "failed")
  /\ UNCHANGED <<held, record, left, up, rows>>

\* get_stale: a copy of whatever the cache holds, expired or stored meanwhile;
\* synthetic data when it holds nothing.
FallBack(l) ==
  /\ pc[l] = "failed"
  /\ Go(l, "loaded")
  /\ \/ record # Nothing /\ Hold(l, FellBack(record.data, "TUSHARE_PRO_CACHE", record.age))
     \/ record = Nothing /\ \E d \in Synthetic : Hold(l, FellBack(d, "SYNTHETIC_FALLBACK", 0))
  /\ UNCHANGED <<record, left, up, rows>>

\* set: the last loader to store wins.
Store(l) ==
  /\ pc[l] = "loaded"
  /\ Go(l, "returned")
  /\ record' = held[l]
  /\ left' = Ttl
  /\ UNCHANGED <<held, up, rows>>

\* The request ends, persisted or not; the row of the id is overwritten.
EndRequest(l) ==
  /\ pc[l] = "returned"
  /\ Go(l, "idle")
  /\ Hold(l, Nothing)
  /\ \/ rows' = [rows EXCEPT ![held[l].data] =
                    [source |-> held[l].source, quality |-> held[l].quality]]
     \/ UNCHANGED rows
  /\ UNCHANGED <<record, left, up>>

UpstreamChanges == up' = ~up /\ UNCHANGED <<pc, held, record, left, rows>>

\* A returned snapshot keeps the age it had when it was returned.
Tick ==
  /\ \A l \in Loaders :
       pc[l] = "loaded" /\ held[l].source = "TUSHARE_PRO" => held[l].age < MaxLag
  /\ held' = [l \in Loaders |-> IF pc[l] = "loaded" THEN Older(held[l]) ELSE held[l]]
  /\ record' = IF record = Nothing THEN Nothing ELSE Older(record)
  /\ left' = IF left > 0 THEN left - 1 ELSE 0
  /\ UNCHANGED <<pc, up, rows>>

Step(l) ==
  \/ StartLoad(l) \/ FetchAnswers(l) \/ FetchFails(l) \/ FallBack(l)
  \/ Store(l) \/ EndRequest(l)

Next == Tick \/ UpstreamChanges \/ \E l \in Loaders : Step(l)

Spec == Init /\ [][Next]_vars

\* Time passes and a request that was begun goes on; nobody need begin one.
FairSpec ==
  /\ Spec
  /\ WF_vars(Tick)
  /\ \A l \in Loaders : WF_vars(pc[l] # "idle" /\ Step(l))

-----------------------------------------------------------------------------
(* Properties *)

TypeOK ==
  /\ pc \in [Loaders -> Places]
  /\ \A l \in Loaders :
       IF pc[l] \in {"loaded", "returned"} THEN held[l] \in Snapshot ELSE held[l] = Nothing
  /\ record \in Snapshot \union {Nothing}
  /\ left \in 0..Ttl
  /\ record = Nothing => left = 0
  /\ up \in BOOLEAN
  /\ \A d \in Data : rows[d] \in [source : Sources, quality : Status] \union {Nothing}

\* A snapshot that is returned as better than DEGRADED was answered by the
\* upstream, no longer than the TTL and one storing lag ago: no sequence of
\* outages, copies, expiries and late stores makes old or made-up data good; nor
\* does a row of daily_snapshots call made-up data good, whoever wrote it last.
GoodIsFreshLive ==
  /\ \A l \in Loaders :
       pc[l] = "returned" /\ held[l].quality # "DEGRADED" =>
         /\ held[l].source = "TUSHARE_PRO"
         /\ held[l].data \in Live
         /\ held[l].age <= Ttl + MaxLag
  /\ \A d \in Synthetic : rows[d] # Nothing => rows[d].quality = "DEGRADED"

\* Once the upstream stays up, the snapshots of the outage are at some time
\* returned no more, although each of them is stored with a full TTL and may be
\* stored after a good one.
RecoversAfterOutage ==
  <>[]up => <>[](\A l \in Loaders : pc[l] = "returned" => held[l].source = "TUSHARE_PRO")

=============================================================================
