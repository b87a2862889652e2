------------------------ MODULE SnapshotCacheProofs ------------------------
(***************************************************************************)
(* Theorems about SnapshotCache, for any loaders and data, any TTL and     *)
(* freshness threshold and any lag.                                        *)
(***************************************************************************)
EXTENDS SnapshotCache, TLAPS

-----------------------------------------------------------------------------
(* Facts about the operators *)

LEMMA OldestAgeType == OldestAge \in Nat /\ 0 \in 0..OldestAge
  BY TimeAssumption DEF OldestAge

LEMMA GateType ==
  ASSUME NEW d \in Data, NEW a \in 0..OldestAge
  PROVE  Gate(d, a) \in Status
  BY DataAssumption DEF Gate, Status

LEMMA AnsweredType == ASSUME NEW d \in Live PROVE Answered(d) \in Snapshot
<1>1. d \in Data
  BY DEF Data
<1>2. Gate(d, 0) \in Status
  BY <1>1, OldestAgeType, GateType
<1>3. QED
  BY <1>1, <1>2, OldestAgeType DEF Answered, Snapshot, Sources

LEMMA FellBackType ==
  ASSUME NEW d \in Data, NEW source \in Sources, NEW a \in 0..OldestAge
  PROVE  FellBack(d, source, a) \in Snapshot /\ FellBack(d, source, a).quality = "DEGRADED"
  BY DEF FellBack, Snapshot, Status

\* Growing older changes nothing but the age, and that by at most one tick.
LEMMA OlderKeeps ==
  ASSUME NEW s \in Snapshot
  PROVE  /\ Older(s) \in Snapshot
         /\ Older(s).data = s.data /\ Older(s).source = s.source
         /\ Older(s).quality = s.quality
         /\ Older(s).age <= s.age + 1
<1>1. s.age \in 0..OldestAge
  BY DEF Snapshot
<1>2. (IF s.age < OldestAge THEN s.age + 1 ELSE s.age) \in 0..OldestAge
  BY <1>1, OldestAgeType
<1> DEFINE a == IF s.age < OldestAge THEN s.age + 1 ELSE s.age
<1>3. a <= s.age + 1
  BY <1>1, OldestAgeType
<1>4. Older(s) = [s EXCEPT !.age = a]
  BY DEF Older
<1>5. a \in 0..OldestAge
  BY <1>2
<1> HIDE DEF a
<1>6. QED
  BY <1>3, <1>4, <1>5 DEF Snapshot

-----------------------------------------------------------------------------
(* The inductive invariant *)

\* A snapshot better than DEGRADED is an answer of the upstream.
Earned(s) == s.quality # "DEGRADED" => s.source = "TUSHARE_PRO" /\ s.data \in Live

\* An answer waits at most MaxLag to be stored; while its record can be hit,
\* its age and the time left are together at most TTL and lag.
HeldIsEarned ==
  \A l \in Loaders :
    /\ pc[l] = "loaded" =>
         /\ Earned(held[l])
         /\ held[l].quality # "DEGRADED" => held[l].age <= MaxLag
    /\ pc[l] = "returned" =>
         /\ Earned(held[l])
         /\ held[l].quality # "DEGRADED" => held[l].age <= Ttl + MaxLag

RecordIsEarned ==
  record # Nothing =>
    /\ Earned(record)
    /\ left > 0 /\ record.quality # "DEGRADED" => record.age + left <= Ttl + MaxLag

RowsAreEarned ==
  \A d \in Synthetic : rows[d] # Nothing => rows[d].quality = "DEGRADED"

\* TypeOK in parts.
HeldOK ==
  \A l \in Loaders :
    IF pc[l] \in {"loaded", "returned"} THEN held[l] \in Snapshot ELSE held[l] = Nothing
RecordOK ==
  /\ record \in Snapshot \union {Nothing}
  /\ left \in 0..Ttl
  /\ record = Nothing => left = 0
RowsOK ==
  /\ \A d \in Data : rows[d] \in [source : Sources, quality : Status] \union {Nothing}

\* The functions' domains, which TypeOK has no need to say.
Domains ==
  /\ pc \in [Loaders -> Places] /\ DOMAIN held = Loaders /\ held = [l \in Loaders |-> held[l]]
  /\ rows = [d \in Data |-> rows[d]] /\ up \in BOOLEAN

IInv ==
  /\ Domains /\ HeldOK /\ RecordOK /\ RowsOK
  /\ HeldIsEarned /\ RecordIsEarned /\ RowsAreEarned

LEMMA InitIInv == Init => IInv
<1> SUFFICES ASSUME Init PROVE IInv
  OBVIOUS
<1>1. Domains
  BY DEF Init, Domains, Places
<1>2. HeldOK /\ HeldIsEarned
  BY DEF Init, HeldOK, HeldIsEarned
<1>3. RecordOK /\ RecordIsEarned
  BY TimeAssumption DEF Init, RecordOK, RecordIsEarned
<1>4. RowsOK /\ RowsAreEarned
  BY DEF Init, RowsOK, RowsAreEarned, Data
<1>5. QED
  BY <1>1, <1>2, <1>3, <1>4 DEF IInv

\* What a step that only moves l, and may give it a snapshot, has to show.
LEMMA MoveIsLocal ==
  ASSUME IInv, NEW l \in Loaders, NEW place \in Places, Go(l, place), NEW s, Hold(l, s),
         IF place \in {"loaded", "returned"} THEN s \in Snapshot /\ Earned(s) ELSE s = Nothing,
         place = "loaded" /\ s.quality # "DEGRADED" => s.age <= MaxLag,
         place = "returned" /\ s.quality # "DEGRADED" => s.age <= Ttl + MaxLag,
         up' \in BOOLEAN, rows' = [d \in Data |-> rows'[d]]
  PROVE  Domains' /\ HeldOK' /\ HeldIsEarned'
<1>1. /\ pc'[l] = place /\ held'[l] = s
      /\ \A k \in Loaders \ {l} : pc'[k] = pc[k] /\ held'[k] = held[k]
  BY DEF Go, Hold, IInv, Domains
<1>2. Domains'
  <2>1. pc' \in [Loaders -> Places]
    BY DEF Go, IInv, Domains
  <2>2. DOMAIN held' = Loaders /\ held' = [k \in Loaders |-> held'[k]]
    BY DEF Hold, IInv, Domains
  <2>3. QED
    BY <2>1, <2>2 DEF Domains
<1>3. HeldOK'
  BY <1>1 DEF HeldOK, IInv
<1>4. HeldIsEarned'
  <2> SUFFICES ASSUME NEW k \in Loaders
               PROVE  /\ pc'[k] = "loaded" =>
                           /\ Earned(held'[k])
                           /\ held'[k].quality # "DEGRADED" => held'[k].age <= MaxLag
                      /\ pc'[k] = "returned" =>
                           /\ Earned(held'[k])
                           /\ held'[k].quality # "DEGRADED" => held'[k].age <= Ttl + MaxLag
    BY DEF HeldIsEarned, Earned
  <2>1. CASE k = l
    BY <1>1, <2>1
  <2>2. CASE k # l
    BY <1>1, <2>2 DEF HeldIsEarned, IInv
  <2>3. QED
    BY <2>1, <2>2
<1>5. QED
  BY <1>2, <1>3, <1>4

\* A step that leaves the cache alone keeps what is known of the record.
LEMMA RecordKept ==
  ASSUME IInv, UNCHANGED <<record, left>>
  PROVE  RecordOK' /\ RecordIsEarned'
  BY DEF IInv, RecordOK, RecordIsEarned, Earned

LEMMA RowsKept ==
  ASSUME IInv, UNCHANGED rows
  PROVE  RowsOK' /\ RowsAreEarned' /\ rows' = [d \in Data |-> rows'[d]]
  BY DEF IInv, RowsOK, RowsAreEarned, Domains

LEMMA StartLoadKeeps ==
  ASSUME IInv, NEW l \in Loaders, StartLoad(l) PROVE IInv'
<1>1. RecordOK' /\ RecordIsEarned' /\ RowsOK' /\ RowsAreEarned'
      /\ rows' = [d \in Data |-> rows'[d]] /\ up' \in BOOLEAN
  BY RecordKept, RowsKept DEF StartLoad, IInv, Domains
<1>2. CASE Hits /\ Go(l, "returned") /\ Hold(l, record)
  <2>1. record \in Snapshot /\ Earned(record) /\ left \in Nat /\ left > 0
    BY <1>2, TimeAssumption DEF Hits, IInv, RecordOK, RecordIsEarned
  <2>2. record.quality # "DEGRADED" => record.age <= Ttl + MaxLag
    <3>1. record.quality # "DEGRADED" => record.age + left <= Ttl + MaxLag
      BY <1>2 DEF Hits, IInv, RecordIsEarned
    <3>2. record.age \in Nat
      BY <2>1, OldestAgeType DEF Snapshot
    <3>3. QED
      BY <2>1, <3>1, <3>2, TimeAssumption
  <2>3. Domains' /\ HeldOK' /\ HeldIsEarned'
    BY <1>1, <1>2, <2>1, <2>2, MoveIsLocal DEF Places
  <2>4. QED
    BY <1>1, <2>3 DEF IInv
<1>3. CASE ~Hits /\ Go(l, "fetching") /\ UNCHANGED held
  <2>1. held[l] = Nothing /\ Hold(l, Nothing)
    BY <1>3 DEF StartLoad, IInv, HeldOK, Hold, Domains
  <2>2. Domains' /\ HeldOK' /\ HeldIsEarned'
    BY <1>1, <1>3, <2>1, MoveIsLocal DEF Places
  <2>3. QED
    BY <1>1, <2>2 DEF IInv
<1>4. QED
  BY <1>2, <1>3 DEF StartLoad

LEMMA FetchAnswersKeeps ==
  ASSUME IInv, NEW l \in Loaders, FetchAnswers(l) PROVE IInv'
<1>1. RecordOK' /\ RecordIsEarned' /\ RowsOK' /\ RowsAreEarned'
      /\ rows' = [d \in Data |-> rows'[d]] /\ up' \in BOOLEAN /\ Go(l, "loaded")
  BY RecordKept, RowsKept DEF FetchAnswers, IInv, Domains
<1>2. PICK d \in Live : Hold(l, Answered(d))
  BY DEF FetchAnswers
<1>3. /\ Answered(d) \in Snapshot /\ Earned(Answered(d))
      /\ Answered(d).age <= MaxLag
  BY AnsweredType, TimeAssumption DEF Answered, Earned
<1>4. Domains' /\ HeldOK' /\ HeldIsEarned'
  BY <1>1, <1>2, <1>3, MoveIsLocal DEF Places
<1>5. QED
  BY <1>1, <1>4 DEF IInv

LEMMA FetchFailsKeeps ==
  ASSUME IInv, NEW l \in Loaders, FetchFails(l) PROVE IInv'
<1>1. RecordOK' /\ RecordIsEarned' /\ RowsOK' /\ RowsAreEarned'
      /\ rows' = [d \in Data |-> rows'[d]] /\ up' \in BOOLEAN /\ Go(l, "failed")
  BY RecordKept, RowsKept DEF FetchFails, IInv, Domains
<1>2. Hold(l, Nothing)
  BY DEF FetchFails, IInv, HeldOK, Hold, Domains
<1>3. Domains' /\ HeldOK' /\ HeldIsEarned'
  BY <1>1, <1>2, MoveIsLocal DEF Places
<1>4. QED
  BY <1>1, <1>3 DEF IInv

LEMMA FallBackKeeps ==
  ASSUME IInv, NEW l \in Loaders, FallBack(l) PROVE IInv'
<1>1. RecordOK' /\ RecordIsEarned' /\ RowsOK' /\ RowsAreEarned'
      /\ rows' = [d \in Data |-> rows'[d]] /\ up' \in BOOLEAN /\ Go(l, "loaded")
  BY RecordKept, RowsKept DEF FallBack, IInv, Domains
<1>2. \E s : Hold(l, s) /\ s \in Snapshot /\ s.quality = "DEGRADED"
  <2>1. CASE record # Nothing /\ Hold(l, FellBack(record.data, "TUSHARE_PRO_CACHE", record.age))
    <3>1. record.data \in Data /\ record.age \in 0..OldestAge
      BY <2>1 DEF IInv, RecordOK, Snapshot
    <3>2. QED
      BY <2>1, <3>1, FellBackType DEF Sources
  <2>2. CASE \E d \in Synthetic : Hold(l, FellBack(d, "SYNTHETIC_FALLBACK", 0))
    BY <2>2, FellBackType, OldestAgeType DEF Sources, Data
  <2>3. QED
    BY <2>1, <2>2 DEF FallBack
<1>3. PICK s : Hold(l, s) /\ s \in Snapshot /\ s.quality = "DEGRADED"
  BY <1>2
<1>4. Domains' /\ HeldOK' /\ HeldIsEarned'
  BY <1>1, <1>3, MoveIsLocal DEF Places, Earned
<1>5. QED
  BY <1>1, <1>4 DEF IInv

LEMMA StoreKeeps ==
  ASSUME IInv, NEW l \in Loaders, Store(l) PROVE IInv'
<1>1. RowsOK' /\ RowsAreEarned' /\ rows' = [d \in Data |-> rows'[d]] /\ up' \in BOOLEAN
  BY RowsKept DEF Store, IInv, Domains
<1>2. /\ held[l] \in Snapshot /\ Earned(held[l])
      /\ held[l].quality # "DEGRADED" => held[l].age <= MaxLag
      /\ held[l].age \in Nat /\ Hold(l, held[l])
  BY OldestAgeType DEF Store, IInv, HeldOK, HeldIsEarned, Snapshot, Hold, Domains
<1>3. Domains' /\ HeldOK' /\ HeldIsEarned'
  <2>1. held[l].quality # "DEGRADED" => held[l].age <= Ttl + MaxLag
    BY <1>2, TimeAssumption
  <2>2. QED
    BY <1>1, <1>2, <2>1, MoveIsLocal DEF Store, Places
<1>4. RecordOK'
  BY <1>2, TimeAssumption, NothingAssumption DEF Store, RecordOK
<1>5. RecordIsEarned'
  <2>1. record' = held[l] /\ left' = Ttl
    BY DEF Store
  <2>2. held[l].quality # "DEGRADED" => held[l].age + Ttl <= Ttl + MaxLag
    BY <1>2, TimeAssumption
  <2>3. QED
    BY <1>2, <2>1, <2>2 DEF RecordIsEarned, Earned
<1>6. QED
  BY <1>1, <1>3, <1>4, <1>5 DEF IInv

LEMMA EndRequestKeeps ==
  ASSUME IInv, NEW l \in Loaders, EndRequest(l) PROVE IInv'
<1>1. RecordOK' /\ RecordIsEarned' /\ up' \in BOOLEAN
  BY RecordKept DEF EndRequest, IInv, Domains
<1>2. RowsOK' /\ RowsAreEarned' /\ rows' = [d \in Data |-> rows'[d]]
  <2>1. CASE UNCHANGED rows
    BY <2>1, RowsKept
  <2> DEFINE seen == [source |-> held[l].source, quality |-> held[l].quality]
  <2>2. CASE rows' = [rows EXCEPT ![held[l].data] = seen]
    <3>1. /\ held[l].data \in Data /\ seen \in [source : Sources, quality : Status]
          /\ held[l].data \in Synthetic => seen.quality = "DEGRADED"
      BY DataAssumption DEF EndRequest, IInv, HeldOK, HeldIsEarned, Earned, Snapshot
    <3> HIDE DEF seen
    <3>2. /\ rows'[held[l].data] = seen
          /\ \A d \in Data \ {held[l].data} : rows'[d] = rows[d]
          /\ rows' = [d \in Data |-> rows'[d]]
      BY <2>2, <3>1 DEF IInv, Domains
    <3>3. RowsOK'
      BY <2>2, <3>1, <3>2 DEF IInv, RowsOK
    <3>4. RowsAreEarned'
      BY <3>1, <3>2 DEF IInv, RowsAreEarned, Data
    <3>5. QED
      BY <3>2, <3>3, <3>4
  <2>3. QED
    BY <2>1, <2>2 DEF EndRequest
<1>3. Domains' /\ HeldOK' /\ HeldIsEarned'
  BY <1>1, <1>2, MoveIsLocal DEF EndRequest, Places
<1>4. QED
  BY <1>1, <1>2, <1>3 DEF IInv

LEMMA TickKeeps == ASSUME IInv, Tick PROVE IInv'
<1>1. RowsOK' /\ RowsAreEarned' /\ Domains'
  <2>1. RowsOK' /\ RowsAreEarned' /\ rows' = [d \in Data |-> rows'[d]]
    BY RowsKept DEF Tick
  <2>2. QED
    BY <2>1 DEF Tick, IInv, Domains
<1>2. HeldOK' /\ HeldIsEarned'
  <2> SUFFICES ASSUME NEW l \in Loaders
               PROVE  /\ IF pc'[l] \in {"loaded", "returned"}
                         THEN held'[l] \in Snapshot ELSE held'[l] = Nothing
                      /\ pc'[l] = "loaded" =>
                           /\ Earned(held'[l])
                           /\ held'[l].quality # "DEGRADED" => held'[l].age <= MaxLag
                      /\ pc'[l] = "returned" =>
                           /\ Earned(held'[l])
                           /\ held'[l].quality # "DEGRADED" => held'[l].age <= Ttl + MaxLag
    BY DEF HeldOK, HeldIsEarned, Earned
  <2>1. CASE pc[l] # "loaded"
    <3>1. pc'[l] = pc[l] /\ held'[l] = held[l]
      BY <2>1 DEF Tick
    <3>2. QED
      BY <2>1, <3>1 DEF IInv, HeldOK, HeldIsEarned
  <2>2. CASE pc[l] = "loaded"
    <3>1. pc'[l] = pc[l] /\ held'[l] = Older(held[l])
      BY <2>2 DEF Tick
    <3>2. held[l] \in Snapshot /\ Earned(held[l])
      BY <2>2 DEF IInv, HeldOK, HeldIsEarned
    <3>3. held[l].quality # "DEGRADED" => held[l].age < MaxLag
      BY <2>2, <3>2 DEF Tick, Earned
    <3>4. held[l].age \in Nat /\ Older(held[l]).age \in Nat
      BY <3>2, OlderKeeps, OldestAgeType DEF Snapshot
    <3>5. Older(held[l]).quality # "DEGRADED" => Older(held[l]).age <= MaxLag
      BY <3>2, <3>3, <3>4, OlderKeeps, TimeAssumption
    <3>6. Older(held[l]) \in Snapshot /\ Earned(Older(held[l]))
      BY <3>2, OlderKeeps DEF Earned
    <3>7. QED
      BY <2>2, <3>1, <3>5, <3>6
  <2>3. QED
    BY <2>1, <2>2
<1>3. RecordOK' /\ RecordIsEarned'
  <2>1. left \in 0..Ttl /\ left' \in 0..Ttl /\ (left' > 0 => left' = left - 1 /\ left > 0)
        /\ (left = 0 => left' = 0)
    BY TimeAssumption DEF Tick, IInv, RecordOK
  <2>2. CASE record = Nothing
    BY <2>1, <2>2 DEF Tick, RecordOK, RecordIsEarned, IInv
  <2>3. CASE record # Nothing
    <3>1. record \in Snapshot /\ Earned(record) /\ record' = Older(record)
      BY <2>3 DEF Tick, IInv, RecordOK, RecordIsEarned
    <3>2. /\ Older(record) \in Snapshot /\ Earned(Older(record))
          /\ Older(record).quality = record.quality /\ Older(record).age <= record.age + 1
      BY <3>1, OlderKeeps DEF Earned
    <3>3. record.age \in Nat /\ Older(record).age \in Nat
      BY <3>1, <3>2, OldestAgeType DEF Snapshot
    <3>4. left > 0 /\ record.quality # "DEGRADED" => record.age + left <= Ttl + MaxLag
      BY <2>3 DEF IInv, RecordIsEarned
    <3>5. left' > 0 /\ Older(record).quality # "DEGRADED" => Older(record).age + left' <= Ttl + MaxLag
      BY <2>1, <3>2, <3>3, <3>4, TimeAssumption
    <3>6. RecordOK'
      BY <2>1, <3>1, <3>2, NothingAssumption DEF RecordOK
    <3>7. RecordIsEarned'
      BY <3>1, <3>2, <3>5 DEF RecordIsEarned, Earned
    <3>8. QED
      BY <3>6, <3>7
  <2>4. QED
    BY <2>2, <2>3
<1>4. QED
  BY <1>1, <1>2, <1>3 DEF IInv

LEMMA NextIInv == IInv /\ [Next]_vars => IInv'
<1> SUFFICES ASSUME IInv, [Next]_vars PROVE IInv'
  OBVIOUS
<1>1. CASE Tick
  BY <1>1, TickKeeps
<1>2. CASE UpstreamChanges
  BY <1>2 DEF UpstreamChanges, IInv, Domains, HeldOK, RecordOK, RowsOK, HeldIsEarned,
              RecordIsEarned, RowsAreEarned, Earned
<1>3. ASSUME NEW l \in Loaders, Step(l) PROVE IInv'
  BY <1>3, StartLoadKeeps, FetchAnswersKeeps, FetchFailsKeeps, FallBackKeeps, StoreKeeps,
     EndRequestKeeps DEF Step
<1>4. CASE UNCHANGED vars
  BY <1>4 DEF vars, IInv, Domains, HeldOK, RecordOK, RowsOK, HeldIsEarned,
              RecordIsEarned, RowsAreEarned, Earned
<1>5. QED
  BY <1>1, <1>2, <1>3, <1>4 DEF Next

-----------------------------------------------------------------------------
(* The theorems *)

\* Every variable has its type in every reachable state.
THEOREM TypeCorrect == Spec => []TypeOK
<1>1. IInv => TypeOK
  BY DEF IInv, Domains, HeldOK, RecordOK, RowsOK, TypeOK
<1>2. QED
  BY InitIInv, NextIInv, <1>1, PTL DEF Spec

\* What _load_snapshot returns as better than DEGRADED was answered by the
\* upstream at most a TTL and a storing lag ago, and no row of daily_snapshots
\* calls synthetic data good.
THEOREM GoodSnapshotsAreFreshLive == Spec => []GoodIsFreshLive
<1>1. IInv => GoodIsFreshLive
  BY DEF IInv, HeldIsEarned, RowsAreEarned, Earned, GoodIsFreshLive
<1>2. QED
  BY InitIInv, NextIInv, <1>1, PTL DEF Spec
=============================================================================
