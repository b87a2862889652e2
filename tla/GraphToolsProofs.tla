-------------------------- MODULE GraphToolsProofs --------------------------
(***************************************************************************)
(* For any threads, tools, times to live and cool-down of GraphSource:     *)
(* types, the bounds on drivers nobody closes and on failed attempts to    *)
(* connect, and the ages of results.  For any universe of edges, depth and *)
(* limit of GraphSearch: types, and that the searches return the nearest   *)
(* paths, the heaviest of them, and the ball around the company.           *)
(***************************************************************************)
EXTENDS GraphSource, GraphSearch, DataLemmas

\* What one thread is known to hold at every place.
ThreadInv(t) ==
  /\ pc[t] \in Places /\ tool[t] \in Tools /\ lag[t] \in 0..MaxLag
  /\ held[t] \in Result \union {Nothing}
  /\ pc[t] \in {"loaded", "derived", "returned"} => held[t] \in Result
  /\ pc[t] = "nested" => tool[t] = "exposure"
  /\ pc[t] = "loaded" => held[t].age <= lag[t]
  /\ pc[t] = "derived" => tool[t] = "exposure" /\ held[t].age <= Ttl["paths"] + MaxLag + lag[t]
  /\ pc[t] = "returned" => held[t].age <= MaxAge(tool[t])

\* A record that can be hit has aged by no more than its time has run down.
KeyInv(k) ==
  /\ record[k] \in Result \union {Nothing}
  /\ left[k] \in 0..Ttl[k]
  /\ record[k] = Nothing => left[k] = 0
  /\ left[k] > 0 => record[k].age + left[k] <= MaxAge(k)

\* The variables are functions; TypeOK need not say so of left.
Funs ==
  /\ pc = [t \in Threads |-> pc[t]] /\ tool = [t \in Threads |-> tool[t]]
  /\ held = [t \in Threads |-> held[t]] /\ lag = [t \in Threads |-> lag[t]]
  /\ record = [k \in AllTools |-> record[k]] /\ left = [k \in AllTools |-> left[k]]

Switches ==
  driver \in BOOLEAN /\ up \in BOOLEAN /\ failures \in [0..Cooldown-1 -> Nat]

IInv ==
  /\ Funs /\ Switches
  /\ \A t \in Threads : ThreadInv(t)
  /\ \A k \in AllTools : KeyInv(k)

-----------------------------------------------------------------------------
(* Results and their ages *)

LEMMA Times ==
  /\ \A k \in AllTools : Ttl[k] \in Nat \ {0}
  /\ "subtree" \in AllTools /\ "paths" \in AllTools /\ "exposure" \in AllTools
  /\ MaxLag \in Nat /\ OldestAge \in Nat
BY TtlAssumption, CooldownAssumption DEF AllTools, OldestAge

LEMMA FreshType ==
  ASSUME NEW s \in {"NEO4J", "SYNTHETIC"}
  PROVE  Fresh(s) \in Result /\ Fresh(s).age = 0
BY Times DEF Fresh, Result

LEMMA OlderType ==
  ASSUME NEW r \in Result
  PROVE  /\ Older(r) \in Result
         /\ Older(r).age \in Int /\ r.age \in Int /\ Older(r).age <= r.age + 1
BY Times DEF Older, Result

LEMMA AgeType == ASSUME NEW r \in Result PROVE r.age \in Nat
BY Times DEF Result

LEMMA MaxAgeType ==
  ASSUME NEW k \in AllTools
  PROVE  /\ MaxAge(k) \in Nat
         /\ k # "exposure" => MaxAge(k) = Ttl[k] + MaxLag
         /\ k = "exposure" => MaxAge(k) = Ttl["paths"] + Ttl["exposure"] + MaxLag + MaxLag
         /\ MaxLag + Ttl[k] <= MaxAge(k)
BY Times DEF MaxAge

-----------------------------------------------------------------------------
(* A step of one thread *)

\* What a thread does leaves what the others hold as it is.
LEMMA StepIsLocal ==
  ASSUME IInv, NEW t \in Threads, Step(t)
  PROVE  /\ \A u \in Threads \ {t} :
              pc'[u] = pc[u] /\ tool'[u] = tool[u] /\ held'[u] = held[u] /\ lag'[u] = lag[u]
         /\ Funs'
<1>1. CASE Call(t)
  BY <1>1 DEF IInv, Funs, Call, Go, Hold, cacheVars
<1>2. CASE AskPaths(t)
  BY <1>2 DEF IInv, Funs, AskPaths, Go, Hold, cacheVars
<1>3. CASE GetDriver(t)
  BY <1>3 DEF IInv, Funs, GetDriver, Go, Hold, cacheVars
<1>4. CASE Connect(t)
  BY <1>4 DEF IInv, Funs, Connect, Go, Hold, cacheVars
<1>5. CASE Query(t)
  BY <1>5 DEF IInv, Funs, Query, Go, Hold, cacheVars
<1>6. CASE Store(t)
  BY <1>6 DEF IInv, Funs, Store, Cache, Go, Hold
<1>7. CASE StoreExposure(t)
  BY <1>7 DEF IInv, Funs, StoreExposure, Cache, Go
<1>8. CASE Return(t)
  BY <1>8 DEF IInv, Funs, Return, Go, Hold, cacheVars
<1>9. QED
  BY <1>1, <1>2, <1>3, <1>4, <1>5, <1>6, <1>7, <1>8 DEF Step

LEMMA OthersKeep ==
  ASSUME NEW u, ThreadInv(u),
         pc'[u] = pc[u], tool'[u] = tool[u], held'[u] = held[u], lag'[u] = lag[u]
  PROVE  ThreadInv(u)'
BY DEF ThreadInv, MaxAge

LEMMA KeysKeep ==
  ASSUME IInv, UNCHANGED cacheVars PROVE \A k \in AllTools : KeyInv(k)'
BY DEF IInv, KeyInv, MaxAge, cacheVars
LEMMA HoldSets ==
  ASSUME IInv, NEW t \in Threads, NEW r, NEW place, Hold(t, r, place)
  PROVE  pc'[t] = place /\ held'[t] = r /\ lag'[t] = 0
BY DEF IInv, Funs, Hold, Go

LEMMA GoSets ==
  ASSUME IInv, NEW t \in Threads, NEW place, Go(t, place)
  PROVE  pc'[t] = place
BY DEF IInv, Funs, Go

\* A hit is young enough to be returned.
LEMMA HitIsYoung ==
  ASSUME IInv, NEW k \in AllTools, Hits(k)
  PROVE  record[k] \in Result /\ record[k].age <= MaxAge(k)
<1>1. KeyInv(k)
  BY DEF IInv
<1>2. left[k] \in Nat /\ left[k] > 0
  BY <1>1, Times DEF KeyInv, Hits
<1>3. record[k] \in Result
  BY <1>1, <1>2 DEF KeyInv
<1>4. QED
  BY <1>1, <1>2, <1>3, AgeType, MaxAgeType DEF KeyInv

LEMMA CallKeeps ==
  ASSUME IInv, NEW t \in Threads, Call(t)
  PROVE  ThreadInv(t)' /\ \A k \in AllTools : KeyInv(k)'
<1>1. \A k \in AllTools : KeyInv(k)'
  BY KeysKeep DEF Call
<1>2. PICK k \in Tools :
        /\ tool' = [tool EXCEPT ![t] = k]
        /\ \/ Hits(k) /\ Hold(t, record[k], "returned")
           \/ ~Hits(k) /\ Go(t, IF k = "exposure" THEN "nested" ELSE "driver") /\ UNCHANGED <<held, lag>>
  BY DEF Call
<1>3. tool'[t] = k /\ k \in AllTools
  BY <1>2, ThreadsAssumption DEF IInv, Funs
<1>4. ThreadInv(t)
  BY DEF IInv
<1>5. CASE Hits(k) /\ Hold(t, record[k], "returned")
  <2>1. pc'[t] = "returned" /\ held'[t] = record[k] /\ lag'[t] = 0
    BY <1>5, HoldSets
  <2>2. record[k] \in Result /\ record[k].age <= MaxAge(k)
    BY <1>3, <1>5, HitIsYoung
  <2>3. MaxAge(tool[t])' = MaxAge(k)
    BY <1>3 DEF MaxAge
  <2>4. QED
    BY <1>1, <1>3, <2>1, <2>2, <2>3, Times DEF ThreadInv, Places
<1>6. CASE Go(t, IF k = "exposure" THEN "nested" ELSE "driver") /\ UNCHANGED <<held, lag>>
  <2>1. pc'[t] = (IF k = "exposure" THEN "nested" ELSE "driver")
    BY <1>6, GoSets
  <2>2. QED
    BY <1>1, <1>3, <1>4, <1>6, <2>1 DEF ThreadInv, Places
<1>7. QED
  BY <1>1, <1>2, <1>5, <1>6

LEMMA AskPathsKeeps ==
  ASSUME IInv, NEW t \in Threads, AskPaths(t)
  PROVE  ThreadInv(t)' /\ \A k \in AllTools : KeyInv(k)'
<1>1. \A k \in AllTools : KeyInv(k)'
  BY KeysKeep DEF AskPaths
<1>2. ThreadInv(t) /\ tool' = tool /\ tool[t] = "exposure"
  BY DEF IInv, AskPaths, ThreadInv
<1>3. CASE Hits("paths") /\ Hold(t, record["paths"], "derived")
  <2>1. pc'[t] = "derived" /\ held'[t] = record["paths"] /\ lag'[t] = 0
    BY <1>3, HoldSets
  <2>2. record["paths"] \in Result /\ record["paths"].age <= MaxAge("paths")
    BY <1>3, HitIsYoung, Times
  <2>3. MaxAge("paths") = Ttl["paths"] + MaxLag + 0
    BY Times, MaxAgeType
  <2>4. QED
    BY <1>1, <1>2, <2>1, <2>2, <2>3, Times DEF ThreadInv, Places
<1>4. CASE Go(t, "driver") /\ UNCHANGED <<held, lag>>
  <2>1. pc'[t] = "driver"
    BY <1>4, GoSets
  <2>2. QED
    BY <1>1, <1>2, <1>4, <2>1 DEF ThreadInv, Places
<1>5. QED
  BY <1>1, <1>3, <1>4 DEF AskPaths

\* The graph was just loaded, or the thread only moves on toward it.
LEMMA LoadedKeeps ==
  ASSUME IInv, NEW t \in Threads, NEW s \in {"NEO4J", "SYNTHETIC"},
         Hold(t, Fresh(s), "loaded"), tool' = tool
  PROVE  ThreadInv(t)'
<1>1. pc'[t] = "loaded" /\ held'[t] = Fresh(s) /\ lag'[t] = 0
  BY HoldSets
<1>2. ThreadInv(t)
  BY DEF IInv
<1>3. QED
  BY <1>1, <1>2, FreshType, Times DEF ThreadInv, Places

LEMMA MovedKeeps ==
  ASSUME IInv, NEW t \in Threads, NEW place \in {"driver", "connecting", "query"},
         Go(t, place), UNCHANGED <<tool, held, lag>>
  PROVE  ThreadInv(t)'
<1>1. pc'[t] = place
  BY GoSets
<1>2. ThreadInv(t)
  BY DEF IInv
<1>3. QED
  BY <1>1, <1>2 DEF ThreadInv, Places

LEMMA LoadingKeeps ==
  ASSUME IInv, NEW t \in Threads, GetDriver(t) \/ Connect(t) \/ Query(t)
  PROVE  ThreadInv(t)' /\ \A k \in AllTools : KeyInv(k)'
<1>1. \A k \in AllTools : KeyInv(k)'
  BY KeysKeep DEF GetDriver, Connect, Query
<1>2. CASE GetDriver(t)
  BY <1>1, <1>2, LoadedKeeps, MovedKeeps DEF GetDriver
<1>3. CASE Connect(t)
  BY <1>1, <1>3, LoadedKeeps, MovedKeeps DEF Connect
<1>4. CASE Query(t)
  BY <1>1, <1>4, LoadedKeeps DEF Query
<1>5. QED
  BY <1>2, <1>3, <1>4

\* Storing a result that is young enough, with its full time to live.
LEMMA CacheKeeps ==
  ASSUME IInv, NEW k \in AllTools, NEW r \in Result, Cache(k, r),
         r.age + Ttl[k] <= MaxAge(k)
  PROVE  \A j \in AllTools : KeyInv(j)'
<1> SUFFICES ASSUME NEW j \in AllTools PROVE KeyInv(j)'
  OBVIOUS
<1>1. KeyInv(j) /\ MaxAge(j)' = MaxAge(j)
  BY DEF IInv, MaxAge
<1>2. CASE j = k
  <2>1. record'[j] = r /\ left'[j] = Ttl[k]
    BY <1>2 DEF IInv, Funs, Cache
  <2>2. QED
    BY <1>1, <1>2, <2>1, Times, NothingAssumption DEF KeyInv
<1>3. CASE j # k
  <2>1. record'[j] = record[j] /\ left'[j] = left[j]
    BY <1>3 DEF IInv, Funs, Cache
  <2>2. QED
    BY <1>1, <2>1 DEF KeyInv
<1>4. QED
  BY <1>2, <1>3

LEMMA StoreKeeps ==
  ASSUME IInv, NEW t \in Threads, Store(t)
  PROVE  ThreadInv(t)' /\ \A k \in AllTools : KeyInv(k)'
<1>1. /\ ThreadInv(t) /\ pc[t] = "loaded" /\ tool' = tool
      /\ tool[t] \in AllTools /\ held[t] \in Result
  BY ThreadsAssumption DEF IInv, Store, ThreadInv
<1>2. held[t].age \in Nat /\ held[t].age <= lag[t] /\ lag[t] \in 0..MaxLag
  BY <1>1, AgeType DEF ThreadInv
<1>3. held[t].age <= MaxLag
  BY <1>2, Times
<1>4. Base(tool[t]) \in AllTools
  BY <1>1, Times DEF Base
<1>5. \A k \in AllTools : KeyInv(k)'
  <2>1. MaxLag + Ttl[Base(tool[t])] <= MaxAge(Base(tool[t]))
    BY <1>4, MaxAgeType
  <2>2. held[t].age + Ttl[Base(tool[t])] <= MaxAge(Base(tool[t]))
    BY <1>2, <1>3, <1>4, <2>1, MaxAgeType, Times
  <2>3. Cache(Base(tool[t]), held[t])
    BY DEF Store
  <2>4. QED
    BY <1>1, <1>4, <2>2, <2>3, CacheKeeps
<1>6. CASE tool[t] = "exposure" /\ Hold(t, held[t], "derived")
  <2>1. pc'[t] = "derived" /\ held'[t] = held[t] /\ lag'[t] = 0
    BY <1>6, HoldSets
  <2>2. held[t].age <= Ttl["paths"] + MaxLag + 0
    BY <1>2, <1>3, Times
  <2>3. QED
    BY <1>1, <1>5, <1>6, <2>1, <2>2, Times DEF ThreadInv, Places
<1>7. CASE Go(t, "returned") /\ UNCHANGED <<held, lag>>
  <2>1. pc'[t] = "returned"
    BY <1>7, GoSets
  <2>2. held[t].age <= MaxAge(tool[t]) /\ MaxAge(tool[t])' = MaxAge(tool[t])
    <3>1. MaxLag + Ttl[tool[t]] <= MaxAge(tool[t]) /\ Ttl[tool[t]] \in Nat /\ MaxAge(tool[t]) \in Nat
      BY <1>1, MaxAgeType, Times
    <3>2. held[t].age <= MaxAge(tool[t])
      BY <1>2, <1>3, <3>1, Times
    <3>3. QED
      BY <1>1, <3>2 DEF MaxAge
  <2>3. QED
    BY <1>1, <1>5, <1>7, <2>1, <2>2 DEF ThreadInv, Places
<1>8. QED
  BY <1>6, <1>7 DEF Store

LEMMA StoreExposureKeeps ==
  ASSUME IInv, NEW t \in Threads, StoreExposure(t)
  PROVE  ThreadInv(t)' /\ \A k \in AllTools : KeyInv(k)'
<1>1. /\ ThreadInv(t) /\ pc[t] = "derived" /\ tool[t] = "exposure" /\ held[t] \in Result
      /\ UNCHANGED <<tool, held, lag>> /\ pc'[t] = "returned"
  BY GoSets DEF IInv, StoreExposure, ThreadInv
<1>2. held[t].age \in Nat /\ held[t].age <= Ttl["paths"] + MaxLag + lag[t] /\ lag[t] \in 0..MaxLag
  BY <1>1, AgeType DEF ThreadInv
<1>3. held[t].age + Ttl["exposure"] <= MaxAge("exposure") /\ held[t].age <= MaxAge("exposure")
  BY <1>2, MaxAgeType, Times
<1>4. \A k \in AllTools : KeyInv(k)'
  BY <1>1, <1>3, CacheKeeps, Times DEF StoreExposure
<1>5. MaxAge(tool[t])' = MaxAge("exposure")
  BY <1>1 DEF MaxAge
<1>6. QED
  BY <1>1, <1>3, <1>4, <1>5 DEF ThreadInv, Places

LEMMA ReturnKeeps ==
  ASSUME IInv, NEW t \in Threads, Return(t)
  PROVE  ThreadInv(t)' /\ \A k \in AllTools : KeyInv(k)'
<1>1. \A k \in AllTools : KeyInv(k)'
  BY KeysKeep DEF Return
<1>2. pc'[t] = "idle" /\ held'[t] = Nothing /\ lag'[t] = 0 /\ tool' = tool
  BY HoldSets DEF Return
<1>3. ThreadInv(t)
  BY DEF IInv
<1>4. QED
  BY <1>1, <1>2, <1>3, Times DEF ThreadInv, Places
LEMMA StepSwitches == ASSUME IInv, NEW t \in Threads, Step(t) PROVE Switches'
<1>1. CASE Connect(t)
  <2>1. 0 \in 0..Cooldown-1
    BY CooldownAssumption
  <2>2. \A f \in [0..Cooldown-1 -> Nat] : [f EXCEPT ![0] = @ + 1] \in [0..Cooldown-1 -> Nat]
    BY <2>1
  <2>3. QED
    BY <1>1, <2>2 DEF IInv, Switches, Connect
<1>2. CASE UNCHANGED <<driver, failures, up>>
  BY <1>2 DEF IInv, Switches
<1>3. QED
  BY <1>1, <1>2 DEF Step, Call, AskPaths, GetDriver, Query, Store, StoreExposure, Return, driverVars

LEMMA StepKeeps == ASSUME IInv, NEW t \in Threads, Step(t) PROVE IInv'
<1>1. ThreadInv(t)' /\ \A k \in AllTools : KeyInv(k)'
  BY CallKeeps, AskPathsKeeps, LoadingKeeps, StoreKeeps, StoreExposureKeeps, ReturnKeeps DEF Step
<1>2. \A u \in Threads \ {t} : ThreadInv(u)'
  BY StepIsLocal, OthersKeep DEF IInv
<1>3. QED
  BY <1>1, <1>2, StepIsLocal, StepSwitches DEF IInv

-----------------------------------------------------------------------------
(* Time *)

LEMMA TickThread == ASSUME IInv, Tick, NEW t \in Threads PROVE ThreadInv(t)'
<1>1. ThreadInv(t) /\ pc' = pc /\ tool' = tool
  BY DEF IInv, Tick
<1>2. CASE Caching(t)
  <2>1. held'[t] = Older(held[t]) /\ lag'[t] = lag[t] + 1 /\ lag[t] < MaxLag
    BY <1>2 DEF Tick
  <2>2. held[t] \in Result /\ lag[t] \in 0..MaxLag
    BY <1>1, <1>2 DEF ThreadInv, Caching
  <2>3. /\ held'[t] \in Result /\ lag'[t] \in 0..MaxLag
        /\ held'[t].age <= held[t].age + 1 /\ held[t].age \in Int /\ held'[t].age \in Int
    BY <2>1, <2>2, OlderType, Times
  <2>4. /\ pc[t] = "loaded" => held'[t].age <= lag'[t]
        /\ pc[t] = "derived" => held'[t].age <= Ttl["paths"] + MaxLag + lag'[t]
    BY <1>1, <2>1, <2>2, <2>3, Times DEF ThreadInv
  <2>5. QED
    BY <1>1, <1>2, <2>3, <2>4 DEF ThreadInv, Caching
<1>3. CASE ~Caching(t)
  <2>1. held'[t] = held[t] /\ lag'[t] = 0
    BY <1>3 DEF Tick
  <2>2. MaxAge(tool[t])' = MaxAge(tool[t])
    BY <1>1 DEF MaxAge
  <2>3. QED
    BY <1>1, <1>3, <2>1, <2>2, Times DEF ThreadInv, Caching
<1>4. QED
  BY <1>2, <1>3

LEMMA TickKey == ASSUME IInv, Tick, NEW k \in AllTools PROVE KeyInv(k)'
<1>1. KeyInv(k) /\ Ttl[k] \in Nat /\ MaxAge(k) \in Nat /\ MaxAge(k)' = MaxAge(k)
  BY Times, MaxAgeType DEF IInv, MaxAge
<1>2. /\ record'[k] = IF record[k] = Nothing THEN Nothing ELSE Older(record[k])
      /\ left'[k] = IF left[k] > 0 THEN left[k] - 1 ELSE 0
  BY DEF Tick
<1>3. CASE record[k] = Nothing
  BY <1>1, <1>2, <1>3 DEF KeyInv
<1>4. CASE record[k] # Nothing
  <2>1. record[k] \in Result /\ record'[k] = Older(record[k])
    BY <1>1, <1>2, <1>4 DEF KeyInv
  <2>2. /\ record'[k] \in Result /\ record'[k] # Nothing
        /\ record'[k].age <= record[k].age + 1 /\ record[k].age \in Int /\ record'[k].age \in Int
    BY <2>1, OlderType, NothingAssumption
  <2>3. left'[k] \in 0..Ttl[k] /\ (left'[k] > 0 => record'[k].age + left'[k] <= MaxAge(k))
    BY <1>1, <1>2, <2>2 DEF KeyInv
  <2>4. QED
    BY <1>1, <2>2, <2>3 DEF KeyInv
<1>5. QED
  BY <1>3, <1>4

LEMMA TickKeeps == ASSUME IInv, Tick PROVE IInv'
<1>1. Funs'
  BY DEF IInv, Funs, Tick
<1>2. Switches'
  <2>1. \A a \in 0..Cooldown-1 : a # 0 => a - 1 \in 0..Cooldown-1
    BY CooldownAssumption
  <2>2. QED
    BY <2>1 DEF IInv, Switches, Tick
<1>3. QED
  BY <1>1, <1>2, TickThread, TickKey DEF IInv

-----------------------------------------------------------------------------
(* Types and ages *)

LEMMA InitIInv == Init => IInv
<1> SUFFICES ASSUME Init PROVE IInv
  OBVIOUS
<1>1. Funs /\ Switches
  BY DEF Init, Funs, Switches
<1>2. \A t \in Threads : ThreadInv(t)
  BY Times DEF Init, ThreadInv, Places
<1>3. \A k \in AllTools : KeyInv(k)
  BY Times DEF Init, KeyInv
<1>4. QED
  BY <1>1, <1>2, <1>3 DEF IInv

LEMMA NextIInv == IInv /\ [Next]_vars => IInv'
<1> SUFFICES ASSUME IInv, [Next]_vars PROVE IInv'
  OBVIOUS
<1>1. CASE Tick
  BY <1>1, TickKeeps
<1>2. CASE \E t \in Threads : Step(t)
  BY <1>2, StepKeeps
<1>3. CASE Neo4jChanges \/ UNCHANGED vars
  <2>1. UNCHANGED <<threadVars, cacheVars, driverVars>> /\ up' \in BOOLEAN
    BY <1>3 DEF Neo4jChanges, vars, IInv, Switches
  <2>2. Funs' /\ Switches'
    BY <2>1 DEF IInv, Funs, Switches, threadVars, cacheVars, driverVars
  <2>3. \A t \in Threads : ThreadInv(t)'
    BY <2>1, OthersKeep DEF IInv, threadVars
  <2>4. \A k \in AllTools : KeyInv(k)'
    BY <2>1, KeysKeep
  <2>5. QED
    BY <2>2, <2>3, <2>4 DEF IInv
<1>4. QED
  BY <1>1, <1>2, <1>3 DEF Next

LEMMA Invariant == Spec => []IInv
BY InitIInv, NextIInv, PTL DEF Spec

\* A result that is returned was computed from a graph no older than the times to
\* live of the caches between them, and the lags of storing, allow.
THEOREM ResultsStayFresh == Spec => []ResultsAreFresh
<1>1. IInv => ResultsAreFresh
  BY DEF IInv, ThreadInv, ResultsAreFresh
<1>2. QED
  BY <1>1, Invariant, PTL

-----------------------------------------------------------------------------
(* Drivers *)

Connecting == {t \in Threads : pc[t] = "connecting"}

\* Without a driver none is open, so threads that find none may open one each;
\* none of them finds none again.
DriverInv ==
  /\ opened \in Nat
  /\ ~driver => opened = 0
  /\ opened + Cardinality(Connecting) <= Cardinality(Threads)

LEMMA ConnectingIsFinite ==
  /\ IsFiniteSet(Threads) /\ Cardinality(Threads) \in Nat
  /\ IsFiniteSet(Connecting) /\ Cardinality(Connecting) \in Nat
  /\ Cardinality(Connecting) <= Cardinality(Threads)
<1>1. Connecting \subseteq Threads
  BY DEF Connecting
<1>2. QED
  BY <1>1, ThreadsAssumption, FS_Subset, FS_CardinalityType

\* No other thread begins to connect in a step that opens no driver.
LEMMA FewerConnecting ==
  ASSUME DriverInv, Connecting' \subseteq Connecting, UNCHANGED <<driver, opened>>
  PROVE  DriverInv'
<1>1. IsFiniteSet(Connecting') /\ Cardinality(Connecting') <= Cardinality(Connecting)
  BY ConnectingIsFinite, FS_Subset
<1>2. Cardinality(Connecting') \in Nat
  BY <1>1, FS_CardinalityType
<1>3. QED
  BY <1>1, <1>2, ConnectingIsFinite DEF DriverInv

LEMMA ConnectBounded ==
  ASSUME IInv, DriverInv, NEW t \in Threads, Connect(t)
  PROVE  DriverInv'
<1>1. t \in Connecting /\ Connecting' = Connecting \ {t}
  <2>1. pc'[t] # "connecting"
    BY GoSets, HoldSets DEF Connect
  <2>2. \A u \in Threads \ {t} : pc'[u] = pc[u]
    BY StepIsLocal DEF Step
  <2>3. QED
    BY <2>1, <2>2 DEF Connect, Connecting
<1>2. Cardinality(Connecting') = Cardinality(Connecting) - 1
  BY <1>1, ConnectingIsFinite, FS_RemoveElement
<1>3. CASE driver' = TRUE /\ opened' = opened + 1
  BY <1>2, <1>3, ConnectingIsFinite DEF DriverInv
<1>4. CASE UNCHANGED <<driver, opened>>
  BY <1>1, <1>4, FewerConnecting
<1>5. QED
  BY <1>3, <1>4 DEF Connect

LEMMA GetDriverBounded ==
  ASSUME IInv, DriverInv, NEW t \in Threads, GetDriver(t)
  PROVE  DriverInv'
<1>1. UNCHANGED <<driver, opened>>
  BY DEF GetDriver, driverVars
<1>2. CASE driver
  <2>1. pc'[t] # "connecting"
    BY <1>2, GoSets, HoldSets DEF GetDriver
  <2>2. \A u \in Threads \ {t} : pc'[u] = pc[u]
    BY StepIsLocal DEF Step
  <2>3. QED
    BY <1>1, <2>1, <2>2, FewerConnecting DEF Connecting
<1>3. CASE ~driver
  <2>1. opened = 0 /\ opened' = 0 /\ ~driver'
    BY <1>1, <1>3 DEF DriverInv
  <2>2. Connecting' \subseteq Threads
    BY DEF Connecting
  <2>3. Cardinality(Connecting') \in Nat /\ Cardinality(Connecting') <= Cardinality(Threads)
    BY <2>2, ThreadsAssumption, FS_Subset, FS_CardinalityType
  <2>4. QED
    BY <2>1, <2>3, ConnectingIsFinite DEF DriverInv
<1>4. QED
  BY <1>2, <1>3

LEMMA StepBounded ==
  ASSUME IInv, DriverInv, NEW t \in Threads, Step(t)
  PROVE  DriverInv'
<1>1. CASE Connect(t)
  BY <1>1, ConnectBounded
<1>2. CASE GetDriver(t)
  BY <1>2, GetDriverBounded
<1>3. CASE Call(t) \/ AskPaths(t) \/ Query(t) \/ Store(t) \/ StoreExposure(t) \/ Return(t)
  <2>1. pc'[t] # "connecting"
    BY <1>3, GoSets, HoldSets DEF Call, AskPaths, Query, Store, StoreExposure, Return
  <2>2. \A u \in Threads \ {t} : pc'[u] = pc[u]
    BY StepIsLocal
  <2>3. UNCHANGED <<driver, opened>>
    BY <1>3 DEF Call, AskPaths, Query, Store, StoreExposure, Return, driverVars
  <2>4. QED
    BY <2>1, <2>2, <2>3, FewerConnecting DEF Connecting
<1>4. QED
  BY <1>1, <1>2, <1>3 DEF Step

LEMMA NextDriverInv == IInv /\ DriverInv /\ [Next]_vars => DriverInv'
<1> SUFFICES ASSUME IInv, DriverInv, [Next]_vars PROVE DriverInv'
  OBVIOUS
<1>1. CASE \E t \in Threads : Step(t)
  BY <1>1, StepBounded
<1>2. CASE Tick \/ Neo4jChanges \/ UNCHANGED vars
  <2>1. UNCHANGED <<pc, driver, opened>>
    BY <1>2 DEF Tick, Neo4jChanges, vars, threadVars, driverVars
  <2>2. QED
    BY <2>1, FewerConnecting DEF Connecting
<1>3. QED
  BY <1>1, <1>2 DEF Next

LEMMA InitDriverInv == Init => DriverInv
<1> SUFFICES ASSUME Init PROVE DriverInv
  OBVIOUS
<1>1. Connecting = {}
  BY DEF Init, Connecting
<1>2. QED
  BY <1>1, ConnectingIsFinite, FS_EmptySet DEF Init, DriverInv

LEMMA DriverInvariant == Spec => []DriverInv
BY Invariant, InitDriverInv, NextDriverInv, PTL DEF Spec

\* Threads race to open the shared driver, but each leaves at most one open.
THEOREM DriversAreBounded == Spec => []OpenDriversAreBounded
<1>1. DriverInv => OpenDriversAreBounded
  BY ConnectingIsFinite DEF DriverInv, OpenDriversAreBounded
<1>2. QED
  BY <1>1, DriverInvariant, PTL

-----------------------------------------------------------------------------
(* Failures *)

\* A thread begins to connect only when no failure is remembered; each that was
\* connecting by then adds one failure at most before the first is forgotten.
FailureInv == SumFunction(failures) + Cardinality(Connecting) <= Cardinality(Threads)

LEMMA SumOfFailures ==
  ASSUME NEW f \in [0..Cooldown-1 -> Nat]
  PROVE  /\ DOMAIN f = 0..Cooldown-1 /\ IsFiniteSet(DOMAIN f)
         /\ \A a \in DOMAIN f : f[a] \in Int
         /\ SumFunction(f) \in Nat
<1>1. DOMAIN f = 0..Cooldown-1 /\ \A a \in DOMAIN f : f[a] \in Nat
  OBVIOUS
<1>2. IsFiniteSet(0..Cooldown-1)
  BY CooldownAssumption, SegmentsAreFinite
<1>3. SumFunctionOnSet(f, DOMAIN f) \in Nat
  BY <1>1, <1>2, SumType
<1>4. QED
  BY <1>1, <1>2, <1>3 DEF SumFunction

LEMMA FailuresAreCounted ==
  ASSUME IInv
  PROVE  /\ DOMAIN failures = 0..Cooldown-1 /\ IsFiniteSet(DOMAIN failures)
         /\ \A a \in DOMAIN failures : failures[a] \in Int
         /\ SumFunction(failures) \in Nat
BY SumOfFailures DEF IInv, Switches

\* No failure is added and no other thread begins to connect.
LEMMA FewerFailures ==
  ASSUME IInv, IInv', FailureInv, Connecting' \subseteq Connecting,
         SumFunction(failures)' <= SumFunction(failures)
  PROVE  FailureInv'
<1>1. IsFiniteSet(Connecting') /\ Cardinality(Connecting') <= Cardinality(Connecting)
  BY ConnectingIsFinite, FS_Subset
<1>2. Cardinality(Connecting') \in Nat
  BY <1>1, FS_CardinalityType
<1>3. SumFunction(failures)' \in Nat /\ SumFunction(failures) \in Nat
  <2>1. SumFunction(failures)' \in Nat
    BY SumOfFailures DEF IInv, Switches
  <2>2. QED
    BY <2>1, FailuresAreCounted
<1>4. QED
  BY <1>1, <1>2, <1>3, ConnectingIsFinite DEF FailureInv

LEMMA ConnectFails ==
  ASSUME IInv, IInv', FailureInv, NEW t \in Threads, Connect(t)
  PROVE  FailureInv'
<1>1. t \in Connecting /\ Connecting' = Connecting \ {t}
  <2>1. pc'[t] # "connecting"
    BY GoSets, HoldSets DEF Connect
  <2>2. \A u \in Threads \ {t} : pc'[u] = pc[u]
    BY StepIsLocal DEF Step
  <2>3. QED
    BY <2>1, <2>2 DEF Connect, Connecting
<1>2. Cardinality(Connecting') = Cardinality(Connecting) - 1
  BY <1>1, ConnectingIsFinite, FS_RemoveElement
<1>3. CASE UNCHANGED failures
  <2>1. SumFunction(failures)' = SumFunction(failures)
    BY <1>3
  <2>2. SumFunction(failures)' <= SumFunction(failures)
    BY <2>1, FailuresAreCounted
  <2>3. QED
    BY <1>1, <2>2, FewerFailures
<1>4. CASE failures' = [failures EXCEPT ![0] = @ + 1]
  <2>1. 0 \in DOMAIN failures
    BY FailuresAreCounted, CooldownAssumption
  <2>2. /\ DOMAIN failures' = DOMAIN failures
        /\ failures'[0] = failures[0] + 1
        /\ \A a \in DOMAIN failures \ {0} : failures'[a] = failures[a]
    BY <1>4, <2>1
  <2>3. SumFunctionOnSet(failures', DOMAIN failures) = SumFunctionOnSet(failures, DOMAIN failures) + 1
    BY <2>1, <2>2, FailuresAreCounted, SumIncrement
  <2>4. SumFunction(failures)' = SumFunction(failures) + 1
    BY <2>2, <2>3 DEF SumFunction
  <2>5. QED
    BY <1>2, <2>4, ConnectingIsFinite, FailuresAreCounted DEF FailureInv
<1>5. QED
  BY <1>3, <1>4 DEF Connect

LEMMA GetDriverSpaced ==
  ASSUME IInv, IInv', FailureInv, NEW t \in Threads, GetDriver(t)
  PROVE  FailureInv'
<1>1. failures' = failures
  BY DEF GetDriver, driverVars
<1>2. SumFunction(failures)' = SumFunction(failures) /\ SumFunction(failures) \in Nat
  BY <1>1, FailuresAreCounted
<1>3. CASE driver \/ Cooling
  <2>1. pc'[t] # "connecting"
    BY <1>3, GoSets, HoldSets DEF GetDriver
  <2>2. \A u \in Threads \ {t} : pc'[u] = pc[u]
    BY StepIsLocal DEF Step
  <2>3. Connecting' \subseteq Connecting
    BY <2>1, <2>2 DEF Connecting
  <2>4. QED
    BY <1>2, <2>3, FewerFailures
<1>4. CASE ~Cooling
  <2>1. SumFunction(failures)' = 0
    BY <1>2, <1>4 DEF Cooling
  <2>2. Connecting' \subseteq Threads
    BY DEF Connecting
  <2>3. Cardinality(Connecting') \in Nat /\ Cardinality(Connecting') <= Cardinality(Threads)
    BY <2>2, ThreadsAssumption, FS_Subset, FS_CardinalityType
  <2>4. QED
    BY <2>1, <2>3, ConnectingIsFinite DEF FailureInv
<1>5. QED
  BY <1>3, <1>4

LEMMA StepSpaced ==
  ASSUME IInv, IInv', FailureInv, NEW t \in Threads, Step(t)
  PROVE  FailureInv'
<1>1. CASE Connect(t)
  BY <1>1, ConnectFails
<1>2. CASE GetDriver(t)
  BY <1>2, GetDriverSpaced
<1>3. CASE Call(t) \/ AskPaths(t) \/ Query(t) \/ Store(t) \/ StoreExposure(t) \/ Return(t)
  <2>1. pc'[t] # "connecting"
    BY <1>3, GoSets, HoldSets DEF Call, AskPaths, Query, Store, StoreExposure, Return
  <2>2. \A u \in Threads \ {t} : pc'[u] = pc[u]
    BY StepIsLocal
  <2>3. failures' = failures
    BY <1>3 DEF Call, AskPaths, Query, Store, StoreExposure, Return, driverVars
  <2>4. SumFunction(failures)' <= SumFunction(failures)
    BY <2>3, FailuresAreCounted
  <2>5. QED
    BY <2>1, <2>2, <2>4, FewerFailures DEF Connecting
<1>4. QED
  BY <1>1, <1>2, <1>3 DEF Step

\* The oldest failures are forgotten.
LEMMA TickForgets == ASSUME IInv, Tick PROVE SumFunction(failures)' <= SumFunction(failures)
<1> DEFINE n == Cooldown - 1
           f == failures
           g == failures'
<1>1. n \in Nat /\ DOMAIN f = 0..n /\ \A a \in 0..n : f[a] \in Nat
  BY CooldownAssumption DEF IInv, Switches
<1>2. DOMAIN g = 0..n /\ g[0] = 0 /\ \A a \in 1..n : g[a] = f[a - 1]
  BY <1>1 DEF Tick
<1> HIDE DEF n, f, g
<1>3. SumFunctionOnSet(g, 0..n) = SumFunctionOnSet(f, 0..n-1)
  <2>1. n \in Nat /\ \A i \in 0..n : f[i] \in Int
    BY <1>1
  <2>2. g[0] = 0 /\ \A i \in 1..n : g[i] = f[i-1]
    BY <1>2
  <2>3. QED
    BY <2>1, <2>2, SumShift
<1>4. SumFunctionOnSet(f, 0..n) = f[n] + SumFunctionOnSet(f, 0..n-1)
  BY <1>1, SumOfMore
<1>5. SumFunctionOnSet(f, 0..n-1) \in Nat /\ f[n] \in Nat
  <2>1. IsFiniteSet(0..n-1) /\ \A a \in 0..n-1 : f[a] \in Nat
    BY <1>1, SegmentsAreFinite
  <2>2. QED
    BY <1>1, <2>1, SumType
<1>6. SumFunction(g) <= SumFunction(f)
  BY <1>1, <1>2, <1>3, <1>4, <1>5 DEF SumFunction
<1>7. QED
  BY <1>6 DEF f, g

LEMMA NextFailureInv == IInv /\ IInv' /\ FailureInv /\ [Next]_vars => FailureInv'
<1> SUFFICES ASSUME IInv, IInv', FailureInv, [Next]_vars PROVE FailureInv'
  OBVIOUS
<1>1. CASE \E t \in Threads : Step(t)
  BY <1>1, StepSpaced
<1>2. CASE Tick
  <2>1. Connecting' \subseteq Connecting
    BY <1>2 DEF Tick, Connecting
  <2>2. QED
    BY <1>2, <2>1, TickForgets, FewerFailures
<1>3. CASE Neo4jChanges \/ UNCHANGED vars
  <2>1. UNCHANGED <<pc, failures>>
    BY <1>3 DEF Neo4jChanges, vars, threadVars, driverVars
  <2>2. SumFunction(failures)' <= SumFunction(failures)
    BY <2>1, FailuresAreCounted
  <2>3. QED
    BY <2>1, <2>2, FewerFailures DEF Connecting
<1>4. QED
  BY <1>1, <1>2, <1>3 DEF Next

LEMMA InitFailureInv == Init => FailureInv
<1> SUFFICES ASSUME Init PROVE FailureInv
  OBVIOUS
<1>1. Connecting = {}
  BY DEF Init, Connecting
<1>2. IsFiniteSet(DOMAIN failures) /\ \A a \in DOMAIN failures : failures[a] = 0
  BY InitIInv, FailuresAreCounted DEF Init
<1>3. SumFunction(failures) = 0
  BY <1>2, SumOfZeros DEF SumFunction
<1>4. QED
  BY <1>1, <1>3, ConnectingIsFinite, FS_EmptySet DEF FailureInv

LEMMA FailureInvariant == Spec => []FailureInv
BY Invariant, InitFailureInv, NextFailureInv, PTL DEF Spec

\* Threads that race to connect fail once each, and no thread tries again before
\* the cool-down of the failures is over.
THEOREM FailuresStaySpaced == Spec => []FailuresAreSpaced
<1>1. IInv /\ FailureInv => FailuresAreSpaced
  BY FailuresAreCounted, ConnectingIsFinite DEF FailureInv, FailuresAreSpaced
<1>2. QED
  BY <1>1, Invariant, FailureInvariant, PTL

-----------------------------------------------------------------------------
(* Types *)

\* Every variable has its type in every reachable state.
THEOREM TypeCorrect == Spec => []TypeOK
<1>1. IInv /\ DriverInv => TypeOK
  <2> SUFFICES ASSUME IInv, DriverInv PROVE TypeOK
    OBVIOUS
  <2>1. pc \in [Threads -> Places] /\ tool \in [Threads -> Tools] /\ lag \in [Threads -> 0..MaxLag]
    BY DEF IInv, Funs, ThreadInv
  <2>2. held \in [Threads -> Result \union {Nothing}]
    BY DEF IInv, Funs, ThreadInv
  <2>3. \A t \in Threads : pc[t] \in {"loaded", "derived", "returned"} => held[t] # Nothing
    BY NothingAssumption DEF IInv, ThreadInv
  <2>4. record \in [AllTools -> Result \union {Nothing}]
    BY DEF IInv, Funs, KeyInv
  <2>5. \A k \in AllTools : left[k] \in 0..Ttl[k] /\ (record[k] = Nothing => left[k] = 0)
    BY DEF IInv, KeyInv
  <2>6. QED
    BY <2>1, <2>2, <2>3, <2>4, <2>5 DEF IInv, Switches, DriverInv, TypeOK
<1>2. QED
  BY <1>1, Invariant, DriverInvariant, PTL

-----------------------------------------------------------------------------
(* Edges *)

LEMMA TurnedType ==
  ASSUME NEW e \in Edge
  PROVE  Turned(e) \in Edge /\ Turned(e).from = e.to /\ Turned(e).to = e.from
BY DEF Turned, Edge

LEMMA WalkedType ==
  ASSUME edges \in Seq(Edge)
  PROVE  Walked \subseteq Edge
<1>1. ToSet(edges) \subseteq Edge
  BY LenProperties DEF ToSet
<1>2. QED
  BY <1>1, TurnedType DEF Walked

\* The edges at a node, turned so that they lead away from it.
LEMMA AdjacencyType ==
  ASSUME edges \in Seq(Edge), NEW n
  PROVE  /\ Adjacency(n) \in Seq(Edge)
         /\ ToSet(Adjacency(n)) = {e \in Walked : e.from = n}
<1> DEFINE at(i) == OneIf(edges[i].from = n, edges[i]) \o OneIf(edges[i].to = n, Turned(edges[i]))
           seqs == [i \in DOMAIN edges |-> at(i)]
<1>1. DOMAIN edges = 1..Len(edges) /\ Len(edges) \in Nat /\ \A i \in DOMAIN edges : edges[i] \in Edge
  BY LenProperties
<1>2. ASSUME NEW i \in DOMAIN edges
      PROVE  /\ at(i) \in Seq(Edge)
             /\ ToSet(at(i)) = {e \in {edges[i], Turned(edges[i])} : e.from = n}
  <2> DEFINE e == edges[i]
             one == OneIf(e.from = n, e)
             two == OneIf(e.to = n, Turned(e))
  <2>1. e \in Edge /\ Turned(e) \in Edge /\ Turned(e).from = e.to
    BY <1>1, TurnedType
  <2>2. at(i) = one \o two
    OBVIOUS
  <2>3. (e.from = n => one = <<e>>) /\ (e.from # n => one = << >>)
    BY DEF OneIf
  <2>4. (e.to = n => two = <<Turned(e)>>) /\ (e.to # n => two = << >>)
    BY DEF OneIf
  <2> HIDE DEF at, one, two, e
  <2>5. one \in Seq(Edge) /\ (e.from = n => ToSet(one) = {e}) /\ (e.from # n => ToSet(one) = {})
    BY <2>1, <2>3, OneType, NoneType
  <2>6. /\ two \in Seq(Edge)
        /\ (e.to = n => ToSet(two) = {Turned(e)}) /\ (e.to # n => ToSet(two) = {})
    BY <2>1, <2>4, OneType, NoneType
  <2>7. one \o two \in Seq(Edge) /\ ToSet(one \o two) = ToSet(one) \union ToSet(two)
    BY <2>5, <2>6, ToSetOfConcat
  <2>8. {x \in {e, Turned(e)} : x.from = n} = ToSet(one) \union ToSet(two)
    BY <2>1, <2>5, <2>6
  <2>9. QED
    BY <2>2, <2>7, <2>8 DEF e
<1>3. seqs \in Seq(Seq(Edge)) /\ DOMAIN seqs = DOMAIN edges
  <2>1. seqs \in [1..Len(edges) -> Seq(Edge)]
    BY <1>1, <1>2
  <2>2. QED
    BY <1>1, <2>1, IsASeq
<1>4. \A i \in DOMAIN edges : seqs[i] = at(i)
  OBVIOUS
<1>5. Adjacency(n) = FlattenSeq(seqs)
  BY DEF Adjacency
<1> HIDE DEF seqs, at
<1>6. UNION {ToSet(seqs[i]) : i \in DOMAIN seqs} = {e \in Walked : e.from = n}
  <2>1. UNION {ToSet(seqs[i]) : i \in DOMAIN seqs}
          = UNION {{e \in {edges[i], Turned(edges[i])} : e.from = n} : i \in DOMAIN edges}
    BY <1>2, <1>3, <1>4
  <2>2. Walked = UNION {{edges[i], Turned(edges[i])} : i \in DOMAIN edges}
    BY DEF Walked, ToSet
  <2>3. QED
    BY <2>1, <2>2
<1>7. QED
  BY <1>3, <1>5, <1>6, FlattenType

-----------------------------------------------------------------------------
(* Paths one edge longer *)

LEMMA LongerType ==
  ASSUME edges \in Seq(Edge), NEW p \in Seq(Edge)
  PROVE  /\ Longer(p) \in Seq(Seq(Edge))
         /\ ToSet(Longer(p)) =
              {Append(p, e) : e \in {e \in Walked : e.from = LastNode(p) /\ e.to \notin Nodes(p)}}
<1> DEFINE next == Adjacency(LastNode(p))
           n == Len(next)
           B == {i \in 1..n : next[i].to \notin Nodes(p)}
           x == [i \in 1..n |-> Append(p, next[i])]
           seqs == [i \in DOMAIN next |-> OneIf(next[i].to \notin Nodes(p), Append(p, next[i]))]
<1>1. next \in Seq(Edge) /\ ToSet(next) = {e \in Walked : e.from = LastNode(p)}
  BY AdjacencyType
<1>2. Longer(p) = FlattenSeq(seqs)
  BY DEF Longer
<1> HIDE DEF next
<1>3. n \in Nat /\ DOMAIN next = 1..n /\ \A i \in 1..n : next[i] \in Edge
  BY <1>1, LenProperties
<1>4. \A i \in 1..n : x[i] \in Seq(Edge)
  BY <1>3, AppendProperties
<1>5. Ones(Seq(Edge), n, B, x, seqs)
  BY <1>3, <1>4 DEF Ones, OneIf
<1> DEFINE new == {e \in Walked : e.from = LastNode(p) /\ e.to \notin Nodes(p)}
<1>7. Taken(n, B, x) = {Append(p, e) : e \in new}
  <2>1. new = {next[i] : i \in B}
    <3>1. {next[i] : i \in 1..n} = {e \in Walked : e.from = LastNode(p)}
      BY <1>1, <1>3 DEF ToSet
    <3>2. QED
      BY <3>1
  <2>2. Taken(n, B, x) = {Append(p, next[i]) : i \in B}
    BY DEF Taken
  <2> HIDE DEF B, x, seqs, new
  <2>3. QED
    BY <2>1, <2>2
<1> HIDE DEF B, x, seqs, n, new
<1>8. FlattenSeq(seqs) \in Seq(Seq(Edge)) /\ ToSet(FlattenSeq(seqs)) = Taken(n, B, x)
  BY <1>3, <1>5, OnesType
<1>9. QED
  BY <1>2, <1>7, <1>8 DEF new

LEMMA ArrivingType ==
  ASSUME NEW s \in Seq(Seq(Edge))
  PROVE  /\ Arriving(s) \in Seq(Seq(Edge))
         /\ ToSet(Arriving(s)) = {p \in ToSet(s) : Arrived(p)}
<1> DEFINE n == Len(s)
           B == {i \in 1..n : Arrived(s[i])}
           seqs == [i \in DOMAIN s |-> OneIf(Arrived(s[i]), s[i])]
<1>1. n \in Nat /\ DOMAIN s = 1..n /\ \A i \in 1..n : s[i] \in Seq(Edge)
  BY LenProperties
<1>2. Ones(Seq(Edge), n, B, s, seqs)
  BY <1>1 DEF Ones, OneIf
<1>3. Arriving(s) = FlattenSeq(seqs)
  BY DEF Arriving
<1>4. Taken(n, B, s) = {p \in ToSet(s) : Arrived(p)}
  BY <1>1 DEF ToSet, Taken
<1> HIDE DEF seqs, B, n
<1>5. QED
  BY <1>1, <1>2, <1>3, <1>4, OnesType

LEMMA UnderwayType ==
  ASSUME NEW s \in Seq(Seq(Edge))
  PROVE  /\ Underway(s) \in Seq(Seq(Edge))
         /\ ToSet(Underway(s)) = {p \in ToSet(s) : ~Arrived(p)}
<1> DEFINE n == Len(s)
           B == {i \in 1..n : ~Arrived(s[i])}
           seqs == [i \in DOMAIN s |-> OneIf(~Arrived(s[i]), s[i])]
<1>1. n \in Nat /\ DOMAIN s = 1..n /\ \A i \in 1..n : s[i] \in Seq(Edge)
  BY LenProperties
<1>2. Ones(Seq(Edge), n, B, s, seqs)
  BY <1>1 DEF Ones, OneIf
<1>3. Underway(s) = FlattenSeq(seqs)
  BY DEF Underway
<1>4. Taken(n, B, s) = {p \in ToSet(s) : ~Arrived(p)}
  BY <1>1 DEF ToSet, Taken
<1> HIDE DEF seqs, B, n
<1>5. QED
  BY <1>1, <1>2, <1>3, <1>4, OnesType

\* The edges of a graph are some of the universe.
LEMMA InitEdges == SearchInit => edges \in Seq(Edge)
<1> SUFFICES ASSUME SearchInit PROVE edges \in Seq(Edge)
  OBVIOUS
<1>1. PICK chosen \in [DOMAIN Universe -> BOOLEAN] :
        edges = FlattenSeq([i \in DOMAIN Universe |-> OneIf(chosen[i], Universe[i])])
  BY DEF SearchInit
<1> DEFINE n == Len(Universe)
           B == {i \in 1..n : chosen[i]}
           seqs == [i \in DOMAIN Universe |-> OneIf(chosen[i], Universe[i])]
<1>2. n \in Nat /\ DOMAIN Universe = 1..n /\ \A i \in 1..n : Universe[i] \in Edge
  BY UniverseAssumption, LenProperties
<1>3. Ones(Edge, n, B, Universe, seqs)
  BY <1>2 DEF Ones, OneIf
<1>4. edges = FlattenSeq(seqs)
  BY <1>1
<1> HIDE DEF n, B, seqs
<1>5. QED
  BY <1>2, <1>3, <1>4, OnesType

-----------------------------------------------------------------------------
(* The ball *)

Vertices == Ends \union {Root}

IsBall(g) ==
  g = [n \in 0..MaxHops |->
        IF n = 0 THEN {Root} ELSE g[n-1] \union {e.to : e \in {e \in Walked : e.from \in g[n-1]}}]

LEMMA BallUnfolds == Ball = CHOOSE g : IsBall(g)
BY DEF Ball, IsBall

LEMMA BallExists ==
  ASSUME edges \in Seq(Edge)
  PROVE  \E g : IsBall(g)
<1> DEFINE V == SUBSET Vertices
           around(B) == B \union {e.to : e \in {e \in Walked : e.from \in B}}
           step == [i \in Nat |-> [B \in V |-> around(B)]]
<1>1. \A B \in V : around(B) \in V
  BY WalkedType DEF Edge, Vertices
<1>2. step \in [Nat -> [V -> V]] /\ {Root} \in V /\ MaxHops \in Nat
  BY <1>1, BoundsAssumption DEF Vertices
<1> HIDE DEF step, V
<1>3. PICK f : IsRecursion(V, {Root}, step, MaxHops, f)
  BY <1>2, RecursionExists
<1>4. f \in [0..MaxHops -> V] /\ f[0] = {Root}
  BY <1>3 DEF IsRecursion
<1>5. ASSUME NEW n \in 0..MaxHops, n # 0 PROVE f[n] = around(f[n-1])
  <2>1. n - 1 \in 0..MaxHops /\ n - 1 + 1 = n /\ n - 1 \in Nat
    BY <1>2, <1>5
  <2>2. \A i \in 0..MaxHops : i + 1 \in 0..MaxHops => f[i + 1] = step[i][f[i]]
    BY <1>3 DEF IsRecursion
  <2>3. PICK i \in 0..MaxHops : i = n - 1 /\ i + 1 = n /\ i \in Nat
    BY <2>1
  <2>4. f[n] = step[i][f[i]] /\ f[i] \in V
    BY <1>4, <2>2, <2>3
  <2>5. step[i][f[i]] = around(f[i])
    BY <2>3, <2>4 DEF step
  <2>6. QED
    BY <2>3, <2>4, <2>5
<1>6. f = [n \in 0..MaxHops |-> f[n]]
  BY <1>4
<1>7. IsBall(f)
  BY <1>4, <1>5, <1>6 DEF IsBall
<1>8. QED
  BY <1>7

LEMMA BallAt ==
  ASSUME edges \in Seq(Edge)
  PROVE  /\ Ball[0] = {Root}
         /\ \A n \in 0..MaxHops : n # 0 =>
              Ball[n] = Ball[n-1] \union {e.to : e \in {e \in Walked : e.from \in Ball[n-1]}}
<1>1. IsBall(Ball)
  BY BallUnfolds, BallExists
<1>2. 0 \in 0..MaxHops
  BY BoundsAssumption
<1>3. \A n \in 0..MaxHops : Ball[n] =
        IF n = 0 THEN {Root} ELSE Ball[n-1] \union {e.to : e \in {e \in Walked : e.from \in Ball[n-1]}}
  BY <1>1 DEF IsBall
<1>4. QED
  BY <1>2, <1>3

LEMMA SameBall == ASSUME edges' = edges PROVE Ball' = Ball /\ Walked' = Walked
<1>1. Walked' = Walked
  BY DEF Walked
<1>2. Ball' = Ball
  BY <1>1 DEF Ball
<1>3. QED
  BY <1>1, <1>2

\* What leads away from a node of one ball leads into the next.
LEMMA NextBall ==
  ASSUME edges \in Seq(Edge), NEW k \in Nat, k + 1 <= MaxHops
  PROVE  /\ Ball[k] \subseteq Ball[k + 1]
         /\ \A e \in Walked : e.from \in Ball[k] => e.to \in Ball[k + 1]
         /\ \A n \in Ball[k + 1] : n \in Ball[k] \/ \E e \in Walked : e.from \in Ball[k] /\ e.to = n
<1>1. PICK n \in 0..MaxHops : n = k + 1
  BY BoundsAssumption
<1>2. n # 0 /\ n - 1 = k
  BY <1>1
<1>3. Ball[n] = Ball[n-1] \union {e.to : e \in {e \in Walked : e.from \in Ball[n-1]}}
  BY <1>2, BallAt
<1>4. QED
  BY <1>1, <1>2, <1>3

LEMMA BallsGrow ==
  ASSUME edges \in Seq(Edge), NEW j \in 0..MaxHops, NEW k \in 0..MaxHops, j <= k
  PROVE  Ball[j] \subseteq Ball[k]
<1> DEFINE G == {n \in Nat : j + n <= MaxHops => Ball[j] \subseteq Ball[j + n]}
<1>1. 0 \in G
  OBVIOUS
<1>2. ASSUME NEW n \in Nat, n \in G PROVE n + 1 \in G
  <2>1. SUFFICES ASSUME j + (n + 1) <= MaxHops PROVE Ball[j] \subseteq Ball[j + (n + 1)]
    OBVIOUS
  <2>2. /\ j + n \in Nat /\ j + n + 1 <= MaxHops /\ j + (n + 1) = j + n + 1 /\ j + n <= MaxHops
    BY <2>1, BoundsAssumption
  <2>3. Ball[j] \subseteq Ball[j + n]
    BY <1>2, <2>2
  <2>4. Ball[j + n] \subseteq Ball[j + n + 1]
    BY <2>2, NextBall
  <2>5. QED
    BY <2>2, <2>3, <2>4
<1> HIDE DEF G
<1>3. k - j \in Nat /\ j + (k - j) = k /\ k <= MaxHops
  BY BoundsAssumption
<1>4. k - j \in G
  BY <1>1, <1>2, <1>3, Induction
<1>5. QED
  BY <1>3, <1>4 DEF G

-----------------------------------------------------------------------------
(* The subtree *)

Visit == Vertices \X (0..MaxHops)
depthAt == [v \in Visit |-> v[2]]

Pending == {v[1] : v \in ToSet(visits)}

\* visits holds its nodes at their depths, in layers, and no node is deeper than one
\* more than the first of them; each is in the ball of its depth; what leads from a
\* node that was expanded was followed, and used.
TreeInv ==
  /\ visits \in Seq(Visit)
  /\ DOMAIN depthOf \subseteq Vertices /\ depthOf \in [DOMAIN depthOf -> 0..MaxHops]
  /\ \A v \in ToSet(visits) : v[1] \in DOMAIN depthOf /\ depthOf[v[1]] = v[2]
  /\ Layered(visits, depthAt)
  /\ visits # << >> => \A n \in DOMAIN depthOf : depthOf[n] <= Head(visits)[2] + 1
  /\ Root \in DOMAIN depthOf /\ depthOf[Root] = 0
  /\ \A n \in DOMAIN depthOf : n \in Ball[depthOf[n]]
  /\ \A e \in Walked : e.from \in DOMAIN depthOf \ Pending /\ depthOf[e.from] < MaxHops =>
       e.to \in DOMAIN depthOf /\ depthOf[e.to] <= depthOf[e.from] + 1 /\ Key(e) \in used
  /\ \A k \in used : \E e \in Walked :
       k = Key(e) /\ e.from \in DOMAIN depthOf /\ depthOf[e.from] < MaxHops

\* When nothing is left to visit, the nodes with their depths are the balls.
LEMMA AllVisited ==
  ASSUME edges \in Seq(Edge), TreeInv, visits = << >>, NEW k \in 0..MaxHops
  PROVE  \A n : n \in Ball[k] <=> n \in DOMAIN depthOf /\ depthOf[n] <= k
<1> DEFINE D == DOMAIN depthOf
           G == {i \in Nat : i <= MaxHops => \A n \in Ball[i] : n \in D /\ depthOf[n] <= i}
<1>1. \A n \in D : depthOf[n] \in 0..MaxHops /\ n \in Ball[depthOf[n]]
  BY DEF TreeInv
<1>2. Pending = {}
  BY DEF Pending, ToSet
<1>3. \A e \in Walked : e.from \in D /\ depthOf[e.from] < MaxHops =>
        e.to \in D /\ depthOf[e.to] <= depthOf[e.from] + 1
  BY <1>2 DEF TreeInv
<1>4. 0 \in G
  BY BallAt DEF TreeInv
<1>5. ASSUME NEW i \in Nat, i \in G PROVE i + 1 \in G
  <2>1. SUFFICES ASSUME i + 1 <= MaxHops, NEW n \in Ball[i + 1] PROVE n \in D /\ depthOf[n] <= i + 1
    OBVIOUS
  <2>2. i <= MaxHops /\ i < MaxHops
    BY <2>1, BoundsAssumption
  <2>3. \A m \in Ball[i] : m \in D /\ depthOf[m] <= i
    BY <1>5, <2>2
  <2>4. CASE n \in Ball[i]
    <3>1. n \in D /\ depthOf[n] <= i /\ depthOf[n] \in Int
      BY <1>1, <2>3, <2>4
    <3>2. QED
      BY <3>1
  <2>5. CASE \E e \in Walked : e.from \in Ball[i] /\ e.to = n
    <3>1. PICK e \in Walked : e.from \in Ball[i] /\ e.to = n
      BY <2>5
    <3>2. e.from \in D /\ depthOf[e.from] <= i /\ depthOf[e.from] \in Int
      BY <1>1, <2>3, <3>1
    <3>3. depthOf[e.from] < MaxHops
      BY <2>2, <3>2, BoundsAssumption
    <3>4. n \in D /\ depthOf[n] <= depthOf[e.from] + 1 /\ depthOf[n] \in Int
      BY <1>1, <1>3, <3>1, <3>2, <3>3
    <3>5. QED
      BY <3>2, <3>4
  <2>6. QED
    BY <2>1, <2>4, <2>5, NextBall
<1> HIDE DEF G
<1>6. k \in G
  BY <1>4, <1>5, Induction
<1>7. ASSUME NEW n \in Ball[k] PROVE n \in D /\ depthOf[n] <= k
  BY <1>6 DEF G
<1>8. ASSUME NEW n \in D, depthOf[n] <= k PROVE n \in Ball[k]
  BY <1>1, <1>8, BallsGrow
<1>9. QED
  BY <1>7, <1>8

LEMMA TreeInvImplies == ASSUME edges \in Seq(Edge), TreeInv PROVE SubtreeIsBall
<1> SUFFICES ASSUME SubtreeDone
             PROVE  /\ DOMAIN depthOf = Ball[MaxHops]
                    /\ \A n \in DOMAIN depthOf : \A d \in 0..MaxHops : n \in Ball[d] <=> depthOf[n] <= d
                    /\ used = {Key(e) : e \in {e \in Walked : e.from \in Ball[MaxHops - 1]}}
  BY DEF SubtreeIsBall
<1>1. visits = << >> /\ Pending = {}
  BY DEF SubtreeDone, Pending, ToSet
<1>2. \A d \in 0..MaxHops : \A n : n \in Ball[d] <=> n \in DOMAIN depthOf /\ depthOf[n] <= d
  BY <1>1, AllVisited
<1>3. \A n \in DOMAIN depthOf : depthOf[n] \in 0..MaxHops
  BY DEF TreeInv
<1>4. MaxHops \in 0..MaxHops /\ MaxHops - 1 \in 0..MaxHops
  BY BoundsAssumption
<1>5. DOMAIN depthOf = Ball[MaxHops]
  <2>1. \A n : n \in Ball[MaxHops] <=> n \in DOMAIN depthOf /\ depthOf[n] <= MaxHops
    BY <1>2, <1>4
  <2>2. \A n \in DOMAIN depthOf : depthOf[n] <= MaxHops
    BY <1>3, BoundsAssumption
  <2>3. \A n : n \in DOMAIN depthOf <=> n \in Ball[MaxHops]
    BY <2>1, <2>2
  <2>4. QED
    BY <2>3
<1>6. \A n : n \in Ball[MaxHops - 1] <=> n \in DOMAIN depthOf /\ depthOf[n] < MaxHops
  <2>1. \A n \in DOMAIN depthOf : depthOf[n] <= MaxHops - 1 <=> depthOf[n] < MaxHops
    BY <1>3, BoundsAssumption
  <2>2. QED
    BY <1>2, <1>4, <2>1
<1>7. used = {Key(e) : e \in {e \in Walked : e.from \in Ball[MaxHops - 1]}}
  BY <1>1, <1>6 DEF TreeInv
<1>8. QED
  BY <1>2, <1>5, <1>7

\* One turn of the loop follows the edges L that leave the first node and adds the
\* fresh nodes F they lead to, as visits t.
Grown(L, F, t) ==
  LET d == Head(visits)[2]
  IN  /\ L = IF d >= MaxHops THEN {} ELSE {e \in Walked : e.from = Head(visits)[1]}
      /\ F = {e.to : e \in L} \ DOMAIN depthOf
      /\ used' = used \union {Key(e) : e \in L}
      /\ DOMAIN depthOf' = DOMAIN depthOf \union F
      /\ \A m \in F : depthOf'[m] = d + 1
      /\ \A m \in DOMAIN depthOf : depthOf'[m] = depthOf[m]
      /\ depthOf' = [m \in DOMAIN depthOf' |-> depthOf'[m]]
      /\ t \in Seq(Visit) /\ ToSet(t) = {<<m, d + 1>> : m \in F}
      /\ visits' = Tail(visits) \o t

LEMMA ExpandGrows ==
  ASSUME edges \in Seq(Edge), TreeInv, visits # << >>, ExpandNode
  PROVE  \E L, F, t : Grown(L, F, t)
<1> DEFINE n == Head(visits)[1]
           d == Head(visits)[2]
           D == DOMAIN depthOf
           next == IF DepthReached(d) THEN << >> ELSE Adjacency(n)
           Nearer(m) == m \notin DOMAIN depthOf \/ d + 1 < depthOf[m]
           new == {i \in DOMAIN next : Nearer(next[i].to) /\ \A j \in 1..i-1 : next[j].to # next[i].to}
           seqs == [i \in DOMAIN next |-> OneIf(i \in new, <<next[i].to, d + 1>>)]
           x == [i \in DOMAIN next |-> <<next[i].to, d + 1>>]
           L == ToSet(next)
           F == {e.to : e \in L} \ D
           t == FlattenSeq(seqs)
<1>1. /\ used' = used \union {Key(next[i]) : i \in DOMAIN next}
      /\ depthOf' = [m \in D \union {next[i].to : i \in new} |->
                       IF \E i \in new : next[i].to = m THEN d + 1 ELSE depthOf[m]]
      /\ visits' = Tail(visits) \o t
  BY DEF ExpandNode
<1>2. Head(visits) \in Visit /\ Head(visits) \in ToSet(visits)
  BY TailType DEF TreeInv
<1>3. /\ d \in 0..MaxHops /\ n \in D /\ depthOf[n] = d
      /\ \A m \in D : depthOf[m] \in 0..MaxHops /\ depthOf[m] <= d + 1
  BY <1>2 DEF TreeInv, Visit
<1>4. next \in Seq(Edge) /\ L = IF d >= MaxHops THEN {} ELSE {e \in Walked : e.from = n}
  BY AdjacencyType, NoneType DEF DepthReached
<1>5. \A m : Nearer(m) <=> m \notin D
  BY <1>3
<1> HIDE DEF Nearer
<1>6. new = {i \in DOMAIN next : next[i].to \notin D /\ \A j \in 1..i-1 : next[j].to # next[i].to}
  BY <1>5
<1> HIDE DEF next, new
<1> DEFINE k == Len(next)
<1>7. DOMAIN next = 1..k /\ k \in Nat /\ \A i \in 1..k : next[i] \in Edge
  BY <1>4, LenProperties
<1> HIDE DEF n, d, k
<1>8. {next[i].to : i \in new} = F
  <2>1. \A i \in new : next[i].to \in F
    BY <1>6 DEF ToSet
  <2>2. ASSUME NEW m \in F PROVE \E i \in new : next[i].to = m
    <3> DEFINE I == {i \in 1..k : next[i].to = m}
    <3>1. m \notin D /\ \E i \in 1..k : next[i].to = m
      BY <1>7 DEF ToSet
    <3>2. I # {} /\ I \in SUBSET Nat
      BY <1>7, <3>1
    <3>3. PICK i \in I : \A j \in I : i <= j
      BY <3>2, LeastNatural
    <3>4. i \in 1..k /\ next[i].to = m
      BY <3>3
    <3>5. ASSUME NEW j \in 1..i-1 PROVE next[j].to # m
      <4>1. j \in 1..k /\ j < i
        BY <1>7, <3>4
      <4>2. j \notin I
        BY <3>3, <4>1
      <4>3. QED
        BY <4>1, <4>2
    <3>6. i \in new
      BY <1>6, <1>7, <3>1, <3>4, <3>5
    <3>7. QED
      BY <3>4, <3>6
  <2>3. QED
    BY <2>1, <2>2
<1>9. \A m : (\E i \in new : next[i].to = m) <=> m \in F
  BY <1>8
<1>10. L # {} => d + 1 \in 0..MaxHops
  BY <1>3, <1>4, BoundsAssumption
<1>11. Ones(Visit, k, new, x, seqs)
  <2>1. seqs = [i \in 1..k |-> seqs[i]]
    BY <1>7
  <2>2. ASSUME NEW i \in 1..k PROVE x[i] \in Visit
    <3>1. next[i] \in L /\ next[i] \in Edge
      BY <1>7 DEF ToSet
    <3>2. next[i].to \in Vertices /\ d + 1 \in 0..MaxHops
      BY <1>10, <3>1 DEF Edge, Vertices
    <3>3. QED
      BY <1>7, <3>2 DEF Visit
  <2>3. \A i \in 1..k : (i \in new => seqs[i] = <<x[i]>>) /\ (i \notin new => seqs[i] = << >>)
    BY <1>7 DEF OneIf
  <2>4. QED
    BY <2>1, <2>2, <2>3 DEF Ones
<1>12. Taken(k, new, x) = {<<m, d + 1>> : m \in F}
  <2>1. new \subseteq 1..k
    BY <1>6, <1>7
  <2>2. \A i \in new : x[i] = <<next[i].to, d + 1>>
    BY <1>7, <2>1
  <2>3. Taken(k, new, x) = {x[i] : i \in new}
    BY <2>1 DEF Taken
  <2>4. \A m \in F : \E i \in new : next[i].to = m
    BY <1>8
  <2>5. \A i \in new : next[i].to \in F
    BY <1>8
  <2> HIDE DEF x, seqs, F
  <2>6. \A i \in new : x[i] \in {<<m, d + 1>> : m \in F}
    BY <2>2, <2>5
  <2>7. \A m \in F : \E i \in new : x[i] = <<m, d + 1>>
    BY <2>2, <2>4
  <2>8. QED
    BY <2>3, <2>6, <2>7
<1> HIDE DEF seqs, x, F, D
<1>13. t \in Seq(Visit) /\ ToSet(t) = {<<m, d + 1>> : m \in F}
  BY <1>7, <1>11, <1>12, OnesType
<1>14. depthOf' = [m \in D \union F |-> IF m \in F THEN d + 1 ELSE depthOf[m]]
  BY <1>1, <1>8, <1>9
<1>15. \A m \in D : m \notin F
  BY DEF F
<1>16. used' = used \union {Key(e) : e \in L}
  <2>1. {Key(next[i]) : i \in DOMAIN next} = {Key(e) : e \in L}
    BY DEF ToSet
  <2>2. QED
    BY <1>1, <2>1
<1> HIDE DEF t, L
<1>17. Grown(L, F, t)
  BY <1>1, <1>4, <1>13, <1>14, <1>15, <1>16 DEF Grown, n, d, F, D
<1>18. QED
  BY <1>17

LEMMA GrowingKeepsTree ==
  ASSUME edges \in Seq(Edge), TreeInv, visits # << >>, edges' = edges,
         NEW L, NEW F, NEW t, Grown(L, F, t)
  PROVE  TreeInv'
<1> DEFINE n == Head(visits)[1]
           d == Head(visits)[2]
           D == DOMAIN depthOf
           E == DOMAIN depthOf'
<1>1. /\ L = IF d >= MaxHops THEN {} ELSE {e \in Walked : e.from = n}
      /\ F = {e.to : e \in L} \ D
      /\ used' = used \union {Key(e) : e \in L}
      /\ E = D \union F
      /\ \A m \in F : depthOf'[m] = d + 1
      /\ \A m \in D : depthOf'[m] = depthOf[m]
      /\ depthOf' = [m \in E |-> depthOf'[m]]
      /\ t \in Seq(Visit) /\ ToSet(t) = {<<m, d + 1>> : m \in F}
      /\ visits' = Tail(visits) \o t
  BY DEF Grown
<1>2. visits \in Seq(Visit) /\ Layered(visits, depthAt)
  BY DEF TreeInv
<1>3. /\ Head(visits) \in ToSet(visits) /\ Head(visits) \in Visit
      /\ Tail(visits) \in Seq(Visit)
      /\ ToSet(visits) = {Head(visits)} \union ToSet(Tail(visits))
  BY <1>2, TailType
<1>4. \A v \in ToSet(visits) : v[1] \in D /\ depthOf[v[1]] = v[2]
  BY DEF TreeInv
<1>5. \A m \in D : depthOf[m] \in 0..MaxHops /\ depthOf[m] <= d + 1 /\ m \in Ball[depthOf[m]]
  BY DEF TreeInv
<1>6. d \in 0..MaxHops /\ n \in D /\ depthOf[n] = d
  BY <1>3, <1>4 DEF Visit
<1>7. visits' \in Seq(Visit) /\ ToSet(visits') = ToSet(Tail(visits)) \union ToSet(t)
  <2>1. PICK s \in Seq(Visit) : s = Tail(visits)
    BY <1>3
  <2>2. t \in Seq(Visit)
    BY <1>1
  <2>3. s \o t \in Seq(Visit) /\ ToSet(s \o t) = ToSet(s) \union ToSet(t)
    BY <2>2, ToSetOfConcat
  <2>4. visits' = s \o t
    BY <1>1, <2>1
  <2>5. QED
    BY <2>1, <2>3, <2>4
<1>8. Walked' = Walked /\ Ball' = Ball
  BY SameBall
<1>9. Walked \subseteq Edge
  BY WalkedType
<1>10. \A m \in F : m \notin D /\ \E e \in Walked : e.from = n /\ e.to = m /\ d < MaxHops
  BY <1>1, <1>6, BoundsAssumption
<1> HIDE DEF n, d, D, E
<1>11. \A e \in L : e \in Walked /\ e.from = n /\ d < MaxHops
  BY <1>1, <1>6, BoundsAssumption
<1>12. \A m \in E : depthOf'[m] \in 0..MaxHops
  <2>1. ASSUME NEW m \in D PROVE depthOf'[m] \in 0..MaxHops
    BY <1>1, <1>5
  <2>2. ASSUME NEW m \in F PROVE depthOf'[m] \in 0..MaxHops
    <3>1. d < MaxHops /\ depthOf'[m] = d + 1
      BY <1>1, <1>10, <2>2
    <3>2. QED
      BY <1>6, <3>1, BoundsAssumption
  <2>3. QED
    BY <1>1, <2>1, <2>2
<1>13. E \subseteq Vertices /\ depthOf' \in [E -> 0..MaxHops]
  <2>1. D \subseteq Vertices
    BY DEF TreeInv, D
  <2>2. F \subseteq Vertices
    BY <1>9, <1>10 DEF Edge, Vertices
  <2>3. QED
    BY <1>1, <1>12, <2>1, <2>2
<1>14. \A v \in ToSet(visits') : v[1] \in E /\ depthOf'[v[1]] = v[2] /\ v[2] \in Int
  <2>1. ASSUME NEW v \in ToSet(Tail(visits)) PROVE v[1] \in E /\ depthOf'[v[1]] = v[2] /\ v[2] \in Int
    <3>1. v[1] \in D /\ depthOf[v[1]] = v[2]
      BY <1>3, <1>4
    <3>2. QED
      BY <1>1, <1>5, <3>1
  <2>2. ASSUME NEW v \in ToSet(t) PROVE v[1] \in E /\ depthOf'[v[1]] = v[2] /\ v[2] \in Int
    <3>1. PICK m \in F : v = <<m, d + 1>>
      BY <1>1
    <3>2. QED
      BY <1>1, <1>6, <3>1
  <2>3. QED
    BY <1>7, <2>1, <2>2
<1>15. depthAt \in [Visit -> Nat] /\ depthAt[Head(visits)] = d
  BY <1>3, BoundsAssumption DEF depthAt, Visit, d
<1>16. Layered(visits', depthAt)
  <2>1. \A v \in ToSet(t) : depthAt[v] = d + 1
    <3>1. ASSUME NEW v \in ToSet(t) PROVE depthAt[v] = d + 1
      <4>1. PICK m \in F : v = <<m, d + 1>>
        BY <1>1
      <4>2. v \in Visit
        BY <1>1, LenProperties DEF ToSet
      <4>3. QED
        BY <4>1, <4>2 DEF depthAt
    <3>2. QED
      BY <3>1
  <2>2. Layered(Tail(visits) \o t, depthAt)
    BY <1>1, <1>2, <1>15, <2>1, StaysLayered
  <2>3. QED
    BY <1>1, <2>2
<1>17. ASSUME visits' # << >> PROVE \A m \in E : depthOf'[m] <= Head(visits')[2] + 1
  <2>1. Head(visits') \in ToSet(visits') /\ Head(visits') \in Visit
    BY <1>7, <1>17, TailType
  <2>2. Head(visits')[2] >= d /\ Head(visits')[2] \in Int
    <3>1. CASE Head(visits') \in ToSet(t)
      <4>1. PICK m \in F : Head(visits') = <<m, d + 1>>
        BY <1>1, <3>1
      <4>2. QED
        BY <1>6, <4>1
    <3>2. CASE Head(visits') \in ToSet(Tail(visits))
      <4>1. PICK i \in DOMAIN visits : visits[i] = Head(visits')
        BY <1>3, <3>2 DEF ToSet
      <4>2. DOMAIN visits = 1..Len(visits) /\ 1 \in 1..Len(visits) /\ 1 <= i
        BY <1>2, <4>1, LenProperties
      <4>3. depthAt[visits[1]] <= depthAt[visits[i]]
        BY <1>2, <4>1, <4>2 DEF Layered
      <4>4. visits[1] = Head(visits)
        BY <1>2, HeadTailProperties
      <4>5. depthAt[Head(visits)] <= depthAt[Head(visits')]
        BY <4>1, <4>3, <4>4
      <4>6. PICK v \in Visit : v = Head(visits')
        BY <2>1
      <4>7. depthAt[v] = v[2] /\ v[2] \in Int
        BY DEF depthAt, Visit
      <4>8. QED
        BY <1>6, <1>15, <4>5, <4>6, <4>7
    <3>3. QED
      BY <1>7, <2>1, <3>1, <3>2
  <2>3. \A m \in E : depthOf'[m] <= d + 1 /\ depthOf'[m] \in Int
    BY <1>1, <1>5, <1>6, <1>12
  <2>4. QED
    BY <1>6, <2>2, <2>3
<1>18. Root \in E /\ depthOf'[Root] = 0
  <2>1. Root \in D /\ depthOf[Root] = 0
    BY DEF TreeInv, D
  <2>2. QED
    BY <1>1, <2>1
<1>19. ASSUME NEW m \in E PROVE m \in Ball'[depthOf'[m]]
  <2>1. CASE m \in D
    BY <1>1, <1>5, <1>8, <2>1
  <2>2. CASE m \in F
    <3>1. PICK e \in Walked : e.from = n /\ e.to = m /\ d < MaxHops
      BY <1>10, <2>2
    <3>2. n \in Ball[d]
      BY <1>5, <1>6
    <3>3. m \in Ball[d + 1]
      <4>1. d \in Nat /\ d + 1 <= MaxHops
        BY <1>6, <3>1, BoundsAssumption
      <4>2. QED
        BY <3>1, <3>2, <4>1, NextBall
    <3>4. QED
      BY <1>1, <1>8, <2>2, <3>3
  <2>3. QED
    BY <1>1, <1>19, <2>1, <2>2
<1>20. Pending' = {v[1] : v \in ToSet(visits')}
  BY DEF Pending
<1>21. F \subseteq Pending' /\ Pending \subseteq {n} \union Pending'
  <2>1. ASSUME NEW m \in F PROVE m \in Pending'
    <3>1. <<m, d + 1>> \in ToSet(visits') /\ m = <<m, d + 1>>[1]
      BY <1>1, <1>7
    <3>2. QED
      BY <1>20, <3>1
  <2>2. ASSUME NEW v \in ToSet(visits) PROVE v[1] \in {n} \union Pending'
    BY <1>3, <1>7, <1>20 DEF n
  <2>3. QED
    BY <2>1, <2>2 DEF Pending
<1>22. ASSUME NEW e \in Walked, e.from \in E \ Pending', depthOf'[e.from] < MaxHops
       PROVE  e.to \in E /\ depthOf'[e.to] <= depthOf'[e.from] + 1 /\ Key(e) \in used'
  <2>1. e.from \in D /\ depthOf'[e.from] = depthOf[e.from]
    BY <1>1, <1>21, <1>22
  <2>2. CASE e.from \notin Pending
    <3>1. e.to \in D /\ depthOf[e.to] <= depthOf[e.from] + 1 /\ Key(e) \in used
      BY <1>22, <2>1, <2>2 DEF TreeInv, D
    <3>2. QED
      BY <1>1, <2>1, <3>1
  <2>3. CASE e.from \in Pending
    <3>1. e.from = n
      BY <1>21, <1>22, <2>3
    <3>2. d < MaxHops /\ depthOf'[e.from] = d
      BY <1>6, <1>22, <2>1, <3>1
    <3>3. e \in L
      BY <1>1, <1>6, <3>1, <3>2, BoundsAssumption
    <3>4. e.to \in E
      BY <1>1, <3>3
    <3>5. depthOf'[e.to] <= d + 1
      <4>1. \A m \in D : depthOf'[m] <= d + 1
        BY <1>1, <1>5
      <4>2. \A m \in F : depthOf'[m] <= d + 1
        BY <1>1, <1>6
      <4>3. QED
        BY <1>1, <3>4, <4>1, <4>2
    <3>6. QED
      BY <1>1, <3>2, <3>3, <3>4, <3>5
  <2>4. QED
    BY <2>2, <2>3
<1>23. ASSUME NEW k \in used'
       PROVE  \E e \in Walked : k = Key(e) /\ e.from \in E /\ depthOf'[e.from] < MaxHops
  <2>1. CASE k \in used
    <3>1. PICK e \in Walked : k = Key(e) /\ e.from \in D /\ depthOf[e.from] < MaxHops
      BY <2>1 DEF TreeInv, D
    <3>2. QED
      BY <1>1, <3>1
  <2>2. CASE k \notin used
    <3>1. PICK e \in L : k = Key(e)
      BY <1>1, <1>23, <2>2
    <3>2. QED
      BY <1>1, <1>6, <1>11, <3>1
  <2>3. QED
    BY <2>1, <2>2
<1>24. TreeInv' =
         /\ visits' \in Seq(Visit)
         /\ E \subseteq Vertices /\ depthOf' \in [E -> 0..MaxHops]
         /\ \A v \in ToSet(visits') : v[1] \in E /\ depthOf'[v[1]] = v[2]
         /\ Layered(visits', depthAt)
         /\ visits' # << >> => \A m \in E : depthOf'[m] <= Head(visits')[2] + 1
         /\ Root \in E /\ depthOf'[Root] = 0
         /\ \A m \in E : m \in Ball'[depthOf'[m]]
         /\ \A e \in Walked' : e.from \in E \ Pending' /\ depthOf'[e.from] < MaxHops =>
              e.to \in E /\ depthOf'[e.to] <= depthOf'[e.from] + 1 /\ Key(e) \in used'
         /\ \A k \in used' : \E e \in Walked' :
              k = Key(e) /\ e.from \in E /\ depthOf'[e.from] < MaxHops
  BY DEF TreeInv, Pending, E, ToSet, Layered, Key
<1>25. QED
  BY <1>7, <1>8, <1>13, <1>14, <1>16, <1>17, <1>18, <1>19, <1>22, <1>23, <1>24

LEMMA InitTree == SearchInit => TreeInv
<1> SUFFICES ASSUME SearchInit PROVE TreeInv
  OBVIOUS
<1>1. edges \in Seq(Edge) /\ MaxHops \in Nat /\ MaxHops # 0
  BY InitEdges, BoundsAssumption
<1>2. visits = << <<Root, 0>> >> /\ depthOf = [n \in {Root} |-> 0] /\ used = {}
  BY DEF SearchInit
<1>3. <<Root, 0>> \in Visit
  BY <1>1 DEF Visit, Vertices
<1>4. visits \in Seq(Visit) /\ ToSet(visits) = {<<Root, 0>>}
  BY <1>2, <1>3, OneType
<1>5. Layered(visits, depthAt) /\ visits # << >> /\ Head(visits) = <<Root, 0>>
  <2>1. Len(visits) = 1 /\ visits[1] = <<Root, 0>> /\ Head(visits) = <<Root, 0>>
    BY <1>2
  <2>2. depthAt[<<Root, 0>>] = 0
    BY <1>3 DEF depthAt
  <2>3. \A i \in 1..Len(visits) : visits[i] = <<Root, 0>>
    BY <2>1
  <2>4. QED
    BY <1>2, <2>1, <2>2, <2>3 DEF Layered
<1>6. Root \in Ball[0]
  BY <1>1, BallAt
<1>7. Pending = {Root}
  BY <1>4 DEF Pending
<1>8. DOMAIN depthOf = {Root} /\ depthOf[Root] = 0 /\ depthOf \in [{Root} -> 0..MaxHops]
  BY <1>1, <1>2
<1>9. \A v \in ToSet(visits) : v[1] = Root /\ v[2] = 0
  BY <1>4
<1>10. QED
  BY <1>2, <1>4, <1>5, <1>6, <1>7, <1>8, <1>9 DEF TreeInv, Vertices

-----------------------------------------------------------------------------
(* Paths *)

LEMMA AppendAt ==
  ASSUME NEW p \in Seq(Edge), NEW e \in Edge
  PROVE  /\ Append(p, e) \in Seq(Edge) /\ Append(p, e) # << >>
         /\ Len(p) \in Nat /\ DOMAIN p = 1..Len(p)
         /\ Len(Append(p, e)) = Len(p) + 1 /\ DOMAIN Append(p, e) = 1..(Len(p) + 1)
         /\ \A i \in 1..Len(p) : Append(p, e)[i] = p[i]
         /\ Append(p, e)[Len(p) + 1] = e
<1>1. Len(p) \in Nat /\ DOMAIN p = 1..Len(p)
  BY LenProperties
<1>2. /\ Append(p, e) \in Seq(Edge) /\ Len(Append(p, e)) = Len(p) + 1
      /\ \A i \in 1..Len(p) : Append(p, e)[i] = p[i]
      /\ Append(p, e)[Len(p) + 1] = e
  BY <1>1, AppendProperties
<1>3. DOMAIN Append(p, e) = 1..(Len(p) + 1)
  BY <1>2, LenProperties
<1>4. Append(p, e) # << >>
  BY <1>1, <1>2, EmptySeq
<1>5. QED
  BY <1>1, <1>2, <1>3, <1>4

LEMMA LastNodeAt ==
  ASSUME NEW p \in Seq(Edge)
  PROVE  /\ (Len(p) = 0 <=> p = << >>)
         /\ Len(p) = 0 => LastNode(p) = start
         /\ Len(p) # 0 => LastNode(p) = p[Len(p)].to
<1>1. Len(p) = 0 <=> p = << >>
  BY EmptySeq
<1>2. QED
  BY <1>1 DEF LastNode, Last

\* What Longer adds to a path makes it a path.
LEMMA AppendPath ==
  ASSUME edges \in Seq(Edge), NEW p \in Seq(Edge), IsPath(p),
         NEW e \in Walked, e.from = LastNode(p), e.to \notin Nodes(p)
  PROVE  IsPath(Append(p, e))
<1> DEFINE a == Append(p, e)
           n == Len(p)
<1>1. e \in Edge
  BY WalkedType
<1>2. /\ n \in Nat /\ DOMAIN p = 1..n /\ DOMAIN a = 1..(n + 1) /\ Len(a) = n + 1
      /\ \A i \in 1..n : a[i] = p[i]
      /\ a[n + 1] = e
  BY <1>1, AppendAt
<1>3. /\ \A i \in 1..n : p[i] \in Walked /\ p[i].to # start
      /\ p # << >> => p[1].from = start
      /\ \A i \in 1..n-1 : p[i].to = p[i + 1].from
      /\ \A i, j \in 1..n : i # j => p[i].to # p[j].to
  BY <1>2 DEF IsPath
<1>4. e.to # start /\ \A i \in 1..n : p[i].to # e.to
  BY <1>2 DEF Nodes
<1>5. /\ n = 0 <=> p = << >>
      /\ n = 0 => e.from = start
      /\ n # 0 => e.from = p[n].to
  BY LastNodeAt
<1> HIDE DEF a, n
<1>6. \A i \in 1..(n + 1) : i \in 1..n \/ i = n + 1
  BY <1>2
<1>7. \A i \in 1..(n + 1) : a[i] \in Walked /\ a[i].to # start
  BY <1>2, <1>3, <1>4, <1>6
<1>8. a[1].from = start
  <2>1. CASE n = 0
    BY <1>2, <1>5, <2>1
  <2>2. CASE n # 0
    <3>1. 1 \in 1..n /\ p # << >>
      BY <1>2, <1>5, <2>2
    <3>2. QED
      BY <1>2, <1>3, <3>1
  <2>3. QED
    BY <2>1, <2>2
<1>9. ASSUME NEW i \in 1..n PROVE a[i].to = a[i + 1].from
  <2>1. CASE i = n
    BY <1>2, <1>5, <1>9, <2>1
  <2>2. CASE i # n
    <3>1. i \in 1..n-1 /\ i + 1 \in 1..n
      BY <1>2, <1>9, <2>2
    <3>2. QED
      BY <1>2, <1>3, <3>1
  <2>3. QED
    BY <2>1, <2>2
<1>10. ASSUME NEW i \in 1..(n + 1), NEW j \in 1..(n + 1), i # j PROVE a[i].to # a[j].to
  <2>1. CASE i \in 1..n /\ j \in 1..n
    BY <1>2, <1>3, <1>10, <2>1
  <2>2. CASE i = n + 1 /\ j \in 1..n
    BY <1>2, <1>4, <2>2
  <2>3. CASE j = n + 1 /\ i \in 1..n
    BY <1>2, <1>4, <2>3
  <2>4. QED
    BY <1>6, <1>10, <2>1, <2>2, <2>3
<1>11. \A i \in 1..Len(a)-1 : a[i].to = a[i + 1].from
  <2>1. Len(a) - 1 = n
    BY <1>2
  <2>2. QED
    BY <1>9, <2>1
<1>12. IsPath(a)
  BY <1>2, <1>7, <1>8, <1>10, <1>11 DEF IsPath
<1>13. QED
  BY <1>12 DEF a

\* A path is its first edges, and the next.
LEMMA PrefixPath ==
  ASSUME NEW r \in Seq(Edge), IsPath(r), NEW k \in Nat, k < Len(r)
  PROVE  /\ SubSeq(r, 1, k) \in Seq(Edge) /\ Len(SubSeq(r, 1, k)) = k /\ IsPath(SubSeq(r, 1, k))
         /\ k + 1 \in 1..Len(r) /\ r[k + 1] \in Walked
         /\ r[k + 1].from = LastNode(SubSeq(r, 1, k))
         /\ r[k + 1].to \notin Nodes(SubSeq(r, 1, k))
         /\ SubSeq(r, 1, k + 1) = Append(SubSeq(r, 1, k), r[k + 1])
<1> DEFINE s == SubSeq(r, 1, k)
           n == Len(r)
           m == k + 1
           e == r[m]
           l == SubSeq(r, 1, m)
<1>1. n \in Nat /\ DOMAIN r = 1..n /\ m \in 1..n /\ \A i \in 1..n : r[i] \in Edge
  BY LenProperties
<1>2. /\ \A i \in 1..n : r[i] \in Walked /\ r[i].to # start
      /\ 1 \in 1..n => r[1].from = start
      /\ \A i \in 1..n-1 : r[i].to = r[i + 1].from
      /\ \A i, j \in 1..n : i # j => r[i].to # r[j].to
  <2>1. /\ \A i \in DOMAIN r : r[i] \in Walked /\ r[i].to # start
        /\ r # << >> => r[1].from = start
        /\ \A i \in 1..n-1 : r[i].to = r[i + 1].from
        /\ \A i, j \in DOMAIN r : i # j => r[i].to # r[j].to
    BY DEF IsPath
  <2>2. r # << >>
    BY <1>1
  <2> HIDE DEF n
  <2>3. QED
    BY <1>1, <2>1, <2>2
<1>3. \A i \in 1..k : i \in 1..n /\ i # m
  BY <1>1
<1>4. s \in Seq(Edge) /\ Len(s) = k /\ \A i \in 1..k : s[i] = r[i]
  <2>1. \A i \in 1..k : r[i] \in Edge
    BY <1>1, <1>3
  <2>2. /\ s \in Seq(Edge) /\ Len(s) = (IF 1 <= k THEN k - 1 + 1 ELSE 0)
        /\ \A i \in 1..(k - 1 + 1) : s[i] = r[1 + i - 1]
    BY <2>1, SubSeqProperties
  <2>3. k - 1 + 1 = k /\ (~(1 <= k) => k = 0) /\ \A i \in 1..k : 1 + i - 1 = i
    OBVIOUS
  <2>4. QED
    BY <2>2, <2>3
<1>5. l \in Seq(Edge) /\ Len(l) = m /\ \A i \in 1..m : l[i] = r[i]
  <2>1. m \in Nat /\ 1 <= m /\ \A i \in 1..m : i \in 1..n
    BY <1>1
  <2>2. /\ l \in Seq(Edge) /\ Len(l) = (IF 1 <= m THEN m - 1 + 1 ELSE 0)
        /\ \A i \in 1..(m - 1 + 1) : l[i] = r[1 + i - 1]
    BY <1>1, <2>1, SubSeqProperties
  <2>3. m - 1 + 1 = m /\ \A i \in 1..m : 1 + i - 1 = i
    BY <2>1
  <2>4. QED
    BY <2>1, <2>2, <2>3
<1> HIDE DEF s, n, l, e
<1>6. DOMAIN s = 1..k /\ e \in Edge /\ e = r[m]
  BY <1>1, <1>4, LenProperties DEF e
<1>7. IsPath(s)
  <2>1. \A i \in 1..k : s[i] \in Walked /\ s[i].to # start
    BY <1>2, <1>3, <1>4
  <2>2. s # << >> => s[1].from = start
    <3>1. s # << >> => 1 \in 1..k
      BY <1>4, EmptySeq
    <3>2. QED
      BY <1>2, <1>3, <1>4, <3>1
  <2>3. \A i \in 1..Len(s)-1 : s[i].to = s[i + 1].from
    <3>1. \A i \in 1..Len(s)-1 : i \in 1..k /\ i + 1 \in 1..k /\ i \in 1..n-1
      BY <1>1, <1>4
    <3>2. QED
      BY <1>2, <1>4, <3>1
  <2>4. \A i, j \in 1..k : i # j => s[i].to # s[j].to
    BY <1>2, <1>3, <1>4
  <2>5. QED
    BY <1>6, <2>1, <2>2, <2>3, <2>4 DEF IsPath
<1>8. e.from = LastNode(s)
  <2>1. CASE k = 0
    <3>1. LastNode(s) = start
      BY <1>4, <2>1, LastNodeAt
    <3>2. m = 1
      BY <2>1
    <3>3. QED
      BY <1>1, <1>2, <1>6, <3>1, <3>2
  <2>2. CASE k # 0
    <3>1. k \in 1..k /\ k \in 1..n-1
      BY <1>1, <2>2
    <3>2. LastNode(s) = s[k].to /\ s[k] = r[k]
      BY <1>4, <2>2, <3>1, LastNodeAt
    <3>3. r[k].to = r[k + 1].from
      BY <1>2, <3>1
    <3>4. QED
      BY <1>6, <3>2, <3>3
  <2>3. QED
    BY <2>1, <2>2
<1>9. e.to \notin Nodes(s)
  BY <1>1, <1>2, <1>3, <1>4, <1>6 DEF Nodes
<1>10. l = Append(s, e)
  <2> DEFINE a == Append(s, e)
  <2>1. /\ a \in Seq(Edge) /\ Len(a) = m /\ a[m] = e /\ \A i \in 1..k : a[i] = s[i]
    BY <1>4, <1>6, AppendAt
  <2>2. \A i \in 1..m : i \in 1..k \/ i = m
    OBVIOUS
  <2> HIDE DEF a
  <2>3. \A i \in 1..Len(a) : a[i] = l[i]
    BY <1>4, <1>5, <1>6, <2>1, <2>2
  <2>4. a = l
    BY <1>5, <2>1, <2>3, SeqEqual
  <2>5. QED
    BY <2>4 DEF a
<1>11. e \in Walked
  BY <1>1, <1>2, <1>6
<1>12. QED
  BY <1>1, <1>4, <1>7, <1>8, <1>9, <1>10, <1>11 DEF s, n, l, e

Paths == {p \in Seq(Edge) : IsPath(p) /\ Len(p) <= MaxHops}
Routes == {p \in Paths : p # << >> /\ Arrived(p)}

IsPathsOf(g) ==
  g = [n \in 0..MaxHops |-> IF n = 0 THEN {<<>>} ELSE Extended(g[n - 1])]

LEMMA PathsOfUnfolds == PathsOf = CHOOSE g : IsPathsOf(g)
BY DEF PathsOf, IsPathsOf

LEMMA EmptyPath == << >> \in Seq(Edge) /\ IsPath(<< >>)
BY EmptySeq DEF IsPath

LEMMA ExtendedAt ==
  ASSUME NEW P
  PROVE  \A p : p \in Extended(P) <=>
           p \in P \/ \E q \in P : \E e \in Walked : IsPath(Append(q, e)) /\ p = Append(q, e)
BY DEF Extended

LEMMA ExtendedType ==
  ASSUME edges \in Seq(Edge), NEW P, P \subseteq Seq(Edge)
  PROVE  Extended(P) \subseteq Seq(Edge)
<1>1. ASSUME NEW q \in P, NEW e \in Walked PROVE Append(q, e) \in Seq(Edge)
  <2>1. q \in Seq(Edge) /\ e \in Edge
    BY WalkedType
  <2>2. QED
    BY <2>1, AppendAt
<1>2. QED
  BY <1>1, ExtendedAt

LEMMA PathsOfExists ==
  ASSUME edges \in Seq(Edge)
  PROVE  \E g : IsPathsOf(g)
<1> DEFINE V == SUBSET Seq(Edge)
           step == [i \in Nat |-> [P \in V |-> Extended(P)]]
<1>1. \A P \in V : Extended(P) \in V
  BY ExtendedType
<1>2. {<<>>} \in V /\ MaxHops \in Nat
  BY EmptyPath, BoundsAssumption
<1>3. step \in [Nat -> [V -> V]]
  BY <1>1
<1> HIDE DEF step, V
<1>4. PICK f : IsRecursion(V, {<<>>}, step, MaxHops, f)
  BY <1>2, <1>3, RecursionExists
<1>5. f \in [0..MaxHops -> V] /\ f[0] = {<<>>}
  BY <1>4 DEF IsRecursion
<1>6. ASSUME NEW n \in 0..MaxHops, n # 0 PROVE f[n] = Extended(f[n-1])
  <2>1. n - 1 \in 0..MaxHops /\ n - 1 + 1 = n /\ n - 1 \in Nat
    BY <1>2, <1>6
  <2>2. \A i \in 0..MaxHops : i + 1 \in 0..MaxHops => f[i + 1] = step[i][f[i]]
    BY <1>4 DEF IsRecursion
  <2>3. PICK i \in 0..MaxHops : i = n - 1 /\ i + 1 = n /\ i \in Nat
    BY <2>1
  <2>4. f[n] = step[i][f[i]] /\ f[i] \in V
    BY <1>5, <2>2, <2>3
  <2>5. step[i][f[i]] = Extended(f[i])
    BY <2>3, <2>4 DEF step
  <2>6. QED
    BY <2>3, <2>4, <2>5
<1>7. f = [n \in 0..MaxHops |-> f[n]]
  BY <1>5
<1>8. IsPathsOf(f)
  BY <1>5, <1>6, <1>7 DEF IsPathsOf
<1>9. QED
  BY <1>8

LEMMA PathsOfAt ==
  ASSUME edges \in Seq(Edge)
  PROVE  /\ PathsOf[0] = {<<>>}
         /\ \A n \in 0..MaxHops : n # 0 => PathsOf[n] = Extended(PathsOf[n - 1])
<1>1. IsPathsOf(PathsOf)
  BY PathsOfUnfolds, PathsOfExists
<1>2. 0 \in 0..MaxHops
  BY BoundsAssumption
<1>3. \A n \in 0..MaxHops : PathsOf[n] = IF n = 0 THEN {<<>>} ELSE Extended(PathsOf[n - 1])
  BY <1>1 DEF IsPathsOf
<1>4. QED
  BY <1>2, <1>3

\* The reference definition has all the paths of at most n edges.
LEMMA PathsOfHasAll ==
  ASSUME edges \in Seq(Edge), NEW n \in 0..MaxHops
  PROVE  PathsOf[n] = {p \in Seq(Edge) : IsPath(p) /\ Len(p) <= n}
<1> DEFINE all(k) == {p \in Seq(Edge) : IsPath(p) /\ Len(p) <= k}
           G == {k \in Nat : k <= MaxHops => PathsOf[k] = all(k)}
<1>1. 0 \in G
  <2>1. \A p \in Seq(Edge) : Len(p) <= 0 <=> p = << >>
    BY EmptySeq, LenProperties
  <2>2. QED
    BY <2>1, EmptyPath, PathsOfAt
<1>2. ASSUME NEW k \in Nat, k \in G PROVE k + 1 \in G
  <2>1. SUFFICES ASSUME k + 1 <= MaxHops PROVE PathsOf[k + 1] = all(k + 1)
    OBVIOUS
  <2>2. PICK m \in 0..MaxHops : m = k + 1
    BY <2>1, BoundsAssumption
  <2>3. PathsOf[m] = Extended(all(k))
    <3>1. m # 0 /\ m - 1 = k /\ k <= MaxHops
      BY <2>1, <2>2, BoundsAssumption
    <3>2. QED
      BY <1>2, <3>1, PathsOfAt
  <2>4. ASSUME NEW p \in Extended(all(k)) PROVE p \in all(m)
    <3>1. CASE p \in all(k)
      BY <2>2, <3>1, LenProperties
    <3>2. CASE p \notin all(k)
      <4>1. PICK q \in all(k), e \in Walked : IsPath(Append(q, e)) /\ p = Append(q, e)
        BY <2>4, <3>2, ExtendedAt
      <4>2. e \in Edge /\ q \in Seq(Edge)
        BY WalkedType
      <4>3. p \in Seq(Edge) /\ Len(p) = Len(q) + 1 /\ Len(q) \in Nat
        BY <4>1, <4>2, AppendAt
      <4>4. QED
        BY <2>2, <4>1, <4>3
    <3>3. QED
      BY <3>1, <3>2
  <2>5. ASSUME NEW p \in all(m) PROVE p \in Extended(all(k))
    <3>1. Len(p) \in Nat /\ Len(p) <= m
      BY LenProperties
    <3>2. CASE Len(p) <= k
      BY <3>2, ExtendedAt
    <3>3. CASE ~(Len(p) <= k)
      <4>1. Len(p) = m /\ Len(p) = k + 1 /\ k < Len(p)
        BY <2>2, <3>1, <3>3
      <4> DEFINE q == SubSeq(p, 1, k)
                 e == p[k + 1]
      <4>2. /\ q \in Seq(Edge) /\ Len(q) = k /\ IsPath(q) /\ e \in Walked
            /\ SubSeq(p, 1, k + 1) = Append(q, e)
        BY <4>1, PrefixPath
      <4>3. SubSeq(p, 1, k + 1) = p
        BY <4>1, SubSeqFull
      <4> HIDE DEF q, e
      <4>4. q \in all(k) /\ p = Append(q, e)
        BY <4>2, <4>3
      <4>5. QED
        BY <4>2, <4>4, ExtendedAt
    <3>4. QED
      BY <3>2, <3>3
  <2>6. QED
    BY <2>2, <2>3, <2>4, <2>5
<1> HIDE DEF G
<1>3. n \in Nat /\ n <= MaxHops
  BY BoundsAssumption
<1>4. n \in G
  BY <1>1, <1>2, <1>3, Induction
<1>5. QED
  BY <1>3, <1>4 DEF G

LEMMA ReachingIsRoutes == ASSUME edges \in Seq(Edge) PROVE Reaching = Routes
<1>1. MaxHops \in 0..MaxHops
  BY BoundsAssumption
<1>2. PathsOf[MaxHops] = Paths
  BY <1>1, PathsOfHasAll DEF Paths
<1>3. QED
  BY <1>2 DEF Reaching, Routes

-----------------------------------------------------------------------------
(* The search for paths *)

lengthOf == [p \in Seq(Edge) |-> Len(p)]

\* The queue is in layers, and nothing found is longer than its first path would become.
\* Until enough were found, every route was found or has a beginning in the queue; and
\* a route that was not found is at least as long as those that were.
PathInv ==
  /\ queue \in Seq(Seq(Edge)) /\ ToSet(queue) \subseteq Paths
  /\ out \in Seq(Seq(Edge)) /\ ToSet(out) \subseteq Routes /\ Len(out) <= 3 * Limit
  /\ Layered(queue, lengthOf)
  /\ queue # << >> => \A o \in ToSet(out) : Len(o) <= Len(Head(queue)) + 1
  /\ ~Enough => \A r \in Routes :
       r \in ToSet(out) \/ \E k \in 0..Len(r)-1 : SubSeq(r, 1, k) \in ToSet(queue)
  /\ \A r \in Routes \ ToSet(out) : \A o \in ToSet(out) : Len(o) <= Len(r)

LEMMA FirstOfType ==
  ASSUME NEW S, NEW u \in Seq(S), NEW n \in Nat
  PROVE  /\ FirstOf(n, u) \in Seq(S)
         /\ Len(FirstOf(n, u)) = IF Len(u) < n THEN Len(u) ELSE n
         /\ \A i \in 1..Len(FirstOf(n, u)) : i \in 1..Len(u) /\ FirstOf(n, u)[i] = u[i]
<1> DEFINE k == IF Len(u) < n THEN Len(u) ELSE n
           s == SubSeq(u, 1, k)
<1>1. Len(u) \in Nat /\ \A i \in 1..Len(u) : u[i] \in S
  BY LenProperties
<1>2. k \in Nat /\ k <= Len(u)
  BY <1>1
<1>3. FirstOf(n, u) = s
  BY DEF FirstOf
<1> HIDE DEF k
<1>4. \A i \in 1..k : i \in 1..Len(u) /\ u[i] \in S
  BY <1>1, <1>2
<1>5. /\ s \in Seq(S) /\ Len(s) = (IF 1 <= k THEN k - 1 + 1 ELSE 0)
      /\ \A i \in 1..(k - 1 + 1) : s[i] = u[1 + i - 1]
  BY <1>2, <1>4, SubSeqProperties
<1>6. k - 1 + 1 = k /\ (~(1 <= k) => k = 0) /\ \A i \in 1..k : 1 + i - 1 = i
  BY <1>2
<1>7. Len(s) = k /\ \A i \in 1..k : s[i] = u[i]
  BY <1>5, <1>6
<1> HIDE DEF s
<1>8. QED
  BY <1>3, <1>4, <1>5, <1>7 DEF k

\* Cutting what was found with what arrives keeps what was found; and it drops
\* something only when there is enough.
LEMMA CutType ==
  ASSUME NEW S, NEW s \in Seq(S), NEW t \in Seq(S), Len(s) < 3 * Limit
  PROVE  /\ Cut(s \o t) \in Seq(S) /\ Len(Cut(s \o t)) <= 3 * Limit
         /\ ToSet(s) \subseteq ToSet(Cut(s \o t))
         /\ ToSet(Cut(s \o t)) \subseteq ToSet(s) \union ToSet(t)
         /\ Len(Cut(s \o t)) < 3 * Limit => Cut(s \o t) = s \o t
<1> DEFINE u == s \o t
           n == 3 * Limit
           c == FirstOf(n, u)
<1>1. n \in Nat
  BY BoundsAssumption
<1>2. u \in Seq(S) /\ Len(u) = Len(s) + Len(t)
      /\ \A i \in 1..Len(u) : u[i] = IF i <= Len(s) THEN s[i] ELSE t[i - Len(s)]
  BY ConcatProperties
<1>3. ToSet(u) = ToSet(s) \union ToSet(t)
  BY ToSetOfConcat
<1>4. Cut(u) = c
  BY DEF Cut
<1>5. Len(s) < n
  OBVIOUS
<1> HIDE DEF n, u
<1>6. /\ c \in Seq(S) /\ Len(c) = IF Len(u) < n THEN Len(u) ELSE n
      /\ \A i \in 1..Len(c) : i \in 1..Len(u) /\ c[i] = u[i]
  BY <1>1, <1>2, FirstOfType
<1> HIDE DEF c
<1>7. /\ Len(s) \in Nat /\ Len(t) \in Nat /\ DOMAIN s = 1..Len(s) /\ DOMAIN u = 1..Len(u)
      /\ DOMAIN c = 1..Len(c) /\ Len(c) \in Nat
  BY <1>2, <1>6, LenProperties
<1>8. Len(c) <= n
  BY <1>1, <1>2, <1>6, <1>7
<1>9. ToSet(c) \subseteq ToSet(u)
  BY <1>6, <1>7 DEF ToSet
<1>10. ToSet(s) \subseteq ToSet(c)
  <2>1. \A i \in 1..Len(s) : i \in 1..Len(c) /\ i \in 1..Len(u) /\ i <= Len(s)
    BY <1>1, <1>2, <1>5, <1>6, <1>7
  <2>2. \A i \in 1..Len(s) : c[i] = s[i]
    BY <1>2, <1>6, <2>1
  <2>3. QED
    BY <1>7, <2>1, <2>2 DEF ToSet
<1>11. ASSUME Len(c) < n PROVE c = u
  <2>1. Len(c) = Len(u)
    BY <1>1, <1>2, <1>6, <1>7, <1>11
  <2>2. \A i \in 1..Len(c) : c[i] = u[i]
    BY <1>6
  <2>3. QED
    BY <1>2, <1>6, <2>1, <2>2, SeqEqual
<1>12. QED
  BY <1>3, <1>4, <1>6, <1>8, <1>9, <1>10, <1>11 DEF n, u

LEMMA SameRoutes ==
  ASSUME edges' = edges, start' = start
  PROVE  Walked' = Walked /\ Paths' = Paths /\ Routes' = Routes
<1>1. Walked' = Walked
  BY DEF Walked
<1>2. Paths' = Paths
  BY <1>1 DEF Paths, IsPath
<1>3. Routes' = Routes
  BY <1>2 DEF Routes, Arrived
<1>4. QED
  BY <1>1, <1>2, <1>3

\* The paths that continue p, unless it is as long as paths may be.
Continued(p) == IF Len(p) >= MaxHops THEN << >> ELSE Longer(p)

LEMMA ContinuedType ==
  ASSUME edges \in Seq(Edge), NEW p \in Paths
  PROVE  /\ Continued(p) \in Seq(Seq(Edge)) /\ ToSet(Continued(p)) \subseteq Paths
         /\ \A x \in ToSet(Continued(p)) : Len(x) = Len(p) + 1 /\ \E e \in Edge : x = Append(p, e)
         /\ \A e \in Walked : Len(p) < MaxHops /\ e.from = LastNode(p) /\ e.to \notin Nodes(p)
              => Append(p, e) \in ToSet(Continued(p))
<1>1. p \in Seq(Edge) /\ IsPath(p) /\ Len(p) \in Nat /\ Len(p) <= MaxHops /\ MaxHops \in Nat
  BY LenProperties, BoundsAssumption DEF Paths
<1>2. CASE Len(p) >= MaxHops
  <2>1. Continued(p) = << >> /\ ~(Len(p) < MaxHops)
    BY <1>1, <1>2 DEF Continued
  <2>2. << >> \in Seq(Seq(Edge)) /\ ToSet(<< >>) = {}
    BY NoneType
  <2>3. QED
    BY <2>1, <2>2
<1>3. CASE ~(Len(p) >= MaxHops)
  <2>1. Continued(p) = Longer(p)
    BY <1>3 DEF Continued
  <2>2. /\ Longer(p) \in Seq(Seq(Edge))
        /\ ToSet(Longer(p)) =
             {Append(p, e) : e \in {e \in Walked : e.from = LastNode(p) /\ e.to \notin Nodes(p)}}
    BY <1>1, LongerType
  <2>3. ASSUME NEW e \in Walked, e.from = LastNode(p), e.to \notin Nodes(p)
        PROVE  Append(p, e) \in Paths /\ Len(Append(p, e)) = Len(p) + 1 /\ e \in Edge
    <3>1. e \in Edge
      BY WalkedType
    <3>2. Append(p, e) \in Seq(Edge) /\ Len(Append(p, e)) = Len(p) + 1
      BY <1>1, <3>1, AppendAt
    <3>3. IsPath(Append(p, e))
      BY <1>1, <2>3, AppendPath
    <3>4. Len(p) + 1 <= MaxHops
      BY <1>1, <1>3
    <3>5. QED
      BY <3>1, <3>2, <3>3, <3>4 DEF Paths
  <2>4. QED
    BY <2>1, <2>2, <2>3
<1>4. QED
  BY <1>2, <1>3

LEMMA ExpandSteps ==
  ASSUME Expand
  PROVE  LET s == Continued(Head(queue))
         IN  out' = Cut(out \o Arriving(s)) /\ queue' = Tail(queue) \o Underway(s)
BY DEF Expand, Continued

LEMMA InitPaths == SearchInit => PathInv
<1> SUFFICES ASSUME SearchInit PROVE PathInv
  OBVIOUS
<1>1. queue = << << >> >> /\ out = << >>
  BY DEF SearchInit
<1>2. << >> \in Seq(Edge) /\ IsPath(<< >>) /\ Len(<< >>) = 0
  BY EmptyPath, EmptySeq
<1>3. << >> \in Paths
  BY <1>2, BoundsAssumption DEF Paths
<1>4. queue \in Seq(Seq(Edge)) /\ ToSet(queue) = {<< >>}
  BY <1>1, <1>2, OneType
<1>5. out \in Seq(Seq(Edge)) /\ ToSet(out) = {} /\ Len(out) <= 3 * Limit
  <2>1. out \in Seq(Seq(Edge)) /\ ToSet(out) = {}
    BY <1>1, NoneType
  <2>2. Len(out) = 0 /\ 0 <= 3 * Limit
    BY <1>1, BoundsAssumption
  <2>3. QED
    BY <2>1, <2>2
<1>6. Layered(queue, lengthOf)
  <2>1. Len(queue) = 1 /\ queue[1] = << >>
    BY <1>1
  <2>2. lengthOf[<< >>] = 0
    BY <1>2 DEF lengthOf
  <2>3. \A i \in 1..Len(queue) : queue[i] = << >>
    BY <2>1
  <2>4. QED
    BY <2>2, <2>3 DEF Layered
<1>7. ASSUME NEW r \in Routes PROVE \E k \in 0..Len(r)-1 : SubSeq(r, 1, k) \in ToSet(queue)
  <2>1. r \in Seq(Edge) /\ r # << >>
    BY DEF Routes, Paths
  <2>2. 0 \in 0..Len(r)-1
    BY <2>1, EmptySeq
  <2>3. SubSeq(r, 1, 0) = << >>
    BY SubSeqEmpty
  <2>4. QED
    BY <1>4, <2>2, <2>3
<1>8. QED
  BY <1>3, <1>4, <1>5, <1>6, <1>7 DEF PathInv

\* A route has a beginning in the queue no longer than itself less one edge.
LEMMA RouteInQueue ==
  ASSUME edges \in Seq(Edge), PathInv, ~Enough, NEW r \in Routes, r \notin ToSet(out)
  PROVE  \E k \in Nat : k < Len(r) /\ SubSeq(r, 1, k) \in ToSet(queue) /\ Len(SubSeq(r, 1, k)) = k
<1>1. PICK k \in 0..Len(r)-1 : SubSeq(r, 1, k) \in ToSet(queue)
  BY DEF PathInv
<1>2. r \in Seq(Edge) /\ IsPath(r) /\ Len(r) \in Nat
  BY LenProperties DEF Routes, Paths
<1>3. k \in Nat /\ k < Len(r)
  BY <1>2
<1>4. QED
  BY <1>1, <1>2, <1>3, PrefixPath

LEMMA HeadIsShortest ==
  ASSUME PathInv, queue # << >>
  PROVE  \A q \in ToSet(queue) : /\ Len(Head(queue)) <= Len(q)
                                 /\ Len(q) <= Len(Head(queue)) + 1
<1>1. queue \in Seq(Seq(Edge)) /\ Layered(queue, lengthOf)
  BY DEF PathInv
<1>2. DOMAIN queue = 1..Len(queue) /\ 1 \in 1..Len(queue) /\ Head(queue) = queue[1]
  BY <1>1, LenProperties, EmptySeq
<1>3. ASSUME NEW i \in 1..Len(queue)
      PROVE  Len(queue[1]) <= Len(queue[i]) /\ Len(queue[i]) <= Len(queue[1]) + 1
  <2>1. /\ lengthOf[queue[1]] <= lengthOf[queue[i]]
        /\ lengthOf[queue[i]] <= lengthOf[queue[1]] + 1
    BY <1>1, <1>2 DEF Layered
  <2>2. queue[1] \in Seq(Edge) /\ queue[i] \in Seq(Edge)
    BY <1>1, <1>2, LenProperties
  <2>3. QED
    BY <2>1, <2>2 DEF lengthOf
<1>4. QED
  BY <1>2, <1>3 DEF ToSet

LEMMA ExpandKeepsPaths ==
  ASSUME edges \in Seq(Edge), PathInv, queue # << >>, ~Enough, Expand,
         edges' = edges, start' = start
  PROVE  PathInv'
<1> DEFINE p == Head(queue)
           s == Continued(p)
           a == Arriving(s)
           b == Underway(s)
<1>1. /\ queue \in Seq(Seq(Edge)) /\ ToSet(queue) \subseteq Paths
      /\ out \in Seq(Seq(Edge)) /\ ToSet(out) \subseteq Routes
      /\ Layered(queue, lengthOf)
      /\ \A o \in ToSet(out) : Len(o) <= Len(p) + 1
  BY DEF PathInv
<1>2. /\ p \in ToSet(queue) /\ p \in Paths /\ p \in Seq(Edge)
      /\ Tail(queue) \in Seq(Seq(Edge)) /\ ToSet(queue) = {p} \union ToSet(Tail(queue))
  BY <1>1, TailType
<1>3. out' = Cut(out \o a) /\ queue' = Tail(queue) \o b
  BY ExpandSteps
<1> HIDE DEF p
<1>4. /\ s \in Seq(Seq(Edge)) /\ ToSet(s) \subseteq Paths
      /\ \A x \in ToSet(s) : Len(x) = Len(p) + 1 /\ \E e \in Edge : x = Append(p, e)
      /\ \A e \in Walked : Len(p) < MaxHops /\ e.from = LastNode(p) /\ e.to \notin Nodes(p)
           => Append(p, e) \in ToSet(s)
  BY <1>2, ContinuedType
<1> HIDE DEF s
<1>5. a \in Seq(Seq(Edge)) /\ ToSet(a) = {x \in ToSet(s) : Arrived(x)}
  BY <1>4, ArrivingType
<1>6. b \in Seq(Seq(Edge)) /\ ToSet(b) = {x \in ToSet(s) : ~Arrived(x)}
  BY <1>4, UnderwayType
<1> HIDE DEF a, b
<1>7. Walked' = Walked /\ Paths' = Paths /\ Routes' = Routes
  BY SameRoutes
<1>8. Len(p) \in Nat /\ Len(out) \in Nat /\ Len(out) < 3 * Limit /\ MaxHops \in Nat
  BY <1>1, <1>2, LenProperties, BoundsAssumption DEF Enough
<1>9. \A x \in ToSet(s) : x \in Paths /\ x \in Seq(Edge) /\ x # << >>
  <2>1. ASSUME NEW x \in ToSet(s) PROVE x # << >>
    <3>1. PICK e \in Edge : x = Append(p, e)
      BY <1>4
    <3>2. QED
      BY <1>2, <3>1, AppendAt
  <2>2. QED
    BY <1>4, <2>1 DEF Paths
<1>10. ToSet(a) \subseteq Routes /\ \A x \in ToSet(a) : Len(x) = Len(p) + 1
  BY <1>4, <1>5, <1>9 DEF Routes
<1>11. /\ out' \in Seq(Seq(Edge)) /\ Len(out') <= 3 * Limit
       /\ ToSet(out) \subseteq ToSet(out')
       /\ ToSet(out') \subseteq ToSet(out) \union ToSet(a)
       /\ Len(out') < 3 * Limit => out' = out \o a
  <2>1. PICK c : c = Cut(out \o a)
    OBVIOUS
  <2>2. /\ c \in Seq(Seq(Edge)) /\ Len(c) <= 3 * Limit
        /\ ToSet(out) \subseteq ToSet(c)
        /\ ToSet(c) \subseteq ToSet(out) \union ToSet(a)
        /\ Len(c) < 3 * Limit => c = out \o a
    BY <1>1, <1>5, <1>8, <2>1, CutType
  <2>3. QED
    BY <1>3, <2>1, <2>2
<1>12. queue' \in Seq(Seq(Edge)) /\ ToSet(queue') = ToSet(Tail(queue)) \union ToSet(b)
  <2>1. PICK t \in Seq(Seq(Edge)) : t = Tail(queue)
    BY <1>2
  <2>2. b \in Seq(Seq(Edge))
    BY <1>6
  <2>3. t \o b \in Seq(Seq(Edge)) /\ ToSet(t \o b) = ToSet(t) \union ToSet(b)
    BY <2>2, ToSetOfConcat
  <2>4. QED
    BY <1>3, <2>1, <2>3
<1>13. ToSet(queue') \subseteq Paths' /\ ToSet(out') \subseteq Routes'
  BY <1>1, <1>2, <1>4, <1>6, <1>7, <1>10, <1>11, <1>12
<1>14. Layered(queue', lengthOf)
  <2>1. lengthOf \in [Seq(Edge) -> Nat] /\ \A x \in Seq(Edge) : lengthOf[x] = Len(x)
    BY LenProperties DEF lengthOf
  <2>2. \A x \in ToSet(b) : lengthOf[x] = lengthOf[Head(queue)] + 1
    BY <1>2, <1>4, <1>6, <1>9, <2>1 DEF p
  <2>3. Layered(Tail(queue) \o b, lengthOf)
    BY <1>1, <1>6, <2>1, <2>2, StaysLayered
  <2>4. QED
    BY <1>3, <2>3
<1>15. \A q \in ToSet(queue) : Len(p) <= Len(q) /\ Len(q) \in Nat
  <2>1. \A q \in ToSet(queue) : q \in Seq(Edge)
    BY <1>1 DEF Paths
  <2>2. QED
    BY <2>1, HeadIsShortest, LenProperties DEF p
<1>16. ASSUME queue' # << >> PROVE \A o \in ToSet(out') : Len(o) <= Len(Head(queue')) + 1
  <2>1. Head(queue') \in ToSet(queue')
    BY <1>12, <1>16, TailType
  <2>2. Len(Head(queue')) >= Len(p) /\ Len(Head(queue')) \in Nat
    <3>1. CASE Head(queue') \in ToSet(Tail(queue))
      <4>1. Head(queue') \in ToSet(queue)
        BY <1>2, <3>1
      <4>2. QED
        BY <1>15, <4>1
    <3>2. CASE Head(queue') \in ToSet(b)
      <4>1. Len(Head(queue')) = Len(p) + 1
        BY <1>4, <1>6, <3>2
      <4>2. QED
        BY <1>8, <4>1
    <3>3. QED
      BY <1>12, <2>1, <3>1, <3>2
  <2>3. \A o \in ToSet(out') : o \in Seq(Edge)
    BY <1>7, <1>13 DEF Routes, Paths
  <2>4. \A o \in ToSet(out') : Len(o) <= Len(p) + 1 /\ Len(o) \in Nat
    BY <1>1, <1>8, <1>10, <1>11, <2>3, LenProperties
  <2>5. QED
    BY <1>8, <2>2, <2>4
<1>17. ASSUME ~Enough', NEW r \in Routes, r \notin ToSet(out')
       PROVE  \E k \in 0..Len(r)-1 : SubSeq(r, 1, k) \in ToSet(queue')
  <2>1. PICK k \in Nat : /\ k < Len(r) /\ SubSeq(r, 1, k) \in ToSet(queue)
                         /\ Len(SubSeq(r, 1, k)) = k
    BY <1>11, <1>17, RouteInQueue
  <2>2. r \in Seq(Edge) /\ IsPath(r) /\ Arrived(r) /\ Len(r) \in Nat /\ Len(r) <= MaxHops
    BY LenProperties DEF Routes, Paths
  <2>3. CASE SubSeq(r, 1, k) \in ToSet(Tail(queue))
    <3>1. k \in 0..Len(r)-1
      BY <2>1, <2>2
    <3>2. QED
      BY <1>12, <2>3, <3>1
  <2>4. CASE SubSeq(r, 1, k) = p
    <3> DEFINE e == r[k + 1]
               x == SubSeq(r, 1, k + 1)
    <3>1. /\ e \in Walked /\ e.from = LastNode(p) /\ e.to \notin Nodes(p)
          /\ x = Append(p, e) /\ k + 1 \in 1..Len(r)
      BY <2>1, <2>2, <2>4, PrefixPath
    <3>2. Len(p) = k /\ Len(p) < MaxHops
      BY <1>8, <2>1, <2>2, <2>4
    <3>3. x \in ToSet(s)
      BY <1>4, <3>1, <3>2
    <3>4. ToSet(out') = ToSet(out) \union ToSet(a)
      <4>1. Len(out') < 3 * Limit
        <5>1. ~(Len(out') >= 3 * Limit)
          BY <1>17 DEF Enough
        <5>2. Len(out') \in Nat /\ 3 * Limit \in Nat
          BY <1>11, LenProperties, BoundsAssumption
        <5>3. QED
          BY <5>1, <5>2
      <4>2. out' = out \o a
        BY <1>11, <4>1
      <4>3. ToSet(out \o a) = ToSet(out) \union ToSet(a)
        BY <1>1, <1>5, ToSetOfConcat
      <4>4. QED
        BY <4>2, <4>3
    <3>5. CASE k + 1 = Len(r)
      <4>1. x = r
        BY <2>2, <3>5, SubSeqFull
      <4>2. r \in ToSet(a)
        BY <1>5, <2>2, <3>3, <4>1
      <4>3. QED
        BY <1>17, <3>4, <4>2
    <3>6. CASE k + 1 # Len(r)
      <4>1. k + 1 \in Nat /\ k + 1 < Len(r) /\ k + 1 \in 0..Len(r)-1 /\ Len(r) \in 1..Len(r)
        BY <2>1, <2>2, <3>6
      <4>2. ~Arrived(x)
        <5>1. Last(x) = e
          <6>1. e \in Edge
            BY <3>1, WalkedType
          <6>2. Len(Append(p, e)) = Len(p) + 1 /\ Append(p, e)[Len(p) + 1] = e
            BY <1>2, <6>1, AppendAt
          <6>3. QED
            BY <3>1, <6>2 DEF Last
        <5>2. DOMAIN r = 1..Len(r)
          BY <2>2, LenProperties
        <5>3. r[k + 1].to # r[Len(r)].to
          BY <2>2, <3>1, <3>6, <4>1, <5>2 DEF IsPath
        <5>4. r[Len(r)].to = Root
          BY <2>2 DEF Arrived, Last
        <5>5. QED
          BY <5>1, <5>3, <5>4 DEF Arrived
      <4>3. x \in ToSet(queue')
        BY <1>6, <1>12, <3>3, <4>2
      <4>4. QED
        BY <4>1, <4>3
    <3>7. QED
      BY <3>5, <3>6
  <2>5. QED
    BY <1>2, <2>1, <2>3, <2>4
<1>18. ASSUME NEW r \in Routes \ ToSet(out'), NEW o \in ToSet(out') PROVE Len(o) <= Len(r)
  <2>1. r \in Routes \ ToSet(out)
    BY <1>11, <1>18
  <2>2. CASE o \in ToSet(out)
    BY <2>1, <2>2 DEF PathInv
  <2>3. CASE o \in ToSet(a)
    <3>1. Len(o) = Len(p) + 1
      BY <1>10, <2>3
    <3>2. PICK k \in Nat : /\ k < Len(r) /\ SubSeq(r, 1, k) \in ToSet(queue)
                           /\ Len(SubSeq(r, 1, k)) = k
      BY <2>1, RouteInQueue
    <3>3. Len(p) <= k
      BY <1>15, <3>2
    <3>4. Len(r) \in Nat
      BY LenProperties DEF Routes, Paths
    <3>5. QED
      BY <1>8, <3>1, <3>2, <3>3, <3>4
  <2>4. QED
    BY <1>11, <1>18, <2>2, <2>3
<1>19. PathInv' =
         /\ queue' \in Seq(Seq(Edge)) /\ ToSet(queue') \subseteq Paths'
         /\ out' \in Seq(Seq(Edge)) /\ ToSet(out') \subseteq Routes' /\ Len(out') <= 3 * Limit
         /\ Layered(queue', lengthOf)
         /\ queue' # << >> => \A o \in ToSet(out') : Len(o) <= Len(Head(queue')) + 1
         /\ ~Enough' => \A r \in Routes' :
              r \in ToSet(out') \/ \E k \in 0..Len(r)-1 : SubSeq(r, 1, k) \in ToSet(queue')
         /\ \A r \in Routes' \ ToSet(out') : \A o \in ToSet(out') : Len(o) <= Len(r)
  BY DEF PathInv, ToSet, Layered
<1>20. QED
  BY <1>7, <1>11, <1>12, <1>13, <1>14, <1>16, <1>17, <1>18, <1>19

-----------------------------------------------------------------------------
(* The theorems about the searches *)

SearchInv ==
  /\ search \in {"paths", "subtree"} /\ start \in Entities \union {Root} /\ edges \in Seq(Edge)
  /\ PathInv
  /\ TreeInv

LEMMA InitSearchInv == SearchInit => SearchInv
<1> SUFFICES ASSUME SearchInit PROVE SearchInv
  OBVIOUS
<1>1. search \in {"paths", "subtree"} /\ start \in Entities \union {Root}
  BY DEF SearchInit
<1>2. QED
  BY <1>1, InitEdges, InitPaths, InitTree DEF SearchInv

LEMMA SameTree == ASSUME TreeInv, UNCHANGED <<graphVars, treeVars>> PROVE TreeInv'
<1>1. edges' = edges /\ visits' = visits /\ depthOf' = depthOf /\ used' = used
  BY DEF graphVars, treeVars
<1>2. Ball' = Ball /\ Walked' = Walked
  BY <1>1, SameBall
<1>3. Pending' = Pending
  BY <1>1 DEF Pending
<1>4. QED
  BY <1>1, <1>2, <1>3 DEF TreeInv, Layered, ToSet, Key

LEMMA SamePaths == ASSUME PathInv, UNCHANGED <<graphVars, pathVars>> PROVE PathInv'
<1>1. edges' = edges /\ start' = start /\ queue' = queue /\ out' = out
  BY DEF graphVars, pathVars
<1>2. Paths' = Paths /\ Routes' = Routes
  BY <1>1, SameRoutes
<1>3. QED
  BY <1>1, <1>2 DEF PathInv, Layered, ToSet, Enough

LEMMA NextSearchInv == SearchInv /\ [SearchNext]_searchVars => SearchInv'
<1> SUFFICES ASSUME SearchInv, [SearchNext]_searchVars PROVE SearchInv'
  OBVIOUS
<1>1. CASE FindPaths
  <2>1. /\ queue # << >> /\ ~Enough /\ Expand
        /\ UNCHANGED <<graphVars, treeVars>>
        /\ search' = search /\ edges' = edges /\ start' = start
    BY <1>1 DEF FindPaths, graphVars
  <2>2. PathInv'
    BY <2>1, ExpandKeepsPaths DEF SearchInv
  <2>3. TreeInv'
    BY <2>1, SameTree DEF SearchInv
  <2>4. QED
    BY <2>1, <2>2, <2>3 DEF SearchInv
<1>2. CASE GrowSubtree
  <2>1. /\ visits # << >> /\ ExpandNode
        /\ UNCHANGED <<graphVars, pathVars>>
        /\ search' = search /\ edges' = edges /\ start' = start
    BY <1>2 DEF GrowSubtree, graphVars
  <2>2. TreeInv'
    BY <2>1, ExpandGrows, GrowingKeepsTree DEF SearchInv
  <2>3. PathInv'
    BY <2>1, SamePaths DEF SearchInv
  <2>4. QED
    BY <2>1, <2>2, <2>3 DEF SearchInv
<1>3. CASE UNCHANGED searchVars
  <2>1. UNCHANGED <<graphVars, pathVars>> /\ UNCHANGED <<graphVars, treeVars>>
    BY <1>3 DEF searchVars, graphVars, pathVars, treeVars
  <2>2. PathInv' /\ TreeInv'
    BY <2>1, SamePaths, SameTree DEF SearchInv
  <2>3. QED
    BY <1>3, <2>2 DEF SearchInv, searchVars
<1>4. QED
  BY <1>1, <1>2, <1>3 DEF SearchNext

LEMMA SearchInvariant == SearchSpec => []SearchInv
BY InitSearchInv, NextSearchInv, PTL DEF SearchSpec

\* The searches keep to nodes and edges of the graph, to the depth and to the number
\* of paths kept for sorting.
THEOREM SearchTypeCorrect == SearchSpec => []SearchTypeOK
<1>1. SearchInv => SearchTypeOK
  <2> SUFFICES ASSUME SearchInv PROVE SearchTypeOK
    OBVIOUS
  <2>1. Len(out) <= 3 * Limit /\ queue \in Seq(Seq(Edge)) /\ out \in Seq(Seq(Edge))
    BY DEF SearchInv, PathInv
  <2>2. visits \in Seq((Ends \union {Root}) \X (0..MaxHops))
    BY DEF SearchInv, TreeInv, Visit, Vertices
  <2>3. /\ DOMAIN depthOf \subseteq Ends \union {Root}
        /\ \A n \in DOMAIN depthOf : depthOf[n] \in 0..MaxHops
    BY DEF SearchInv, TreeInv, Vertices
  <2>4. \A i \in DOMAIN visits : visits[i][1] \in DOMAIN depthOf
    BY DEF SearchInv, TreeInv, ToSet
  <2>5. used \subseteq {Key(e) : e \in Walked}
    BY DEF SearchInv, TreeInv
  <2>6. QED
    BY <2>1, <2>2, <2>3, <2>4, <2>5 DEF SearchInv, SearchTypeOK
<1>2. QED
  BY <1>1, SearchInvariant, PTL

\* Whatever graph is searched, each path that is found leads from the entity to the
\* company along its edges, repeats no node and is no longer than max_hops.
THEOREM FoundPathsAreSound == SearchSpec => []PathsAreSound
<1>1. SearchInv => PathsAreSound
  <2> SUFFICES ASSUME SearchInv, NEW i \in DOMAIN out
               PROVE  IsPath(out[i]) /\ Arrived(out[i]) /\ Len(out[i]) <= MaxHops
    BY DEF PathsAreSound
  <2>1. out[i] \in Routes
    BY DEF SearchInv, PathInv, ToSet
  <2>2. QED
    BY <2>1 DEF Routes, Paths
<1>2. QED
  BY <1>1, SearchInvariant, PTL

\* Whatever graph and depth, the subtree a finished search returns is the ball: all nodes
\* within the depth, each at its distance, and the edges that leave the inner ones.
THEOREM SubtreeIsTheBall == SearchSpec => []SubtreeIsBall
<1>1. SearchInv => SubtreeIsBall
  BY TreeInvImplies DEF SearchInv
<1>2. QED
  BY <1>1, SearchInvariant, PTL

-----------------------------------------------------------------------------
(* No path twice *)

\* The edges of a graph are edges of the universe, each once.
Simple == Once(Edge, edges) /\ ToSet(edges) \subseteq ToSet(Universe)

LEMMA InitSimple == SearchInit => Simple
<1> SUFFICES ASSUME SearchInit PROVE Simple
  OBVIOUS
<1>1. PICK chosen \in [DOMAIN Universe -> BOOLEAN] :
        edges = FlattenSeq([i \in DOMAIN Universe |-> OneIf(chosen[i], Universe[i])])
  BY DEF SearchInit
<1> DEFINE n == Len(Universe)
           B == {i \in 1..n : chosen[i]}
           seqs == [i \in DOMAIN Universe |-> OneIf(chosen[i], Universe[i])]
<1>2. n \in Nat /\ DOMAIN Universe = 1..n /\ \A i \in 1..n : Universe[i] \in Edge
  BY UniverseAssumption, LenProperties
<1>3. Ones(Edge, n, B, Universe, seqs)
  BY <1>2 DEF Ones, OneIf
<1>4. \A i, j \in 1..n : Universe[i] = Universe[j] => i = j
  BY <1>2, UniverseAssumption
<1>5. edges = FlattenSeq(seqs)
  BY <1>1
<1>6. Taken(n, B, Universe) \subseteq ToSet(Universe)
  BY <1>2 DEF Taken, ToSet
<1> HIDE DEF n, B, seqs
<1>7. Once(Edge, edges)
  BY <1>2, <1>3, <1>4, <1>5, OnesOnce
<1>8. ToSet(edges) = Taken(n, B, Universe)
  <2>1. n \in Nat
    BY <1>2
  <2>2. FlattenSeq(seqs) \in Seq(Edge) /\ ToSet(FlattenSeq(seqs)) = Taken(n, B, Universe)
    BY <1>3, <2>1, OnesType
  <2>3. QED
    BY <1>5, <2>2
<1>9. QED
  BY <1>6, <1>7, <1>8 DEF Simple

LEMMA TurnedTwice == ASSUME NEW e \in Edge PROVE Turned(Turned(e)) = e /\ Turned(e) \in Edge
BY DEF Turned, Edge

\* Two edges with one key are one.
LEMMA KeyOnce ==
  ASSUME edges \in Seq(Edge), Simple, NEW i \in DOMAIN edges, NEW j \in DOMAIN edges,
         Key(edges[i]) = Key(edges[j])
  PROVE  i = j
<1>1. edges[i] \in ToSet(Universe) /\ edges[j] \in ToSet(Universe)
  BY DEF Simple, ToSet
<1>2. PICK k \in DOMAIN Universe, l \in DOMAIN Universe : edges[i] = Universe[k] /\ edges[j] = Universe[l]
  BY <1>1 DEF ToSet
<1>3. k = l
  BY <1>2, UniverseAssumption
<1>4. edges[i] = edges[j] /\ edges[i] \in Edge
  BY <1>2, <1>3, LenProperties
<1>5. QED
  BY <1>4 DEF Simple, Once

\* At a node, no edge to another one is listed twice.
LEMMA AdjacencyOnce ==
  ASSUME edges \in Seq(Edge), Simple, ~Doubled, NEW n
  PROVE  Once({e \in Edge : e.to # e.from}, Adjacency(n))
<1> DEFINE A == {e \in Edge : e.to # e.from}
           at(i) == OneIf(edges[i].from = n, edges[i]) \o OneIf(edges[i].to = n, Turned(edges[i]))
           seqs == [i \in DOMAIN edges |-> at(i)]
<1>1. DOMAIN edges = 1..Len(edges) /\ Len(edges) \in Nat /\ \A i \in DOMAIN edges : edges[i] \in Edge
  BY LenProperties
<1>2. ASSUME NEW i \in DOMAIN edges
      PROVE  /\ at(i) \in Seq(Edge) /\ Once(A, at(i))
             /\ \A y \in ToSet(at(i)) : y = edges[i] \/ y = Turned(edges[i])
  <2> DEFINE e == edges[i]
             one == OneIf(e.from = n, e)
             two == OneIf(e.to = n, Turned(e))
  <2>1. e \in Edge /\ Turned(e) \in Edge /\ Turned(e).from = e.to /\ Turned(e).to = e.from
    BY <1>1, TurnedType
  <2>2. at(i) = one \o two
    OBVIOUS
  <2>3. (e.from = n => one = <<e>>) /\ (e.from # n => one = << >>)
    BY DEF OneIf
  <2>4. (e.to = n => two = <<Turned(e)>>) /\ (e.to # n => two = << >>)
    BY DEF OneIf
  <2> HIDE DEF at, one, two, e
  <2>5. one \in Seq(Edge) /\ (e.from = n => ToSet(one) = {e}) /\ (e.from # n => ToSet(one) = {})
    BY <2>1, <2>3, OneType, NoneType
  <2>6. /\ two \in Seq(Edge)
        /\ (e.to = n => ToSet(two) = {Turned(e)}) /\ (e.to # n => ToSet(two) = {})
    BY <2>1, <2>4, OneType, NoneType
  <2>7. Once(A, one) /\ Once(A, two)
    BY <2>3, <2>4 DEF Once
  <2>8. \A x \in A : x \notin ToSet(one) \/ x \notin ToSet(two)
    BY <2>1, <2>5, <2>6
  <2> HIDE DEF A
  <2>9. one \o two \in Seq(Edge) /\ ToSet(one \o two) = ToSet(one) \union ToSet(two)
    BY <2>5, <2>6, ToSetOfConcat
  <2>10. Once(A, one \o two)
    BY <2>5, <2>6, <2>7, <2>8, OnceInConcat
  <2>11. \A y \in ToSet(one \o two) : y = e \/ y = Turned(e)
    BY <2>5, <2>6, <2>9
  <2>12. QED
    BY <2>2, <2>9, <2>10, <2>11 DEF e
<1>3. seqs \in Seq(Seq(Edge)) /\ DOMAIN seqs = DOMAIN edges
  <2>1. seqs \in [1..Len(edges) -> Seq(Edge)]
    BY <1>1, <1>2
  <2>2. QED
    BY <1>1, <2>1, IsASeq
<1>4. \A i \in DOMAIN edges : seqs[i] = at(i)
  OBVIOUS
<1>5. Adjacency(n) = FlattenSeq(seqs)
  BY DEF Adjacency
<1> HIDE DEF seqs, at, A
<1>6. ASSUME NEW i \in DOMAIN edges, NEW j \in DOMAIN edges, i # j, NEW x,
             x \in ToSet(seqs[i]), x \in ToSet(seqs[j])
      PROVE  FALSE
  <2>1. /\ x = edges[i] \/ x = Turned(edges[i])
        /\ x = edges[j] \/ x = Turned(edges[j])
    BY <1>2, <1>4, <1>6
  <2>2. edges[i] # edges[j]
    BY <1>1, <1>6 DEF Simple, Once
  <2>3. Turned(edges[i]) # Turned(edges[j])
    BY <1>1, <2>2, TurnedTwice
  <2>4. edges[i] # Turned(edges[j]) /\ edges[j] # Turned(edges[i])
    <3>1. Key(edges[i]) # Key(Turned(edges[j])) /\ Key(edges[j]) # Key(Turned(edges[i]))
      BY <1>6 DEF Doubled
    <3>2. QED
      BY <3>1
  <2>5. QED
    BY <2>1, <2>2, <2>3, <2>4
<1>7. Apart(A, seqs)
  BY <1>2, <1>3, <1>4, <1>6 DEF Apart
<1>8. Once(A, Adjacency(n))
  BY <1>3, <1>5, <1>7, FlattenOnce
<1>9. QED
  BY <1>8 DEF A

LEMMA LastNodeIsNode ==
  ASSUME NEW p \in Seq(Edge)
  PROVE  LastNode(p) \in Nodes(p)
<1>1. CASE p = << >>
  BY <1>1 DEF LastNode, Nodes
<1>2. CASE p # << >>
  <2>1. Len(p) \in DOMAIN p
    BY <1>2, LenProperties, EmptySeq
  <2>2. QED
    BY <1>2, <2>1 DEF LastNode, Nodes, Last
<1>3. QED
  BY <1>1, <1>2

LEMMA LongerOnce ==
  ASSUME edges \in Seq(Edge), Simple, ~Doubled, NEW p \in Seq(Edge)
  PROVE  Once(Seq(Edge), Longer(p))
<1> DEFINE next == Adjacency(LastNode(p))
           n == Len(next)
           B == {i \in 1..n : next[i].to \notin Nodes(p)}
           x == [i \in 1..n |-> Append(p, next[i])]
           seqs == [i \in DOMAIN next |-> OneIf(next[i].to \notin Nodes(p), Append(p, next[i]))]
           A == {e \in Edge : e.to # e.from}
<1>1. next \in Seq(Edge) /\ ToSet(next) = {e \in Walked : e.from = LastNode(p)}
  BY AdjacencyType
<1>2. Once(A, next)
  BY AdjacencyOnce
<1>3. Longer(p) = FlattenSeq(seqs)
  BY DEF Longer
<1> HIDE DEF next
<1>4. n \in Nat /\ DOMAIN next = 1..n /\ \A i \in 1..n : next[i] \in Edge /\ next[i] \in ToSet(next)
  BY <1>1, LenProperties DEF ToSet
<1>5. \A i \in 1..n : x[i] \in Seq(Edge)
  BY <1>4, AppendProperties
<1>6. Ones(Seq(Edge), n, B, x, seqs)
  BY <1>4, <1>5 DEF Ones, OneIf
<1>7. ASSUME NEW i \in 1..n, NEW j \in 1..n, i \in B, j \in B, x[i] = x[j] PROVE i = j
  <2>1. next[i] = next[j]
    BY <1>4, <1>7, AppendInjective
  <2>2. next[i].from = LastNode(p) /\ next[i].to # LastNode(p)
    BY <1>1, <1>4, <1>7, LastNodeIsNode
  <2>3. next[i] \in A
    BY <1>4, <2>2
  <2>4. QED
    BY <1>2, <1>4, <2>1, <2>3 DEF Once
<1> HIDE DEF B, x, seqs, n
<1>8. Once(Seq(Edge), FlattenSeq(seqs))
  BY <1>4, <1>6, <1>7, OnesOnce
<1>9. QED
  BY <1>3, <1>8

LEMMA SortedOut ==
  ASSUME NEW s \in Seq(Seq(Edge)), Once(Seq(Edge), s)
  PROVE  Once(Seq(Edge), Arriving(s)) /\ Once(Seq(Edge), Underway(s))
<1> DEFINE n == Len(s)
           B == {i \in 1..n : Arrived(s[i])}
           C == {i \in 1..n : ~Arrived(s[i])}
           seqs == [i \in DOMAIN s |-> OneIf(Arrived(s[i]), s[i])]
           rest == [i \in DOMAIN s |-> OneIf(~Arrived(s[i]), s[i])]
<1>1. n \in Nat /\ DOMAIN s = 1..n /\ \A i \in 1..n : s[i] \in Seq(Edge)
  BY LenProperties
<1>2. Ones(Seq(Edge), n, B, s, seqs) /\ Ones(Seq(Edge), n, C, s, rest)
  BY <1>1 DEF Ones, OneIf
<1>3. Arriving(s) = FlattenSeq(seqs) /\ Underway(s) = FlattenSeq(rest)
  BY DEF Arriving, Underway
<1>4. \A i, j \in 1..n : s[i] \in Seq(Edge) /\ s[i] = s[j] => i = j
  BY <1>1 DEF Once
<1> HIDE DEF seqs, rest, B, C, n
<1>5. Once(Seq(Edge), FlattenSeq(seqs))
  BY <1>1, <1>2, <1>4, OnesOnce
<1>6. Once(Seq(Edge), FlattenSeq(rest))
  BY <1>1, <1>2, <1>4, OnesOnce
<1>7. QED
  BY <1>3, <1>5, <1>6

LEMMA OnceInTail ==
  ASSUME NEW S, NEW s \in Seq(S), s # << >>, Once(S, s)
  PROVE  Once(S, Tail(s)) /\ Head(s) \notin ToSet(Tail(s))
<1> DEFINE m == Len(s) - 1
<1>1. /\ Tail(s) \in Seq(S) /\ Len(Tail(s)) = m /\ \A i \in 1..m : Tail(s)[i] = s[i + 1]
      /\ Len(s) \in Nat /\ Len(s) >= 1 /\ DOMAIN s = 1..Len(s) /\ Head(s) = s[1]
  BY HeadTailProperties, LenProperties, EmptySeq
<1>2. DOMAIN Tail(s) = 1..m
  BY <1>1, LenProperties
<1>3. \A i \in 1..m : i + 1 \in 1..Len(s) /\ i + 1 # 1
  BY <1>1
<1>4. 1 \in 1..Len(s) /\ \A i \in 1..Len(s) : s[i] \in S
  BY <1>1, LenProperties
<1>5. \A i, j \in 1..Len(s) : s[i] = s[j] => i = j
  BY <1>1, <1>4 DEF Once
<1> HIDE DEF m
<1>6. ASSUME NEW i \in 1..m, NEW j \in 1..m, Tail(s)[i] = Tail(s)[j] PROVE i = j
  <2>1. i + 1 = j + 1
    BY <1>1, <1>3, <1>5, <1>6
  <2>2. QED
    BY <2>1
<1>7. \A i \in 1..m : Tail(s)[i] # s[1]
  BY <1>1, <1>3, <1>4, <1>5
<1>8. QED
  BY <1>1, <1>2, <1>6, <1>7 DEF Once, ToSet

\* Unless an edge is doubled, no path is queued or found twice, and none that is queued
\* was continued before.
Distinct ==
  /\ Once(Seq(Edge), queue) /\ Once(Seq(Edge), out)
  /\ \A q \in ToSet(queue) : \A e \in Edge :
       Append(q, e) \notin ToSet(queue) /\ Append(q, e) \notin ToSet(out)

LEMMA InitDistinct == SearchInit => Distinct
<1> SUFFICES ASSUME SearchInit PROVE Distinct
  OBVIOUS
<1>1. queue = << << >> >> /\ out = << >>
  BY DEF SearchInit
<1>2. << >> \in Seq(Edge)
  BY EmptySeq
<1>3. ToSet(queue) = {<< >>} /\ ToSet(out) = {}
  BY <1>1, <1>2, OneType, NoneType
<1>4. Once(Seq(Edge), queue) /\ Once(Seq(Edge), out)
  BY <1>1 DEF Once
<1>5. \A e \in Edge : Append(<< >>, e) # << >>
  BY <1>2, AppendAt
<1>6. QED
  BY <1>3, <1>4, <1>5 DEF Distinct

LEMMA CutOnce ==
  ASSUME NEW S, NEW s \in Seq(S), NEW t \in Seq(S), Once(S, s), Once(S, t),
         \A x \in S : x \notin ToSet(s) \/ x \notin ToSet(t)
  PROVE  Once(S, Cut(s \o t))
<1> DEFINE u == s \o t
           c == FirstOf(3 * Limit, u)
<1>1. u \in Seq(S) /\ 3 * Limit \in Nat
  BY ConcatProperties, BoundsAssumption
<1>2. Once(S, u)
  BY OnceInConcat
<1>3. Cut(u) = c
  BY DEF Cut
<1> HIDE DEF u
<1>4. c \in Seq(S) /\ \A i \in 1..Len(c) : i \in 1..Len(u) /\ c[i] = u[i]
  BY <1>1, FirstOfType
<1>5. DOMAIN c = 1..Len(c) /\ DOMAIN u = 1..Len(u)
  BY <1>1, <1>4, LenProperties
<1> HIDE DEF c
<1>6. Once(S, c)
  BY <1>2, <1>4, <1>5 DEF Once
<1>7. QED
  BY <1>3, <1>6 DEF u

LEMMA ContinuedOnce ==
  ASSUME edges \in Seq(Edge), Simple, ~Doubled, NEW p \in Seq(Edge)
  PROVE  Once(Seq(Edge), Continued(p))
<1>1. Once(Seq(Edge), << >>)
  BY DEF Once
<1>2. QED
  BY <1>1, LongerOnce DEF Continued

LEMMA ExpandKeepsDistinct ==
  ASSUME edges \in Seq(Edge), Simple, ~Doubled, PathInv, Distinct,
         queue # << >>, ~Enough, Expand
  PROVE  Distinct'
<1> DEFINE p == Head(queue)
           s == Continued(p)
           a == Arriving(s)
           b == Underway(s)
           T == ToSet(Tail(queue))
           S == Seq(Edge)
<1>1. /\ queue \in Seq(S) /\ ToSet(queue) \subseteq Paths
      /\ out \in Seq(S) /\ ToSet(out) \subseteq Routes
      /\ \A o \in ToSet(out) : Len(o) <= Len(p) + 1
  BY DEF PathInv
<1>2. p \in Paths /\ p \in S /\ Tail(queue) \in Seq(S) /\ ToSet(queue) = {p} \union T
  BY <1>1, TailType
<1>3. out' = Cut(out \o a) /\ queue' = Tail(queue) \o b
  BY ExpandSteps
<1>4. /\ Once(S, queue) /\ Once(S, out)
      /\ \A q \in ToSet(queue) : \A e \in Edge :
           Append(q, e) \notin ToSet(queue) /\ Append(q, e) \notin ToSet(out)
  BY DEF Distinct
<1>5. Once(S, Tail(queue)) /\ p \notin T
  BY <1>1, <1>4, OnceInTail
<1>6. \A q \in ToSet(queue) : Len(q) <= Len(p) + 1
  BY HeadIsShortest
<1> HIDE DEF p
<1>7. /\ s \in Seq(S)
      /\ \A x \in ToSet(s) : Len(x) = Len(p) + 1 /\ \E e \in Edge : x = Append(p, e)
  BY <1>2, ContinuedType
<1>8. Once(S, s)
  BY <1>2, ContinuedOnce
<1> HIDE DEF s
<1>9. a \in Seq(S) /\ ToSet(a) \subseteq ToSet(s) /\ Once(S, a)
  BY <1>7, <1>8, ArrivingType, SortedOut
<1>10. b \in Seq(S) /\ ToSet(b) \subseteq ToSet(s) /\ Once(S, b)
  BY <1>7, <1>8, UnderwayType, SortedOut
<1> HIDE DEF a, b, T
<1>11. \A x \in ToSet(s) : x \notin ToSet(queue) /\ x \notin ToSet(out)
  BY <1>2, <1>4, <1>7
<1>12. Len(out) < 3 * Limit
  <2>1. Len(out) \in Nat /\ 3 * Limit \in Nat
    BY <1>1, LenProperties, BoundsAssumption
  <2>2. QED
    BY <2>1 DEF Enough
<1>13. Once(S, out') /\ ToSet(out') \subseteq ToSet(out) \union ToSet(a)
  <2>1. \A x \in S : x \notin ToSet(out) \/ x \notin ToSet(a)
    BY <1>9, <1>11
  <2> HIDE DEF S
  <2>2. Once(S, Cut(out \o a)) /\ ToSet(Cut(out \o a)) \subseteq ToSet(out) \union ToSet(a)
    BY <1>1, <1>4, <1>9, <1>12, <2>1, CutOnce, CutType
  <2>3. QED
    BY <1>3, <2>2
<1>14. Once(S, queue') /\ ToSet(queue') = T \union ToSet(b)
  <2>1. PICK t : t = Tail(queue) /\ t \in Seq(S) /\ Once(S, t) /\ ToSet(t) = T
    BY <1>2, <1>5 DEF T
  <2>2. \A x \in S : x \notin ToSet(t) \/ x \notin ToSet(b)
    BY <1>2, <1>10, <1>11, <2>1
  <2> HIDE DEF S
  <2>3. Once(S, t \o b)
    BY <1>10, <2>1, <2>2, OnceInConcat
  <2>4. ToSet(t \o b) = ToSet(t) \union ToSet(b)
    BY <1>10, <2>1, ToSetOfConcat
  <2>5. QED
    BY <1>3, <2>1, <2>3, <2>4
<1>15. ASSUME NEW q \in ToSet(queue'), NEW e \in Edge
       PROVE  Append(q, e) \notin ToSet(queue') /\ Append(q, e) \notin ToSet(out')
  <2>0. q \in S
    <3>1. T \subseteq S
      BY <1>1, <1>2 DEF Paths
    <3>2. ToSet(b) \subseteq S
      <4>1. \A i \in DOMAIN b : b[i] \in S
        BY <1>10, LenProperties
      <4>2. QED
        BY <4>1 DEF ToSet
    <3>3. QED
      BY <1>14, <3>1, <3>2
  <2>1. CASE q \in T
    <3>1. Append(q, e) \notin ToSet(queue) /\ Append(q, e) \notin ToSet(out)
      BY <1>2, <1>4, <2>1
    <3>2. Append(q, e) \notin ToSet(s)
      <4>1. ASSUME NEW d \in Edge, Append(q, e) = Append(p, d) PROVE FALSE
        <5>1. q = p
          BY <1>2, <2>0, <4>1, AppendInjective
        <5>2. QED
          BY <1>5, <2>1, <5>1
      <4>2. QED
        BY <1>7, <4>1
    <3>3. QED
      BY <1>2, <1>9, <1>10, <1>13, <1>14, <3>1, <3>2
  <2>2. CASE q \in ToSet(b)
    <3>1. Len(p) \in Nat /\ Len(q) = Len(p) + 1
      BY <1>2, <1>7, <1>10, <2>2, LenProperties
    <3>2. Len(Append(q, e)) = Len(p) + 1 + 1
      BY <2>0, <3>1, AppendAt
    <3>3. \A x \in ToSet(queue) \union ToSet(out) \union ToSet(s) : Len(x) <= Len(p) + 1
      BY <1>1, <1>6, <1>7, <3>1
    <3>4. ASSUME Append(q, e) \in ToSet(queue) \union ToSet(out) \union ToSet(s) PROVE FALSE
      <4>1. Len(Append(q, e)) <= Len(p) + 1
        BY <3>3, <3>4
      <4>2. QED
        BY <3>1, <3>2, <4>1
    <3>5. QED
      BY <1>2, <1>9, <1>10, <1>13, <1>14, <3>4
  <2>3. QED
    BY <1>14, <2>1, <2>2
<1>16. Distinct' =
         /\ Once(S, queue') /\ Once(S, out')
         /\ \A q \in ToSet(queue') : \A e \in Edge :
              Append(q, e) \notin ToSet(queue') /\ Append(q, e) \notin ToSet(out')
  BY DEF Distinct, Once, ToSet
<1>17. QED
  BY <1>13, <1>14, <1>15, <1>16

-----------------------------------------------------------------------------
(* What is returned *)

LEMMA WeightType == ASSUME NEW p \in Seq(Edge) PROVE Weight(p) \in Nat
<1> DEFINE f == [i \in DOMAIN p |-> p[i].weight]
<1>1. DOMAIN p = 1..Len(p) /\ Len(p) \in Nat /\ \A i \in DOMAIN p : p[i] \in Edge
  BY LenProperties
<1>2. IsFiniteSet(DOMAIN p)
  BY <1>1, FS_Interval
<1>3. \A i \in DOMAIN p : f[i] \in Nat
  BY <1>1 DEF Edge
<1>4. DOMAIN f = DOMAIN p
  OBVIOUS
<1>5. Weight(p) = SumFunctionOnSet(f, DOMAIN p)
  BY <1>4 DEF Weight, SumFunction
<1> HIDE DEF f
<1>6. QED
  BY <1>2, <1>3, <1>5, SumType

\* Before orders what was found.
LEMMA BeforeIsOrder ==
  ASSUME out \in Seq(Seq(Edge))
  PROVE  /\ \A i \in DOMAIN out : ~Before(i, i)
         /\ \A i, j, k \in DOMAIN out : Before(i, j) /\ Before(j, k) => Before(i, k)
         /\ \A i, j \in DOMAIN out : i = j \/ Before(i, j) \/ Before(j, i)
<1> DEFINE long == [i \in DOMAIN out |-> Len(out[i])]
           heavy == [i \in DOMAIN out |-> Weight(out[i])]
<1>1. DOMAIN out = 1..Len(out) /\ Len(out) \in Nat /\ \A i \in DOMAIN out : out[i] \in Seq(Edge)
  BY LenProperties
<1>2. \A i \in DOMAIN out : long[i] \in Int /\ heavy[i] \in Int /\ i \in Int
  BY <1>1, WeightType, LenProperties
<1>3. \A i, j \in DOMAIN out : Before(i, j) <=>
        \/ long[i] < long[j]
        \/ long[i] = long[j] /\ heavy[i] > heavy[j]
        \/ long[i] = long[j] /\ heavy[i] = heavy[j] /\ i < j
  BY DEF Before
<1> HIDE DEF long, heavy
<1>4. ASSUME NEW i \in DOMAIN out, NEW j \in DOMAIN out, NEW k \in DOMAIN out,
             Before(i, j), Before(j, k)
      PROVE  Before(i, k)
  <2>1. \/ long[i] < long[j]
        \/ long[i] = long[j] /\ heavy[i] > heavy[j]
        \/ long[i] = long[j] /\ heavy[i] = heavy[j] /\ i < j
    BY <1>3, <1>4
  <2>2. \/ long[j] < long[k]
        \/ long[j] = long[k] /\ heavy[j] > heavy[k]
        \/ long[j] = long[k] /\ heavy[j] = heavy[k] /\ j < k
    BY <1>3, <1>4
  <2>3. \/ long[i] < long[k]
        \/ long[i] = long[k] /\ heavy[i] > heavy[k]
        \/ long[i] = long[k] /\ heavy[i] = heavy[k] /\ i < k
    BY <1>2, <2>1, <2>2
  <2>4. QED
    BY <1>3, <2>3
<1>5. ASSUME NEW i \in DOMAIN out PROVE ~Before(i, i)
  <2>1. long[i] \in Int /\ heavy[i] \in Int /\ i \in Int
    BY <1>2
  <2>2. ~(long[i] < long[i]) /\ ~(heavy[i] > heavy[i]) /\ ~(i < i)
    BY <2>1
  <2>3. QED
    BY <1>3, <2>2
<1>6. ASSUME NEW i \in DOMAIN out, NEW j \in DOMAIN out, i # j
      PROVE  Before(i, j) \/ Before(j, i)
  <2>1. /\ long[i] \in Int /\ heavy[i] \in Int /\ i \in Int
        /\ long[j] \in Int /\ heavy[j] \in Int /\ j \in Int
    BY <1>2
  <2>2. \/ long[i] < long[j]
        \/ long[i] = long[j] /\ heavy[i] > heavy[j]
        \/ long[i] = long[j] /\ heavy[i] = heavy[j] /\ i < j
        \/ long[j] < long[i]
        \/ long[j] = long[i] /\ heavy[j] > heavy[i]
        \/ long[j] = long[i] /\ heavy[j] = heavy[i] /\ j < i
    BY <1>6, <2>1
  <2>3. QED
    BY <1>3, <2>2
<1>7. QED
  BY <1>4, <1>5, <1>6

Ahead(i) == {j \in DOMAIN out : Before(j, i)}

LEMMA RankType ==
  ASSUME out \in Seq(Seq(Edge)), NEW i \in DOMAIN out
  PROVE  /\ IsFiniteSet(Ahead(i)) /\ i \notin Ahead(i) /\ Ahead(i) \subseteq DOMAIN out
         /\ Cardinality(Ahead(i)) \in Nat /\ Rank(i) = 1 + Cardinality(Ahead(i))
         /\ Rank(i) \in 1..Len(out)
<1>1. DOMAIN out = 1..Len(out) /\ Len(out) \in Nat
  BY LenProperties
<1>2. IsFiniteSet(DOMAIN out) /\ Cardinality(DOMAIN out) = Len(out)
  <2>1. PICK n \in Nat : n = Len(out)
    BY <1>1
  <2>2. IsFiniteSet(1..n) /\ Cardinality(1..n) = n
    <3>1. IsFiniteSet(1..n) /\ Cardinality(1..n) = IF 1 > n THEN 0 ELSE n - 1 + 1
      BY FS_Interval
    <3>2. QED
      BY <3>1
  <2>3. QED
    BY <1>1, <2>1, <2>2
<1>3. i \notin Ahead(i) /\ Ahead(i) \subseteq DOMAIN out
  BY BeforeIsOrder DEF Ahead
<1> DEFINE rest == DOMAIN out \ {i}
<1>4. IsFiniteSet(rest) /\ Cardinality(rest) = Len(out) - 1
  BY <1>2, FS_RemoveElement
<1>5. Ahead(i) \subseteq rest
  BY <1>3
<1> HIDE DEF rest
<1>6. IsFiniteSet(Ahead(i)) /\ Cardinality(Ahead(i)) <= Len(out) - 1 /\ Cardinality(Ahead(i)) \in Nat
  BY <1>4, <1>5, FS_Subset, FS_CardinalityType
<1>7. Rank(i) = 1 + Cardinality(Ahead(i))
  BY DEF Rank, Ahead
<1>8. QED
  BY <1>1, <1>3, <1>6, <1>7

LEMMA RankFollowsOrder ==
  ASSUME out \in Seq(Seq(Edge)), NEW i \in DOMAIN out, NEW j \in DOMAIN out, Before(i, j)
  PROVE  Rank(i) < Rank(j)
<1>1. /\ IsFiniteSet(Ahead(i)) /\ i \notin Ahead(i) /\ Cardinality(Ahead(i)) \in Nat
      /\ Rank(i) = 1 + Cardinality(Ahead(i))
  BY RankType
<1>2. /\ IsFiniteSet(Ahead(j)) /\ Cardinality(Ahead(j)) \in Nat
      /\ Rank(j) = 1 + Cardinality(Ahead(j))
  BY RankType
<1>3. Ahead(i) \union {i} \subseteq Ahead(j)
  BY BeforeIsOrder DEF Ahead
<1>4. IsFiniteSet(Ahead(i) \union {i}) /\ Cardinality(Ahead(i) \union {i}) = Cardinality(Ahead(i)) + 1
  BY <1>1, FS_AddElement
<1>5. Cardinality(Ahead(i) \union {i}) <= Cardinality(Ahead(j))
  BY <1>2, <1>3, FS_Subset
<1>6. QED
  BY <1>1, <1>2, <1>4, <1>5

\* Every rank is that of one path.
LEMMA Ranked ==
  ASSUME out \in Seq(Seq(Edge))
  PROVE  /\ \A i, j \in DOMAIN out : Rank(i) = Rank(j) => i = j
         /\ \A k \in 1..Len(out) : \E i \in DOMAIN out : Rank(i) = k
<1> DEFINE f == [i \in DOMAIN out |-> Rank(i)]
           T == 1..Len(out)
<1>1. DOMAIN out = T /\ Len(out) \in Nat
  BY LenProperties
<1>2. \A i \in DOMAIN out : Rank(i) \in T /\ Rank(i) \in Int
  BY RankType
<1>3. ASSUME NEW i \in DOMAIN out, NEW j \in DOMAIN out, Rank(i) = Rank(j) PROVE i = j
  <2>1. Rank(i) \in Int /\ ~(Rank(i) < Rank(j)) /\ ~(Rank(j) < Rank(i))
    BY <1>2, <1>3
  <2>2. ~Before(i, j) /\ ~Before(j, i)
    BY <2>1, RankFollowsOrder
  <2>3. QED
    BY <2>2, BeforeIsOrder
<1>4. f \in Injection(T, T)
  BY <1>1, <1>2, <1>3 DEF Injection, IsInjective
<1>5. IsFiniteSet(T)
  BY <1>1, FS_Interval
<1> HIDE DEF f, T
<1>6. f \in Surjection(T, T)
  BY <1>4, <1>5, FS_Injection
<1>7. \A k \in T : \E i \in T : f[i] = k
  BY <1>6 DEF Surjection
<1>8. QED
  BY <1>1, <1>3, <1>7 DEF f, T

\* What is returned is what ranks within the limit; nothing that is left out is before it.
LEMMA ReturnedAre ==
  ASSUME out \in Seq(Seq(Edge))
  PROVE  /\ Len(Returned) = IF Len(out) < Limit THEN Len(out) ELSE Limit
         /\ \A p : p \in ToSet(Returned) <=> \E i \in DOMAIN out : Rank(i) <= Limit /\ p = out[i]
         /\ \A i, j \in DOMAIN out : Rank(i) <= Limit /\ ~(Rank(j) <= Limit) => Before(i, j)
         /\ Once(Seq(Edge), out) => Cardinality(ToSet(Returned)) = Len(Returned)
<1> DEFINE n == Len(out)
           at == [k \in 1..n |-> CHOOSE i \in DOMAIN out : Rank(i) = k]
           sorted == [k \in DOMAIN out |-> out[CHOOSE i \in DOMAIN out : Rank(i) = k]]
           got == FirstOf(Limit, sorted)
           m == Len(got)
<1>1. DOMAIN out = 1..n /\ n \in Nat /\ Limit \in Nat /\ \A i \in DOMAIN out : out[i] \in Seq(Edge)
  BY LenProperties, BoundsAssumption
<1>2. \A i \in DOMAIN out : Rank(i) \in 1..n
  BY RankType
<1>3. \A k \in 1..n : at[k] \in DOMAIN out /\ Rank(at[k]) = k
  BY Ranked
<1>4. \A k \in 1..n : sorted[k] = out[at[k]]
  BY <1>1
<1>5. Returned = got
  BY DEF Returned
<1>6. sorted = [k \in 1..n |-> sorted[k]]
  BY <1>1
<1> HIDE DEF at, sorted
<1>7. sorted \in [1..n -> Seq(Edge)]
  BY <1>1, <1>3, <1>4, <1>6
<1>8. sorted \in Seq(Seq(Edge)) /\ Len(sorted) = n
  <2>1. PICK l \in Nat : l = n
    BY <1>1
  <2>2. sorted \in [1..l -> Seq(Edge)] /\ DOMAIN sorted = 1..l
    BY <1>7, <2>1
  <2> HIDE DEF n
  <2>3. sorted \in Seq(Seq(Edge))
    BY <2>2, IsASeq
  <2>4. DOMAIN sorted = 1..Len(sorted) /\ Len(sorted) \in Nat
    BY <2>3, LenProperties
  <2>5. Len(sorted) = l
    <3>1. PICK k \in Nat : k = Len(sorted)
      BY <2>4
    <3>2. 1..k = 1..l
      BY <2>2, <2>4, <3>1
    <3>3. (k \in 1..k <=> k \in 1..l) /\ (l \in 1..l <=> l \in 1..k)
      BY <3>2
    <3>4. k = l
      BY <3>3
    <3>5. QED
      BY <3>1, <3>4
  <2>6. QED
    BY <2>1, <2>3, <2>5
<1>9. /\ got \in Seq(Seq(Edge)) /\ m = (IF n < Limit THEN n ELSE Limit)
      /\ \A k \in 1..m : k \in 1..n /\ got[k] = sorted[k]
  BY <1>1, <1>8, FirstOfType
<1>10. DOMAIN got = 1..m /\ m \in Nat
  BY <1>9, LenProperties
<1> HIDE DEF n, got, m
<1>11. \A i \in DOMAIN out : Rank(i) <= Limit <=> Rank(i) \in 1..m
  BY <1>1, <1>2, <1>9
<1>12. \A k \in 1..m : got[k] = out[at[k]] /\ at[k] \in DOMAIN out /\ Rank(at[k]) = k
  BY <1>3, <1>4, <1>9
<1>13. \A i \in DOMAIN out : Rank(i) \in 1..m => at[Rank(i)] = i
  BY <1>2, <1>3, Ranked
<1>14. \A p : p \in ToSet(got) <=> \E i \in DOMAIN out : Rank(i) <= Limit /\ p = out[i]
  <2>1. ASSUME NEW p \in ToSet(got) PROVE \E i \in DOMAIN out : Rank(i) <= Limit /\ p = out[i]
    <3>1. PICK k \in 1..m : p = got[k]
      BY <1>10 DEF ToSet
    <3>2. QED
      BY <1>11, <1>12, <3>1
  <2>2. ASSUME NEW i \in DOMAIN out, Rank(i) <= Limit PROVE out[i] \in ToSet(got)
    <3>1. Rank(i) \in 1..m /\ at[Rank(i)] = i
      BY <1>11, <1>13, <2>2
    <3>2. got[Rank(i)] = out[i]
      BY <1>12, <3>1
    <3>3. QED
      BY <1>10, <3>1, <3>2 DEF ToSet
  <2>3. QED
    BY <2>1, <2>2
<1>15. ASSUME NEW i \in DOMAIN out, NEW j \in DOMAIN out, Rank(i) <= Limit, ~(Rank(j) <= Limit)
       PROVE  Before(i, j)
  <2>1. ~(Rank(j) < Rank(i)) /\ i # j
    BY <1>1, <1>2, <1>15
  <2>2. ~Before(j, i)
    BY <2>1, RankFollowsOrder
  <2>3. QED
    BY <2>1, <2>2, BeforeIsOrder
<1>16. ASSUME Once(Seq(Edge), out) PROVE Cardinality(ToSet(got)) = m
  <2> DEFINE T == 1..m
             V == ToSet(got)
  <2>1. IsFiniteSet(T) /\ Cardinality(T) = m
    <3>1. IsFiniteSet(1..m) /\ Cardinality(1..m) = IF 1 > m THEN 0 ELSE m - 1 + 1
      BY <1>10, FS_Interval
    <3>2. QED
      BY <1>10, <3>1
  <2>2. got \in [T -> V] /\ \A v \in V : \E k \in T : got[k] = v
    <3>1. got = [k \in T |-> got[k]]
      BY <1>9, <1>10, LenProperties
    <3>2. V = {got[k] : k \in T}
      BY <1>10 DEF ToSet
    <3> HIDE DEF V, T
    <3>3. QED
      BY <3>1, <3>2
  <2>3. ASSUME NEW k \in T, NEW l \in T, got[k] = got[l] PROVE k = l
    <3>1. at[k] = at[l]
      BY <1>1, <1>12, <1>16, <2>3 DEF Once
    <3>2. QED
      BY <1>12, <3>1
  <2> HIDE DEF T, V
  <2>4. got \in Surjection(T, V)
    BY <2>2 DEF Surjection
  <2>5. got \in Injection(T, V)
    BY <2>2, <2>3 DEF Injection, IsInjective
  <2>6. Cardinality(V) = Cardinality(T)
    BY <2>1, <2>4, <2>5, FS_Surjection
  <2>7. QED
    BY <2>1, <2>6 DEF V
<1>17. QED
  BY <1>5, <1>9, <1>14, <1>15, <1>16 DEF n, m

-----------------------------------------------------------------------------
(* The theorems about what is returned *)

ReturnInv == SearchInv /\ Simple /\ (Doubled \/ Distinct)

LEMMA ReturnInvariant == SearchSpec => []ReturnInv
<1>1. SearchInit => ReturnInv
  BY InitSearchInv, InitSimple, InitDistinct DEF ReturnInv
<1>2. ReturnInv /\ [SearchNext]_searchVars => ReturnInv'
  <2> SUFFICES ASSUME ReturnInv, [SearchNext]_searchVars PROVE ReturnInv'
    OBVIOUS
  <2>1. SearchInv'
    BY NextSearchInv DEF ReturnInv
  <2>2. edges' = edges
    BY DEF SearchNext, FindPaths, GrowSubtree, searchVars, graphVars
  <2>3. Simple' /\ (Doubled' <=> Doubled)
    BY <2>2 DEF ReturnInv, Simple, Once, ToSet, Doubled, Key, Turned
  <2>4. Doubled' \/ Distinct'
    <3>1. CASE Doubled
      BY <2>3, <3>1
    <3>2. CASE ~Doubled /\ FindPaths
      <4>1. queue # << >> /\ ~Enough /\ Expand
        BY <3>2 DEF FindPaths
      <4>2. edges \in Seq(Edge) /\ Simple /\ PathInv /\ Distinct
        BY <3>2 DEF ReturnInv, SearchInv
      <4>3. QED
        BY <3>2, <4>1, <4>2, ExpandKeepsDistinct
    <3>3. CASE ~Doubled /\ ~FindPaths
      <4>1. queue' = queue /\ out' = out
        BY <3>3 DEF SearchNext, GrowSubtree, searchVars, pathVars
      <4>2. Distinct
        BY <3>3 DEF ReturnInv
      <4>3. QED
        BY <4>1, <4>2 DEF Distinct, Once, ToSet
    <3>4. QED
      BY <3>1, <3>2, <3>3
  <2>5. QED
    BY <2>1, <2>3, <2>4 DEF ReturnInv
<1>3. QED
  BY <1>1, <1>2, PTL DEF SearchSpec

\* A search that was not stopped early has found every route.
LEMMA AllFound ==
  ASSUME SearchInv, PathsDone, ~Enough
  PROVE  Routes \subseteq ToSet(out)
<1>1. queue = << >>
  BY DEF PathsDone
<1>2. ToSet(queue) = {}
  BY <1>1, NoneType
<1>3. QED
  BY <1>2 DEF SearchInv, PathInv

\* Whatever graph and bounds, and wherever the search is stopped, no path is shorter than one
\* returned in its place, all are returned when they are fewer than asked for, and none twice.
THEOREM NearestAreReturned == SearchSpec => []NearestPathsReturned
<1>1. ReturnInv => NearestPathsReturned
  <2> SUFFICES ASSUME ReturnInv, PathsDone
               PROVE  /\ \A p \in Reaching \ ToSet(Returned) : \A q \in ToSet(Returned) : Len(q) <= Len(p)
                      /\ Len(Returned) < Limit => ToSet(Returned) = Reaching
                      /\ ~Doubled => Cardinality(ToSet(Returned)) = Len(Returned)
    BY DEF NearestPathsReturned
  <2>1. /\ SearchInv /\ edges \in Seq(Edge) /\ out \in Seq(Seq(Edge)) /\ ToSet(out) \subseteq Routes
        /\ \A r \in Routes \ ToSet(out) : \A o \in ToSet(out) : Len(o) <= Len(r)
    BY DEF ReturnInv, SearchInv, PathInv
  <2>2. Reaching = Routes
    BY <2>1, ReachingIsRoutes
  <2>3. ASSUME NEW p \in Reaching \ ToSet(Returned), NEW q \in ToSet(Returned) PROVE Len(q) <= Len(p)
    <3>1. PICK j \in DOMAIN out : Rank(j) <= Limit /\ q = out[j]
      BY <2>1, ReturnedAre
    <3>2. CASE p \in ToSet(out)
      <4>1. PICK i \in DOMAIN out : p = out[i]
        BY <3>2 DEF ToSet
      <4>2. ~(Rank(i) <= Limit)
        BY <2>1, <2>3, <4>1, ReturnedAre
      <4>3. Before(j, i)
        BY <2>1, <3>1, <4>2, ReturnedAre
      <4>4. Len(out[j]) \in Nat /\ Len(out[i]) \in Nat
        BY <2>1, LenProperties
      <4>5. QED
        BY <3>1, <4>1, <4>3, <4>4 DEF Before
    <3>3. CASE p \notin ToSet(out)
      <4>1. q \in ToSet(out)
        BY <3>1 DEF ToSet
      <4>2. QED
        BY <2>1, <2>2, <2>3, <3>3, <4>1
    <3>4. QED
      BY <3>2, <3>3
  <2>4. ASSUME Len(Returned) < Limit PROVE ToSet(Returned) = Reaching
    <3>1. Len(out) \in Nat /\ Limit \in Nat /\ DOMAIN out = 1..Len(out)
      BY <2>1, LenProperties, BoundsAssumption
    <3>2. Len(out) < Limit
      <4>1. Len(Returned) = IF Len(out) < Limit THEN Len(out) ELSE Limit
        BY <2>1, ReturnedAre
      <4>2. QED
        BY <2>4, <3>1, <4>1
    <3>3. ~Enough
      BY <3>1, <3>2 DEF Enough
    <3>4. \A i \in DOMAIN out : Rank(i) <= Limit
      <4>1. \A i \in DOMAIN out : Rank(i) \in 1..Len(out)
        BY <2>1, RankType
      <4>2. QED
        BY <3>1, <3>2, <4>1
    <3>5. ToSet(Returned) = ToSet(out)
      <4>1. \A p : p \in ToSet(Returned) <=> \E i \in DOMAIN out : p = out[i]
        BY <2>1, <3>4, ReturnedAre
      <4>2. QED
        BY <4>1 DEF ToSet
    <3>6. Routes = ToSet(out)
      BY <2>1, <3>3, AllFound
    <3>7. QED
      BY <2>2, <3>5, <3>6
  <2>5. ASSUME ~Doubled PROVE Cardinality(ToSet(Returned)) = Len(Returned)
    <3>1. Once(Seq(Edge), out)
      BY <2>5 DEF ReturnInv, Distinct
    <3>2. QED
      BY <2>1, <3>1, ReturnedAre
  <2>6. QED
    BY <2>3, <2>4, <2>5
<1>2. QED
  BY <1>1, ReturnInvariant, PTL

\* A search that ran to its end returns the heaviest of the paths of each length.
THEOREM HeaviestAreReturned == SearchSpec => []HeaviestOfLengthReturned
<1>1. SearchInv => HeaviestOfLengthReturned
  <2> SUFFICES ASSUME SearchInv, PathsDone, ~Enough,
                      NEW p \in Reaching \ ToSet(Returned), NEW q \in ToSet(Returned), Len(q) = Len(p)
               PROVE  Weight(q) >= Weight(p)
    BY DEF HeaviestOfLengthReturned
  <2>1. edges \in Seq(Edge) /\ out \in Seq(Seq(Edge))
    BY DEF SearchInv, PathInv
  <2>2. p \in ToSet(out)
    BY <2>1, ReachingIsRoutes, AllFound
  <2>3. PICK i \in DOMAIN out : p = out[i]
    BY <2>2 DEF ToSet
  <2>4. PICK j \in DOMAIN out : Rank(j) <= Limit /\ q = out[j]
    BY <2>1, ReturnedAre
  <2>5. ~(Rank(i) <= Limit)
    BY <2>1, <2>3, ReturnedAre
  <2>6. Before(j, i)
    BY <2>1, <2>4, <2>5, ReturnedAre
  <2>7. p \in Seq(Edge) /\ q \in Seq(Edge)
    BY <2>1, <2>3, <2>4, LenProperties
  <2>8. Weight(q) \in Nat /\ Weight(p) \in Nat /\ Len(p) \in Nat /\ Len(q) \in Nat
    BY <2>7, WeightType, LenProperties
  <2>9. Len(q) < Len(p) \/ Weight(q) > Weight(p) \/ Weight(q) = Weight(p)
    BY <2>3, <2>4, <2>6 DEF Before
  <2>10. QED
    BY <2>8, <2>9
<1>2. QED
  BY <1>1, SearchInvariant, PTL
=============================================================================
