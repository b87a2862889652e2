---------------------------- MODULE GraphSource ----------------------------
(***************************************************************************)
(* The graph tools (app/tools/graph.py) called by the threads of a server  *)
(* for one ticker and one entity: the shared Neo4j driver, which is opened *)
(* on first use and not again within a cool-down after a failure, the      *)
(* queries, the synthetic graph that stands in for them, and the results   *)
(* cached per tool.  compute_exposure_score calls find_impact_paths, whose *)
(* result is cached too.                                                   *)
(*                                                                         *)
(* What the tools compute from the nodes and edges is the subject of       *)
(* GraphSearch; here a result is its source and the age of the graph it    *)
(* was computed from.  Time is discrete.  Neo4j is configured and, when it *)
(* is up, has the company; the entity and the ticker are valid, so no tool *)
(* returns an error.  find_impact_paths is called with the hops (5) of the *)
(* nested call: other hops have a key of their own.                        *)
(***************************************************************************)
EXTENDS Integers, Functions, FiniteSetsExt

CONSTANTS
  Threads,
  Tools,       \* the tools that are called
  Ttl,         \* GRAPH_SUBTREE_TTL_SECONDS and so on, per tool, in ticks
  Cooldown,    \* NEO4J_RETRY_COOLDOWN_SECONDS, in ticks
  MaxLag,      \* bound on the ticks from having a result to caching it
  Nothing

AllTools == {"subtree", "paths", "exposure"}

ASSUME ThreadsAssumption == IsFiniteSet(Threads) /\ Tools \subseteq AllTools
ASSUME TtlAssumption == Ttl \in [AllTools -> Nat \ {0}]
ASSUME CooldownAssumption == Cooldown \in Nat \ {0} /\ MaxLag \in Nat

VARIABLES
  pc,        \* where each thread is in its tool
  tool,      \* the tool it runs
  held,      \* the result it has or returns
  lag,       \* ticks since it has it
  record,    \* the cached result of every tool
  left,      \* ticks until it expires
  driver,    \* _NEO4J_DRIVER is set
  opened,    \* drivers that were opened and not closed
  failures,  \* failures[a] = failed attempts to connect, a ticks ago
  up         \* Neo4j answers

threadVars == <<pc, tool, held, lag>>
cacheVars == <<record, left>>
driverVars == <<driver, opened, failures>>
vars == <<threadVars, cacheVars, driverVars, up>>

Places == {"idle", "nested", "driver", "connecting", "query", "loaded", "derived", "returned"}

\* The oldest graph a result may be computed from, and one more.
OldestAge == Ttl["subtree"] + Ttl["paths"] + Ttl["exposure"] + MaxLag + MaxLag + 1
Result == [source : {"NEO4J", "SYNTHETIC"}, age : 0..OldestAge]

ASSUME NothingAssumption == Nothing \notin Result

Fresh(source) == [source |-> source, age |-> 0]
Older(r) == [source |-> r.source, age |-> IF r.age < OldestAge THEN r.age + 1 ELSE r.age]

Init ==
  /\ pc = [t \in Threads |-> "idle"]
  /\ tool \in [Threads -> Tools]
  /\ held = [t \in Threads |-> Nothing]
  /\ lag = [t \in Threads |-> 0]
  /\ record = [k \in AllTools |-> Nothing]
  /\ left = [k \in AllTools |-> 0]
  /\ driver = FALSE
  /\ opened = 0
  /\ failures = [a \in 0..Cooldown-1 |-> 0]
  /\ up \in BOOLEAN

Go(t, place) == pc' = [pc EXCEPT ![t] = place]
Hold(t, r, place) ==
  /\ Go(t, place)
  /\ held' = [held EXCEPT ![t] = r]
  /\ lag' = [lag EXCEPT ![t] = 0]

\* The tool whose result is computed from the graph, and cached first.
Base(k) == IF k = "exposure" THEN "paths" ELSE k

HitsAlways(k) == record[k] # Nothing  \* mutant: an expired record is served
Hits(k) == left[k] > 0

Call(t) ==
  /\ pc[t] = "idle"
  /\ \E k \in Tools :
       /\ tool' = [tool EXCEPT ![t] = k]
       /\ \/ Hits(k) /\ Hold(t, record[k], "returned")
          \/ /\ ~Hits(k)
             /\ Go(t, IF k = "exposure" THEN "nested" ELSE "driver")
             /\ UNCHANGED <<held, lag>>
  /\ UNCHANGED <<cacheVars, driverVars, up>>

\* compute_exposure_score asks find_impact_paths, which asks the cache.
AskPaths(t) ==
  /\ pc[t] = "nested"
  /\ \/ Hits("paths") /\ Hold(t, record["paths"], "derived")
     \/ ~Hits("paths") /\ Go(t, "driver") /\ UNCHANGED <<held, lag>>
  /\ UNCHANGED <<tool, cacheVars, driverVars, up>>

CoolingNever == FALSE  \* mutant: a failure is forgotten at once
Cooling == SumFunction(failures) > 0

\* _get_neo4j_driver: use the driver, or none while cooling down, or open one.
GetDriver(t) ==
  /\ pc[t] = "driver"
  /\ \/ driver /\ Go(t, "query") /\ UNCHANGED <<held, lag>>
     \/ ~driver /\ Cooling /\ Hold(t, Fresh("SYNTHETIC"), "loaded")
     \/ ~driver /\ ~Cooling /\ Go(t, "connecting") /\ UNCHANGED <<held, lag>>
  /\ UNCHANGED <<tool, cacheVars, driverVars, up>>

\* Threads that were here together each open a driver; the last one is kept.
Connect(t) ==
  /\ pc[t] = "connecting"
  /\ \/ /\ up
        /\ driver' = TRUE
        /\ opened' = opened + 1
        /\ Go(t, "query")
        /\ UNCHANGED <<held, lag, failures>>
     \/ /\ ~up
        /\ failures' = [failures EXCEPT ![0] = @ + 1]
        /\ Hold(t, Fresh("SYNTHETIC"), "loaded")
        /\ UNCHANGED <<driver, opened>>
  /\ UNCHANGED <<tool, cacheVars, up>>

\* Mutant: a driver whose query fails is given up.
QueryOrDrop(t) ==
  /\ pc[t] = "query"
  /\ \/ up /\ Hold(t, Fresh("NEO4J"), "loaded") /\ UNCHANGED driver
     \/ ~up /\ Hold(t, Fresh("SYNTHETIC"), "loaded") /\ driver' = FALSE
  /\ UNCHANGED <<tool, cacheVars, opened, failures, up>>

\* _neo4j_subtree: a query that fails is no reason to give up the driver.
Query(t) ==
  /\ pc[t] = "query"
  /\ Hold(t, Fresh(IF up THEN "NEO4J" ELSE "SYNTHETIC"), "loaded")
  /\ UNCHANGED <<tool, cacheVars, driverVars, up>>

Cache(k, r) ==
  /\ record' = [record EXCEPT ![k] = r]
  /\ left' = [left EXCEPT ![k] = Ttl[k]]

Store(t) ==
  /\ pc[t] = "loaded"
  /\ Cache(Base(tool[t]), held[t])
  /\ \/ tool[t] = "exposure" /\ Hold(t, held[t], "derived")
     \/ tool[t] # "exposure" /\ Go(t, "returned") /\ UNCHANGED <<held, lag>>
  /\ UNCHANGED <<tool, driverVars, up>>

\* The exposure score is computed from the paths and cached.
StoreExposure(t) ==
  /\ pc[t] = "derived"
  /\ Cache("exposure", held[t])
  /\ Go(t, "returned")
  /\ UNCHANGED <<tool, held, lag, driverVars, up>>

Return(t) ==
  /\ pc[t] = "returned"
  /\ Hold(t, Nothing, "idle")
  /\ UNCHANGED <<tool, cacheVars, driverVars, up>>

Neo4jChanges == up' = ~up /\ UNCHANGED <<threadVars, cacheVars, driverVars>>

Caching(t) == pc[t] \in {"loaded", "derived"}

\* A returned result keeps the age it had when it was returned.
Tick ==
  /\ \A t \in Threads : Caching(t) => lag[t] < MaxLag
  /\ held' = [t \in Threads |-> IF Caching(t) THEN Older(held[t]) ELSE held[t]]
  /\ lag' = [t \in Threads |-> IF Caching(t) THEN lag[t] + 1 ELSE 0]
  /\ record' = [k \in AllTools |-> IF record[k] = Nothing THEN Nothing ELSE Older(record[k])]
  /\ left' = [k \in AllTools |-> IF left[k] > 0 THEN left[k] - 1 ELSE 0]
  /\ failures' = [a \in 0..Cooldown-1 |-> IF a = 0 THEN 0 ELSE failures[a - 1]]
  /\ UNCHANGED <<pc, tool, driver, opened, up>>

Step(t) ==
  \/ Call(t) \/ AskPaths(t) \/ GetDriver(t) \/ Connect(t) \/ Query(t)
  \/ Store(t) \/ StoreExposure(t) \/ Return(t)

Next == Tick \/ Neo4jChanges \/ \E t \in Threads : Step(t)

Spec == Init /\ [][Next]_vars

\* Time passes and a call that was begun goes on; nobody need begin one.
FairSpec ==
  /\ Spec
  /\ WF_vars(Tick)
  /\ \A t \in Threads : WF_vars(pc[t] # "idle" /\ Step(t))

-----------------------------------------------------------------------------
(* Properties *)

TypeOK ==
  /\ pc \in [Threads -> Places]
  /\ tool \in [Threads -> Tools]
  /\ held \in [Threads -> Result \union {Nothing}]
  /\ \A t \in Threads : pc[t] \in {"loaded", "derived", "returned"} => held[t] # Nothing
  /\ lag \in [Threads -> 0..MaxLag]
  /\ record \in [AllTools -> Result \union {Nothing}]
  /\ \A k \in AllTools : left[k] \in 0..Ttl[k] /\ (record[k] = Nothing => left[k] = 0)
  /\ driver \in BOOLEAN /\ opened \in Nat /\ up \in BOOLEAN
  /\ failures \in [0..Cooldown-1 -> Nat]

\* The check for a driver and its opening are not atomic, so threads may open
\* drivers that the next one overwrites and nobody closes: at most one for each
\* thread, in all the time of the process and through any outages.
OpenDriversAreBounded == opened <= Cardinality(Threads)

\* Nor do threads that were connecting before the first of them failed count as
\* retries: in no cool-down do more attempts fail than there are threads.
FailuresAreSpaced == SumFunction(failures) <= Cardinality(Threads)

\* The exposure score is cached on top of cached paths, so the graph behind it
\* may be as old as both times to live together, but no older, however expiry
\* and stores of several threads interleave.
MaxAge(k) ==
  IF k = "exposure" THEN Ttl["paths"] + Ttl["exposure"] + MaxLag + MaxLag ELSE Ttl[k] + MaxLag
ResultsAreFresh ==
  \A t \in Threads : pc[t] = "returned" => held[t].age <= MaxAge(tool[t])

\* Once Neo4j stays up, results of the synthetic graph are at some time returned
\* no more, although they are cached like the others and are not marked.
GraphRecovers ==
  <>[]up => <>[](\A t \in Threads : pc[t] = "returned" => held[t].source = "NEO4J")
=============================================================================
