----------------------------- MODULE DocSearch -----------------------------
(***************************************************************************)
(* search_event_docs (app/tools/rag.py): the documents for a list of       *)
(* queries come from the table event_docs and, while too few are found,    *)
(* from the news API; when the API fails, documents are made up.  All of   *)
(* them are stored, and the result is cached.  At the end of a run the     *)
(* documents it kept are stored again (app/workflows/persistence.py).      *)
(* Runs in several threads share the table and the cache.                  *)
(*                                                                         *)
(* All searches are for one window of time and for all sources but SOCIAL. *)
(* The dates of documents are abstracted: where the newest are taken, any  *)
(* may be.  The table is the SQLite one; a lock is always got in time.     *)
(***************************************************************************)
EXTENDS Integers, Sequences, FiniteSetsExt

CONSTANTS
  Threads,
  Searches,  \* the names of the searches that runs make
  Asked,     \* their queries, without repetition
  TopK,      \* search_top_k
  MadeUpMax, \* made-up documents for a query, at most (6 in the code)
  Articles,  \* genuine documents there are for a query
  Nothing

ASSUME SearchesAssumption ==
  \A k \in Searches : DOMAIN Asked[k] = 1..Len(Asked[k]) /\ Len(Asked[k]) \in 1..6
ASSUME SizesAssumption == TopK \in 1..50 /\ MadeUpMax \in 1..6 /\ Articles \in Nat

VARIABLES
  pc,      \* where each thread is
  search,  \* the search it makes
  at,      \* the next query of it
  docs,    \* the documents found, each with its query
  count,   \* how many were found, with repetitions
  modes,   \* source_modes
  error,   \* upstream_errors is not empty
  kept,    \* the result it returns
  table,   \* event_docs: the query each stored document is found by
  cache,   \* the cached result of every search
  live,    \* it has not expired
  up       \* the news API answers

threadVars == <<pc, search, at, docs, count, modes, error, kept>>
vars == <<threadVars, table, cache, live, up>>

Queries == UNION {{Asked[k][i] : i \in DOMAIN Asked[k]} : k \in Searches}

\* The identity of a document comes from its contents and the query it was
\* found by; made-up documents are the same at every outage.
Doc(kind, q, n) == [kind |-> kind, query |-> q, number |-> n]
Docs == [kind : {"made"}, query : Queries, number : 1..MadeUpMax]
          \union [kind : {"genuine"}, query : Queries, number : 1..Articles]

\* Documents, each with the query it is found by.
Labelled == UNION {[D -> Queries] : D \in SUBSET Docs}

Result == [docs  : Labelled,
           modes : SUBSET {"STORE", "NEWS_API", "SYNTHETIC_FALLBACK"},
           error : BOOLEAN]

ASSUME NothingAssumption == Nothing \notin Result

Restricted(f, S) == [x \in S |-> f[x]]
\* The rows of new replace those of old that have their keys.
Over(new, old) ==
  [x \in DOMAIN new \union DOMAIN old |-> IF x \in DOMAIN new THEN new[x] ELSE old[x]]

Init ==
  /\ pc = [t \in Threads |-> "idle"]
  /\ search \in [Threads -> Searches]
  /\ at = [t \in Threads |-> 1]
  /\ docs = [t \in Threads |-> << >>]
  /\ count = [t \in Threads |-> 0]
  /\ modes = [t \in Threads |-> {}]
  /\ error = [t \in Threads |-> FALSE]
  /\ kept = [t \in Threads |-> Nothing]
  /\ table = << >>
  /\ cache = [k \in Searches |-> Nothing]
  /\ live = [k \in Searches |-> FALSE]
  /\ up \in BOOLEAN

HitsAlways(k) == cache[k] # Nothing  \* mutant: an expired record is served
Hits(k) == live[k]

Ask(t) ==
  /\ pc[t] = "idle"
  /\ \E k \in Searches :
       /\ search' = [search EXCEPT ![t] = k]
       /\ \/ /\ Hits(k)
             /\ pc' = [pc EXCEPT ![t] = "returned"]
             /\ kept' = [kept EXCEPT ![t] = cache[k]]
          \/ ~Hits(k) /\ pc' = [pc EXCEPT ![t] = "store"] /\ UNCHANGED kept
  /\ UNCHANGED <<at, docs, count, modes, error, table, cache, live, up>>

Asking(t) == Asked[search[t]]
AtLast(t) == at[t] = Len(Asking(t))
StoreLimit(k) == Max({1, Min({25, TopK \div Len(Asked[k]) + 2})})

\* The documents stored under a query, at most limit of them.
StoredUnder(q, limit) ==
  LET found == {d \in DOMAIN table : table[d] = q}
  IN  kSubset(Min({limit, Cardinality(found)}), found)

\* _query_docs_from_store leaves out the query of a document, so that later it
\* counts as found by the first one.
ReadStore(t) ==
  /\ pc[t] = "store"
  /\ \E found \in StoredUnder(Asking(t)[at[t]], StoreLimit(search[t])) :
       /\ docs' = [docs EXCEPT ![t] = Over([d \in found |-> Asking(t)[1]], @)]
       /\ count' = [count EXCEPT ![t] = @ + Cardinality(found)]
       /\ modes' = [modes EXCEPT ![t] = IF found = {} THEN @ ELSE {"STORE"}]
  /\ pc' = [pc EXCEPT ![t] = IF AtLast(t) THEN "fetch" ELSE "store"]
  /\ at' = [at EXCEPT ![t] = IF AtLast(t) THEN 1 ELSE @ + 1]
  /\ UNCHANGED <<search, error, kept, table, cache, live, up>>

Need(t) == Max({1, TopK - count[t]})

\* Every fourth document made up is from SOCIAL, and filtered.
MadeUp(q, n) == {Doc("made", q, i) : i \in {i \in 1..Max({1, Min({MadeUpMax, n})}) : i % 4 # 0}}
Published(q, n) ==
  {s \in SUBSET {Doc("genuine", q, i) : i \in 1..Articles} : Cardinality(s) <= n}

IngestedGenuine(found) == {d \in found : d.kind = "genuine"}  \* mutant
Ingested(found) == found

ErredLast(t) == ~up  \* mutant: the last query decides
Erred(t) == error[t] \/ ~up

\* One query is fetched from the news API, or its documents are made up, and
\* what was got is stored under the query.
Fetch(t) ==
  /\ pc[t] = "fetch" /\ count[t] < TopK
  /\ LET q == Asking(t)[at[t]]
     IN  \E found \in IF up THEN Published(q, Need(t)) ELSE {MadeUp(q, Need(t))} :
           /\ docs' = [docs EXCEPT ![t] = Over([d \in found |-> q], @)]
           /\ count' = [count EXCEPT ![t] = @ + Cardinality(found)]
           /\ table' = Over([d \in Ingested(found) |-> q], table)
  /\ modes' = [modes EXCEPT ![t] = @ \union {IF up THEN "NEWS_API" ELSE "SYNTHETIC_FALLBACK"}]
  /\ error' = [error EXCEPT ![t] = Erred(t)]
  /\ pc' = [pc EXCEPT ![t] = IF AtLast(t) THEN "merge" ELSE "fetch"]
  /\ at' = [at EXCEPT ![t] = IF AtLast(t) THEN @ ELSE @ + 1]
  /\ UNCHANGED <<search, kept, cache, live, up>>

NewestAll(n, found) == {found}  \* mutant: the result is not cut
Newest(n, found) == kSubset(Min({n, Cardinality(found)}), found)

\* The first TopK documents are cached and returned.
Merge(t) ==
  /\ pc[t] = "merge" \/ (pc[t] = "fetch" /\ count[t] >= TopK)
  /\ \E chosen \in Newest(TopK, DOMAIN docs[t]) :
       LET result == [docs |-> Restricted(docs[t], chosen),
                      modes |-> IF modes[t] = {} THEN {"STORE"} ELSE modes[t],
                      error |-> error[t]]
       IN  /\ kept' = [kept EXCEPT ![t] = result]
           /\ cache' = [cache EXCEPT ![search[t]] = result]
  /\ live' = [live EXCEPT ![search[t]] = TRUE]
  /\ pc' = [pc EXCEPT ![t] = "returned"]
  /\ at' = [at EXCEPT ![t] = 1]
  /\ docs' = [docs EXCEPT ![t] = << >>]
  /\ count' = [count EXCEPT ![t] = 0]
  /\ modes' = [modes EXCEPT ![t] = {}]
  /\ error' = [error EXCEPT ![t] = FALSE]
  /\ UNCHANGED <<search, table, up>>

\* rerank_docs, and what else a run does with the documents before it persists them.
Selections(found) == SUBSET found

\* The run persists the documents it kept, with the queries they now have; or it
\* ends before that.
Persist(t) ==
  /\ pc[t] = "returned"
  /\ \E chosen \in Selections(DOMAIN kept[t].docs) :
       table' = Over(Restricted(kept[t].docs, chosen), table)
  /\ kept' = [kept EXCEPT ![t] = Nothing]
  /\ pc' = [pc EXCEPT ![t] = "idle"]
  /\ UNCHANGED <<search, at, docs, count, modes, error, cache, live, up>>

Expire(k) == live[k] /\ live' = [live EXCEPT ![k] = FALSE] /\ UNCHANGED <<threadVars, table, cache, up>>

NewsApiChanges == up' = ~up /\ UNCHANGED <<threadVars, table, cache, live>>

Step(t) == Ask(t) \/ ReadStore(t) \/ Fetch(t) \/ Merge(t) \/ Persist(t)

Next ==
  \/ NewsApiChanges
  \/ \E k \in Searches : Expire(k)
  \/ \E t \in Threads : Step(t)

Spec == Init /\ [][Next]_vars

\* Time passes, and a run that was begun goes on; nobody need begin one.  What
\* was cached expires even if it is stored again in between: SF.
FairSpec ==
  /\ Spec
  /\ \A k \in Searches : SF_vars(Expire(k))
  /\ \A t \in Threads : WF_vars(pc[t] # "idle" /\ Step(t))

-----------------------------------------------------------------------------
(* Properties *)

\* The results that a run has or can get.
Results == ({cache[k] : k \in Searches} \union {kept[t] : t \in Threads}) \ {Nothing}

TypeOK ==
  /\ pc \in [Threads -> {"idle", "store", "fetch", "merge", "returned"}]
  /\ search \in [Threads -> Searches]
  /\ at \in [Threads -> Nat]
  /\ docs \in [Threads -> Labelled]
  /\ count \in [Threads -> Nat]
  /\ modes \in [Threads -> SUBSET {"STORE", "NEWS_API", "SYNTHETIC_FALLBACK"}]
  /\ error \in [Threads -> BOOLEAN]
  /\ kept \in [Threads -> Result \union {Nothing}]
  /\ table \in Labelled
  /\ cache \in [Searches -> Result \union {Nothing}]
  /\ live \in [Searches -> BOOLEAN]
  /\ up \in BOOLEAN
  /\ \A t \in Threads : at[t] \in DOMAIN Asking(t) /\ (pc[t] = "returned" => kept[t] # Nothing)
  /\ \A t \in Threads : Cardinality(DOMAIN docs[t]) <= count[t]
  /\ \A r \in Results : Cardinality(DOMAIN r.docs) <= TopK
  /\ \A k \in Searches : live[k] => cache[k] # Nothing

\* When some query of a search succeeds and another fails, or the result is
\* served from the cache later: a result with made-up documents reports the
\* failure or, at least, that it has documents from the store.
FallbackIsFlagged ==
  \A r \in Results :
    (\E d \in DOMAIN r.docs : d.kind = "made") => r.error \/ "STORE" \in r.modes

\* The documents that a report cites as evidence are in the table, also those
\* that came from the cache, whoever stored or moved them meanwhile.
DocsAreTraceable == \A r \in Results : DOMAIN r.docs \subseteq DOMAIN table

\* Once the news API stays up, results of failed searches are at some time
\* returned no more, although they are cached like the others.
FlagClears == <>[]up => <>[](\A t \in Threads : pc[t] = "returned" => ~kept[t].error)

\* BACKLOG.md: abnormal data is reflected in data_quality; a result with made-up
\* documents reports the failure, which is what degrades data_quality.
MadeUpDocsAreFlagged ==
  \A r \in Results : (\E d \in DOMAIN r.docs : d.kind = "made") => r.error
=============================================================================
