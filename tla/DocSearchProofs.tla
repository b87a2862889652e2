-------------------------- MODULE DocSearchProofs --------------------------
(***************************************************************************)
(* Theorems about the searches for documents, for any number of threads    *)
(* and searches, any queries, and any limits: type correctness, that every *)
(* document a run may cite is stored, and that made-up documents never     *)
(* pass for ones of the news API.                                          *)
(***************************************************************************)
EXTENDS DocSearch, FiniteSetTheorems, TLAPS

-----------------------------------------------------------------------------
(* Numbers *)

LEMMA MinOfTwo ==
  ASSUME NEW a \in Int, NEW b \in Int
  PROVE  Min({a, b}) \in {a, b} /\ Min({a, b}) <= a /\ Min({a, b}) <= b
<1>1. \E x \in {a, b} : \A y \in {a, b} : x =< y
  <2>1. CASE a <= b
    BY <2>1
  <2>2. CASE ~(a <= b)
    BY <2>2
  <2>3. QED
    BY <2>1, <2>2
<1>2. Min({a, b}) \in {a, b} /\ \A y \in {a, b} : Min({a, b}) =< y
  BY <1>1 DEF Min
<1>3. QED
  BY <1>2

LEMMA MaxOfTwo ==
  ASSUME NEW a \in Int, NEW b \in Int
  PROVE  Max({a, b}) \in {a, b} /\ Max({a, b}) >= a /\ Max({a, b}) >= b
<1>1. \E x \in {a, b} : \A y \in {a, b} : x >= y
  <2>1. CASE a >= b
    BY <2>1
  <2>2. CASE ~(a >= b)
    BY <2>2
  <2>3. QED
    BY <2>1, <2>2
<1>2. Max({a, b}) \in {a, b} /\ \A y \in {a, b} : Max({a, b}) >= y
  BY <1>1 DEF Max
<1>3. QED
  BY <1>2

\* The sets of as many elements as there are, but n at most, are finite.
LEMMA FewOf ==
  ASSUME NEW S, IsFiniteSet(S), NEW n \in Int,
         NEW T \in kSubset(Min({n, Cardinality(S)}), S)
  PROVE  T \subseteq S /\ IsFiniteSet(T) /\ Cardinality(T) <= n
<1>1. T \in SUBSET S /\ Cardinality(T) = Min({n, Cardinality(S)})
  BY DEF kSubset
<1>2. Cardinality(S) \in Int
  BY FS_CardinalityType
<1>3. QED
  BY <1>1, <1>2, MinOfTwo, FS_Subset

LEMMA UnionIsSmall ==
  ASSUME NEW S, NEW T, IsFiniteSet(S), IsFiniteSet(T), NEW n \in Nat, Cardinality(T) <= n
  PROVE  /\ IsFiniteSet(S \union T) /\ n + Cardinality(S) \in Nat
         /\ Cardinality(S \union T) <= n + Cardinality(S)
<1>1. /\ IsFiniteSet(S \union T) /\ IsFiniteSet(S \intersect T)
      /\ Cardinality(S \union T) = Cardinality(S) + Cardinality(T) - Cardinality(S \intersect T)
  BY FS_Union, FS_Intersection
<1>2. /\ Cardinality(S) \in Nat /\ Cardinality(T) \in Nat
      /\ Cardinality(S \intersect T) \in Nat /\ Cardinality(S \union T) \in Nat
  BY <1>1, FS_CardinalityType
<1>3. QED
  BY <1>1, <1>2

-----------------------------------------------------------------------------
(* Documents with their queries *)

LEMMA LabelledType ==
  ASSUME NEW f \in Labelled
  PROVE  DOMAIN f \in SUBSET Docs /\ \A d \in DOMAIN f : f[d] \in Queries
BY DEF Labelled

LEMMA IsLabelled ==
  ASSUME NEW D \in SUBSET Docs, NEW f \in [D -> Queries]
  PROVE  f \in Labelled
BY DEF Labelled

LEMMA NoneLabelled == << >> \in Labelled /\ DOMAIN << >> = {}
<1>1. << >> \in [{} -> Queries] /\ DOMAIN << >> = {}
  OBVIOUS
<1>2. {} \in SUBSET Docs
  OBVIOUS
<1>3. QED
  BY <1>1, <1>2, IsLabelled

LEMMA OneLabel ==
  ASSUME NEW D \in SUBSET Docs, NEW q \in Queries
  PROVE  [d \in D |-> q] \in Labelled /\ DOMAIN [d \in D |-> q] = D
<1>1. [d \in D |-> q] \in [D -> Queries]
  OBVIOUS
<1>2. QED
  BY <1>1, IsLabelled

LEMMA OverType ==
  ASSUME NEW f \in Labelled, NEW g \in Labelled
  PROVE  Over(f, g) \in Labelled /\ DOMAIN Over(f, g) = DOMAIN f \union DOMAIN g
<1>1. DOMAIN Over(f, g) = DOMAIN f \union DOMAIN g
  BY DEF Over
<1>2. DOMAIN f \union DOMAIN g \in SUBSET Docs
  BY LabelledType
<1>3. Over(f, g) \in [DOMAIN f \union DOMAIN g -> Queries]
  BY LabelledType DEF Over
<1>4. QED
  BY <1>1, <1>2, <1>3, IsLabelled

LEMMA RestrictedType ==
  ASSUME NEW f \in Labelled, NEW S \in SUBSET DOMAIN f
  PROVE  Restricted(f, S) \in Labelled /\ DOMAIN Restricted(f, S) = S
<1>1. S \in SUBSET Docs /\ Restricted(f, S) \in [S -> Queries]
  BY LabelledType DEF Restricted
<1>2. QED
  BY <1>1, IsLabelled DEF Restricted

LEMMA NumberedAreFinite ==
  ASSUME NEW S, IsFiniteSet(S), NEW kind, NEW q
  PROVE  IsFiniteSet({Doc(kind, q, i) : i \in S})
<1> DEFINE D == {Doc(kind, q, i) : i \in S}
           f == [i \in S |-> Doc(kind, q, i)]
<1>1. f \in Surjection(S, D)
  BY DEF Surjection
<1>2. QED
  BY <1>1, FS_Surjection

\* What is made up or published for a query are finitely many documents.
LEMMA MadeUpType ==
  ASSUME NEW q \in Queries, NEW n \in Int
  PROVE  MadeUp(q, n) \in SUBSET Docs /\ IsFiniteSet(MadeUp(q, n))
<1> DEFINE most == Max({1, Min({MadeUpMax, n})})
           number == {i \in 1..most : i % 4 # 0}
<1>1. MadeUpMax \in Int /\ 1 <= MadeUpMax
  BY SizesAssumption
<1>2. Min({MadeUpMax, n}) \in Int /\ Min({MadeUpMax, n}) <= MadeUpMax
  BY <1>1, MinOfTwo
<1>3. most \in Int /\ most <= MadeUpMax
  <2> DEFINE least == Min({MadeUpMax, n})
  <2>1. least \in Int /\ least <= MadeUpMax
    BY <1>2
  <2> HIDE DEF least
  <2>2. Max({1, least}) \in {1, least}
    BY <2>1, MaxOfTwo
  <2>3. Max({1, least}) \in Int /\ Max({1, least}) <= MadeUpMax
    BY <1>1, <2>1, <2>2
  <2>4. QED
    BY <2>3 DEF least
<1> HIDE DEF most
<1>4. number \subseteq 1..MadeUpMax
  BY <1>1, <1>3
<1>5. IsFiniteSet(number)
  <2>1. IsFiniteSet(1..MadeUpMax)
    BY <1>1, FS_Interval
  <2>2. QED
    BY <1>4, <2>1, FS_Subset
<1>6. MadeUp(q, n) = {Doc("made", q, i) : i \in number}
  BY DEF MadeUp, most
<1> HIDE DEF number
<1>7. IsFiniteSet({Doc("made", q, i) : i \in number})
  BY <1>5, NumberedAreFinite
<1>8. \A i \in 1..MadeUpMax : Doc("made", q, i) \in Docs
  BY DEF Doc, Docs
<1>9. QED
  BY <1>4, <1>6, <1>7, <1>8

LEMMA PublishedType ==
  ASSUME NEW q \in Queries, NEW n, NEW D \in Published(q, n)
  PROVE  D \in SUBSET Docs /\ IsFiniteSet(D) /\ \A d \in D : d.kind = "genuine"
<1>1. D \in SUBSET {Doc("genuine", q, i) : i \in 1..Articles}
  BY DEF Published
<1>2. \A i \in 1..Articles : Doc("genuine", q, i) \in Docs /\ Doc("genuine", q, i).kind = "genuine"
  BY DEF Doc, Docs
<1> DEFINE number == 1..Articles
<1>3. IsFiniteSet(number)
  BY SizesAssumption, FS_Interval
<1> HIDE DEF number
<1>4. IsFiniteSet({Doc("genuine", q, i) : i \in number})
  BY <1>3, NumberedAreFinite
<1>5. QED
  BY <1>1, <1>2, <1>4, FS_Subset DEF number

-----------------------------------------------------------------------------
(* The invariant *)

HasMadeUp(f) == \E d \in DOMAIN f : d.kind = "made"

Shapes ==
  /\ pc \in [Threads -> {"idle", "store", "fetch", "merge", "returned"}]
  /\ search \in [Threads -> Searches]
  /\ at \in [Threads -> Nat]
  /\ docs \in [Threads -> Labelled]
  /\ count \in [Threads -> Nat]
  /\ modes \in [Threads -> SUBSET {"STORE", "NEWS_API", "SYNTHETIC_FALLBACK"}]
  /\ error \in [Threads -> BOOLEAN]
  /\ kept \in [Threads -> Result \union {Nothing}]
  /\ table \in Labelled
  /\ cache \in [Searches -> Result \union {Nothing}]
  /\ live \in [Searches -> BOOLEAN]
  /\ up \in BOOLEAN

\* A search that goes on: what it has found is stored, is no more than it counted,
\* and if some of it is made up it knows of the failure or of the store.
Working(t) ==
  /\ at[t] \in DOMAIN Asking(t)
  /\ pc[t] \in {"idle", "returned"} => at[t] = 1
  /\ pc[t] = "returned" => kept[t] # Nothing
  /\ IsFiniteSet(DOMAIN docs[t]) /\ Cardinality(DOMAIN docs[t]) <= count[t]
  /\ HasMadeUp(docs[t]) => error[t] \/ "STORE" \in modes[t]
  /\ DOMAIN docs[t] \subseteq DOMAIN table

\* A result, returned or cached.
Sound(r) ==
  /\ IsFiniteSet(DOMAIN r.docs) /\ Cardinality(DOMAIN r.docs) <= TopK
  /\ HasMadeUp(r.docs) => r.error \/ "STORE" \in r.modes
  /\ DOMAIN r.docs \subseteq DOMAIN table

IInv ==
  /\ Shapes
  /\ \A t \in Threads : Working(t)
  /\ \A r \in Results : Sound(r)
  /\ IsFiniteSet(DOMAIN table)
  /\ \A k \in Searches : live[k] => cache[k] # Nothing

LEMMA IInvImplies == IInv => TypeOK /\ FallbackIsFlagged /\ DocsAreTraceable
<1> SUFFICES ASSUME IInv PROVE TypeOK /\ FallbackIsFlagged /\ DocsAreTraceable
  OBVIOUS
<1>1. TypeOK
  BY DEF IInv, Shapes, TypeOK, Working, Sound
<1>2. FallbackIsFlagged
  BY DEF IInv, FallbackIsFlagged, Sound, HasMadeUp
<1>3. DocsAreTraceable
  BY DEF IInv, DocsAreTraceable, Sound
<1>4. QED
  BY <1>1, <1>2, <1>3

LEMMA ResultsType == ASSUME Shapes PROVE \A r \in Results : r \in Result
BY DEF Shapes, Results

LEMMA QueryType ==
  ASSUME NEW k \in Searches, NEW i \in DOMAIN Asked[k]
  PROVE  Asked[k][i] \in Queries
BY DEF Queries

\* A search has a first query, and one after each but the last.
LEMMA FirstQuery == ASSUME NEW k \in Searches PROVE 1 \in DOMAIN Asked[k]
BY SearchesAssumption

LEMMA NextQuery ==
  ASSUME NEW k \in Searches, NEW i \in DOMAIN Asked[k], i # Len(Asked[k])
  PROVE  i + 1 \in DOMAIN Asked[k]
BY SearchesAssumption

LEMMA InitIInv == Init => IInv
<1> SUFFICES ASSUME Init PROVE IInv
  OBVIOUS
<1>1. Shapes
  BY NoneLabelled DEF Init, Shapes
<1>2. ASSUME NEW t \in Threads PROVE Working(t)
  <2>1. at[t] = 1 /\ pc[t] = "idle" /\ docs[t] = << >> /\ count[t] = 0 /\ search[t] \in Searches
    BY DEF Init
  <2>2. IsFiniteSet(DOMAIN docs[t]) /\ Cardinality(DOMAIN docs[t]) = 0 /\ DOMAIN docs[t] = {}
    BY <2>1, NoneLabelled, FS_EmptySet
  <2>3. QED
    BY <2>1, <2>2, FirstQuery DEF Working, HasMadeUp, Asking
<1>3. Results = {}
  BY DEF Init, Results
<1>4. IsFiniteSet(DOMAIN table)
  BY NoneLabelled, FS_EmptySet DEF Init
<1>5. QED
  BY <1>1, <1>2, <1>3, <1>4 DEF IInv, Init

-----------------------------------------------------------------------------
(* The steps *)

\* A step leaves the other threads alone, and takes nothing out of the table.
LEMMA OthersWork ==
  ASSUME IInv, NEW u \in Threads, DOMAIN table \subseteq DOMAIN table',
         /\ pc'[u] = pc[u] /\ search'[u] = search[u] /\ at'[u] = at[u] /\ docs'[u] = docs[u]
         /\ count'[u] = count[u] /\ modes'[u] = modes[u] /\ error'[u] = error[u]
         /\ kept'[u] = kept[u]
  PROVE  Working(u)'
<1>1. Working(u)
  BY DEF IInv
<1>2. QED
  BY <1>1 DEF Working, Asking

LEMMA ResultsStay ==
  ASSUME IInv, DOMAIN table \subseteq DOMAIN table', NEW r \in Results
  PROVE  Sound(r)'
BY DEF IInv, Sound

LEMMA SameResults ==
  ASSUME UNCHANGED <<cache, kept>>
  PROVE  Results' = Results
BY DEF Results

LEMMA AskKeepsIInv ==
  ASSUME IInv, NEW t \in Threads, Ask(t)
  PROVE  IInv'
<1>1. PICK k \in Searches :
        /\ search' = [search EXCEPT ![t] = k]
        /\ \/ /\ Hits(k)
              /\ pc' = [pc EXCEPT ![t] = "returned"]
              /\ kept' = [kept EXCEPT ![t] = cache[k]]
           \/ ~Hits(k) /\ pc' = [pc EXCEPT ![t] = "store"] /\ UNCHANGED kept
  BY DEF Ask
<1>2. UNCHANGED <<at, docs, count, modes, error, table, cache, live, up>> /\ pc[t] = "idle"
  BY DEF Ask
<1>3. Shapes'
  BY <1>1, <1>2 DEF IInv, Shapes
<1>4. pc'[t] = "returned" => kept'[t] # Nothing
  BY <1>1 DEF IInv, Shapes, Hits
<1>5. ASSUME NEW u \in Threads PROVE Working(u)'
  <2>1. CASE u = t
    <3>1. Working(t) /\ at[t] = 1
      BY <1>2 DEF IInv, Working
    <3>2. Asking(t)' = Asked[k]
      BY <1>1 DEF IInv, Shapes, Asking
    <3>3. QED
      BY <1>2, <1>4, <2>1, <3>1, <3>2, FirstQuery DEF Working
  <2>2. CASE u # t
    BY <1>1, <1>2, <2>2, OthersWork DEF IInv, Shapes
  <2>3. QED
    BY <2>1, <2>2
<1>6. Results' \subseteq Results
  BY <1>1, <1>2 DEF Results, IInv, Shapes
<1>7. \A r \in Results' : Sound(r)'
  BY <1>2, <1>6, ResultsStay
<1>8. QED
  BY <1>2, <1>3, <1>5, <1>7 DEF IInv

\* Documents that were found are added to those of the search.
LEMMA FoundMore ==
  ASSUME IInv, NEW t \in Threads, NEW found \in SUBSET Docs, NEW q \in Queries,
         IsFiniteSet(found),
         docs' = [docs EXCEPT ![t] = Over([d \in found |-> q], @)],
         count' = [count EXCEPT ![t] = @ + Cardinality(found)]
  PROVE  /\ docs' \in [Threads -> Labelled] /\ DOMAIN docs'[t] = found \union DOMAIN docs[t]
         /\ count' \in [Threads -> Nat]
         /\ IsFiniteSet(DOMAIN docs'[t]) /\ Cardinality(DOMAIN docs'[t]) <= count'[t]
<1> DEFINE new == [d \in found |-> q]
<1>1. new \in Labelled /\ DOMAIN new = found
  BY OneLabel
<1> HIDE DEF new
<1>2. docs \in [Threads -> Labelled] /\ count \in [Threads -> Nat]
  BY DEF IInv, Shapes
<1>3. Over(new, docs[t]) \in Labelled /\ DOMAIN Over(new, docs[t]) = found \union DOMAIN docs[t]
  BY <1>1, <1>2, OverType
<1>4. docs' = [docs EXCEPT ![t] = Over(new, docs[t])]
  BY DEF new
<1>5. docs'[t] = Over(new, docs[t]) /\ docs' \in [Threads -> Labelled]
  BY <1>2, <1>3, <1>4
<1>6. /\ IsFiniteSet(DOMAIN docs[t]) /\ Cardinality(DOMAIN docs[t]) <= count[t]
      /\ count[t] \in Nat
  BY <1>2 DEF IInv, Working
<1>7. /\ IsFiniteSet(found \union DOMAIN docs[t]) /\ count[t] + Cardinality(found) \in Nat
      /\ Cardinality(found \union DOMAIN docs[t]) <= count[t] + Cardinality(found)
  BY <1>6, UnionIsSmall
<1>8. count'[t] = count[t] + Cardinality(found) /\ count' \in [Threads -> Nat]
  BY <1>2, <1>7
<1>9. QED
  BY <1>3, <1>5, <1>7, <1>8

LEMMA ReadStoreKeepsIInv ==
  ASSUME IInv, NEW t \in Threads, ReadStore(t)
  PROVE  IInv'
<1>1. PICK found \in StoredUnder(Asking(t)[at[t]], StoreLimit(search[t])) :
        /\ docs' = [docs EXCEPT ![t] = Over([d \in found |-> Asking(t)[1]], @)]
        /\ count' = [count EXCEPT ![t] = @ + Cardinality(found)]
        /\ modes' = [modes EXCEPT ![t] = IF found = {} THEN @ ELSE {"STORE"}]
  BY DEF ReadStore
<1>2. /\ UNCHANGED <<search, error, kept, table, cache, live, up>>
      /\ pc' = [pc EXCEPT ![t] = IF AtLast(t) THEN "fetch" ELSE "store"]
      /\ at' = [at EXCEPT ![t] = IF AtLast(t) THEN 1 ELSE @ + 1]
  BY DEF ReadStore
<1>3. Working(t) /\ search[t] \in Searches /\ Asking(t) = Asked[search[t]]
  BY DEF IInv, Shapes, Asking
<1>4. found \in SUBSET DOMAIN table
  BY DEF StoredUnder, kSubset
<1>5. IsFiniteSet(found) /\ found \in SUBSET Docs
  BY <1>4, FS_Subset, LabelledType DEF IInv, Shapes
<1>6. Asking(t)[1] \in Queries
  BY <1>3, FirstQuery, QueryType
<1>7. /\ docs' \in [Threads -> Labelled] /\ DOMAIN docs'[t] = found \union DOMAIN docs[t]
      /\ count' \in [Threads -> Nat]
      /\ IsFiniteSet(DOMAIN docs'[t]) /\ Cardinality(DOMAIN docs'[t]) <= count'[t]
  BY <1>1, <1>5, <1>6, FoundMore
<1>8. /\ at' \in [Threads -> Nat] /\ at'[t] \in DOMAIN Asking(t)
      /\ pc' \in [Threads -> {"idle", "store", "fetch", "merge", "returned"}]
      /\ pc'[t] \in {"store", "fetch"}
      /\ modes' \in [Threads -> SUBSET {"STORE", "NEWS_API", "SYNTHETIC_FALLBACK"}]
      /\ modes'[t] = IF found = {} THEN modes[t] ELSE {"STORE"}
  BY <1>1, <1>2, <1>3, FirstQuery, NextQuery DEF IInv, Shapes, Working, AtLast
<1>9. Shapes'
  BY <1>2, <1>7, <1>8 DEF IInv, Shapes
<1>10. HasMadeUp(docs'[t]) => error[t] \/ "STORE" \in modes'[t]
  BY <1>3, <1>7, <1>8 DEF Working, HasMadeUp
<1>11. ASSUME NEW u \in Threads PROVE Working(u)'
  <2>1. CASE u = t
    <3>1. Asking(t)' = Asking(t)
      BY <1>2 DEF Asking
    <3>2. DOMAIN docs'[t] \subseteq DOMAIN table
      BY <1>3, <1>4, <1>7 DEF Working
    <3>3. QED
      BY <1>2, <1>7, <1>8, <1>10, <2>1, <3>1, <3>2 DEF Working
  <2>2. CASE u # t
    BY <1>1, <1>2, <2>2, OthersWork DEF IInv, Shapes
  <2>3. QED
    BY <2>1, <2>2
<1>12. \A r \in Results' : Sound(r)'
  BY <1>2, SameResults, ResultsStay
<1>13. QED
  BY <1>2, <1>9, <1>11, <1>12 DEF IInv

\* What is stored is added to the table, or moved to another query.
LEMMA StoredMore ==
  ASSUME IInv, NEW new \in Labelled, IsFiniteSet(DOMAIN new), table' = Over(new, table)
  PROVE  /\ table' \in Labelled /\ DOMAIN table' = DOMAIN new \union DOMAIN table
         /\ IsFiniteSet(DOMAIN table')
<1>1. table' \in Labelled /\ DOMAIN table' = DOMAIN new \union DOMAIN table
  BY OverType DEF IInv, Shapes
<1>2. QED
  BY <1>1, FS_Union DEF IInv

LEMMA FetchKeepsIInv ==
  ASSUME IInv, NEW t \in Threads, Fetch(t)
  PROVE  IInv'
<1> DEFINE q == Asking(t)[at[t]]
<1>1. PICK found \in IF up THEN Published(q, Need(t)) ELSE {MadeUp(q, Need(t))} :
        /\ docs' = [docs EXCEPT ![t] = Over([d \in found |-> q], @)]
        /\ count' = [count EXCEPT ![t] = @ + Cardinality(found)]
        /\ table' = Over([d \in Ingested(found) |-> q], table)
  BY DEF Fetch
<1>2. /\ UNCHANGED <<search, kept, cache, live, up>>
      /\ modes' = [modes EXCEPT ![t] = @ \union {IF up THEN "NEWS_API" ELSE "SYNTHETIC_FALLBACK"}]
      /\ error' = [error EXCEPT ![t] = Erred(t)]
      /\ pc' = [pc EXCEPT ![t] = IF AtLast(t) THEN "merge" ELSE "fetch"]
      /\ at' = [at EXCEPT ![t] = IF AtLast(t) THEN @ ELSE @ + 1]
  BY DEF Fetch
<1>3. Working(t) /\ search[t] \in Searches /\ Asking(t) = Asked[search[t]]
  BY DEF IInv, Shapes, Asking
<1>4. q \in Queries
  BY <1>3, QueryType DEF Working
<1> HIDE DEF q
<1>5. Need(t) \in Int
  <2>1. TopK - count[t] \in Int
    BY SizesAssumption DEF IInv, Shapes
  <2> DEFINE rest == TopK - count[t]
  <2> HIDE DEF rest
  <2>2. rest \in Int
    BY <2>1 DEF rest
  <2>3. Max({1, rest}) \in {1, rest}
    BY <2>2, MaxOfTwo
  <2>4. QED
    BY <2>2, <2>3 DEF Need, rest
<1>6. found \in SUBSET Docs /\ IsFiniteSet(found) /\ (up => \A d \in found : d.kind = "genuine")
  BY <1>1, <1>4, <1>5, MadeUpType, PublishedType
<1>7. /\ docs' \in [Threads -> Labelled] /\ DOMAIN docs'[t] = found \union DOMAIN docs[t]
      /\ count' \in [Threads -> Nat]
      /\ IsFiniteSet(DOMAIN docs'[t]) /\ Cardinality(DOMAIN docs'[t]) <= count'[t]
  BY <1>1, <1>4, <1>6, FoundMore
<1>8. /\ table' \in Labelled /\ DOMAIN table' = found \union DOMAIN table
      /\ IsFiniteSet(DOMAIN table')
  <2> DEFINE new == [d \in found |-> q]
  <2>1. new \in Labelled /\ DOMAIN new = found
    BY <1>4, <1>6, OneLabel
  <2>2. table' = Over(new, table)
    BY <1>1 DEF Ingested
  <2> HIDE DEF new
  <2>3. QED
    BY <1>6, <2>1, <2>2, StoredMore
<1>9. /\ at' \in [Threads -> Nat] /\ at'[t] \in DOMAIN Asking(t)
      /\ pc' \in [Threads -> {"idle", "store", "fetch", "merge", "returned"}]
      /\ pc'[t] \in {"merge", "fetch"}
      /\ modes' \in [Threads -> SUBSET {"STORE", "NEWS_API", "SYNTHETIC_FALLBACK"}]
      /\ modes[t] \subseteq modes'[t]
  BY <1>2, <1>3, NextQuery DEF IInv, Shapes, Working, AtLast
<1>10. error' \in [Threads -> BOOLEAN] /\ (error'[t] <=> error[t] \/ ~up)
  BY <1>2 DEF IInv, Shapes, Erred
<1>11. Shapes'
  BY <1>2, <1>7, <1>8, <1>9, <1>10 DEF IInv, Shapes
<1>12. HasMadeUp(docs'[t]) => error'[t] \/ "STORE" \in modes'[t]
  <2>1. CASE up
    <3>1. HasMadeUp(docs'[t]) => HasMadeUp(docs[t])
      BY <1>6, <1>7, <2>1 DEF HasMadeUp
    <3>2. QED
      BY <1>3, <1>9, <1>10, <3>1 DEF Working
  <2>2. CASE ~up
    BY <1>10, <2>2
  <2>3. QED
    BY <2>1, <2>2
<1>13. ASSUME NEW u \in Threads PROVE Working(u)'
  <2>1. CASE u = t
    <3>1. Asking(t)' = Asking(t)
      BY <1>2 DEF Asking
    <3>2. DOMAIN docs'[t] \subseteq DOMAIN table'
      BY <1>3, <1>7, <1>8 DEF Working
    <3>3. QED
      BY <1>7, <1>9, <1>12, <2>1, <3>1, <3>2 DEF Working
  <2>2. CASE u # t
    BY <1>1, <1>2, <1>8, <2>2, OthersWork DEF IInv, Shapes
  <2>3. QED
    BY <2>1, <2>2
<1>14. \A r \in Results' : Sound(r)'
  BY <1>2, <1>8, SameResults, ResultsStay
<1>15. QED
  BY <1>2, <1>8, <1>11, <1>13, <1>14 DEF IInv

LEMMA MergeKeepsIInv ==
  ASSUME IInv, NEW t \in Threads, Merge(t)
  PROVE  IInv'
<1>1. PICK chosen \in Newest(TopK, DOMAIN docs[t]) :
        LET result == [docs |-> Restricted(docs[t], chosen),
                       modes |-> IF modes[t] = {} THEN {"STORE"} ELSE modes[t],
                       error |-> error[t]]
        IN  /\ kept' = [kept EXCEPT ![t] = result]
            /\ cache' = [cache EXCEPT ![search[t]] = result]
  BY DEF Merge
<1>2. PICK result :
        /\ result = [docs |-> Restricted(docs[t], chosen),
                     modes |-> IF modes[t] = {} THEN {"STORE"} ELSE modes[t],
                     error |-> error[t]]
        /\ kept' = [kept EXCEPT ![t] = result]
        /\ cache' = [cache EXCEPT ![search[t]] = result]
  BY <1>1
<1>3. /\ UNCHANGED <<search, table, up>>
      /\ live' = [live EXCEPT ![search[t]] = TRUE]
      /\ pc' = [pc EXCEPT ![t] = "returned"]
      /\ at' = [at EXCEPT ![t] = 1]
      /\ docs' = [docs EXCEPT ![t] = << >>]
      /\ count' = [count EXCEPT ![t] = 0]
      /\ modes' = [modes EXCEPT ![t] = {}]
      /\ error' = [error EXCEPT ![t] = FALSE]
  BY DEF Merge
<1>4. Working(t) /\ search[t] \in Searches /\ docs[t] \in Labelled
  BY DEF IInv, Shapes
<1>5. chosen \subseteq DOMAIN docs[t] /\ IsFiniteSet(chosen) /\ Cardinality(chosen) <= TopK
  BY <1>4, FewOf, SizesAssumption DEF Newest, Working
<1>6. Restricted(docs[t], chosen) \in Labelled /\ DOMAIN Restricted(docs[t], chosen) = chosen
  BY <1>4, <1>5, RestrictedType
<1>7. result \in Result
  BY <1>2, <1>6 DEF Result, IInv, Shapes
<1>8. Sound(result)'
  <2>1. DOMAIN result.docs = chosen
    BY <1>2, <1>6
  <2>2. HasMadeUp(result.docs) => HasMadeUp(docs[t])
    BY <1>5, <2>1 DEF HasMadeUp
  <2>3. HasMadeUp(result.docs) => result.error \/ "STORE" \in result.modes
    BY <1>2, <1>4, <2>2 DEF Working
  <2>4. chosen \subseteq DOMAIN table'
    BY <1>3, <1>4, <1>5 DEF Working
  <2>5. QED
    BY <1>5, <2>1, <2>3, <2>4 DEF Sound
<1>9. result # Nothing
  BY <1>7, NothingAssumption
<1>10. Shapes'
  BY <1>2, <1>3, <1>4, <1>7, NoneLabelled DEF IInv, Shapes
<1>11. ASSUME NEW u \in Threads PROVE Working(u)'
  <2>1. CASE u = t
    <3>1. /\ at'[t] = 1 /\ kept'[t] = result /\ docs'[t] = << >> /\ count'[t] = 0
      BY <1>2, <1>3 DEF IInv, Shapes
    <3>2. /\ IsFiniteSet(DOMAIN docs'[t]) /\ Cardinality(DOMAIN docs'[t]) = 0
          /\ DOMAIN docs'[t] = {}
      BY <3>1, NoneLabelled, FS_EmptySet
    <3>3. at'[t] \in DOMAIN Asking(t)'
      BY <1>3, <1>4, <3>1, FirstQuery DEF Asking
    <3>4. QED
      BY <1>9, <2>1, <3>1, <3>2, <3>3 DEF Working, HasMadeUp
  <2>2. CASE u # t
    BY <1>2, <1>3, <2>2, OthersWork DEF IInv, Shapes
  <2>3. QED
    BY <2>1, <2>2
<1>12. Results' \subseteq Results \union {result}
  BY <1>2 DEF Results, IInv, Shapes
<1>13. \A r \in Results' : Sound(r)'
  BY <1>3, <1>8, <1>12, ResultsStay
<1>14. \A k \in Searches : live'[k] => cache'[k] # Nothing
  BY <1>2, <1>3, <1>9 DEF IInv, Shapes
<1>15. QED
  BY <1>3, <1>10, <1>11, <1>13, <1>14 DEF IInv

LEMMA PersistKeepsIInv ==
  ASSUME IInv, NEW t \in Threads, Persist(t)
  PROVE  IInv'
<1>1. /\ pc[t] = "returned"
      /\ kept' = [kept EXCEPT ![t] = Nothing]
      /\ pc' = [pc EXCEPT ![t] = "idle"]
      /\ UNCHANGED <<search, at, docs, count, modes, error, cache, live, up>>
  BY DEF Persist
<1>2. PICK chosen \in SUBSET (DOMAIN kept[t].docs) :
        table' = Over(Restricted(kept[t].docs, chosen), table)
  BY DEF Persist, Selections
<1>3. Working(t)
  BY DEF IInv
<1>4. kept[t] \in Results /\ kept[t] \in Result
  BY <1>1, <1>3 DEF Working, Results, IInv, Shapes
<1>5. kept[t].docs \in Labelled /\ IsFiniteSet(DOMAIN kept[t].docs)
  BY <1>4 DEF IInv, Sound, Result
<1> DEFINE new == Restricted(kept[t].docs, chosen)
<1>6. new \in Labelled /\ DOMAIN new = chosen
  BY <1>5, RestrictedType
<1>7. IsFiniteSet(DOMAIN new)
  BY <1>5, <1>6, FS_Subset
<1>8. table' = Over(new, table)
  BY <1>2
<1> HIDE DEF new
<1>9. /\ table' \in Labelled /\ DOMAIN table \subseteq DOMAIN table'
      /\ IsFiniteSet(DOMAIN table')
  BY <1>6, <1>7, <1>8, StoredMore
<1>10. Shapes'
  BY <1>1, <1>9 DEF IInv, Shapes
<1>11. ASSUME NEW u \in Threads PROVE Working(u)'
  <2>1. CASE u = t
    <3>1. pc'[t] = "idle" /\ Asking(t)' = Asking(t)
      BY <1>1 DEF IInv, Shapes, Asking
    <3>2. QED
      BY <1>1, <1>3, <1>9, <2>1, <3>1 DEF Working
  <2>2. CASE u # t
    BY <1>1, <1>9, <2>2, OthersWork DEF IInv, Shapes
  <2>3. QED
    BY <2>1, <2>2
<1>12. Results' \subseteq Results
  BY <1>1 DEF Results, IInv, Shapes
<1>13. \A r \in Results' : Sound(r)'
  BY <1>9, <1>12, ResultsStay
<1>14. QED
  BY <1>1, <1>9, <1>10, <1>11, <1>13 DEF IInv

\* A step of no thread changes only whether results are live, or the news API is up.
LEMMA NobodysStepKeepsIInv ==
  ASSUME IInv, UNCHANGED <<threadVars, table, cache>>, live' \in [Searches -> BOOLEAN],
         \A k \in Searches : live'[k] => live[k], up' \in BOOLEAN
  PROVE  IInv'
<1>1. UNCHANGED <<pc, search, at, docs, count, modes, error, kept>>
  BY DEF threadVars
<1>2. Shapes'
  BY <1>1 DEF IInv, Shapes
<1>3. \A u \in Threads : Working(u)'
  BY <1>1, OthersWork
<1>4. \A r \in Results' : Sound(r)'
  BY <1>1, SameResults, ResultsStay
<1>5. QED
  BY <1>2, <1>3, <1>4 DEF IInv

LEMMA NextKeepsIInv ==
  ASSUME IInv, [Next]_vars
  PROVE  IInv'
<1>1. live \in [Searches -> BOOLEAN] /\ up \in BOOLEAN
  BY DEF IInv, Shapes
<1>2. CASE NewsApiChanges
  BY <1>1, <1>2, NobodysStepKeepsIInv DEF NewsApiChanges
<1>3. ASSUME NEW k \in Searches, Expire(k) PROVE IInv'
  BY <1>1, <1>3, NobodysStepKeepsIInv DEF Expire
<1>4. ASSUME NEW t \in Threads, Step(t) PROVE IInv'
  BY <1>4, AskKeepsIInv, ReadStoreKeepsIInv, FetchKeepsIInv, MergeKeepsIInv,
     PersistKeepsIInv DEF Step
<1>5. CASE UNCHANGED vars
  BY <1>1, <1>5, NobodysStepKeepsIInv DEF vars
<1>6. QED
  BY <1>2, <1>3, <1>4, <1>5 DEF Next

LEMMA Inductive == Spec => []IInv
<1>1. IInv /\ [Next]_vars => IInv'
  BY NextKeepsIInv
<1>2. QED
  BY <1>1, InitIInv, PTL DEF Spec

-----------------------------------------------------------------------------
(* The theorems *)

\* Every variable has its type: no search finds more documents than it counted, and
\* no result, of this search or from the cache, holds more than were asked for.
THEOREM TypeCorrect == Spec => []TypeOK
<1>1. QED
  BY Inductive, IInvImplies, PTL

\* A result that holds made-up documents reports the failure of the news API, or
\* that it has documents from the store, also when it is served from the cache.
THEOREM MadeUpIsFlagged == Spec => []FallbackIsFlagged
<1>1. QED
  BY Inductive, IInvImplies, PTL

\* Every document that a run was given, by its own search or from the cache, is in
\* the table, whoever stores, moves or expires what meanwhile.
THEOREM CitedDocsAreStored == Spec => []DocsAreTraceable
<1>1. QED
  BY Inductive, IInvImplies, PTL
=============================================================================
