---------------------------- MODULE GraphSearch ----------------------------
(***************************************************************************)
(* The two searches of app/tools/graph.py over the nodes and edges of a    *)
(* company graph: _find_paths, breadth first over simple paths from an     *)
(* entity to the company, and _subtree_by_depth, breadth first over nodes  *)
(* from the company.  Both walk the edges in both directions.  An action   *)
(* is one turn of the loop over the queue; every set of edges is searched. *)
(***************************************************************************)
EXTENDS Integers, SequencesExt

CONSTANTS
  Universe,  \* the edges a graph may have, in the order the tools sort them
  Root,      \* the company
  Entities,  \* the nodes paths start from
  MaxHops,   \* max_hops of paths, and depth of the subtree
  Limit      \* limit of _find_paths

ASSUME BoundsAssumption == MaxHops \in Nat \ {0} /\ Limit \in 1..10

Ends == UNION {{e.from, e.to} : e \in ToSet(Universe)}
Edge == [from : Ends, to : Ends, type : {e.type : e \in ToSet(Universe)}, weight : Nat]
Key(e) == [from |-> e.from, to |-> e.to, type |-> e.type]

\* Neither tool has two edges of one key in its graph.
ASSUME UniverseAssumption ==
  /\ Universe \in Seq(Edge)
  /\ \A i, j \in DOMAIN Universe : i # j => Key(Universe[i]) # Key(Universe[j])

VARIABLES
  search,   \* which of the two searches runs
  edges,    \* the graph
  start,    \* the node paths start from
  queue,    \* the paths that may be continued
  out,      \* the paths that reached the company, in the order they did
  visits,   \* the nodes to expand, with their depths
  depthOf,  \* visited_depth
  used      \* used_edges

searchVars == <<search, edges, start, queue, out, visits, depthOf, used>>
graphVars == <<search, edges, start>>
pathVars == <<queue, out>>
treeVars == <<visits, depthOf, used>>

\* A path is the sequence of its edges, each turned the way it is walked.
Turned(e) == [e EXCEPT !.from = e.to, !.to = e.from]
Nodes(p) == {start} \union {p[i].to : i \in DOMAIN p}
LastNode(p) == IF p = <<>> THEN start ELSE Last(p).to

\* The sequence of x alone, or of nothing.
OneIf(b, x) == IF b THEN <<x>> ELSE << >>

\* _adjacency: every edge at its first node and, turned, at its second.
Adjacency(n) ==
  FlattenSeq([i \in DOMAIN edges |->
    OneIf(edges[i].from = n, edges[i]) \o OneIf(edges[i].to = n, Turned(edges[i]))])

SearchInit ==
  /\ search \in {"paths", "subtree"}
  /\ \E chosen \in [DOMAIN Universe -> BOOLEAN] :
       edges = FlattenSeq([i \in DOMAIN Universe |-> OneIf(chosen[i], Universe[i])])
  /\ start \in IF search = "paths" THEN Entities ELSE {Root}
  /\ queue = << <<>> >>
  /\ out = <<>>
  /\ visits = << <<Root, 0>> >>
  /\ depthOf = [n \in {Root} |-> 0]
  /\ used = {}

-----------------------------------------------------------------------------
(* _find_paths *)

\* Mutant: only the last node is not visited again.
LongerWithCycles(p) ==
  LET next == Adjacency(LastNode(p))
  IN  FlattenSeq([i \in DOMAIN next |-> OneIf(next[i].to # LastNode(p), Append(p, next[i]))])

\* The simple paths one edge longer, in the order of the adjacency.
Longer(p) ==
  LET next == Adjacency(LastNode(p))
  IN  FlattenSeq([i \in DOMAIN next |-> OneIf(next[i].to \notin Nodes(p), Append(p, next[i]))])

Arrived(p) == Last(p).to = Root
Enough == Len(out) >= 3 * Limit

FirstOf(n, s) == SubSeq(s, 1, IF Len(s) < n THEN Len(s) ELSE n)
CutLate(s) == s                    \* mutant: only the outer loop breaks
CutAtLimit(s) == FirstOf(Limit, s) \* mutant: the surplus for sorting is dropped
Cut(s) == FirstOf(3 * Limit, s)

Arriving(s) == FlattenSeq([i \in DOMAIN s |-> OneIf(Arrived(s[i]), s[i])])
Underway(s) == FlattenSeq([i \in DOMAIN s |-> OneIf(~Arrived(s[i]), s[i])])

\* A path that arrives is not continued.  Both loops break on enough paths.
Expand ==
  LET p == Head(queue)
      longer == IF Len(p) >= MaxHops THEN <<>> ELSE Longer(p)
  IN  /\ out' = Cut(out \o Arriving(longer))
      /\ queue' = Tail(queue) \o Underway(longer)

FindPaths ==
  /\ search = "paths" /\ queue # <<>> /\ ~Enough
  /\ Expand
  /\ UNCHANGED <<graphVars, treeVars>>

\* What is returned: the first Limit by length, then by weight, in a stable order.
Weight(p) == SumFunction([i \in DOMAIN p |-> p[i].weight])
BeforeByWeight(i, j) ==  \* mutant: the length does not come first
  Weight(out[i]) > Weight(out[j]) \/ (Weight(out[i]) = Weight(out[j]) /\ i < j)
Before(i, j) ==
  \/ Len(out[i]) < Len(out[j])
  \/ /\ Len(out[i]) = Len(out[j])
     /\ Weight(out[i]) > Weight(out[j]) \/ (Weight(out[i]) = Weight(out[j]) /\ i < j)
Rank(i) == 1 + Cardinality({j \in DOMAIN out : Before(j, i)})
Returned ==
  FirstOf(Limit, [k \in DOMAIN out |-> out[CHOOSE i \in DOMAIN out : Rank(i) = k]])

-----------------------------------------------------------------------------
(* _subtree_by_depth *)

DepthReachedLate(d) == d > MaxHops  \* mutant: one level too many
DepthReached(d) == d >= MaxHops

ExpandNode ==
  LET n == Head(visits)[1]
      d == Head(visits)[2]
      next == IF DepthReached(d) THEN <<>> ELSE Adjacency(n)
      Nearer(m) == m \notin DOMAIN depthOf \/ d + 1 < depthOf[m]
      new == {i \in DOMAIN next : Nearer(next[i].to) /\ \A j \in 1..i-1 : next[j].to # next[i].to}
  IN  /\ used' = used \union {Key(next[i]) : i \in DOMAIN next}
      /\ depthOf' = [m \in DOMAIN depthOf \union {next[i].to : i \in new} |->
                       IF \E i \in new : next[i].to = m THEN d + 1 ELSE depthOf[m]]
      /\ visits' = Tail(visits) \o FlattenSeq([i \in DOMAIN next |-> OneIf(i \in new, <<next[i].to, d + 1>>)])

GrowSubtree ==
  /\ search = "subtree" /\ visits # <<>>
  /\ ExpandNode
  /\ UNCHANGED <<graphVars, pathVars>>

SearchNext == FindPaths \/ GrowSubtree

SearchSpec == SearchInit /\ [][SearchNext]_searchVars

PathsDone == search = "paths" /\ (queue = <<>> \/ Enough)
SubtreeDone == search = "subtree" /\ visits = <<>>

-----------------------------------------------------------------------------
(* Properties, against reference definitions of paths and distances *)

Walked == ToSet(edges) \union {Turned(e) : e \in ToSet(edges)}

IsPath(p) ==
  /\ \A i \in DOMAIN p : p[i] \in Walked
  /\ p # <<>> => p[1].from = start
  /\ \A i \in 1..Len(p)-1 : p[i].to = p[i + 1].from
  /\ \A i, j \in DOMAIN p : i # j => p[i].to # p[j].to
  /\ \A i \in DOMAIN p : p[i].to # start

\* All simple paths from start to the company of at most MaxHops edges.
Extended(P) ==
  P \union UNION {{Append(p, e) : e \in {e \in Walked : IsPath(Append(p, e))}} : p \in P}
PathsOf[n \in 0..MaxHops] == IF n = 0 THEN {<<>>} ELSE Extended(PathsOf[n - 1])
Reaching == {p \in PathsOf[MaxHops] : p # <<>> /\ Arrived(p)}

\* Two edges that are each other's turned form make the same path twice.
Doubled == \E i, j \in DOMAIN edges : i # j /\ Key(edges[i]) = Key(Turned(edges[j]))

SearchTypeOK ==
  /\ search \in {"paths", "subtree"}
  /\ edges \in Seq(Edge)
  /\ start \in Entities \union {Root}
  /\ queue \in Seq(Seq(Edge))
  /\ out \in Seq(Seq(Edge)) /\ Len(out) <= 3 * Limit
  /\ visits \in Seq((Ends \union {Root}) \X (0..MaxHops))
  /\ DOMAIN depthOf \subseteq Ends \union {Root}
  /\ \A n \in DOMAIN depthOf : depthOf[n] \in 0..MaxHops
  /\ \A i \in DOMAIN visits : visits[i][1] \in DOMAIN depthOf
  /\ used \subseteq {Key(e) : e \in Walked}

\* Whatever the order of the queue, what is found is a path of the graph: it
\* leads from the entity to the company, repeats no node and keeps to max_hops.
PathsAreSound ==
  \A i \in DOMAIN out : IsPath(out[i]) /\ Arrived(out[i]) /\ Len(out[i]) <= MaxHops

\* Although the search stops early, no path is shorter than one it returns in its
\* place; and it returns all there are when they are fewer than asked for (unless
\* a doubled edge has it return the same path twice).
NearestPathsReturned ==
  PathsDone =>
    LET got == ToSet(Returned)
    IN  /\ \A p \in Reaching \ got : \A q \in got : Len(q) <= Len(p)
        /\ Len(Returned) < Limit => got = Reaching
        /\ ~Doubled => Cardinality(got) = Len(Returned)

\* When it was not stopped early, no path of the same length is heavier than one
\* that is returned in its place.  (Stopped early it may be: the break keeps the
\* first 3 * limit paths in the order of the adjacency, not of their weights.)
HeaviestOfLengthReturned ==
  PathsDone /\ ~Enough =>
    LET got == ToSet(Returned)
    IN  \A p \in Reaching \ got : \A q \in got : Len(q) = Len(p) => Weight(q) >= Weight(p)

\* The nodes within n edges of the company.
Ball[n \in 0..MaxHops] ==
  IF n = 0 THEN {Root} ELSE Ball[n - 1] \union {e.to : e \in {e \in Walked : e.from \in Ball[n - 1]}}

\* The subtree is the ball of the depth: every node is visited at its distance,
\* and an edge is used when one of its ends is nearer than the depth.
SubtreeIsBall ==
  SubtreeDone =>
    /\ DOMAIN depthOf = Ball[MaxHops]
    /\ \A n \in DOMAIN depthOf : \A d \in 0..MaxHops : n \in Ball[d] <=> depthOf[n] <= d
    /\ used = {Key(e) : e \in {e \in Walked : e.from \in Ball[MaxHops - 1]}}
=============================================================================
