---------------------------- MODULE GraphQueries ----------------------------
(***************************************************************************)
(* The recursive queries over a node table and an edge table: the walks of *)
(* expressions/pathfinding.py, graph_traversal.py and the reachability     *)
(* part of graph_vector_search.py.                                         *)
(*                                                                         *)
(* Each is one statement, WITH RECURSIVE ... UNION, over the snapshot of   *)
(* one graph.  PostgreSQL evaluates it by iteration: the rows the last     *)
(* step added (the working table) yield those of the next step, and a row  *)
(* that was there before is dropped, until a step adds none.               *)
(***************************************************************************)
EXTENDS Integers, SequencesExt

CONSTANTS
  Id,        \* node ids, in the order of the key's type
  Type,      \* values of edge_type
  Namespace, \* of the edges
  None,      \* edge_type=None: edges of all types; max_cycles=None: no limit
  Graph,     \* the edge tables considered
  Start,     \* the node ids asked about
  MaxHops,   \* the values of max_hops or max_depth considered
  MaxCycles  \* the values of max_cycles considered, besides None

\* An edge holds bare ids: they may name nodes that are not stored.
Edge == [source : Id, target : Id, is_bidirectional : BOOLEAN, edge_type : Type,
         namespace : Namespace]

NodeQueries == {"paths", "descendants", "ancestors", "outgoing", "incoming", "both"}
ReachQueries == {"reach_outgoing", "reach_incoming", "reach_both"}
WalkQueries == NodeQueries \cup ReachQueries
Queries == WalkQueries \cup {"find_cycles", "has_cycle"}

Query == [what : Queries, start : Start, edge_type : Type \cup {None}, limit : MaxHops]

ASSUME GraphQueriesAssumption ==
  /\ Id \subseteq Int /\ Start \subseteq Id
  /\ None \notin Type \cup Query \cup MaxCycles
  /\ Graph \subseteq SUBSET Edge
  /\ MaxHops \subseteq Nat /\ MaxCycles \subseteq Nat

VARIABLES
  node,   \* the ids of the stored nodes
  edge,   \* the stored edges
  query,  \* the call under way, or None
  rows,   \* the rows found so far: path_ids, or what has_cycle keeps of a walk
  work    \* the rows the last iteration added

vars == <<node, edge, query, rows, work>>

Path == UNION {[1..m -> Id] : m \in 1..(query.limit + 1)}
Closure == [from : Id, to : Id, depth : 1..(query.limit + 1)]

\* A path row holds as many hops as the limit at most, one more for none.
TypeOK ==
  /\ node \subseteq Id
  /\ edge \subseteq Edge
  /\ query \in Query \cup {None}
  /\ rows \subseteq IF query = None THEN {}
                    ELSE IF query.what = "has_cycle" THEN Closure ELSE Path
  /\ work \subseteq rows

-----------------------------------------------------------------------------
\* et_clause: edges of every namespace
MatchingOf(q) == {e \in edge : q.edge_type \in {None, e.edge_type}}
Matching == MatchingOf(query)

Either(e, a) == e.source = a \/ (e.is_bidirectional /\ e.target = a)
Along(e, a, b) == e.source = a /\ e.target = b
Against(e, a, b) == e.target = a /\ e.source = b

\* Mutant: the reverse of a bidirectional edge is not followed.
FollowsOneWay(e, a, b) ==
  IF query.what \in {"ancestors", "incoming", "reach_incoming"}
    THEN Against(e, a, b) ELSE Along(e, a, b)

\* The joins of a recursive step: edge e leads from row a's node to b.
WalkJoin(e, a, b) == Along(e, a, b) \/ (e.is_bidirectional /\ Against(e, a, b))

NeighborsJoin(e, a, b) ==
  \/ query.what = "outgoing" /\ WalkJoin(e, a, b)
  \/ query.what = "incoming" /\ (Against(e, a, b) \/ (e.is_bidirectional /\ Along(e, a, b)))
  \/ query.what = "both" /\ (Along(e, a, b) \/ Against(e, a, b))

DescendantsJoin(e, a, b) ==
  /\ Either(e, a)
  /\ b = e.target \/ (e.is_bidirectional /\ b = e.source)

AncestorsJoin(e, a, b) ==
  /\ e.target = a \/ (e.is_bidirectional /\ e.source = a)
  /\ b = e.source \/ (e.is_bidirectional /\ b = e.target)

\* _recursion_sql
ReachJoin(e, a, b) ==
  \/ /\ query.what = "reach_outgoing"
     /\ Either(e, a)
     /\ b = IF e.source = a THEN e.target ELSE e.source
  \/ /\ query.what = "reach_incoming"
     /\ e.target = a \/ (e.is_bidirectional /\ e.source = a)
     /\ b = IF e.target = a THEN e.source ELSE e.target
  \/ /\ query.what = "reach_both"
     /\ e.source = a \/ e.target = a
     /\ b = IF e.source = a THEN e.target ELSE e.source

Follows(e, a, b) ==
  \/ query.what \in {"paths", "find_cycles"} /\ WalkJoin(e, a, b)
  \/ query.what = "descendants" /\ DescendantsJoin(e, a, b)
  \/ query.what = "ancestors" /\ AncestorsJoin(e, a, b)
  \/ NeighborsJoin(e, a, b)
  \/ ReachJoin(e, a, b)
  \/ /\ query.what = "has_cycle"
     /\ Either(e, a)
     /\ b = IF e.source = a THEN e.target ELSE e.source

Hops(r) == Len(r) - 1
Visited(r) == {r[i] : i \in 1..Len(r)}

\* Mutants: a walk may come back to a node; a cycle is found from every node on it.
AdmitsRevisits(r, b) == b \in node /\ b # query.start

AdmitsAnyStart(r, b) ==
  /\ b \in node
  /\ Len(r) = 1 \/ Last(r) # Head(r)
  /\ b = Head(r) \/ b \notin Visited(r)

\* The WHERE clause of a recursive step, but for the limit, and the join of the next
\* node: only the reachability of the vector search goes through ids without a row.
Admits(r, b) ==
  /\ query.what \in ReachQueries \/ b \in node
  /\ query.what \in NodeQueries => b # query.start
  /\ query.what \in WalkQueries => b \notin Visited(r)
  /\ query.what = "find_cycles" =>
       /\ Len(r) = 1 \/ Last(r) # Head(r)
       /\ b = Head(r) \/ (b \notin Visited(r) /\ b > Head(r))

WithinLimit(hops) == hops < query.limit

Extensions(r) ==
  {Append(r, b) : b \in {c \in Id : /\ WithinLimit(Hops(r))
                                    /\ Admits(r, c)
                                    /\ \E e \in Matching : Follows(e, Last(r), c)}}

\* has_cycle keeps the first node of a walk, its last and its length.
Closures(r) ==
  {[from |-> r.from, to |-> b, depth |-> r.depth + 1] :
     b \in {c \in Id : WithinLimit(r.depth) /\ \E e \in Matching : Follows(e, r.to, c)}}

Anchor(q) ==
  IF q.what = "has_cycle"
    THEN {[from |-> e.source, to |-> e.target, depth |-> 1] : e \in MatchingOf(q)}
    ELSE {<<n>> : n \in {m \in node : q.what = "find_cycles" \/ m = q.start}}

Init ==
  /\ node \in SUBSET Id
  /\ edge \in Graph
  /\ query = None
  /\ rows = {} /\ work = {}

Ask(q) ==
  /\ query = None
  /\ query' = q
  /\ rows' = Anchor(q)
  /\ work' = Anchor(q)
  /\ UNCHANGED <<node, edge>>

Iterate ==
  LET found == UNION {IF query.what = "has_cycle" THEN Closures(r) ELSE Extensions(r) : r \in work}
  IN
  /\ work # {}
  /\ work' = found \ rows
  /\ rows' = rows \cup found
  /\ UNCHANGED <<node, edge, query>>

Done == query # None /\ work = {}

Answer ==
  /\ Done
  /\ query' = None
  /\ rows' = {}
  /\ UNCHANGED <<node, edge, work>>

Next == (\E q \in Query : Ask(q)) \/ Iterate \/ Answer

Spec == Init /\ [][Next]_vars

-----------------------------------------------------------------------------
(* The SELECT over the rows.                                                 *)

\* all_paths and, the first of them by length, shortest_path.
PathsTo(n) == {r \in rows : Last(r) = n}

\* GROUP BY id; the reachability keeps the start but only nodes with a row.
Found ==
  IF query.what \in ReachQueries THEN {n \in node : PathsTo(n) # {}}
  ELSE {n \in Id \ {query.start} : PathsTo(n) # {}}

\* MIN(hops), MIN(path_depth), and the hops of shortest_path.
LeastHops(n) == Min({Hops(r) : r \in PathsTo(n)})

ClosedWalks == {Front(r) : r \in {s \in rows : Hops(s) > 0 /\ Last(s) = Head(s)}}

\* ORDER BY depth LIMIT max_cycles: what find_cycles may return, of which any is its answer.
Cycles(max) ==
  IF max = None \/ Cardinality(ClosedWalks) <= max THEN {ClosedWalks}
  ELSE {S \in kSubset(max, ClosedWalks) : \A c \in S, d \in ClosedWalks \ S : Len(c) <= Len(d)}
HasCycle == \E r \in rows : r.from = r.to

-----------------------------------------------------------------------------
(* The queries of the edge table alone: BaseGraphEdgeModel.                  *)

\* filters, or Q: an edge type unless None, and one namespace, "default" unless given.
Filtered(t, ns) == {e \in edge : t \in {None, e.edge_type} /\ e.namespace = ns}

outgoing(n, t, ns) == {e \in Filtered(t, ns) : e.source = n}
incoming(n, t, ns) == {e \in Filtered(t, ns) : e.target = n}
between(a, b, t, ns) == {e \in Filtered(t, ns) : e.source = a /\ e.target = b}
between_any(n, t, ns) == {e \in Filtered(t, ns) : e.source = n \/ e.target = n}

-----------------------------------------------------------------------------
(* The graph the queries are about.                                          *)

\* An edge leads from its source to its target, a bidirectional one back too.
Leads(a, b) ==
  \E e \in Matching : \/ e.source = a /\ e.target = b
                      \/ e.is_bidirectional /\ e.source = b /\ e.target = a

\* The direction a query looks in.
Arc(a, b) ==
  CASE query.what \in {"ancestors", "incoming", "reach_incoming"} -> Leads(b, a)
    [] query.what \in {"both", "reach_both"} -> Leads(a, b) \/ Leads(b, a)
    [] OTHER -> Leads(a, b)

\* The nodes a query passes through.
Region == IF query.what \in ReachQueries THEN Id ELSE node

\* The nodes within i hops of the start.
Ball[i \in Nat] ==
  IF i = 0 THEN {query.start} \cap node
  ELSE Ball[i - 1] \cup {b \in Region : \E a \in Ball[i - 1] : Arc(a, b)}

IsSimple(p) == \A i, j \in 1..Len(p) : p[i] = p[j] => i = j

IsSimplePath(p) ==
  /\ p[1] = query.start /\ query.start \in node
  /\ IsSimple(p)
  /\ \A i \in 2..Len(p) : p[i] \in Region
  /\ \A i \in 1..(Len(p) - 1) : Arc(p[i], p[i + 1])

SimplePaths == {p \in Path : IsSimplePath(p)}

\* The nodes of a cycle in order, from any of them.
IsSimpleCycle(c, nodes) ==
  /\ IsSimple(c)
  /\ \A i \in 1..Len(c) : c[i] \in nodes /\ Leads(c[i], c[(i % Len(c)) + 1])

SimpleCycles(nodes) ==
  {c \in UNION {[1..m -> Id] : m \in 1..query.limit} : IsSimpleCycle(c, nodes)}

Rotation(c, k) == [i \in 1..Len(c) |-> c[((i + k - 1) % Len(c)) + 1]]
Rotations(c) == {Rotation(c, k) : k \in 0..(Len(c) - 1)}

-----------------------------------------------------------------------------
(* What the queries promise.                                                 *)

\* all_paths considers every simple path of up to max_hops from the start and nothing
\* else, as do the traversals that group them by node: the guard against revisits and
\* the limit cut off no path, and the union drops none.
PathsAreComplete ==
  Done /\ query.what \in WalkQueries => rows = SimplePaths

TwoWay(edges) == {e \in edges : e.is_bidirectional}

\* The edges of one namespace that lead to n in the direction asked for.
Adjacent(n, ns) ==
  LET s == query.start  t == query.edge_type IN
  CASE query.what = "outgoing" ->
         (outgoing(s, t, ns) \cap incoming(n, t, ns)) \cup TwoWay(between(n, s, t, ns))
    [] query.what = "incoming" ->
         (incoming(s, t, ns) \cap outgoing(n, t, ns)) \cup TwoWay(between(s, n, t, ns))
    [] query.what = "both" -> between_any(s, t, ns) \cap between_any(n, t, ns)

NearestAreAdjacent ==
  query.what \in {"outgoing", "incoming", "both"} /\ query.limit > 0 /\ query.start \in node =>
    \A n \in node \ {query.start} :
      (n \in Found /\ LeastHops(n) = 1) <=> \E ns \in Namespace : Adjacent(n, ns) # {}

\* A node is found exactly if it is within the limit, in the direction asked for, and
\* with its distance: shortest_path is shortest, neighbors come "closest first", and
\* those one hop away are the ones that the queries of the edge table show, each of one
\* namespace, when they are asked about every namespace.
DistancesAreLeast ==
  Done /\ query.what \in WalkQueries =>
    /\ NearestAreAdjacent
    /\ Found \cup {query.start} = (Ball[query.limit] \cap node) \cup {query.start}
    /\ \A n \in Found : \A i \in 0..query.limit : n \in Ball[i] <=> LeastHops(n) <= i

\* find_cycles returns simple cycles of up to max_depth nodes, at most max_cycles of them,
\* none twice, whichever of its nodes one starts at, and leaves one out only if it
\* returns max_cycles others which are no longer.
CyclesOnce ==
  Done /\ query.what = "find_cycles" =>
    \A max \in MaxCycles \cup {None} : \A S \in Cycles(max) :
      /\ S \subseteq SimpleCycles(node)
      /\ max # None => Cardinality(S) <= max
      /\ \A c \in S : Rotations(c) \cap S = {c}
      /\ \A c \in SimpleCycles(node) :
           \/ Rotations(c) \cap S # {}
           \/ max # None /\ Cardinality(S) = max /\ \A d \in S : Len(d) <= Len(c)

\* "Use `namespace` field for multi-tenant graph isolation": a walk does not change over
\* from the edges of one namespace to those of another.
WalksKeepToANamespace ==
  Done /\ query.what \in NodeQueries =>
    \A r \in rows : \E ns \in Namespace : \A i \in 1..Hops(r) :
      \E e \in Matching : e.namespace = ns /\ Follows(e, r[i], r[i + 1])

\* has_cycle sees a cycle exactly if the edges have one of up to max_depth nodes (a
\* self-loop whatever max_depth is), stored nodes or not.
CycleIsSeen ==
  Done /\ query.what = "has_cycle" =>
    (HasCycle <=> SimpleCycles(Id) # {} \/ \E n \in Id : Leads(n, n))
=============================================================================
