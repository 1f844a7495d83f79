---------------------------- MODULE QueriesProofs ----------------------------
(* Proofs about the queries over graphs and streams.                         *)
(*                                                                         *)
(* GraphQueries, for any ids, edge types, tables and limits:                 *)
(* The iteration of a walk keeps every row it finds a path of the goal       *)
(* within the limit - a simple path from the start or, for find_cycles, a    *)
(* chain over nodes greater than its first - and ends with all of them; that *)
(* of has_cycle keeps the ends and the length of each walk.  From the rows   *)
(* when no more are found follow the distances (each ball around the start   *)
(* is what simple paths of so many hops end at), that a cycle is returned    *)
(* once (one of its rotations starts at its least node), and that has_cycle  *)
(* misses none (a shortest closed walk is a simple cycle).                   *)
(*                                                                         *)
(* StreamQueries, for any finite table of events, streams, bounds, widths    *)
(* and limits: one newest row of each stream answers latest_per_stream, and  *)
(* the series of ranges that meet between two buckets join.                  *)
EXTENDS Queries, FiniteSetTheorems, WellFoundedInduction, TLAPS

Walking == query # None /\ query.what \in WalkQueries

IsPrefixOf(r, p) == Len(r) <= Len(p) /\ \A i \in 1..Len(r) : r[i] = p[i]

\* What find_cycles traces: from any node over greater ones, back to it at the very end.
IsChain(p) ==
  /\ \A i \in 1..Len(p) : p[i] \in node
  /\ \A i \in 1..(Len(p) - 1) : Leads(p[i], p[i + 1])
  /\ \A i \in 2..Len(p) : p[i] > p[1] \/ (i = Len(p) /\ p[i] = p[1])
  /\ \A i, j \in 2..Len(p) : p[i] = p[j] => i = j

Chains == {p \in Path : IsChain(p)}

Tracing == query # None /\ query.what # "has_cycle"
Goal == IF query.what = "find_cycles" THEN Chains ELSE SimplePaths

\* The rows are of the goal, level by level; a path of the goal that is not there yet goes
\* on from a row of the last level.
Levels ==
  Tracing =>
    /\ rows \subseteq Goal
    /\ \E l \in Nat : /\ \A r \in rows : Len(r) <= l
                      /\ \A r \in work : Len(r) = l
    /\ \A p \in Goal :
         p \in rows \/ \E r \in work : Len(r) < Len(p) /\ IsPrefixOf(r, p)

Closing == query # None /\ query.what = "has_cycle"

\* The first edge of a walk of has_cycle is always there, and taken from its source.
Top == IF query.limit >= 1 THEN query.limit ELSE 1

IsWalk(w) ==
  /\ \E e \in Matching : e.source = w[1] /\ e.target = w[2]
  /\ \A i \in 1..(Len(w) - 1) : Leads(w[i], w[i + 1])

Walks == {w \in Seq(Id) : Len(w) \in 2..(Top + 1) /\ IsWalk(w)}

\* The row of the first k nodes of a walk.
RowAt(w, k) == [from |-> w[1], to |-> w[k], depth |-> k - 1]

\* The rows of has_cycle are those of walks, level by level; a walk without its row yet
\* goes on from a row of the last level.
Strides ==
  Closing =>
    /\ \A r \in rows : \E w \in Walks : r = RowAt(w, Len(w))
    /\ \E l \in Nat : /\ \A r \in rows : r.depth <= l
                      /\ \A r \in work : r.depth = l
    /\ \A w \in Walks :
         RowAt(w, Len(w)) \in rows \/ \E k \in 2..(Len(w) - 1) : RowAt(w, k) \in work

WalkInv == TypeOK /\ Levels /\ Strides

-----------------------------------------------------------------------------
(* Paths as sequences.                                                       *)

LEMMA PathIsSeq ==
  ASSUME query # None, query \in Query, NEW p
  PROVE  /\ query.limit \in Nat
         /\ p \in Path <=> p \in Seq(Id) /\ Len(p) \in 1..(query.limit + 1)
  <1>1. query.limit \in Nat
    BY GraphQueriesAssumption DEF Query
  <1>2. ASSUME p \in Path PROVE p \in Seq(Id) /\ Len(p) \in 1..(query.limit + 1)
    <2>1. PICK m \in 1..(query.limit + 1) : p \in [1..m -> Id]
      BY <1>2 DEF Path
    <2>2. m \in Nat
      BY <1>1, <2>1
    <2>3. p \in Seq(Id) /\ Len(p) = m
      BY <2>1, <2>2
    <2> QED BY <2>1, <2>3
  <1>3. ASSUME p \in Seq(Id), Len(p) \in 1..(query.limit + 1) PROVE p \in Path
    <2>1. p \in [1..Len(p) -> Id]
      BY <1>3
    <2> QED BY <1>3, <2>1 DEF Path
  <1> QED BY <1>1, <1>2, <1>3

LEMMA OneOrMore ==
  ASSUME NEW k \in Nat, k >= 1
  PROVE  k = 1 \/ (k > 1 /\ k \in 2..k)
  OBVIOUS

\* What the joins of a recursive step reach is what the edges lead to.
LEMMA FollowsArc ==
  ASSUME TypeOK, Walking, NEW a \in Id, NEW b \in Id, a # b
  PROVE  (\E e \in Matching : Follows(e, a, b)) <=> Arc(a, b)
  <1>1. /\ query \in Query /\ query.what \in WalkQueries
        /\ \A e \in Matching : /\ e.source \in Id /\ e.target \in Id
                               /\ e.is_bidirectional \in BOOLEAN
    BY DEF TypeOK, Walking, Matching, MatchingOf, Edge
  <1>2. CASE query.what \in {"paths", "outgoing", "descendants", "reach_outgoing"}
    <2>1. Arc(a, b) <=> Leads(a, b)
      BY <1>2 DEF Arc
    <2>2. ASSUME NEW e \in Matching
          PROVE  Follows(e, a, b)
                   <=> \/ e.source = a /\ e.target = b
                       \/ e.is_bidirectional /\ e.source = b /\ e.target = a
      BY <1>1, <1>2
      DEF Follows, WalkJoin, NeighborsJoin, DescendantsJoin, AncestorsJoin, ReachJoin,
          Either, Along, Against
    <2> QED BY <2>1, <2>2 DEF Leads
  <1>3. CASE query.what \in {"ancestors", "incoming", "reach_incoming"}
    <2>1. Arc(a, b) <=> Leads(b, a)
      BY <1>3 DEF Arc
    <2>2. ASSUME NEW e \in Matching
          PROVE  Follows(e, a, b)
                   <=> \/ e.source = b /\ e.target = a
                       \/ e.is_bidirectional /\ e.source = a /\ e.target = b
      BY <1>1, <1>3
      DEF Follows, WalkJoin, NeighborsJoin, DescendantsJoin, AncestorsJoin, ReachJoin,
          Along, Against
    <2> QED BY <2>1, <2>2 DEF Leads
  <1>4. CASE query.what \in {"both", "reach_both"}
    <2>1. Arc(a, b) <=> Leads(a, b) \/ Leads(b, a)
      BY <1>4 DEF Arc
    <2>2. ASSUME NEW e \in Matching
          PROVE  Follows(e, a, b)
                   <=> \/ e.source = a /\ e.target = b
                       \/ e.source = b /\ e.target = a
      BY <1>1, <1>4
      DEF Follows, WalkJoin, NeighborsJoin, DescendantsJoin, AncestorsJoin, ReachJoin,
          Along, Against
    <2> QED BY <2>1, <2>2 DEF Leads
  <1> QED BY <1>1, <1>2, <1>3, <1>4 DEF WalkQueries, NodeQueries, ReachQueries

-----------------------------------------------------------------------------
(* One step from one row.                                                    *)

LEMMA ExtensionIsPath ==
  ASSUME TypeOK, Walking, NEW r \in SimplePaths, NEW p \in Extensions(r)
  PROVE  p \in SimplePaths /\ Len(p) = Len(r) + 1
  <1>1. query \in Query /\ query # None
    BY DEF TypeOK, Walking
  <1>2. r \in Seq(Id) /\ Len(r) \in 1..(query.limit + 1) /\ query.limit \in Nat /\ IsSimplePath(r)
    BY <1>1, PathIsSeq DEF SimplePaths
  <1>3. PICK b \in Id : /\ p = Append(r, b)
                        /\ WithinLimit(Hops(r)) /\ Admits(r, b)
                        /\ \E e \in Matching : Follows(e, Last(r), b)
    BY DEF Extensions
  <1>4. /\ p \in Seq(Id) /\ Len(p) = Len(r) + 1 /\ p[Len(r) + 1] = b
        /\ \A i \in 1..Len(r) : p[i] = r[i]
    BY <1>2, <1>3
  <1>5. p \in Path
    <2>1. Len(p) \in 1..(query.limit + 1)
      BY <1>2, <1>3, <1>4 DEF WithinLimit, Hops
    <2> QED BY <1>1, <1>4, <2>1, PathIsSeq
  <1>6. b \notin Visited(r) /\ b \in Region
    BY <1>3 DEF Admits, Region, Walking, WalkQueries, NodeQueries, ReachQueries
  <1>7. \A i \in 1..Len(r) : r[i] # b
    BY <1>6 DEF Visited
  <1>8. IsSimple(p)
    BY <1>2, <1>4, <1>7 DEF IsSimple, IsSimplePath
  <1>9. \A i \in 1..(Len(p) - 1) : Arc(p[i], p[i + 1])
    <2>1. Last(r) = r[Len(r)] /\ Last(r) \in Id /\ Last(r) # b
      BY <1>2, <1>7 DEF Last
    <2>2. Arc(Last(r), b)
      BY <1>3, <2>1, FollowsArc
    <2> SUFFICES ASSUME NEW i \in 1..(Len(p) - 1) PROVE Arc(p[i], p[i + 1])
      OBVIOUS
    <2>3. CASE i = Len(r)
      BY <1>2, <1>4, <2>1, <2>2, <2>3
    <2>4. CASE i # Len(r)
      <3>1. i \in 1..(Len(r) - 1) /\ i + 1 \in 1..Len(r) /\ i \in 1..Len(r)
        BY <1>2, <1>4, <2>4
      <3> QED BY <1>2, <1>4, <3>1 DEF IsSimplePath
    <2> QED BY <2>3, <2>4
  <1>10. \A i \in 2..Len(p) : p[i] \in Region
    <2> SUFFICES ASSUME NEW i \in 2..Len(p) PROVE p[i] \in Region
      OBVIOUS
    <2>1. i = Len(r) + 1 \/ i \in 2..Len(r)
      BY <1>2, <1>4
    <2> QED BY <1>2, <1>4, <1>6, <2>1 DEF IsSimplePath
  <1>11. p[1] = query.start /\ query.start \in node
    BY <1>2, <1>4 DEF IsSimplePath
  <1> QED BY <1>4, <1>5, <1>8, <1>9, <1>10, <1>11 DEF SimplePaths, IsSimplePath

\* The next node of a simple path is among the extensions of what comes before it.
LEMMA PathIsExtended ==
  ASSUME TypeOK, Walking, NEW r \in SimplePaths, NEW p \in SimplePaths,
         Len(r) < Len(p), IsPrefixOf(r, p)
  PROVE  \E q \in Extensions(r) : Len(q) = Len(r) + 1 /\ IsPrefixOf(q, p)
  <1> DEFINE b == p[Len(r) + 1]
             q == Append(r, b)
  <1>1. query \in Query /\ query # None
    BY DEF TypeOK, Walking
  <1>2. /\ r \in Seq(Id) /\ Len(r) \in 1..(query.limit + 1) /\ query.limit \in Nat
        /\ p \in Seq(Id) /\ Len(p) \in 1..(query.limit + 1)
        /\ IsSimplePath(r) /\ IsSimplePath(p)
    BY <1>1, PathIsSeq DEF SimplePaths
  <1>3. Len(r) + 1 \in 2..Len(p) /\ Len(r) \in 1..(Len(p) - 1) /\ Len(r) \in 1..Len(r)
    BY <1>2
  <1>4. b \in Id /\ b \in Region
    BY <1>2, <1>3 DEF IsSimplePath
  <1>5. \A i \in 1..Len(r) : r[i] = p[i] /\ r[i] # b
    BY <1>2, <1>3 DEF IsPrefixOf, IsSimplePath, IsSimple
  <1>6. b \notin Visited(r) /\ b # query.start
    BY <1>2, <1>5 DEF Visited, IsSimplePath
  <1>7. WithinLimit(Hops(r))
    BY <1>2, <1>3 DEF WithinLimit, Hops
  <1>8. Admits(r, b)
    BY <1>4, <1>6 DEF Admits, Region, Walking, WalkQueries, NodeQueries, ReachQueries
  <1>9. \E e \in Matching : Follows(e, Last(r), b)
    <2>1. Last(r) = p[Len(r)] /\ Last(r) \in Id /\ Last(r) # b
      BY <1>2, <1>3, <1>5 DEF Last
    <2>2. Arc(p[Len(r)], p[Len(r) + 1])
      BY <1>2, <1>3 DEF IsSimplePath
    <2> QED BY <1>4, <2>1, <2>2, FollowsArc
  <1>10. q \in Extensions(r)
    BY <1>4, <1>7, <1>8, <1>9 DEF Extensions
  <1>11. Len(q) = Len(r) + 1 /\ IsPrefixOf(q, p)
    BY <1>2, <1>3, <1>4, <1>5 DEF IsPrefixOf
  <1> QED BY <1>10, <1>11

LEMMA FollowsLink ==
  ASSUME TypeOK, query # None, query.what = "find_cycles", NEW a, NEW b
  PROVE  (\E e \in Matching : Follows(e, a, b)) <=> Leads(a, b)
  <1>1. \A e \in Matching :
          Follows(e, a, b) <=> \/ e.source = a /\ e.target = b
                               \/ e.is_bidirectional /\ e.source = b /\ e.target = a
    BY DEF Follows, WalkJoin, NeighborsJoin, ReachJoin, Along, Against
  <1> QED BY <1>1 DEF Leads

LEMMA ExtensionIsChain ==
  ASSUME TypeOK, query # None, query.what = "find_cycles",
         NEW r \in Chains, NEW p \in Extensions(r)
  PROVE  p \in Chains /\ Len(p) = Len(r) + 1
  <1>1. query \in Query /\ node \subseteq Int
    BY GraphQueriesAssumption DEF TypeOK
  <1>2. r \in Seq(Id) /\ Len(r) \in 1..(query.limit + 1) /\ query.limit \in Nat /\ IsChain(r)
    BY <1>1, PathIsSeq DEF Chains
  <1>3. PICK b \in Id : /\ p = Append(r, b)
                        /\ WithinLimit(Hops(r)) /\ Admits(r, b)
                        /\ \E e \in Matching : Follows(e, Last(r), b)
    BY DEF Extensions
  <1>4. /\ p \in Seq(Id) /\ Len(p) = Len(r) + 1 /\ p[Len(r) + 1] = b
        /\ \A i \in 1..Len(r) : p[i] = r[i]
    BY <1>2, <1>3
  <1>5. p \in Path
    <2>1. Len(p) \in 1..(query.limit + 1)
      BY <1>2, <1>3, <1>4 DEF WithinLimit, Hops
    <2> QED BY <1>1, <1>4, <2>1, PathIsSeq
  <1>6. /\ b \in node
        /\ Len(r) = 1 \/ r[Len(r)] # r[1]
        /\ b = r[1] \/ (b > r[1] /\ \A i \in 1..Len(r) : r[i] # b)
    BY <1>3 DEF Admits, ReachQueries, Visited, Head, Last
  <1>7. \A i \in 1..Len(r) : p[i] = r[i] /\ r[i] \in node /\ r[i] \in Int
    BY <1>1, <1>2, <1>4 DEF IsChain
  <1>8. \A i \in 2..Len(r) : p[i] > p[1]
    BY <1>2, <1>6, <1>7 DEF IsChain
  <1>9. \A i \in 1..Len(p) : i \in 1..Len(r) \/ i = Len(r) + 1
    BY <1>2, <1>4
  <1>10. \A i \in 1..Len(p) : p[i] \in node
    BY <1>4, <1>6, <1>7, <1>9
  <1>11. \A i \in 1..(Len(p) - 1) : Leads(p[i], p[i + 1])
    <2>1. Leads(r[Len(r)], b)
      BY <1>3, FollowsLink DEF Last
    <2> SUFFICES ASSUME NEW i \in 1..(Len(p) - 1) PROVE Leads(p[i], p[i + 1])
      OBVIOUS
    <2>2. CASE i = Len(r)
      BY <1>2, <1>4, <2>1, <2>2
    <2>3. CASE i # Len(r)
      <3>1. i \in 1..(Len(r) - 1) /\ i + 1 \in 1..Len(r) /\ i \in 1..Len(r)
        BY <1>2, <1>4, <2>3
      <3> QED BY <1>2, <1>4, <3>1 DEF IsChain
    <2> QED BY <2>2, <2>3
  <1>12. \A i \in 2..Len(p) : p[i] > p[1] \/ (i = Len(p) /\ p[i] = p[1])
    <2>1. p[1] = r[1] /\ \A i \in 2..Len(p) : i \in 2..Len(r) \/ i = Len(p)
      BY <1>2, <1>4
    <2> QED BY <1>4, <1>6, <1>8, <2>1
  <1>13. \A i, j \in 2..Len(p) : p[i] = p[j] => i = j
    <2>1. \A i \in 2..Len(p) : i \in 2..Len(r) \/ i = Len(r) + 1
      BY <1>2, <1>4
    <2>2. \A i \in 2..Len(r) : p[i] = r[i] /\ p[i] # b
      <3> SUFFICES ASSUME NEW i \in 2..Len(r) PROVE p[i] = r[i] /\ p[i] # b
        OBVIOUS
      <3>1. i \in 1..Len(r) /\ 1 \in 1..Len(r)
        BY <1>2
      <3>2. p[i] > p[1] /\ p[i] = r[i] /\ p[1] = r[1] /\ r[i] \in Int /\ r[1] \in Int
        BY <1>7, <1>8, <3>1
      <3>3. p[i] # r[1]
        BY <3>2
      <3> QED BY <1>6, <3>1, <3>2, <3>3
    <2>3. \A i, j \in 2..Len(r) : r[i] = r[j] => i = j
      BY <1>2 DEF IsChain
    <2> QED BY <1>4, <2>1, <2>2, <2>3
  <1> QED BY <1>4, <1>5, <1>10, <1>11, <1>12, <1>13 DEF Chains, IsChain

LEMMA ChainIsExtended ==
  ASSUME TypeOK, query # None, query.what = "find_cycles",
         NEW r \in Chains, NEW p \in Chains, Len(r) < Len(p), IsPrefixOf(r, p)
  PROVE  \E q \in Extensions(r) : Len(q) = Len(r) + 1 /\ IsPrefixOf(q, p)
  <1> DEFINE b == p[Len(r) + 1]
             q == Append(r, b)
  <1>1. query \in Query /\ node \subseteq Int
    BY GraphQueriesAssumption DEF TypeOK
  <1>2. /\ r \in Seq(Id) /\ Len(r) \in 1..(query.limit + 1) /\ query.limit \in Nat
        /\ p \in Seq(Id) /\ Len(p) \in 1..(query.limit + 1)
        /\ IsChain(r) /\ IsChain(p)
    BY <1>1, PathIsSeq DEF Chains
  <1>3. /\ Len(r) + 1 \in 2..Len(p) /\ Len(r) + 1 \in 1..Len(p) /\ Len(r) \in 1..(Len(p) - 1)
        /\ Len(r) \in 1..Len(r) /\ 1 \in 1..Len(r)
    BY <1>2
  <1>4. b \in Id /\ b \in node /\ (b > p[1] \/ b = p[1])
    BY <1>2, <1>3 DEF IsChain
  <1>5. \A i \in 1..Len(r) : r[i] = p[i] /\ r[i] \in Int
    BY <1>1, <1>2 DEF IsPrefixOf, IsChain
  <1>6. \A i \in 2..Len(r) : r[i] > r[1] /\ r[i] # b
    <2> SUFFICES ASSUME NEW i \in 2..Len(r) PROVE r[i] > r[1] /\ r[i] # b
      OBVIOUS
    <2>1. i \in 1..Len(r) /\ i \in 2..Len(p) /\ i # Len(p) /\ i # Len(r) + 1
      BY <1>2
    <2> QED BY <1>2, <1>3, <1>5, <2>1 DEF IsChain
  <1>7. Len(r) = 1 \/ r[Len(r)] # r[1]
    <2> SUFFICES ASSUME Len(r) # 1 PROVE r[Len(r)] # r[1]
      OBVIOUS
    <2>1. Len(r) \in Nat /\ Len(r) >= 1
      BY <1>2
    <2>2. Len(r) \in 2..Len(r)
      BY <2>1, OneOrMore
    <2> QED BY <1>3, <1>5, <1>6, <2>2
  <1>8. b = r[1] \/ (b > r[1] /\ b \notin Visited(r))
    <2> SUFFICES ASSUME b # r[1] PROVE b > r[1] /\ b \notin Visited(r)
      OBVIOUS
    <2>1. \A i \in 1..Len(r) : i = 1 \/ i \in 2..Len(r)
      BY <1>2
    <2> QED BY <1>3, <1>4, <1>5, <1>6, <2>1 DEF Visited
  <1>9. WithinLimit(Hops(r))
    BY <1>2, <1>3 DEF WithinLimit, Hops
  <1>10. Admits(r, b)
    BY <1>4, <1>7, <1>8 DEF Admits, NodeQueries, ReachQueries, WalkQueries, Head, Last
  <1>11. \E e \in Matching : Follows(e, Last(r), b)
    <2>1. Last(r) = p[Len(r)]
      BY <1>3, <1>5 DEF Last
    <2>2. Leads(p[Len(r)], p[Len(r) + 1])
      BY <1>2, <1>3 DEF IsChain
    <2> QED BY <2>1, <2>2, FollowsLink
  <1>12. q \in Extensions(r)
    BY <1>4, <1>9, <1>10, <1>11 DEF Extensions
  <1>13. Len(q) = Len(r) + 1 /\ IsPrefixOf(q, p)
    BY <1>2, <1>3, <1>4, <1>5 DEF IsPrefixOf
  <1> QED BY <1>12, <1>13

LEMMA GoalIsOfPaths == Goal \subseteq Path
  BY DEF Goal, Chains, SimplePaths

LEMMA TracedIsWalkedOrChained ==
  ASSUME TypeOK, Tracing
  PROVE  (Walking /\ Goal = SimplePaths) \/ (query.what = "find_cycles" /\ Goal = Chains)
  BY DEF TypeOK, Query, Queries, Tracing, Walking, Goal, WalkQueries, NodeQueries, ReachQueries

LEMMA ExtensionIsOfGoal ==
  ASSUME TypeOK, Tracing, NEW r \in Goal, NEW p \in Extensions(r)
  PROVE  p \in Goal /\ Len(p) = Len(r) + 1
  <1>1. CASE Walking /\ Goal = SimplePaths
    BY <1>1, ExtensionIsPath
  <1>2. CASE query.what = "find_cycles" /\ Goal = Chains
    BY <1>2, ExtensionIsChain DEF Tracing
  <1> QED BY <1>1, <1>2, TracedIsWalkedOrChained

LEMMA GoalIsExtended ==
  ASSUME TypeOK, Tracing, NEW r \in Goal, NEW p \in Goal, Len(r) < Len(p), IsPrefixOf(r, p)
  PROVE  \E q \in Extensions(r) : Len(q) = Len(r) + 1 /\ IsPrefixOf(q, p)
  <1>1. CASE Walking /\ Goal = SimplePaths
    BY <1>1, PathIsExtended
  <1>2. CASE query.what = "find_cycles" /\ Goal = Chains
    BY <1>2, ChainIsExtended DEF Tracing
  <1> QED BY <1>1, <1>2, TracedIsWalkedOrChained

-----------------------------------------------------------------------------
(* One iteration, one question.                                              *)

LEMMA SameQuestion ==
  ASSUME UNCHANGED <<node, edge, query>>
  PROVE  /\ SimplePaths' = SimplePaths /\ Path' = Path /\ Goal' = Goal
         /\ (Walking' <=> Walking) /\ (Tracing' <=> Tracing)
  <1>1. /\ SimplePaths' = SimplePaths /\ Path' = Path /\ (Walking' <=> Walking)
        /\ Chains' = Chains /\ query' = query
    BY DEF SimplePaths, Path, IsSimplePath, Region, Arc, Leads, Matching, MatchingOf, Walking,
           Chains, IsChain
  <1> QED BY <1>1 DEF Goal, Tracing

LEMMA IterateKeepsLevels ==
  ASSUME WalkInv, Iterate, Tracing
  PROVE  Levels'
  <1> DEFINE found == UNION {Extensions(r) : r \in work}
  <1>1. /\ work' = found \ rows /\ rows' = rows \cup found
        /\ UNCHANGED <<node, edge, query>>
    BY DEF Iterate, Tracing
  <1>2. TypeOK /\ work \subseteq rows /\ rows \subseteq Goal
    BY DEF WalkInv, Levels, TypeOK
  <1>3. PICK l \in Nat : (\A r \in rows : Len(r) <= l) /\ (\A r \in work : Len(r) = l)
    BY DEF WalkInv, Levels
  <1>4. \A p \in found : p \in Goal /\ Len(p) = l + 1
    BY <1>2, <1>3, ExtensionIsOfGoal
  <1>5. work' = found
    <2>1. \A p \in found : p \notin rows
      BY <1>3, <1>4
    <2> QED BY <1>1, <2>1
  <1>6. rows' \subseteq Goal
    BY <1>1, <1>2, <1>4
  <1>7. (\A r \in rows' : Len(r) <= l + 1) /\ (\A r \in work' : Len(r) = l + 1)
    <2>1. \A r \in rows : Len(r) <= l + 1
      <3> SUFFICES ASSUME NEW r \in rows PROVE Len(r) <= l + 1
        OBVIOUS
      <3>1. query \in Query /\ query # None /\ r \in Path
        BY <1>2, GoalIsOfPaths DEF TypeOK, Tracing
      <3>2. Len(r) \in Nat /\ Len(r) <= l
        BY <1>3, <3>1, PathIsSeq
      <3> QED BY <3>2
    <2> QED BY <1>1, <1>4, <1>5, <2>1
  <1>8. ASSUME NEW p \in Goal, p \notin rows'
        PROVE  \E q \in work' : Len(q) < Len(p) /\ IsPrefixOf(q, p)
    <2>1. PICK r \in work : Len(r) < Len(p) /\ IsPrefixOf(r, p)
      BY <1>1, <1>8 DEF WalkInv, Levels
    <2>2. PICK q \in Extensions(r) : Len(q) = Len(r) + 1 /\ IsPrefixOf(q, p)
      BY <1>2, <1>8, <2>1, GoalIsExtended
    <2>3. q \in found /\ q \in Goal
      BY <1>2, <1>4, <2>2
    <2>4. query \in Query /\ query # None
      BY <1>2 DEF TypeOK, Tracing
    <2>5. /\ q \in Seq(Id) /\ p \in Seq(Id) /\ Len(q) \in Nat /\ Len(p) \in Nat
      BY <1>8, <2>3, <2>4, PathIsSeq, GoalIsOfPaths
    <2>6. CASE Len(q) = Len(p)
      <3>1. q = p
        BY <2>2, <2>5, <2>6 DEF IsPrefixOf
      <3> QED BY <1>1, <1>8, <2>3, <3>1
    <2>7. CASE Len(q) < Len(p)
      BY <1>5, <2>2, <2>3, <2>7
    <2> QED BY <2>2, <2>5, <2>6, <2>7 DEF IsPrefixOf
  <1>9. Goal' = Goal
    BY <1>1, SameQuestion
  <1> HIDE DEF found
  <1>10. \E m \in Nat : (\A r \in rows' : Len(r) <= m) /\ (\A r \in work' : Len(r) = m)
    BY <1>3, <1>7
  <1> QED BY <1>6, <1>8, <1>9, <1>10 DEF Levels, IsPrefixOf

LEMMA Singleton ==
  ASSUME NEW x \in Id
  PROVE  <<x>> \in Seq(Id) /\ Len(<<x>>) = 1 /\ Len(<<x>>) <= 1 /\ <<x>>[1] = x
  OBVIOUS

LEMMA AskStartsLevels ==
  ASSUME TypeOK, NEW q \in Query, q.what # "has_cycle", Ask(q)
  PROVE  Levels'
  <1> DEFINE From == {n \in node : q.what = "find_cycles" \/ n = q.start}
  <1>1. /\ query' = q /\ UNCHANGED <<node, edge>>
        /\ rows' = {<<n>> : n \in From} /\ work' = rows'
    BY DEF Ask, Anchor
  <1>2. q.start \in Id /\ q.limit \in Nat /\ q # None
    BY GraphQueriesAssumption DEF Query
  <1>3. \A p : p \in Path' <=> p \in Seq(Id) /\ Len(p) \in 1..(q.limit + 1)
    <2> SUFFICES ASSUME NEW p
                 PROVE  p \in Path' <=> p \in Seq(Id) /\ Len(p) \in 1..(q.limit + 1)
      OBVIOUS
    <2>1. ASSUME p \in Path' PROVE p \in Seq(Id) /\ Len(p) \in 1..(q.limit + 1)
      <3>1. PICK m \in 1..(q.limit + 1) : p \in [1..m -> Id]
        BY <1>1, <2>1 DEF Path
      <3>2. m \in Nat
        BY <1>2, <3>1
      <3>3. p \in Seq(Id) /\ Len(p) = m
        BY <3>1, <3>2
      <3> QED BY <3>1, <3>3
    <2>2. ASSUME p \in Seq(Id), Len(p) \in 1..(q.limit + 1) PROVE p \in Path'
      <3>1. p \in [1..Len(p) -> Id]
        BY <2>2
      <3> QED BY <1>1, <2>2, <3>1 DEF Path
    <2> QED BY <2>1, <2>2
  <1>4. ASSUME NEW r \in rows' PROVE Len(r) = 1 /\ Len(r) <= 1 /\ r \in Goal'
    <2>1. PICK n \in From : r = <<n>>
      BY <1>1, <1>4
    <2>2. n \in Id
      BY <1>4 DEF TypeOK
    <2>3. r \in Seq(Id) /\ Len(r) = 1 /\ Len(r) <= 1 /\ r[1] = n
      BY <2>1, <2>2, Singleton
    <2>4. 1 \in 1..(q.limit + 1)
      BY <1>2
    <2>5. r \in Path'
      BY <1>3, <2>3, <2>4
    <2>6. CASE q.what = "find_cycles"
      <3>1. IsChain(r)'
        BY <1>1, <2>1, <2>3 DEF IsChain
      <3> QED BY <1>1, <2>3, <2>5, <2>6, <3>1 DEF Goal, Chains
    <2>7. CASE q.what # "find_cycles"
      <3>1. IsSimplePath(r)'
        BY <1>1, <2>1, <2>3, <2>5, <2>7 DEF IsSimplePath, IsSimple
      <3> QED BY <1>1, <2>3, <2>5, <2>7, <3>1 DEF Goal, SimplePaths
    <2> QED BY <2>6, <2>7
  <1>5. ASSUME NEW p \in Goal'
        PROVE  p \in rows' \/ \E r \in work' : Len(r) < Len(p) /\ IsPrefixOf(r, p)
    <2>1. p \in Seq(Id) /\ Len(p) \in Nat /\ Len(p) >= 1
      <3>1. p \in Path'
        BY <1>5 DEF Goal, Chains, SimplePaths
      <3> QED BY <1>2, <1>3, <3>1
    <2>2. p[1] \in From
      <3>1. CASE q.what = "find_cycles"
        <4>1. 1 \in 1..Len(p)
          BY <2>1
        <4>2. IsChain(p)'
          BY <1>1, <1>5, <3>1 DEF Goal, Chains
        <4> QED BY <1>1, <3>1, <4>1, <4>2 DEF IsChain
      <3>2. CASE q.what # "find_cycles"
        BY <1>1, <1>5, <3>2 DEF Goal, SimplePaths, IsSimplePath
      <3> QED BY <3>1, <3>2
    <2>3. <<p[1]>> \in rows' /\ Len(<<p[1]>>) = 1
      BY <1>1, <2>2
    <2>4. CASE Len(p) = 1
      <3>1. p = <<p[1]>>
        BY <2>1, <2>4
      <3> QED BY <2>3, <3>1
    <2>5. CASE Len(p) > 1
      <3>1. IsPrefixOf(<<p[1]>>, p)
        BY <2>1, <2>5 DEF IsPrefixOf
      <3> QED BY <1>1, <2>3, <2>5, <3>1
    <2>6. Len(p) = 1 \/ Len(p) > 1
      BY <2>1, OneOrMore
    <2> QED BY <2>4, <2>5, <2>6
  <1>6. \A r \in rows' : Len(r) = 1 /\ Len(r) <= 1 /\ r \in Goal'
    BY <1>4
  <1>7. \E l \in Nat : (\A r \in rows' : Len(r) <= l) /\ (\A r \in work' : Len(r) = l)
    <2>1. \A r \in work' : Len(r) = 1
      BY <1>1, <1>6
    <2>2. 1 \in Nat /\ \A r \in rows' : Len(r) <= 1
      BY <1>6
    <2> QED BY <2>1, <2>2
  <1> QED BY <1>5, <1>6, <1>7 DEF Levels, IsPrefixOf

-----------------------------------------------------------------------------
(* What has_cycle keeps of a walk.                                           *)

LEMMA FollowsEither ==
  ASSUME Closing, NEW a, NEW b
  PROVE  (\E e \in Matching : Follows(e, a, b)) <=> Leads(a, b)
  <1>1. ASSUME NEW e \in Matching
        PROVE  Follows(e, a, b) <=> \/ e.source = a /\ e.target = b
                                    \/ e.is_bidirectional /\ e.source = b /\ e.target = a
    BY DEF Follows, NeighborsJoin, ReachJoin, Either, Closing
  <1> QED BY <1>1 DEF Leads

LEMMA WalkIsSeq ==
  ASSUME TypeOK, Closing, NEW w \in Walks
  PROVE  /\ query.limit \in Nat /\ Top \in Nat /\ Top >= 1 /\ query.limit <= Top
         /\ Top > 1 => Top = query.limit
         /\ w \in Seq(Id) /\ Len(w) \in 2..(Top + 1) /\ IsWalk(w)
         /\ \A i \in 1..Len(w) : w[i] \in Id
  <1>1. query.limit \in Nat
    BY GraphQueriesAssumption DEF TypeOK, Closing, Query
  <1>2. w \in Seq(Id) /\ Len(w) \in 2..(Top + 1) /\ IsWalk(w)
    BY DEF Walks
  <1>3. \A i \in 1..Len(w) : w[i] \in Id
    BY <1>2
  <1> QED BY <1>1, <1>2, <1>3 DEF Top

LEMMA ClosureIsWalk ==
  ASSUME TypeOK, Closing, NEW w \in Walks, NEW c \in Closures(RowAt(w, Len(w)))
  PROVE  (\E v \in Walks : c = RowAt(v, Len(v))) /\ c.depth = Len(w)
  <1>1. /\ query.limit \in Nat /\ Top \in Nat /\ query.limit <= Top
        /\ w \in Seq(Id) /\ Len(w) \in 2..(Top + 1) /\ IsWalk(w)
    BY WalkIsSeq
  <1>2. PICK b \in Id : /\ c = [from |-> w[1], to |-> b, depth |-> (Len(w) - 1) + 1]
                        /\ Len(w) - 1 < query.limit
                        /\ \E e \in Matching : Follows(e, w[Len(w)], b)
    BY DEF Closures, RowAt, WithinLimit
  <1>3. Leads(w[Len(w)], b)
    BY <1>2, FollowsEither
  <1> DEFINE v == Append(w, b)
             m == Len(w)
  <1>4. /\ v \in Seq(Id) /\ Len(v) = m + 1 /\ v[m + 1] = b
        /\ \A i \in 1..m : v[i] = w[i]
    BY <1>1, <1>2
  <1>5. m \in Nat /\ m >= 2 /\ m + 1 \in 2..(Top + 1) /\ (m - 1) + 1 = m /\ (m + 1) - 1 = m
        /\ 1 \in 1..m /\ 2 \in 1..m
    BY <1>1, <1>2
  <1>6. /\ \E e \in Matching : e.source = w[1] /\ e.target = w[2]
        /\ \A i \in 1..(m - 1) : Leads(w[i], w[i + 1])
    BY <1>1 DEF IsWalk
  <1>7. c = [from |-> w[1], to |-> b, depth |-> m] /\ Leads(w[m], b)
    BY <1>2, <1>3, <1>5
  <1> HIDE DEF v, m
  <1>8. \A i \in 1..m : Leads(v[i], v[i + 1])
    <2> SUFFICES ASSUME NEW i \in 1..m PROVE Leads(v[i], v[i + 1])
      OBVIOUS
    <2>1. CASE i = m
      BY <1>4, <1>7, <2>1
    <2>2. CASE i # m
      <3>1. i \in 1..(m - 1) /\ i + 1 \in 1..m
        BY <1>5, <2>2
      <3> QED BY <1>4, <1>6, <3>1
    <2> QED BY <2>1, <2>2
  <1>9. IsWalk(v)
    BY <1>4, <1>5, <1>6, <1>8 DEF IsWalk
  <1>10. v \in Walks
    BY <1>4, <1>5, <1>9 DEF Walks
  <1>11. c = RowAt(v, Len(v)) /\ c.depth = m
    BY <1>4, <1>5, <1>7 DEF RowAt
  <1> QED BY <1>10, <1>11 DEF m

LEMMA WalkIsClosedOn ==
  ASSUME TypeOK, Closing, NEW w \in Walks, NEW k \in 2..(Len(w) - 1)
  PROVE  RowAt(w, k + 1) \in Closures(RowAt(w, k))
  <1>1. /\ query.limit \in Nat /\ Top \in Nat /\ Top >= 1 /\ (Top > 1 => Top = query.limit)
        /\ Len(w) \in 2..(Top + 1) /\ IsWalk(w)
        /\ \A i \in 1..Len(w) : w[i] \in Id
    BY WalkIsSeq
  <1>2. k - 1 < query.limit /\ k + 1 \in 1..Len(w) /\ k \in 1..(Len(w) - 1)
        /\ (k + 1) - 1 = (k - 1) + 1
    BY <1>1
  <1>3. Leads(w[k], w[k + 1])
    BY <1>1, <1>2 DEF IsWalk
  <1>4. \E e \in Matching : Follows(e, w[k], w[k + 1])
    BY <1>3, FollowsEither
  <1>5. RowAt(w, k + 1) = [from |-> w[1], to |-> w[k + 1], depth |-> (k - 1) + 1]
    BY <1>2 DEF RowAt
  <1> QED BY <1>1, <1>2, <1>4, <1>5 DEF Closures, RowAt, WithinLimit

LEMMA IterateKeepsStrides ==
  ASSUME TypeOK, Strides, Iterate, Closing
  PROVE  Strides'
  <1> DEFINE found == UNION {Closures(r) : r \in work}
  <1>1. /\ work' = found \ rows /\ rows' = rows \cup found
        /\ UNCHANGED <<node, edge, query>> /\ work \subseteq rows
    BY DEF Iterate, Closing, TypeOK
  <1>2. Walks' = Walks /\ Closing' /\ \A w, k : RowAt(w, k)' = RowAt(w, k)
    BY <1>1 DEF Walks, IsWalk, Top, Leads, Matching, MatchingOf, Closing, RowAt
  <1>3. PICK l \in Nat : (\A r \in rows : r.depth <= l) /\ (\A r \in work : r.depth = l)
    BY DEF Strides
  <1>4. \A r \in rows : \E w \in Walks : r = RowAt(w, Len(w))
    BY DEF Strides
  <1>5. ASSUME NEW c \in found
        PROVE  (\E v \in Walks : c = RowAt(v, Len(v))) /\ c.depth = l + 1
    <2>1. PICK r \in work : c \in Closures(r)
      OBVIOUS
    <2>2. PICK w \in Walks : r = RowAt(w, Len(w))
      BY <1>1, <1>4, <2>1
    <2>3. (\E v \in Walks : c = RowAt(v, Len(v))) /\ c.depth = Len(w)
      BY <2>1, <2>2, ClosureIsWalk
    <2>4. r.depth = l /\ r.depth = Len(w) - 1 /\ Len(w) \in Nat
      BY <1>3, <2>1, <2>2 DEF RowAt, Walks
    <2> QED BY <2>3, <2>4
  <1>6. \A r \in rows : r.depth \in Nat
    BY <1>4 DEF RowAt, Walks
  <1>7. work' = found
    <2>1. \A c \in found : c \notin rows
      BY <1>3, <1>5, <1>6
    <2> QED BY <1>1, <2>1
  <1>8. ASSUME NEW w \in Walks
        PROVE  \/ RowAt(w, Len(w)) \in rows'
               \/ \E k \in 2..(Len(w) - 1) : RowAt(w, k) \in work'
    <2>1. CASE RowAt(w, Len(w)) \in rows
      BY <1>1, <2>1
    <2>2. CASE \E k \in 2..(Len(w) - 1) : RowAt(w, k) \in work
      <3>1. PICK k \in 2..(Len(w) - 1) : RowAt(w, k) \in work
        BY <2>2
      <3>2. RowAt(w, k + 1) \in found
        BY <3>1, WalkIsClosedOn
      <3>3. Len(w) \in Nat
        BY DEF Walks
      <3>4. k + 1 = Len(w) \/ k + 1 \in 2..(Len(w) - 1)
        BY <3>3
      <3> HIDE DEF found
      <3> QED BY <1>1, <1>7, <3>2, <3>4
    <2> QED BY <2>1, <2>2 DEF Strides, Closing
  <1>9. \E m \in Nat : (\A r \in rows' : r.depth <= m) /\ (\A r \in work' : r.depth = m)
    <2>1. \A r \in rows : r.depth <= l + 1
      BY <1>3, <1>6
    <2>2. (\A r \in rows' : r.depth <= l + 1) /\ (\A r \in work' : r.depth = l + 1)
      <3> HIDE DEF found
      <3> QED BY <1>1, <1>5, <1>7, <2>1
    <2> QED BY <1>3, <2>2
  <1>10. \A r \in rows' : \E w \in Walks : r = RowAt(w, Len(w))
    <2> HIDE DEF found
    <2> QED BY <1>1, <1>4, <1>5
  <1> QED BY <1>2, <1>8, <1>9, <1>10 DEF Strides

LEMMA TwoOrMore ==
  ASSUME NEW k \in Nat
  PROVE  /\ k >= 1 => 2 \in 2..(k + 1)
         /\ k >= 2 => k = 2 \/ 2 \in 2..(k - 1)
  OBVIOUS

LEMMA AskStartsStrides ==
  ASSUME TypeOK, NEW q \in Query, q.what = "has_cycle", Ask(q)
  PROVE  Strides'
  <1>1. /\ query' = q /\ UNCHANGED <<node, edge>> /\ work' = rows'
        /\ rows' = {[from |-> e.source, to |-> e.target, depth |-> 1] : e \in MatchingOf(q)}
    BY DEF Ask, Anchor
  <1>2. /\ Matching' = MatchingOf(q) /\ Top' \in Nat /\ Top' >= 1
        /\ \A e \in MatchingOf(q) : e.source \in Id /\ e.target \in Id
    <2>1. q.limit \in Nat
      BY GraphQueriesAssumption DEF Query
    <2>2. Matching' = MatchingOf(q)
      BY <1>1 DEF Matching, MatchingOf
    <2>3. Top' \in Nat /\ Top' >= 1
      BY <1>1, <2>1 DEF Top
    <2> QED BY <2>2, <2>3 DEF MatchingOf, TypeOK, Edge
  <1>3. ASSUME NEW r \in rows'
        PROVE  r.depth = 1 /\ \E w \in Walks' : r = RowAt(w, Len(w))
    <2>1. PICK e \in MatchingOf(q) : r = [from |-> e.source, to |-> e.target, depth |-> 1]
      BY <1>1
    <2> DEFINE w == <<e.source, e.target>>
    <2>2. w \in Seq(Id) /\ Len(w) = 2 /\ w[1] = e.source /\ w[2] = e.target
      BY <1>2
    <2> HIDE DEF w
    <2>3. Leads(w[1], w[2])'
      BY <1>2, <2>2 DEF Leads
    <2>4. IsWalk(w)'
      BY <1>2, <2>2, <2>3 DEF IsWalk
    <2>5. w \in Walks'
      <3>1. Len(w) \in 2..(Top' + 1)
        BY <1>2, <2>2, TwoOrMore
      <3> QED BY <2>2, <2>4, <3>1 DEF Walks
    <2>6. r = RowAt(w, Len(w)) /\ r.depth = 1
      BY <2>1, <2>2 DEF RowAt
    <2> QED BY <2>5, <2>6
  <1>4. ASSUME NEW w \in Walks'
        PROVE  \/ RowAt(w, Len(w)) \in rows'
               \/ \E k \in 2..(Len(w) - 1) : RowAt(w, k) \in work'
    <2>1. PICK e \in MatchingOf(q) : e.source = w[1] /\ e.target = w[2]
      BY <1>2, <1>4 DEF Walks, IsWalk
    <2>2. RowAt(w, 2) \in rows'
      BY <1>1, <2>1 DEF RowAt
    <2>3. Len(w) \in Nat /\ Len(w) >= 2
      BY <1>2, <1>4 DEF Walks
    <2>4. Len(w) = 2 \/ 2 \in 2..(Len(w) - 1)
      BY <2>3, TwoOrMore
    <2> QED BY <1>1, <2>2, <2>4
  <1>5. \E l \in Nat : (\A r \in rows' : r.depth <= l) /\ (\A r \in work' : r.depth = l)
    <2>1. (\A r \in rows' : r.depth <= 1) /\ (\A r \in work' : r.depth = 1)
      BY <1>1, <1>3
    <2> QED BY <2>1
  <1> QED BY <1>3, <1>4, <1>5 DEF Strides, RowAt

-----------------------------------------------------------------------------
(* Types.                                                                    *)

LEMMA InitTypeOK == Init => TypeOK
  BY GraphQueriesAssumption DEF Init, TypeOK

LEMMA AskTypeOK ==
  ASSUME TypeOK, NEW q \in Query, Ask(q)
  PROVE  TypeOK'
  <1>1. /\ node \subseteq Id /\ edge \subseteq Edge /\ UNCHANGED <<node, edge>>
        /\ query' = q /\ rows' = Anchor(q) /\ work' = rows'
    BY DEF TypeOK, Ask
  <1>2. q # None /\ q.limit \in Nat
    BY GraphQueriesAssumption DEF Query
  <1>3. CASE q.what = "has_cycle"
    <2>1. 1 \in 1..(q.limit + 1)
      BY <1>2
    <2>2. \A e \in MatchingOf(q) : e.source \in Id /\ e.target \in Id
      BY <1>1 DEF MatchingOf, Edge
    <2>3. Anchor(q) \subseteq [from : Id, to : Id, depth : 1..(q.limit + 1)]
      BY <1>3, <2>1, <2>2 DEF Anchor
    <2> QED BY <1>1, <1>2, <1>3, <2>3 DEF TypeOK, Closure
  <1>4. CASE q.what # "has_cycle"
    <2>1. ASSUME NEW n \in Id PROVE <<n>> \in Path'
      <3>1. 1 \in 1..(q.limit + 1) /\ <<n>> \in [1..1 -> Id]
        BY <1>2
      <3> QED BY <1>1, <3>1 DEF Path
    <2>2. Anchor(q) \subseteq Path'
      BY <1>1, <1>4, <2>1 DEF Anchor
    <2> QED BY <1>1, <1>2, <1>4, <2>2 DEF TypeOK
  <1> QED BY <1>3, <1>4

LEMMA IterateTypeOK ==
  ASSUME TypeOK, Iterate
  PROVE  TypeOK'
  <1>1. /\ query # None /\ query \in Query /\ work \subseteq rows
        /\ UNCHANGED <<node, edge, query>>
    BY DEF TypeOK, Iterate
  <1>2. query.limit \in Nat
    BY <1>1, GraphQueriesAssumption DEF Query
  <1>3. CASE query.what = "has_cycle"
    <2>1. rows \subseteq Closure
      BY <1>1, <1>3 DEF TypeOK
    <2>2. ASSUME NEW r \in Closure, NEW c \in Closures(r) PROVE c \in Closure
      <3>1. PICK b \in Id : /\ c = [from |-> r.from, to |-> b, depth |-> r.depth + 1]
                            /\ r.depth < query.limit
        BY <2>2 DEF Closures, WithinLimit
      <3>2. r.from \in Id /\ r.depth \in Nat /\ r.depth + 1 \in 1..(query.limit + 1)
        BY <1>2, <3>1 DEF Closure
      <3> QED BY <3>1, <3>2 DEF Closure
    <2>3. rows' = rows \cup UNION {Closures(r) : r \in work} /\ work' \subseteq rows'
      BY <1>3 DEF Iterate
    <2>4. rows' \subseteq Closure /\ work' \subseteq rows'
      BY <1>1, <2>1, <2>2, <2>3
    <2>5. Closure' = Closure
      BY <1>1 DEF Closure
    <2> QED BY <1>1, <1>3, <2>4, <2>5 DEF TypeOK
  <1>4. CASE query.what # "has_cycle"
    <2>1. rows \subseteq Path
      BY <1>1, <1>4 DEF TypeOK
    <2>2. ASSUME NEW r \in Path, NEW p \in Extensions(r) PROVE p \in Path
      <3>1. PICK b \in Id : p = Append(r, b) /\ Len(r) - 1 < query.limit
        BY <2>2 DEF Extensions, WithinLimit, Hops
      <3>2. r \in Seq(Id) /\ Len(r) \in 1..(query.limit + 1)
        BY <1>1, PathIsSeq
      <3>3. p \in Seq(Id) /\ Len(p) \in 1..(query.limit + 1)
        BY <1>2, <3>1, <3>2
      <3> QED BY <1>1, <3>3, PathIsSeq
    <2>3. rows' = rows \cup UNION {Extensions(r) : r \in work} /\ work' \subseteq rows'
      BY <1>4 DEF Iterate
    <2>4. rows' \subseteq Path /\ work' \subseteq rows'
      BY <1>1, <2>1, <2>2, <2>3
    <2>5. Path' = Path
      BY <1>1 DEF Path
    <2> QED BY <1>1, <1>4, <2>4, <2>5 DEF TypeOK
  <1> QED BY <1>3, <1>4

LEMMA AnswerTypeOK == TypeOK /\ Answer => TypeOK'
  BY DEF TypeOK, Answer, Done

-----------------------------------------------------------------------------
(* The theorems.                                                             *)

LEMMA WalkInvariant == Spec => []WalkInv
  <1>1. Init => WalkInv
    BY InitTypeOK DEF Init, WalkInv, Levels, Strides, Tracing, Closing
  <1>2. WalkInv /\ [Next]_vars => WalkInv'
    <2> SUFFICES ASSUME WalkInv, [Next]_vars PROVE WalkInv'
      OBVIOUS
    <2>1. TypeOK /\ Levels /\ Strides
      BY DEF WalkInv
    <2>2. ASSUME NEW q \in Query, Ask(q) PROVE WalkInv'
      <3>1. TypeOK'
        BY <2>1, <2>2, AskTypeOK
      <3>2. query' = q
        BY <2>2 DEF Ask
      <3>3. CASE q.what = "has_cycle"
        <4>1. Levels'
          BY <3>2, <3>3 DEF Levels, Tracing
        <4>2. Strides'
          BY <2>1, <2>2, <3>3, AskStartsStrides
        <4> QED BY <3>1, <4>1, <4>2 DEF WalkInv
      <3>4. CASE q.what # "has_cycle"
        <4>1. Levels'
          BY <2>1, <2>2, <3>4, AskStartsLevels
        <4>2. Strides'
          BY <3>2, <3>4 DEF Strides, Closing
        <4> QED BY <3>1, <4>1, <4>2 DEF WalkInv
      <3> QED BY <3>3, <3>4
    <2>3. CASE Iterate
      <3>1. TypeOK'
        BY <2>1, <2>3, IterateTypeOK
      <3>2. (Tracing' <=> Tracing) /\ (Closing' <=> Closing)
        BY <2>3 DEF Iterate, Tracing, Closing
      <3>3. Levels'
        <4>1. CASE Tracing
          BY <2>3, <4>1, IterateKeepsLevels
        <4>2. CASE ~Tracing
          BY <3>2, <4>2 DEF Levels
        <4> QED BY <4>1, <4>2
      <3>4. Strides'
        <4>1. CASE Closing
          BY <2>1, <2>3, <4>1, IterateKeepsStrides
        <4>2. CASE ~Closing
          BY <3>2, <4>2 DEF Strides
        <4> QED BY <4>1, <4>2
      <3> QED BY <3>1, <3>3, <3>4 DEF WalkInv
    <2>4. CASE Answer
      BY <2>1, <2>4, AnswerTypeOK DEF Answer, WalkInv, Levels, Strides, Tracing, Closing
    <2>5. CASE UNCHANGED vars
      <3>1. UNCHANGED <<node, edge, query>> /\ UNCHANGED <<rows, work>>
        BY <2>5 DEF vars
      <3>2. Goal' = Goal /\ (Tracing' <=> Tracing)
        BY <3>1, SameQuestion
      <3>3. TypeOK'
        BY <2>1, <3>1 DEF TypeOK, Path, Closure
      <3>4. Levels'
        BY <2>1, <3>1, <3>2 DEF Levels
      <3>5. Strides'
        <4>1. Walks' = Walks /\ (Closing' <=> Closing)
          BY <3>1 DEF Walks, IsWalk, Top, Leads, Matching, MatchingOf, Closing
        <4> QED BY <2>1, <3>1, <4>1 DEF Strides, RowAt
      <3> QED BY <3>3, <3>4, <3>5 DEF WalkInv
    <2> QED BY <2>2, <2>3, <2>4, <2>5 DEF Next
  <1> QED BY <1>1, <1>2, PTL DEF Spec

\* Every variable keeps its type; no path is longer than the limit allows.
THEOREM TypeCorrect == Spec => []TypeOK
  <1>1. WalkInv => TypeOK
    BY DEF WalkInv
  <1> QED BY <1>1, WalkInvariant, PTL

\* When the iteration of a walk ends, its rows are exactly the simple paths from the start
\* within the limit: all_paths misses none, and what the other traversals group by node
\* is complete.
THEOREM WalksAreComplete == Spec => []PathsAreComplete
  <1>1. WalkInv => PathsAreComplete
    <2> SUFFICES ASSUME WalkInv, Done, query.what \in WalkQueries PROVE rows = SimplePaths
      BY DEF PathsAreComplete
    <2>1. Walking /\ work = {}
      BY DEF Done, Walking
    <2>2. Tracing /\ Goal = SimplePaths
      BY <2>1 DEF Walking, Tracing, Goal, WalkQueries, NodeQueries, ReachQueries
    <2>3. rows \subseteq SimplePaths /\ \A p \in SimplePaths : p \in rows
      BY <2>1, <2>2 DEF WalkInv, Levels
    <2> QED BY <2>3
  <1> QED BY <1>1, WalkInvariant, PTL

-----------------------------------------------------------------------------
(* Induction over the hops.                                                  *)

LEMMA LeastNat ==
  ASSUME NEW S, S \subseteq Nat, S # {}
  PROVE  \E m \in S : \A k \in S : m <= k
  <1> DEFINE R == {ss \in Nat \X Nat : ss[1] < ss[2]}
  <1>1. IsWellFoundedOn(R, Nat)
    BY NatLessThanWellFounded DEF OpToRel
  <1>2. \A j, k \in Nat : j < k => <<j, k>> \in R
    OBVIOUS
  <1> HIDE DEF R
  <1>3. PICK m \in S : \A k \in S : ~ (<<k, m>> \in R)
    BY <1>1, WFMin
  <1>4. ASSUME NEW k \in S PROVE m <= k
    <2>1. k \in Nat /\ m \in Nat /\ ~ (<<k, m>> \in R)
      BY <1>3
    <2> QED BY <1>2, <2>1
  <1> QED BY <1>4

LEMMA SetInduction ==
  ASSUME NEW S, 0 \in S, \A n \in Nat : n \in S => n + 1 \in S
  PROVE  Nat \subseteq S
  <1> SUFFICES ASSUME Nat \ S # {} PROVE FALSE
    OBVIOUS
  <1>1. PICK m \in Nat \ S : \A k \in Nat \ S : m <= k
    BY LeastNat
  <1>2. m # 0 /\ m - 1 \in Nat /\ m - 1 \in S
    BY <1>1
  <1> QED BY <1>1, <1>2

\* What is defined by a first value and a step from each to the next exists.
LEMMA Recursion ==
  ASSUME NEW T, NEW first \in T, NEW step \in [T -> T]
  PROVE  \E f \in [Nat -> T] : f[0] = first /\ \A n \in Nat : f[n + 1] = step[f[n]]
  <1> DEFINE Upto(n) == {g \in [0..n -> T] :
               g[0] = first /\ \A i \in 0..(n - 1) : g[i + 1] = step[g[i]]}
             S == {n \in Nat : Upto(n) # {}}
  <1>1. 0 \in S
    <2>1. [i \in 0..0 |-> first] \in Upto(0)
      OBVIOUS
    <2> QED BY <2>1
  <1>2. ASSUME NEW n \in Nat, n \in S PROVE n + 1 \in S
    <2>1. PICK g \in Upto(n) : TRUE
      BY <1>2
    <2> DEFINE h == [i \in 0..(n + 1) |-> IF i <= n THEN g[i] ELSE step[g[n]]]
    <2>2. g \in [0..n -> T] /\ g[0] = first /\ \A i \in 0..(n - 1) : g[i + 1] = step[g[i]]
      BY <2>1
    <2>3. h \in [0..(n + 1) -> T] /\ h[0] = first
      BY <2>2
    <2>4. ASSUME NEW i \in 0..n PROVE h[i + 1] = step[h[i]]
      <3>1. h[i] = g[i]
        OBVIOUS
      <3>2. CASE i = n
        BY <3>1, <3>2
      <3>3. CASE i < n
        <4>1. i \in 0..(n - 1) /\ i + 1 \in 0..(n + 1) /\ i + 1 <= n
          BY <3>3
        <4>2. h[i + 1] = g[i + 1]
          BY <4>1
        <4> QED BY <2>2, <3>1, <4>1, <4>2
      <3> QED BY <3>2, <3>3
    <2>5. \A i \in 0..(n + 1 - 1) : h[i + 1] = step[h[i]]
      <3>1. n + 1 - 1 = n
        OBVIOUS
      <3> HIDE DEF h
      <3> QED BY <2>4, <3>1
    <2>6. h \in Upto(n + 1)
      <3> HIDE DEF h
      <3> QED BY <2>3, <2>5
    <2>7. Upto(n + 1) # {} /\ n + 1 \in Nat
      <3> HIDE DEF h, Upto
      <3> QED BY <2>6
    <2> HIDE DEF h, Upto
    <2> QED BY <2>7
  <1>3. \A n \in Nat : Upto(n) # {}
    <2> HIDE DEF Upto
    <2>1. Nat \subseteq S
      <3> HIDE DEF S
      <3> QED BY <1>1, <1>2, SetInduction
    <2> QED BY <2>1
  <1>4. ASSUME NEW n \in Nat, NEW g \in Upto(n), NEW h \in Upto(n + 1) PROVE g[n] = h[n]
    <2> DEFINE E == {i \in Nat : i <= n => g[i] = h[i]}
    <2>1. 0 \in E
      OBVIOUS
    <2>2. ASSUME NEW i \in Nat, i \in E PROVE i + 1 \in E
      <3>1. i + 1 <= n => i \in 0..(n - 1) /\ i \in 0..(n + 1 - 1) /\ i <= n
        OBVIOUS
      <3> QED BY <2>2, <3>1
    <2>3. Nat \subseteq E
      <3> HIDE DEF E
      <3> QED BY <2>1, <2>2, SetInduction
    <2> QED BY <2>3
  <1> DEFINE G(n) == CHOOSE g : g \in Upto(n)
             f == [n \in Nat |-> G(n)[n]]
  <1>5. \A n \in Nat : G(n) \in Upto(n)
    <2> HIDE DEF Upto
    <2> QED BY <1>3
  <1>6. ASSUME NEW n \in Nat PROVE f[n] \in T /\ f[n + 1] = step[f[n]]
    <2>1. G(n) \in Upto(n) /\ G(n + 1) \in Upto(n + 1)
      <3> HIDE DEF G, Upto
      <3>1. n + 1 \in Nat
        OBVIOUS
      <3> QED BY <1>5, <3>1
    <2>2. f[n] = G(n)[n] /\ f[n + 1] = G(n + 1)[n + 1]
      <3> HIDE DEF G
      <3> QED OBVIOUS
    <2> HIDE DEF G, f
    <2>3. G(n)[n] \in T /\ G(n + 1)[n + 1] = step[G(n + 1)[n]]
      BY <2>1
    <2>4. G(n)[n] = G(n + 1)[n]
      BY <1>4, <2>1
    <2> QED BY <2>2, <2>3, <2>4
  <1>7. f[0] = first
    <2>1. G(0) \in Upto(0) /\ f[0] = G(0)[0]
      BY <1>5
    <2> HIDE DEF G, f
    <2> QED BY <2>1
  <1> HIDE DEF G
  <1>8. f \in [Nat -> T]
    <2>1. \A n \in Nat : G(n)[n] \in T
      BY <1>6
    <2> QED BY <2>1
  <1> HIDE DEF f
  <1> QED BY <1>6, <1>7, <1>8

-----------------------------------------------------------------------------
(* Distances.                                                                *)

\* The nodes one hop from a set.
Around(S) == {b \in Region : \E a \in S : Arc(a, b)}

LEMMA RegionIsOfIds == TypeOK => Region \subseteq Id
  BY DEF TypeOK, Region

LEMMA BallEquation ==
  ASSUME TypeOK
  PROVE  /\ Ball[0] = {query.start} \cap node
         /\ \A i \in Nat : Ball[i + 1] = Ball[i] \cup Around(Ball[i])
  <1> DEFINE first == {query.start} \cap node
             step == [S \in SUBSET Id |-> S \cup Around(S)]
             Rule(f) == [i \in Nat |-> IF i = 0 THEN first ELSE f[i - 1] \cup Around(f[i - 1])]
  <1>1. first \in SUBSET Id
    BY DEF TypeOK
  <1>2. step \in [SUBSET Id -> SUBSET Id]
    BY RegionIsOfIds DEF Around
  <1>3. PICK f \in [Nat -> SUBSET Id] : f[0] = first /\ \A n \in Nat : f[n + 1] = step[f[n]]
    <2> DEFINE T == SUBSET Id
    <2>1. first \in T /\ step \in [T -> T]
      BY <1>1, <1>2
    <2> HIDE DEF first, step, T
    <2>2. \E f \in [Nat -> T] : f[0] = first /\ \A n \in Nat : f[n + 1] = step[f[n]]
      BY <2>1, Recursion
    <2> QED BY <2>2 DEF T
  <1>4. \A i \in Nat : f[i] = IF i = 0 THEN first ELSE f[i - 1] \cup Around(f[i - 1])
    <2> SUFFICES ASSUME NEW i \in Nat, i # 0 PROVE f[i] = f[i - 1] \cup Around(f[i - 1])
      BY <1>3
    <2>1. i - 1 \in Nat /\ i = (i - 1) + 1
      OBVIOUS
    <2>2. f[i] = step[f[i - 1]]
      <3> HIDE DEF step
      <3> QED BY <1>3, <2>1
    <2> QED BY <1>3, <2>1, <2>2
  <1>5. f = Rule(f)
    <2> HIDE DEF first
    <2> QED BY <1>3, <1>4
  <1>6. Ball = CHOOSE g : g = Rule(g)
    BY DEF Ball, Around
  <1>7. Ball = Rule(Ball)
    <2> HIDE DEF Rule
    <2> QED BY <1>5, <1>6
  <1> HIDE DEF first
  <1>8. Ball[0] = first
    BY <1>7
  <1>9. ASSUME NEW i \in Nat PROVE Ball[i + 1] = Ball[i] \cup Around(Ball[i])
    <2> DEFINE j == i + 1
    <2>1. j \in Nat /\ j # 0 /\ j - 1 = i
      OBVIOUS
    <2> HIDE DEF j
    <2>2. Ball[j] = Ball[j - 1] \cup Around(Ball[j - 1])
      BY <1>7, <2>1
    <2> QED BY <2>1, <2>2 DEF j
  <1> QED BY <1>8, <1>9 DEF first

\* The beginning of a simple path is one.
LEMMA PathBeginning ==
  ASSUME TypeOK, Walking, NEW p \in SimplePaths, NEW k \in 1..Len(p)
  PROVE  \E q \in SimplePaths : Len(q) = k /\ Last(q) = p[k]
  <1> DEFINE q == [i \in 1..k |-> p[i]]
  <1>1. query \in Query /\ query # None
    BY DEF TypeOK, Walking
  <1>2. /\ p \in Seq(Id) /\ Len(p) \in 1..(query.limit + 1) /\ query.limit \in Nat
        /\ IsSimplePath(p)
    BY <1>1, PathIsSeq DEF SimplePaths
  <1>3. k \in Nat /\ k >= 1 /\ k <= Len(p)
    BY <1>2
  <1>4. q \in Seq(Id) /\ Len(q) = k /\ \A i \in 1..k : q[i] = p[i]
    BY <1>2, <1>3
  <1> HIDE DEF q
  <1>5. Len(q) \in 1..(query.limit + 1)
    BY <1>2, <1>3, <1>4
  <1>6. q \in Path
    BY <1>1, <1>4, <1>5, PathIsSeq
  <1>7. IsSimple(q)
    BY <1>2, <1>3, <1>4 DEF IsSimple, IsSimplePath
  <1>8. IsSimplePath(q)
    BY <1>2, <1>3, <1>4, <1>7 DEF IsSimplePath
  <1>9. Last(q) = p[k]
    BY <1>3, <1>4 DEF Last
  <1> QED BY <1>4, <1>6, <1>8, <1>9 DEF SimplePaths

\* A simple path that is shorter than the limit goes on to any new node an arc leads to.
LEMMA PathGoesOn ==
  ASSUME TypeOK, Walking, NEW r \in SimplePaths, Len(r) <= query.limit,
         NEW b \in Region, b \notin Visited(r), Arc(Last(r), b)
  PROVE  \E p \in SimplePaths : Len(p) = Len(r) + 1 /\ Last(p) = b
  <1> DEFINE p == Append(r, b)
  <1>1. query \in Query /\ query # None /\ b \in Id
    BY RegionIsOfIds DEF TypeOK, Walking
  <1>2. /\ r \in Seq(Id) /\ Len(r) \in 1..(query.limit + 1) /\ query.limit \in Nat
        /\ IsSimplePath(r)
    BY <1>1, PathIsSeq DEF SimplePaths
  <1>3. /\ p \in Seq(Id) /\ Len(p) = Len(r) + 1 /\ p[Len(r) + 1] = b
        /\ \A i \in 1..Len(r) : p[i] = r[i]
    BY <1>1, <1>2
  <1> HIDE DEF p
  <1>4. Len(p) \in 1..(query.limit + 1)
    BY <1>2, <1>3
  <1>5. p \in Path
    BY <1>1, <1>3, <1>4, PathIsSeq
  <1>6. \A i \in 1..Len(r) : r[i] # b
    BY DEF Visited
  <1>7. IsSimple(p)
    BY <1>2, <1>3, <1>6 DEF IsSimple, IsSimplePath
  <1>8. Last(r) = r[Len(r)] /\ Last(p) = b
    BY <1>2, <1>3 DEF Last
  <1>9. \A i \in 1..(Len(p) - 1) : Arc(p[i], p[i + 1])
    <2> SUFFICES ASSUME NEW i \in 1..(Len(p) - 1) PROVE Arc(p[i], p[i + 1])
      OBVIOUS
    <2>1. CASE i = Len(r)
      BY <1>2, <1>3, <1>8, <2>1
    <2>2. CASE i # Len(r)
      <3>1. i \in 1..(Len(r) - 1) /\ i + 1 \in 1..Len(r) /\ i \in 1..Len(r)
        BY <1>2, <1>3, <2>2
      <3> QED BY <1>2, <1>3, <3>1 DEF IsSimplePath
    <2> QED BY <2>1, <2>2
  <1>10. \A i \in 2..Len(p) : p[i] \in Region
    <2> SUFFICES ASSUME NEW i \in 2..Len(p) PROVE p[i] \in Region
      OBVIOUS
    <2>1. i = Len(r) + 1 \/ i \in 2..Len(r)
      BY <1>2, <1>3
    <2> QED BY <1>2, <1>3, <2>1 DEF IsSimplePath
  <1>11. p[1] = query.start /\ query.start \in node
    BY <1>2, <1>3 DEF IsSimplePath
  <1> QED BY <1>3, <1>5, <1>7, <1>8, <1>9, <1>10, <1>11 DEF SimplePaths, IsSimplePath

LEMMA PathOfOne ==
  ASSUME TypeOK, Walking
  PROVE  /\ query.start \in node => <<query.start>> \in SimplePaths
         /\ \A p \in SimplePaths : Len(p) = 1 => Last(p) = query.start /\ query.start \in node
  <1>1. query \in Query /\ query # None
    BY DEF TypeOK, Walking
  <1>2. query.start \in Id /\ query.limit \in Nat
    BY <1>1, GraphQueriesAssumption DEF Query
  <1>3. ASSUME query.start \in node PROVE <<query.start>> \in SimplePaths
    <2> DEFINE r == <<query.start>>
    <2>1. r \in Seq(Id) /\ Len(r) = 1 /\ r[1] = query.start
      BY <1>2, Singleton
    <2>2. Len(r) \in 1..(query.limit + 1)
      BY <1>2, <2>1
    <2>3. r \in Path
      BY <1>1, <2>1, <2>2, PathIsSeq
    <2> HIDE DEF r
    <2>4. IsSimplePath(r)
      BY <1>3, <2>1 DEF IsSimplePath, IsSimple
    <2> QED BY <2>3, <2>4 DEF SimplePaths, r
  <1>4. \A p \in SimplePaths : Len(p) = 1 => Last(p) = query.start /\ query.start \in node
    BY DEF SimplePaths, IsSimplePath, Last
  <1> QED BY <1>3, <1>4

\* The ball around the start holds what simple paths of so many hops end at.
LEMMA BallByPaths ==
  ASSUME TypeOK, Walking, NEW i \in 0..query.limit, NEW n
  PROVE  n \in Ball[i] <=> \E p \in SimplePaths : Last(p) = n /\ Len(p) <= i + 1
  <1> DEFINE Ends(j) == {Last(p) : p \in {q \in SimplePaths : Len(q) <= j + 1}}
             S == {j \in Nat : j <= query.limit => Ball[j] = Ends(j)}
  <1>1. query \in Query /\ query # None
    BY DEF TypeOK, Walking
  <1>2. query.limit \in Nat /\ \A p \in SimplePaths : /\ p \in Seq(Id) /\ Len(p) \in Nat
                                                      /\ Len(p) >= 1 /\ IsSimplePath(p)
    BY <1>1, PathIsSeq DEF SimplePaths
  <1>3. 0 \in S
    <2>1. ASSUME NEW m \in Ends(0) PROVE m \in {query.start} \cap node
      <3>1. PICK p \in SimplePaths : m = Last(p) /\ Len(p) <= 0 + 1
        BY <2>1
      <3>2. Len(p) = 1
        <4> DEFINE k == Len(p)
        <4>1. k \in Nat /\ k >= 1 /\ k <= 0 + 1
          BY <1>2, <3>1
        <4> HIDE DEF k
        <4>2. k = 1
          BY <4>1
        <4> QED BY <4>2 DEF k
      <3> QED BY <3>1, <3>2, PathOfOne
    <2>2. ASSUME NEW m \in {query.start} \cap node PROVE m \in Ends(0)
      <3>1. <<m>> \in SimplePaths /\ m = query.start /\ m \in Id
        BY <2>2, PathOfOne DEF TypeOK
      <3>2. Len(<<m>>) <= 0 + 1 /\ Last(<<m>>) = m
        BY <3>1, Singleton DEF Last
      <3> QED BY <3>1, <3>2
    <2>3. Ends(0) = {query.start} \cap node
      <3> HIDE DEF Ends
      <3> QED BY <2>1, <2>2
    <2> QED BY <2>3, BallEquation
  <1>4. ASSUME NEW j \in Nat, j \in S PROVE j + 1 \in S
    <2> SUFFICES ASSUME j + 1 <= query.limit PROVE Ball[j + 1] = Ends(j + 1)
      OBVIOUS
    <2>1. Ball[j] = Ends(j) /\ Ball[j + 1] = Ball[j] \cup Around(Ball[j])
      BY <1>2, <1>4, BallEquation
    <2>2. Ends(j) \subseteq Ends(j + 1)
      BY <1>2
    <2>3. ASSUME NEW b \in Around(Ends(j)) PROVE b \in Ends(j + 1)
      <3>1. PICK r \in SimplePaths : Len(r) <= j + 1 /\ b \in Region /\ Arc(Last(r), b)
        BY <2>3 DEF Around
      <3>2. CASE b \in Visited(r)
        <4>1. PICK k \in 1..Len(r) : b = r[k]
          BY <3>2 DEF Visited
        <4>2. PICK q \in SimplePaths : Len(q) = k /\ Last(q) = b
          BY <4>1, PathBeginning
        <4>3. Len(q) <= j + 1 + 1
          BY <1>2, <3>1, <4>1, <4>2
        <4> QED BY <4>2, <4>3
      <3>3. CASE b \notin Visited(r)
        <4>1. Len(r) <= query.limit
          BY <1>2, <3>1
        <4>2. PICK q \in SimplePaths : Len(q) = Len(r) + 1 /\ Last(q) = b
          BY <3>1, <3>3, <4>1, PathGoesOn
        <4>3. Len(q) <= j + 1 + 1
          BY <1>2, <3>1, <4>2
        <4> QED BY <4>2, <4>3
      <3> QED BY <3>2, <3>3
    <2>4. ASSUME NEW b \in Ends(j + 1) PROVE b \in Ends(j) \cup Around(Ends(j))
      <3>1. PICK p \in SimplePaths : Last(p) = b /\ Len(p) <= j + 1 + 1
        BY <2>4
      <3>2. CASE Len(p) <= j + 1
        BY <3>1, <3>2
      <3>3. CASE Len(p) = j + 2
        <4>1. /\ j + 1 \in 1..Len(p) /\ j + 1 \in 1..(Len(p) - 1) /\ j + 2 \in 2..Len(p)
              /\ (j + 1) + 1 = j + 2
          BY <3>3
        <4>2. PICK q \in SimplePaths : Len(q) = j + 1 /\ Last(q) = p[j + 1]
          BY <4>1, PathBeginning
        <4>3. Arc(p[j + 1], p[j + 2]) /\ p[j + 2] \in Region
          <5>1. /\ \A k \in 2..Len(p) : p[k] \in Region
                /\ \A k \in 1..(Len(p) - 1) : Arc(p[k], p[k + 1])
            BY <1>2 DEF IsSimplePath
          <5> QED BY <4>1, <5>1
        <4>4. b = p[j + 2]
          BY <3>1, <3>3 DEF Last
        <4>5. p[j + 1] \in Ends(j)
          BY <4>2
        <4> QED BY <4>3, <4>4, <4>5 DEF Around
      <3> QED BY <1>2, <3>1, <3>2, <3>3
    <2> HIDE DEF Ends
    <2> QED BY <2>1, <2>2, <2>3, <2>4
  <1>5. Nat \subseteq S
    <2> HIDE DEF S
    <2> QED BY <1>3, <1>4, SetInduction
  <1>6. i \in Nat /\ i <= query.limit
    BY <1>2
  <1>7. Ball[i] = Ends(i)
    <2> HIDE DEF Ends
    <2> QED BY <1>5, <1>6
  <1> QED BY <1>7

LEMMA LeastOfHops ==
  ASSUME TypeOK, Walking, rows = SimplePaths, NEW n, PathsTo(n) # {}
  PROVE  /\ LeastHops(n) \in 0..query.limit
         /\ \A i \in 0..query.limit : n \in Ball[i] <=> LeastHops(n) <= i
  <1> DEFINE H == {Hops(r) : r \in PathsTo(n)}
  <1>1. query \in Query /\ query # None
    BY DEF TypeOK, Walking
  <1>2. query.limit \in Nat /\ \A p \in SimplePaths : Len(p) \in Nat /\ Hops(p) \in 0..query.limit
                                                      /\ Len(p) = Hops(p) + 1
    <2>1. query.limit \in Nat /\ \A p \in SimplePaths : Len(p) \in 1..(query.limit + 1)
      BY <1>1, PathIsSeq DEF SimplePaths
    <2> QED BY <2>1 DEF Hops
  <1>3. H \subseteq 0..query.limit /\ H # {}
    BY <1>2 DEF PathsTo
  <1>4. LeastHops(n) \in H /\ \A k \in H : LeastHops(n) <= k
    <2>1. H \subseteq Nat
      BY <1>2, <1>3
    <2>2. LeastHops(n) = CHOOSE k \in H : \A j \in H : k <= j
      BY DEF LeastHops, Min
    <2> HIDE DEF H
    <2>3. \E k \in H : \A j \in H : k <= j
      BY <1>3, <2>1, LeastNat
    <2> QED BY <2>2, <2>3
  <1>5. ASSUME NEW i \in 0..query.limit PROVE n \in Ball[i] <=> LeastHops(n) <= i
    <2>1. n \in Ball[i] <=> \E p \in SimplePaths : Last(p) = n /\ Len(p) <= i + 1
      BY BallByPaths
    <2>2. n \in Ball[i] <=> \E p \in PathsTo(n) : Len(p) <= i + 1
      BY <2>1 DEF PathsTo
    <2>3. \A p \in PathsTo(n) : Len(p) <= i + 1 <=> Hops(p) <= i
      BY <1>2 DEF PathsTo
    <2>4. n \in Ball[i] <=> \E k \in H : k <= i
      BY <2>2, <2>3
    <2> HIDE DEF H
    <2>5. i \in Nat /\ \A k \in H : k \in Nat
      BY <1>2, <1>3
    <2> QED BY <1>4, <2>4, <2>5
  <1> HIDE DEF H
  <1> QED BY <1>3, <1>4, <1>5

\* One hop is what the queries of the edge table show, for the namespace of its edge.
LEMMA AdjacentByArc ==
  ASSUME TypeOK, query # None, query.what \in {"outgoing", "incoming", "both"},
         NEW n \in Id, n # query.start
  PROVE  (\E ns \in Namespace : Adjacent(n, ns) # {}) <=> Arc(query.start, n)
  <1> DEFINE s == query.start
             t == query.edge_type
             Out(e) == (e.source = s /\ e.target = n) \/ (e.is_bidirectional /\ e.source = n /\ e.target = s)
             In(e) == (e.source = n /\ e.target = s) \/ (e.is_bidirectional /\ e.source = s /\ e.target = n)
             BetweenEnds(e) == (e.source = s /\ e.target = n) \/ (e.source = n /\ e.target = s)
             F(ns) == Filtered(t, ns)
             A(ns) == Adjacent(n, ns)
  <1>1. /\ \A e : e \in Matching <=> \E ns \in Namespace : e \in F(ns)
        /\ \A e \in Matching : e.is_bidirectional \in BOOLEAN
    BY DEF Filtered, Matching, MatchingOf, TypeOK, Edge
  <1>2. CASE query.what = "outgoing"
    <2>1. ASSUME NEW ns \in Namespace PROVE \A e : e \in A(ns) <=> e \in F(ns) /\ Out(e)
      <3>1. A(ns) = (outgoing(s, t, ns) \cap incoming(n, t, ns)) \cup TwoWay(between(n, s, t, ns))
        BY <1>2 DEF Adjacent
      <3> HIDE DEF A
      <3> QED BY <1>1, <3>1 DEF outgoing, incoming, TwoWay, between
    <2>2. Leads(s, n) <=> \E e \in Matching : Out(e)
      BY DEF Leads
    <2> HIDE DEF A, F, Out
    <2>3. (\E ns \in Namespace : A(ns) # {}) <=> \E e \in Matching : Out(e)
      BY <1>1, <2>1
    <2> QED BY <1>2, <2>2, <2>3 DEF Arc, A
  <1>3. CASE query.what = "incoming"
    <2>1. ASSUME NEW ns \in Namespace PROVE \A e : e \in A(ns) <=> e \in F(ns) /\ In(e)
      <3>1. A(ns) = (incoming(s, t, ns) \cap outgoing(n, t, ns)) \cup TwoWay(between(s, n, t, ns))
        BY <1>3 DEF Adjacent
      <3> HIDE DEF A
      <3> QED BY <1>1, <3>1 DEF outgoing, incoming, TwoWay, between
    <2>2. Leads(n, s) <=> \E e \in Matching : In(e)
      BY DEF Leads
    <2> HIDE DEF A, F, In
    <2>3. (\E ns \in Namespace : A(ns) # {}) <=> \E e \in Matching : In(e)
      BY <1>1, <2>1
    <2> QED BY <1>3, <2>2, <2>3 DEF Arc, A
  <1>4. CASE query.what = "both"
    <2>1. ASSUME NEW ns \in Namespace PROVE \A e : e \in A(ns) <=> e \in F(ns) /\ BetweenEnds(e)
      <3>1. A(ns) = between_any(s, t, ns) \cap between_any(n, t, ns)
        BY <1>4 DEF Adjacent
      <3> HIDE DEF A
      <3> QED BY <3>1 DEF between_any
    <2>2. (Leads(s, n) \/ Leads(n, s)) <=> \E e \in Matching : BetweenEnds(e)
      BY DEF Leads
    <2> HIDE DEF A, F, BetweenEnds
    <2>3. (\E ns \in Namespace : A(ns) # {}) <=> \E e \in Matching : BetweenEnds(e)
      BY <1>1, <2>1
    <2> QED BY <1>4, <2>2, <2>3 DEF Arc, A
  <1> QED BY <1>2, <1>3, <1>4

LEMMA DistancesOfPaths ==
  ASSUME TypeOK, Walking, rows = SimplePaths
  PROVE  /\ NearestAreAdjacent
         /\ Found \cup {query.start} = (Ball[query.limit] \cap node) \cup {query.start}
         /\ \A n \in Found : \A i \in 0..query.limit : n \in Ball[i] <=> LeastHops(n) <= i
  <1>1. query \in Query /\ query # None
    BY DEF TypeOK, Walking
  <1>2. query.limit \in Nat /\ \A p \in SimplePaths : /\ Len(p) \in Nat /\ 1 <= Len(p)
                                                      /\ Len(p) <= query.limit + 1
                                                      /\ p \in Seq(Id) /\ IsSimplePath(p)
    BY <1>1, PathIsSeq DEF SimplePaths
  <1>3. \A n : n \in Ball[query.limit] <=> PathsTo(n) # {}
    <2>1. query.limit \in 0..query.limit
      BY <1>2
    <2> QED BY <1>2, <2>1, BallByPaths DEF PathsTo
  <1>4. \A p \in SimplePaths : Last(p) \in Id
    BY <1>2 DEF Last
  <1>5. ASSUME query.what \notin ReachQueries, NEW p \in SimplePaths PROVE Last(p) \in node
    <2>1. Last(p) = p[Len(p)] /\ Region = node
      BY <1>5 DEF Last, Region
    <2>2. p[1] \in node /\ \A i \in 2..Len(p) : p[i] \in node
      BY <1>2, <2>1 DEF IsSimplePath
    <2>3. Len(p) = 1 \/ Len(p) \in 2..Len(p)
      BY <1>2, OneOrMore
    <2> QED BY <2>1, <2>2, <2>3
  <1>6. Found \cup {query.start} = (Ball[query.limit] \cap node) \cup {query.start}
    <2>1. CASE query.what \in ReachQueries
      BY <1>3, <2>1 DEF Found
    <2>2. CASE query.what \notin ReachQueries
      <3>1. \A n : PathsTo(n) # {} => n \in node /\ n \in Id
        BY <1>4, <1>5, <2>2 DEF PathsTo
      <3> QED BY <1>3, <2>2, <3>1 DEF Found
    <2> QED BY <2>1, <2>2
  <1>7. \A n \in Found : PathsTo(n) # {}
    BY DEF Found
  <1>8. NearestAreAdjacent
    <2> SUFFICES ASSUME query.what \in {"outgoing", "incoming", "both"}, query.limit > 0,
                        query.start \in node, NEW n \in node, n # query.start
                 PROVE  (n \in Found /\ LeastHops(n) = 1)
                          <=> \E ns \in Namespace : Adjacent(n, ns) # {}
      BY DEF NearestAreAdjacent
    <2>0. n \in Id /\ Region = node
      BY DEF TypeOK, Region, ReachQueries
    <2>1. 0 \in 0..query.limit /\ 1 \in 0..query.limit /\ 0 + 1 = 1 /\ 0 \in Nat
      BY <1>2
    <2>2. Ball[0] = {query.start} /\ Ball[1] = Ball[0] \cup Around(Ball[0])
      BY <2>1, BallEquation
    <2>3. n \in Ball[1] <=> Arc(query.start, n)
      BY <2>0, <2>2 DEF Around
    <2>4. n \in Ball[1] => n \in Found
      <3>1. ASSUME n \in Ball[1] PROVE PathsTo(n) # {}
        BY <2>1, <3>1, BallByPaths DEF PathsTo
      <3> QED BY <2>0, <3>1 DEF Found
    <2>5. ASSUME n \in Found PROVE LeastHops(n) = 1 <=> n \in Ball[1]
      <3>1. /\ LeastHops(n) \in 0..query.limit
            /\ n \in Ball[0] <=> LeastHops(n) <= 0
            /\ n \in Ball[1] <=> LeastHops(n) <= 1
        BY <1>7, <2>1, <2>5, LeastOfHops
      <3> DEFINE k == LeastHops(n)
      <3> HIDE DEF k
      <3>2. k \in Nat /\ ~(k <= 0) /\ (n \in Ball[1] <=> k <= 1)
        BY <1>2, <2>2, <3>1 DEF k
      <3>3. k = 1 <=> k <= 1
        BY <3>2
      <3> QED BY <3>2, <3>3 DEF k
    <2> QED BY <2>0, <2>3, <2>4, <2>5, AdjacentByArc, <1>1
  <1>9. \A n \in Found : \A i \in 0..query.limit : n \in Ball[i] <=> LeastHops(n) <= i
    BY <1>7, LeastOfHops
  <1> QED BY <1>6, <1>8, <1>9

\* A traversal finds exactly the nodes within the limit, each with its least distance, and
\* its nearest are those the edge table names, asked about each namespace.
THEOREM DistancesAreRight == Spec => []DistancesAreLeast
  <1>1. WalkInv => DistancesAreLeast
    <2> SUFFICES ASSUME WalkInv, Done, query.what \in WalkQueries PROVE DistancesAreLeast
      BY DEF DistancesAreLeast
    <2>1. TypeOK /\ Walking /\ work = {}
      BY DEF Done, Walking, WalkInv
    <2>2. rows \subseteq SimplePaths /\ \A p \in SimplePaths : p \in rows
      <3>1. Tracing /\ Goal = SimplePaths
        BY <2>1 DEF Walking, Tracing, Goal, WalkQueries, NodeQueries, ReachQueries
      <3> QED BY <2>1, <3>1 DEF WalkInv, Levels
    <2>3. rows = SimplePaths
      BY <2>2
    <2> QED BY <2>1, <2>3, DistancesOfPaths DEF DistancesAreLeast
  <1> QED BY <1>1, WalkInvariant, PTL

-----------------------------------------------------------------------------
(* Cycles.                                                                   *)

LeastFirst(c) == \A i \in 2..Len(c) : c[i] > c[1]

LEMMA Modulo ==
  ASSUME NEW m \in Nat, m >= 1, NEW x \in 0..(2 * m - 1)
  PROVE  x % m = IF x < m THEN x ELSE x - m
  OBVIOUS

\* A simple cycle, its links written out.
LEMMA CycleLinks ==
  ASSUME NEW c \in Seq(Id), Len(c) >= 1, NEW nodes
  PROVE  IsSimpleCycle(c, nodes) <=> /\ IsSimple(c)
                                     /\ \A i \in 1..Len(c) : c[i] \in nodes
                                     /\ \A i \in 1..(Len(c) - 1) : Leads(c[i], c[i + 1])
                                     /\ Leads(c[Len(c)], c[1])
  <1> DEFINE m == Len(c)
  <1>1. m \in Nat /\ m >= 1
    OBVIOUS
  <1>2. \A i \in 1..(m - 1) : (i % m) + 1 = i + 1
    <2> HIDE DEF m
    <2> SUFFICES ASSUME NEW i \in 1..(m - 1) PROVE (i % m) + 1 = i + 1
      OBVIOUS
    <2>1. i \in 0..(2 * m - 1) /\ i < m
      BY <1>1
    <2>2. i % m = i
      BY <1>1, <2>1, Modulo
    <2> QED BY <2>2
  <1>3. (m % m) + 1 = 1
    <2> HIDE DEF m
    <2>1. m \in 0..(2 * m - 1) /\ ~(m < m) /\ m - m = 0
      BY <1>1
    <2>2. m % m = 0
      BY <1>1, <2>1, Modulo
    <2> QED BY <2>2
  <1>4. (\A i \in 1..m : Leads(c[i], c[(i % m) + 1]))
          <=> (\A i \in 1..(m - 1) : Leads(c[i], c[i + 1])) /\ Leads(c[m], c[1])
    <2> HIDE DEF m
    <2>1. m \in 1..m /\ \A i \in 1..m : i = m \/ i \in 1..(m - 1)
      BY <1>1
    <2>2. \A i \in 1..(m - 1) : i \in 1..m
      BY <1>1
    <2> QED BY <1>2, <1>3, <2>1, <2>2
  <1> QED BY <1>4 DEF IsSimpleCycle

LEMMA CycleIsSeq ==
  ASSUME query # None, query \in Query, NEW c, NEW nodes
  PROVE  /\ query.limit \in Nat
         /\ c \in SimpleCycles(nodes)
              <=> c \in Seq(Id) /\ Len(c) \in 1..query.limit /\ IsSimpleCycle(c, nodes)
  <1>1. query.limit \in Nat
    BY GraphQueriesAssumption DEF Query
  <1>2. ASSUME c \in SimpleCycles(nodes)
        PROVE  c \in Seq(Id) /\ Len(c) \in 1..query.limit /\ IsSimpleCycle(c, nodes)
    <2>1. PICK m \in 1..query.limit : c \in [1..m -> Id]
      BY <1>2 DEF SimpleCycles
    <2>2. m \in Nat
      BY <1>1, <2>1
    <2>3. c \in Seq(Id) /\ Len(c) = m
      BY <2>1, <2>2
    <2> QED BY <1>2, <2>1, <2>3 DEF SimpleCycles
  <1>3. ASSUME c \in Seq(Id), Len(c) \in 1..query.limit, IsSimpleCycle(c, nodes)
        PROVE  c \in SimpleCycles(nodes)
    <2>1. c \in [1..Len(c) -> Id]
      BY <1>3
    <2> QED BY <1>3, <2>1 DEF SimpleCycles
  <1> QED BY <1>1, <1>2, <1>3

\* Without its last node, a chain that came back to its first is a cycle that starts at
\* its least node.
LEMMA ClosedChainIsCycle ==
  ASSUME TypeOK, query # None, NEW r \in Chains, Hops(r) > 0, Last(r) = Head(r)
  PROVE  Front(r) \in SimpleCycles(node) /\ LeastFirst(Front(r))
  <1>1. query \in Query /\ node \subseteq Int
    BY GraphQueriesAssumption DEF TypeOK
  <1>2. /\ r \in Seq(Id) /\ Len(r) \in 2..(query.limit + 1) /\ query.limit \in Nat
        /\ IsChain(r) /\ r[Len(r)] = r[1]
    <2>1. r \in Seq(Id) /\ Len(r) \in 1..(query.limit + 1) /\ query.limit \in Nat /\ IsChain(r)
      BY <1>1, PathIsSeq DEF Chains
    <2>2. Len(r) \in 2..(query.limit + 1)
      BY <2>1 DEF Hops
    <2> QED BY <2>1, <2>2 DEF Last, Head
  <1> DEFINE c == Front(r)
             m == Len(r) - 1
  <1>3. c \in Seq(Id) /\ Len(c) = m /\ \A i \in 1..m : c[i] = r[i]
    <2>1. c = [i \in 1..m |-> r[i]] /\ m \in Nat
      BY <1>2 DEF Front
    <2>2. \A i \in 1..m : r[i] \in Id
      BY <1>2
    <2> HIDE DEF m, c
    <2> QED BY <2>1, <2>2
  <1>4. m \in Nat /\ m >= 1 /\ m \in 1..query.limit /\ Len(r) = m + 1
    BY <1>2
  <1> HIDE DEF m, c
  <1>5. \A i \in 1..m : c[i] \in node /\ c[i] \in Int
    <2>1. \A i \in 1..m : i \in 1..Len(r)
      BY <1>4
    <2> QED BY <1>1, <1>2, <1>3, <2>1 DEF IsChain
  <1>6. \A i \in 2..m : c[i] > c[1]
    <2>1. \A i \in 2..m : i \in 2..Len(r) /\ i # Len(r) /\ i \in 1..m /\ 1 \in 1..m
      BY <1>4
    <2> QED BY <1>2, <1>3, <2>1 DEF IsChain
  <1>7. IsSimple(c)
    <2> SUFFICES ASSUME NEW i \in 1..m, NEW j \in 1..m, c[i] = c[j] PROVE i = j
      BY <1>3 DEF IsSimple
    <2>0. c[i] = c[j]
      OBVIOUS
    <2>1. \A k \in 1..m : k = 1 \/ (k \in 2..m /\ k \in 2..Len(r))
      BY <1>4
    <2>2. \A k \in 2..m : c[k] # c[1]
      <3>1. \A k \in 2..m : k \in 1..m /\ 1 \in 1..m
        BY <1>4
      <3> QED BY <1>5, <1>6, <3>1
    <2>3. \A k, l \in 2..Len(r) : r[k] = r[l] => k = l
      BY <1>2 DEF IsChain
    <2>4. r[i] = r[j] /\ c[i] = r[i] /\ c[j] = r[j]
      BY <1>3, <2>0
    <2>5. CASE i = 1 \/ j = 1
      BY <2>0, <2>1, <2>2, <2>5
    <2>6. CASE i # 1 /\ j # 1
      BY <2>1, <2>3, <2>4, <2>6
    <2> QED BY <2>5, <2>6
  <1>8. \A i \in 1..(m - 1) : Leads(c[i], c[i + 1])
    <2>1. \A i \in 1..(m - 1) : i \in 1..m /\ i + 1 \in 1..m /\ i \in 1..(Len(r) - 1)
      BY <1>4
    <2> QED BY <1>2, <1>3, <2>1 DEF IsChain
  <1>9. Leads(c[m], c[1])
    <2>1. m \in 1..m /\ 1 \in 1..m /\ m \in 1..(Len(r) - 1)
      BY <1>4
    <2>2. Leads(r[m], r[m + 1])
      BY <1>2, <2>1 DEF IsChain
    <2> QED BY <1>2, <1>3, <1>4, <2>1, <2>2
  <1>10. IsSimpleCycle(c, node)
    BY <1>3, <1>4, <1>5, <1>7, <1>8, <1>9, CycleLinks
  <1>11. c \in SimpleCycles(node)
    BY <1>1, <1>3, <1>4, <1>10, CycleIsSeq
  <1> QED BY <1>3, <1>6, <1>11 DEF LeastFirst, c

LEMMA CycleIsClosedChain ==
  ASSUME TypeOK, query # None, NEW c \in SimpleCycles(node), LeastFirst(c)
  PROVE  \E r \in Chains : Hops(r) > 0 /\ Last(r) = Head(r) /\ c = Front(r)
  <1> DEFINE m == Len(c)
             r == Append(c, c[1])
  <1>1. query \in Query /\ node \subseteq Int
    BY GraphQueriesAssumption DEF TypeOK
  <1>2. /\ c \in Seq(Id) /\ m \in 1..query.limit /\ query.limit \in Nat
        /\ IsSimpleCycle(c, node)
    BY <1>1, CycleIsSeq
  <1>3. m \in Nat /\ m >= 1
    BY <1>2
  <1>4. /\ IsSimple(c)
        /\ \A i \in 1..m : c[i] \in node /\ c[i] \in Id
        /\ \A i \in 1..(m - 1) : Leads(c[i], c[i + 1])
        /\ Leads(c[m], c[1])
    <2>1. \A i \in 1..m : c[i] \in Id
      BY <1>2
    <2> QED BY <1>2, <1>3, <2>1, CycleLinks
  <1>5. /\ r \in Seq(Id) /\ Len(r) = m + 1 /\ r[m + 1] = c[1]
        /\ \A i \in 1..m : r[i] = c[i]
    BY <1>2, <1>3, <1>4
  <1>6. Front(r) = c
    <2> DEFINE s == Front(r)
    <2>1. s = [i \in 1..m |-> r[i]]
      <3>1. s = [i \in 1..(Len(r) - 1) |-> r[i]]
        BY <1>3, <1>5 DEF Front
      <3>2. Len(r) - 1 = m
        BY <1>3, <1>5
      <3> QED BY <3>1, <3>2
    <2>2. c = [i \in 1..m |-> c[i]]
      BY <1>2
    <2> HIDE DEF s, r, m
    <2>3. [i \in 1..m |-> r[i]] = [i \in 1..m |-> c[i]]
      BY <1>5
    <2> QED BY <2>1, <2>2, <2>3 DEF s
  <1>7. 1 \in 1..m /\ m \in 1..m
    BY <1>3
  <1> HIDE DEF m, r
  <1>8. \A i \in 1..(m + 1) : r[i] \in node
    <2>1. \A i \in 1..(m + 1) : i \in 1..m \/ i = m + 1
      BY <1>3
    <2> QED BY <1>4, <1>5, <1>7, <2>1
  <1>9. \A i \in 1..m : Leads(r[i], r[i + 1])
    <2> SUFFICES ASSUME NEW i \in 1..m PROVE Leads(r[i], r[i + 1])
      OBVIOUS
    <2>1. CASE i = m
      BY <1>4, <1>5, <1>7, <2>1
    <2>2. CASE i # m
      <3>1. i \in 1..(m - 1) /\ i + 1 \in 1..m
        BY <1>3, <2>2
      <3> QED BY <1>4, <1>5, <3>1
    <2> QED BY <2>1, <2>2
  <1>10. \A i \in 2..(m + 1) : r[i] > r[1] \/ (i = m + 1 /\ r[i] = r[1])
    <2>1. \A i \in 2..(m + 1) : i = m + 1 \/ (i \in 2..m /\ i \in 1..m)
      BY <1>3
    <2>2. \A i \in 2..m : c[i] > c[1]
      BY DEF LeastFirst, m
    <2> QED BY <1>5, <1>7, <2>1, <2>2
  <1>11. \A i, j \in 2..(m + 1) : r[i] = r[j] => i = j
    <2>1. \A i \in 2..(m + 1) : i = m + 1 \/ (i \in 2..m /\ i \in 1..m /\ i # 1)
      BY <1>3
    <2>2. \A i, j \in 1..m : c[i] = c[j] => i = j
      BY <1>4 DEF IsSimple, m
    <2> QED BY <1>5, <1>7, <2>1, <2>2
  <1>12. Len(r) \in 1..(query.limit + 1) /\ (m + 1) - 1 = m
    BY <1>2, <1>3, <1>5
  <1>13. r \in Chains
    <2>1. IsChain(r)
      BY <1>5, <1>8, <1>9, <1>10, <1>11, <1>12 DEF IsChain
    <2>2. r \in Path
      BY <1>1, <1>5, <1>12, PathIsSeq
    <2> QED BY <2>1, <2>2 DEF Chains
  <1>14. Hops(r) > 0 /\ Last(r) = Head(r)
    BY <1>3, <1>5, <1>7, <1>12 DEF Hops, Last, Head
  <1> QED BY <1>6, <1>13, <1>14

\* find_cycles keeps a cycle from its least node on and from no other.
LEMMA CyclesAre ==
  ASSUME TypeOK, query # None, rows = Chains, NEW c
  PROVE  c \in ClosedWalks <=> c \in SimpleCycles(node) /\ LeastFirst(c)
  BY ClosedChainIsCycle, CycleIsClosedChain DEF ClosedWalks

\* The node with the least id on a cycle.
LEMMA LeastElement ==
  ASSUME NEW c \in Seq(Int), Len(c) >= 1
  PROVE  \E k \in 1..Len(c) : \A j \in 1..Len(c) : c[k] <= c[j]
  <1> DEFINE m == Len(c)
             Least(k, n) == \A j \in 1..n : c[k] <= c[j]
             S == {n \in Nat : n < m => \E k \in 1..(n + 1) : Least(k, n + 1)}
  <1>1. m \in Nat /\ m >= 1 /\ \A i \in 1..m : c[i] \in Int
    OBVIOUS
  <1> HIDE DEF m
  <1>2. 0 \in S
    <2>1. 1 \in 1..(0 + 1) /\ \A j \in 1..(0 + 1) : j = 1 /\ 1 \in 1..m
      BY <1>1
    <2>2. Least(1, 0 + 1)
      BY <1>1, <2>1
    <2> HIDE DEF Least
    <2> QED BY <2>1, <2>2
  <1>3. ASSUME NEW n \in Nat, n \in S PROVE n + 1 \in S
    <2> SUFFICES ASSUME n + 1 < m PROVE \E k \in 1..(n + 1 + 1) : Least(k, n + 1 + 1)
      OBVIOUS
    <2>1. PICK k \in 1..(n + 1) : Least(k, n + 1)
      BY <1>1, <1>3
    <2>2. /\ k \in 1..m /\ k \in 1..(n + 1 + 1) /\ n + 1 + 1 \in 1..m
          /\ n + 1 + 1 \in 1..(n + 1 + 1)
          /\ \A j \in 1..(n + 1 + 1) : j \in 1..m /\ (j \in 1..(n + 1) \/ j = n + 1 + 1)
      BY <1>1
    <2>3. CASE c[k] <= c[n + 1 + 1]
      BY <2>1, <2>2, <2>3
    <2>4. CASE ~(c[k] <= c[n + 1 + 1])
      <3> SUFFICES ASSUME NEW j \in 1..(n + 1 + 1) PROVE c[n + 1 + 1] <= c[j]
        BY <2>2
      <3>1. c[k] \in Int /\ c[n + 1 + 1] \in Int /\ c[j] \in Int
        BY <1>1, <2>2
      <3>2. j = n + 1 + 1 \/ c[k] <= c[j]
        BY <2>1, <2>2
      <3> QED BY <2>4, <3>1, <3>2
    <2> QED BY <2>3, <2>4
  <1>4. Nat \subseteq S
    <2> HIDE DEF S
    <2> QED BY <1>2, <1>3, SetInduction
  <1>5. m - 1 \in Nat /\ m - 1 < m /\ (m - 1) + 1 = m
    BY <1>1
  <1> HIDE DEF Least
  <1>6. \E k \in 1..m : Least(k, m)
    BY <1>4, <1>5
  <1> QED BY <1>6 DEF Least, m

\* Where the i-th node of a rotation comes from.
Place(i, k, m) == IF i + k <= m THEN i + k ELSE i + k - m

LEMMA RotationIs ==
  ASSUME NEW c \in Seq(Id), Len(c) >= 1, NEW k \in 0..(Len(c) - 1)
  PROVE  /\ Rotation(c, k) \in Seq(Id) /\ Len(Rotation(c, k)) = Len(c)
         /\ \A i \in 1..Len(c) : /\ Place(i, k, Len(c)) \in 1..Len(c)
                                 /\ Rotation(c, k)[i] = c[Place(i, k, Len(c))]
  <1> DEFINE m == Len(c)
             d == Rotation(c, k)
  <1>1. m \in Nat /\ m >= 1 /\ k \in 0..(m - 1) /\ \A i \in 1..m : c[i] \in Id
    OBVIOUS
  <1>2. d = [i \in 1..m |-> c[((i + k - 1) % m) + 1]]
    BY DEF Rotation
  <1> HIDE DEF m, d
  <1>3. \A i \in 1..m : /\ Place(i, k, m) \in 1..m
                        /\ ((i + k - 1) % m) + 1 = Place(i, k, m)
    <2> SUFFICES ASSUME NEW i \in 1..m
                 PROVE  /\ Place(i, k, m) \in 1..m
                        /\ ((i + k - 1) % m) + 1 = Place(i, k, m)
      OBVIOUS
    <2> DEFINE x == i + k - 1
    <2>1. x \in 0..(2 * m - 1) /\ i \in Int /\ k \in Int
      BY <1>1
    <2>2. x % m = IF x < m THEN x ELSE x - m
      <3> HIDE DEF x
      <3> QED BY <1>1, <2>1, Modulo
    <2>3. CASE x < m
      <3>1. i + k <= m /\ x + 1 = i + k
        BY <1>1, <2>1, <2>3
      <3>2. Place(i, k, m) = i + k /\ i + k \in 1..m
        BY <1>1, <2>1, <3>1 DEF Place
      <3> HIDE DEF x
      <3>3. x % m = x
        BY <2>2, <2>3
      <3> QED BY <3>1, <3>2, <3>3 DEF x
    <2>4. CASE ~(x < m)
      <3>1. ~(i + k <= m) /\ (x - m) + 1 = i + k - m
        BY <1>1, <2>1, <2>4
      <3>2. Place(i, k, m) = i + k - m /\ i + k - m \in 1..m
        BY <1>1, <2>1, <3>1 DEF Place
      <3> HIDE DEF x
      <3>3. x % m = x - m
        BY <2>2, <2>4
      <3> QED BY <3>1, <3>2, <3>3 DEF x
    <2> QED BY <2>3, <2>4
  <1>4. \A i \in 1..m : d[i] = c[Place(i, k, m)]
    BY <1>2, <1>3
  <1>5. d \in Seq(Id) /\ Len(d) = m
    <2>1. \A i \in 1..m : c[((i + k - 1) % m) + 1] \in Id
      BY <1>1, <1>3
    <2> QED BY <1>1, <1>2, <2>1
  <1> QED BY <1>3, <1>4, <1>5 DEF m, d

\* Places wrap around once.
LEMMA Places ==
  ASSUME NEW m \in Nat, m >= 1, NEW k \in 0..(m - 1)
  PROVE  /\ \A i, j \in 1..m : Place(i, k, m) = Place(j, k, m) => i = j
         /\ Place(1, k, m) = k + 1
         /\ \A i \in 1..(m - 1) : \/ Place(i + 1, k, m) = Place(i, k, m) + 1 /\ Place(i, k, m) \in 1..(m - 1)
                                  \/ Place(i + 1, k, m) = 1 /\ Place(i, k, m) = m
         /\ \/ Place(m, k, m) + 1 = Place(1, k, m) /\ Place(m, k, m) \in 1..(m - 1)
            \/ Place(m, k, m) = m /\ Place(1, k, m) = 1
         /\ \A n \in 1..m : \E i \in 1..m : Place(i, k, m) = n
  <1>1. \A i, j \in 1..m : Place(i, k, m) = Place(j, k, m) => i = j
    BY DEF Place
  <1>2. Place(1, k, m) = k + 1
    BY DEF Place
  <1>3. ASSUME NEW i \in 1..(m - 1)
        PROVE  \/ Place(i + 1, k, m) = Place(i, k, m) + 1 /\ Place(i, k, m) \in 1..(m - 1)
               \/ Place(i + 1, k, m) = 1 /\ Place(i, k, m) = m
    BY DEF Place
  <1>4. \/ Place(m, k, m) + 1 = Place(1, k, m) /\ Place(m, k, m) \in 1..(m - 1)
        \/ Place(m, k, m) = m /\ Place(1, k, m) = 1
    BY DEF Place
  <1>5. ASSUME NEW n \in 1..m PROVE \E i \in 1..m : Place(i, k, m) = n
    <2>1. CASE n > k
      <3>1. n - k \in 1..m /\ Place(n - k, k, m) = n
        BY <2>1 DEF Place
      <3> QED BY <3>1
    <2>2. CASE ~(n > k)
      <3>1. n - k + m \in 1..m /\ Place(n - k + m, k, m) = n
        BY <2>2 DEF Place
      <3> QED BY <3>1
    <2> QED BY <2>1, <2>2
  <1> QED BY <1>1, <1>2, <1>3, <1>4, <1>5

LEMMA RotationIsCycle ==
  ASSUME TypeOK, query # None, NEW c \in SimpleCycles(node), NEW k \in 0..(Len(c) - 1)
  PROVE  Rotation(c, k) \in SimpleCycles(node)
  <1> DEFINE m == Len(c)
             d == Rotation(c, k)
             At(i) == Place(i, k, m)
  <1>1. query \in Query
    BY DEF TypeOK
  <1>2. c \in Seq(Id) /\ m \in 1..query.limit /\ query.limit \in Nat /\ IsSimpleCycle(c, node)
    BY <1>1, CycleIsSeq
  <1>3. m \in Nat /\ m >= 1 /\ k \in 0..(m - 1) /\ 1 \in 1..m /\ m \in 1..m
    BY <1>2
  <1>4. /\ \A i, j \in 1..m : c[i] = c[j] => i = j
        /\ \A i \in 1..m : c[i] \in node
        /\ \A i \in 1..(m - 1) : Leads(c[i], c[i + 1])
        /\ Leads(c[m], c[1])
    BY <1>2, <1>3, CycleLinks DEF IsSimple
  <1>5. d \in Seq(Id) /\ Len(d) = m /\ \A i \in 1..m : At(i) \in 1..m /\ d[i] = c[At(i)]
    BY <1>2, <1>3, RotationIs
  <1>6. /\ \A i, j \in 1..m : At(i) = At(j) => i = j
        /\ \A i \in 1..(m - 1) : \/ At(i + 1) = At(i) + 1 /\ At(i) \in 1..(m - 1)
                                 \/ At(i + 1) = 1 /\ At(i) = m
        /\ \/ At(m) + 1 = At(1) /\ At(m) \in 1..(m - 1)
           \/ At(m) = m /\ At(1) = 1
    <2> HIDE DEF m
    <2> QED BY <1>3, Places
  <1> HIDE DEF m, d, At
  <1>7. ASSUME NEW i \in 1..m, NEW j \in 1..m, d[i] = d[j] PROVE i = j
    <2>1. At(i) \in 1..m /\ At(j) \in 1..m /\ c[At(i)] = c[At(j)]
      BY <1>5, <1>7
    <2>2. At(i) = At(j)
      BY <1>4, <2>1
    <2> QED BY <1>6, <2>2
  <1>8. \A i \in 1..(m - 1) : Leads(d[i], d[i + 1])
    <2> SUFFICES ASSUME NEW i \in 1..(m - 1) PROVE Leads(d[i], d[i + 1])
      OBVIOUS
    <2>1. i \in 1..m /\ i + 1 \in 1..m
      BY <1>3
    <2>2. d[i] = c[At(i)] /\ d[i + 1] = c[At(i + 1)]
      BY <1>5, <2>1
    <2>3. CASE At(i + 1) = At(i) + 1 /\ At(i) \in 1..(m - 1)
      BY <1>4, <2>2, <2>3
    <2>4. CASE At(i + 1) = 1 /\ At(i) = m
      BY <1>4, <2>2, <2>4
    <2> QED BY <1>6, <2>3, <2>4
  <1>9. Leads(d[m], d[1])
    BY <1>3, <1>4, <1>5, <1>6
  <1>10. \A i \in 1..m : d[i] \in node
    BY <1>4, <1>5
  <1>11. IsSimpleCycle(d, node)
    BY <1>3, <1>5, <1>7, <1>8, <1>9, <1>10, CycleLinks DEF IsSimple
  <1>12. d \in SimpleCycles(node)
    BY <1>1, <1>2, <1>5, <1>11, CycleIsSeq
  <1> QED BY <1>12 DEF d

\* One rotation of a simple cycle starts at its least node, and only one does.
LEMMA OneStartsAtLeast ==
  ASSUME TypeOK, query # None, NEW c \in SimpleCycles(node)
  PROVE  \E k \in 0..(Len(c) - 1) :
           /\ LeastFirst(Rotation(c, k))
           /\ \A l \in 0..(Len(c) - 1) : LeastFirst(Rotation(c, l)) => l = k
  <1> DEFINE m == Len(c)
  <1>1. query \in Query /\ node \subseteq Int
    BY GraphQueriesAssumption DEF TypeOK
  <1>2. c \in Seq(Id) /\ m \in 1..query.limit /\ query.limit \in Nat /\ IsSimpleCycle(c, node)
    BY <1>1, CycleIsSeq
  <1>3. m \in Nat /\ m >= 1
    BY <1>2
  <1>4. /\ \A i, j \in 1..m : c[i] = c[j] => i = j
        /\ \A i \in 1..m : c[i] \in Int
    BY <1>1, <1>2, <1>3, CycleLinks DEF IsSimple
  <1>5. c \in Seq(Int)
    BY <1>2, <1>4
  <1>6. PICK p \in 1..m : \A j \in 1..m : c[p] <= c[j]
    BY <1>3, <1>5, LeastElement
  <1>7. ASSUME NEW l \in 0..(m - 1)
        PROVE  LeastFirst(Rotation(c, l)) <=> l = p - 1
    <2> DEFINE d == Rotation(c, l)
               At(i) == Place(i, l, m)
    <2>1. Len(d) = m /\ \A i \in 1..m : At(i) \in 1..m /\ d[i] = c[At(i)]
      BY <1>2, <1>3, RotationIs
    <2>2. /\ \A i, j \in 1..m : At(i) = At(j) => i = j
          /\ At(1) = l + 1
          /\ \A n \in 1..m : \E i \in 1..m : At(i) = n
      <3> HIDE DEF m
      <3> QED BY <1>3, Places
    <2> HIDE DEF m, d, At
    <2>3. \A i \in 2..m : i \in 1..m /\ i # 1 /\ 1 \in 1..m
      BY <1>3
    <2>4. ASSUME l = p - 1, NEW i \in 2..m PROVE d[i] > d[1]
      <3>1. At(1) = p /\ At(i) # p /\ At(i) \in 1..m
        <4>1. l + 1 = p
          BY <1>3, <2>4
        <4> QED BY <2>1, <2>2, <2>3, <4>1
      <3>2. d[1] = c[p] /\ d[i] = c[At(i)] /\ c[At(i)] # c[p]
        BY <1>4, <2>1, <2>3, <3>1
      <3> QED BY <1>4, <1>6, <3>1, <3>2
    <2>5. ASSUME LeastFirst(d) PROVE l = p - 1
      <3>1. PICK i \in 1..m : At(i) = p
        BY <2>2
      <3>2. CASE i = 1
        BY <1>3, <2>2, <3>1, <3>2
      <3>3. CASE i # 1
        <4>1. i \in 2..m /\ 1 \in 1..m
          BY <1>3, <3>3
        <4>2. d[i] > d[1] /\ d[i] = c[p] /\ d[1] = c[At(1)] /\ At(1) \in 1..m
          BY <2>1, <2>5, <3>1, <4>1 DEF LeastFirst
        <4> QED BY <1>4, <1>6, <4>2
      <3> QED BY <3>2, <3>3
    <2> QED BY <2>1, <2>4, <2>5 DEF LeastFirst, d
  <1>8. p - 1 \in 0..(m - 1)
    BY <1>3
  <1> QED BY <1>7, <1>8

LEMMA WalksCloseOnce ==
  ASSUME TypeOK, query # None, rows = Chains
  PROVE  /\ ClosedWalks \subseteq SimpleCycles(node)
         /\ \A c \in SimpleCycles(node) : \E k \in 0..(Len(c) - 1) :
              Rotations(c) \cap ClosedWalks = {Rotation(c, k)}
  <1>1. ClosedWalks \subseteq SimpleCycles(node)
    BY CyclesAre
  <1>2. ASSUME NEW c \in SimpleCycles(node)
        PROVE  \E k \in 0..(Len(c) - 1) : Rotations(c) \cap ClosedWalks = {Rotation(c, k)}
    <2>1. PICK k \in 0..(Len(c) - 1) :
            /\ LeastFirst(Rotation(c, k))
            /\ \A l \in 0..(Len(c) - 1) : LeastFirst(Rotation(c, l)) => l = k
      BY OneStartsAtLeast
    <2>2. \A l \in 0..(Len(c) - 1) : Rotation(c, l) \in ClosedWalks <=> LeastFirst(Rotation(c, l))
      BY RotationIsCycle, CyclesAre
    <2>3. Rotations(c) = {Rotation(c, l) : l \in 0..(Len(c) - 1)}
      BY DEF Rotations
    <2> QED BY <2>1, <2>2, <2>3
  <1> QED BY <1>1, <1>2

\* The rotation by none is the cycle itself; none is longer.
LEMMA RotationsOf ==
  ASSUME TypeOK, query # None, NEW c \in SimpleCycles(node)
  PROVE  /\ c \in Rotations(c) /\ Len(c) \in Nat
         /\ \A k \in 0..(Len(c) - 1) : Len(Rotation(c, k)) = Len(c)
  <1> DEFINE m == Len(c)
  <1>1. query \in Query
    BY DEF TypeOK
  <1>2. c \in Seq(Id) /\ m \in Nat /\ m >= 1
    <2>1. c \in Seq(Id) /\ m \in 1..query.limit /\ query.limit \in Nat
      BY <1>1, CycleIsSeq
    <2> QED BY <2>1
  <1>3. \A k \in 0..(m - 1) : Len(Rotation(c, k)) = m
    BY <1>2 DEF Rotation
  <1>4. Rotation(c, 0) = c
    <2>1. ASSUME NEW i \in 1..m PROVE c[((i + 0 - 1) % m) + 1] = c[i]
      <3> HIDE DEF m
      <3>1. i - 1 \in 0..(m - 1) /\ i + 0 - 1 = i - 1
        BY <1>2
      <3>2. (i - 1) % m = i - 1
        BY <1>2, <3>1
      <3> QED BY <1>2, <3>1, <3>2
    <2>2. c = [i \in 1..m |-> c[i]]
      BY <1>2
    <2> QED BY <2>1, <2>2 DEF Rotation
  <1>5. 0 \in 0..(m - 1)
    BY <1>2
  <1> QED BY <1>2, <1>3, <1>4, <1>5 DEF Rotations

LEMMA CyclesAreOnce ==
  ASSUME TypeOK, query # None, rows = Chains,
         NEW max \in MaxCycles \cup {None}, NEW S \in Cycles(max)
  PROVE  /\ S \subseteq SimpleCycles(node)
         /\ max # None => Cardinality(S) <= max
         /\ \A c \in S : Rotations(c) \cap S = {c}
         /\ \A c \in SimpleCycles(node) :
              \/ Rotations(c) \cap S # {}
              \/ max # None /\ Cardinality(S) = max /\ \A d \in S : Len(d) <= Len(c)
  <1>1. /\ ClosedWalks \subseteq SimpleCycles(node)
        /\ \A c \in SimpleCycles(node) : \E k \in 0..(Len(c) - 1) :
             Rotations(c) \cap ClosedWalks = {Rotation(c, k)}
    BY WalksCloseOnce
  <1>2. max # None => max \in Nat
    BY GraphQueriesAssumption
  <1>3. \/ S = ClosedWalks /\ (max = None \/ Cardinality(S) <= max)
        \/ /\ S \subseteq ClosedWalks /\ max # None /\ Cardinality(S) = max
           /\ \A c \in S, d \in ClosedWalks \ S : Len(c) <= Len(d)
    BY DEF Cycles, kSubset
  <1>4. S \subseteq ClosedWalks /\ (max # None => Cardinality(S) <= max)
    BY <1>2, <1>3
  <1>5. ASSUME NEW c \in S PROVE Rotations(c) \cap S = {c}
    <2>1. c \in SimpleCycles(node) /\ c \in ClosedWalks
      BY <1>1, <1>4
    <2>2. c \in Rotations(c)
      BY <2>1, RotationsOf
    <2>3. PICK r : Rotations(c) \cap ClosedWalks = {r}
      BY <1>1, <2>1
    <2> QED BY <1>4, <2>1, <2>2, <2>3
  <1>6. ASSUME NEW c \in SimpleCycles(node), Rotations(c) \cap S = {}
        PROVE  max # None /\ Cardinality(S) = max /\ \A d \in S : Len(d) <= Len(c)
    <2>1. PICK k \in 0..(Len(c) - 1) : Rotations(c) \cap ClosedWalks = {Rotation(c, k)}
      BY <1>1
    <2>2. Rotation(c, k) \in ClosedWalks \ S
      BY <1>6, <2>1
    <2>3. Len(Rotation(c, k)) = Len(c)
      BY RotationsOf
    <2> QED BY <1>3, <2>2, <2>3
  <1> QED BY <1>1, <1>4, <1>5, <1>6

\* find_cycles returns cycles of the stored nodes within the limit, each from its least
\* node on and so at most once, and all of them unless there are more than max_cycles, of
\* which it then leaves out none shorter than one it returns.
THEOREM CyclesAreRight == Spec => []CyclesOnce
  <1>1. WalkInv => CyclesOnce
    <2> SUFFICES ASSUME WalkInv, Done, query.what = "find_cycles" PROVE CyclesOnce
      BY DEF CyclesOnce
    <2>1. TypeOK /\ Tracing /\ Goal = Chains /\ work = {} /\ query # None
      BY DEF Done, Tracing, Goal, WalkInv
    <2>2. rows \subseteq Chains /\ \A p \in Chains : p \in rows
      BY <2>1 DEF WalkInv, Levels
    <2>3. rows = Chains
      BY <2>2
    <2> QED BY <2>1, <2>3, CyclesAreOnce DEF CyclesOnce
  <1> QED BY <1>1, WalkInvariant, PTL

-----------------------------------------------------------------------------
(* Whether there is a cycle.                                                 *)

ClosedWalk == \E w \in Walks : w[1] = w[Len(w)]

LEMMA HasCycleByWalk ==
  ASSUME TypeOK, Strides, Closing, work = {}
  PROVE  HasCycle <=> ClosedWalk
  <1>1. \A r : r \in rows <=> \E w \in Walks : r = RowAt(w, Len(w))
    BY DEF Strides
  <1>2. \A w : RowAt(w, Len(w)).from = w[1] /\ RowAt(w, Len(w)).to = w[Len(w)]
    BY DEF RowAt
  <1> QED BY <1>1, <1>2 DEF HasCycle, ClosedWalk

LEMMA LimitOfWalks ==
  ASSUME TypeOK, Closing
  PROVE  /\ query \in Query /\ query # None
         /\ query.limit \in Nat /\ Top \in Nat /\ Top >= 1 /\ query.limit <= Top
         /\ Top > 1 => Top = query.limit
         /\ \A e \in Matching : e.source \in Id /\ e.target \in Id
  <1>1. query \in Query /\ query # None
    BY DEF TypeOK, Closing
  <1>2. query.limit \in Nat
    BY <1>1, GraphQueriesAssumption DEF Query
  <1>3. \A e \in Matching : e.source \in Id /\ e.target \in Id
    BY DEF TypeOK, Matching, MatchingOf, Edge
  <1> QED BY <1>1, <1>2, <1>3 DEF Top

LEMMA LoopIsSeen ==
  ASSUME TypeOK, Closing, NEW n \in Id, Leads(n, n)
  PROVE  ClosedWalk
  <1> DEFINE w == <<n, n>>
  <1>1. \E e \in Matching : e.source = n /\ e.target = n
    BY DEF Leads
  <1>2. w \in Seq(Id) /\ Len(w) = 2 /\ w[1] = n /\ w[2] = n
    OBVIOUS
  <1> HIDE DEF w
  <1>3. IsWalk(w)
    BY <1>1, <1>2 DEF IsWalk
  <1>4. Len(w) \in 2..(Top + 1)
    BY <1>2, LimitOfWalks, TwoOrMore
  <1> QED BY <1>2, <1>3, <1>4 DEF ClosedWalk, Walks

LEMMA CycleIsWalked ==
  ASSUME TypeOK, Closing, NEW c \in SimpleCycles(Id)
  PROVE  ClosedWalk
  <1> DEFINE m == Len(c)
  <1>1. /\ c \in Seq(Id) /\ m \in 1..query.limit /\ IsSimpleCycle(c, Id)
        /\ query.limit \in Nat /\ Top \in Nat /\ query.limit <= Top
    BY LimitOfWalks, CycleIsSeq
  <1>2. m \in Nat /\ m >= 1 /\ m <= Top /\ 1 \in 1..m /\ m \in 1..m
    BY <1>1
  <1>3. /\ \A i \in 1..m : c[i] \in Id
        /\ \A i \in 1..(m - 1) : Leads(c[i], c[i + 1])
        /\ Leads(c[m], c[1])
    BY <1>1, <1>2, CycleLinks
  <1>4. CASE m = 1
    BY <1>2, <1>3, <1>4, LoopIsSeen
  <1>5. CASE m # 1
    <2> HIDE DEF m
    <2>1. 1 \in 1..(m - 1) /\ 2 \in 1..m /\ m + 1 \in 2..(Top + 1) /\ 3 \in 2..(Top + 1)
      BY <1>1, <1>2, <1>5
    <2>2. PICK e \in Matching : \/ e.source = c[1] /\ e.target = c[2]
                                \/ e.is_bidirectional /\ e.source = c[2] /\ e.target = c[1]
      BY <1>3, <2>1 DEF Leads
    <2>3. CASE e.source = c[1] /\ e.target = c[2]
      <3> DEFINE w == Append(c, c[1])
      <3>1. /\ w \in Seq(Id) /\ Len(w) = m + 1 /\ w[m + 1] = c[1]
            /\ \A i \in 1..m : w[i] = c[i]
        BY <1>1, <1>2, <1>3 DEF m
      <3> HIDE DEF w
      <3>2. \A i \in 1..m : Leads(w[i], w[i + 1])
        <4> SUFFICES ASSUME NEW i \in 1..m PROVE Leads(w[i], w[i + 1])
          OBVIOUS
        <4>1. CASE i = m
          BY <1>3, <3>1, <4>1
        <4>2. CASE i # m
          <5>1. i \in 1..(m - 1) /\ i + 1 \in 1..m
            BY <1>2, <4>2
          <5> QED BY <1>3, <3>1, <5>1
        <4> QED BY <4>1, <4>2
      <3>3. (m + 1) - 1 = m
        BY <1>2
      <3>4. IsWalk(w)
        BY <1>2, <2>1, <2>3, <3>1, <3>2, <3>3 DEF IsWalk
      <3> QED BY <1>2, <2>1, <3>1, <3>4 DEF ClosedWalk, Walks
    <2>4. CASE e.is_bidirectional /\ e.source = c[2] /\ e.target = c[1]
      <3> DEFINE w == <<c[2], c[1], c[2]>>
      <3>1. c[1] \in Id /\ c[2] \in Id /\ Leads(c[1], c[2]) /\ Leads(c[2], c[1])
        <4>1. Leads(c[1], c[1 + 1])
          BY <1>3, <2>1
        <4> QED BY <1>2, <1>3, <2>1, <2>4, <4>1 DEF Leads
      <3>2. w \in Seq(Id) /\ Len(w) = 3 /\ w[1] = c[2] /\ w[2] = c[1] /\ w[3] = c[2]
        BY <3>1
      <3> HIDE DEF w
      <3>3. \A i \in 1..(Len(w) - 1) : Leads(w[i], w[i + 1])
        <4>1. \A i \in 1..(3 - 1) : (i = 1 /\ i + 1 = 2) \/ (i = 2 /\ i + 1 = 3)
          OBVIOUS
        <4> QED BY <3>1, <3>2, <4>1
      <3>4. IsWalk(w)
        BY <2>4, <3>2, <3>3 DEF IsWalk
      <3> QED BY <2>1, <3>2, <3>4 DEF ClosedWalk, Walks
    <2> QED BY <2>2, <2>3, <2>4
  <1> QED BY <1>4, <1>5

IsClosed(v, k) ==
  /\ v \in Seq(Id) /\ Len(v) = k + 1 /\ v[1] = v[k + 1]
  /\ \A i \in 1..k : Leads(v[i], v[i + 1])

\* A shortest closed walk passes no node twice.
LEMMA ShortestIsSimple ==
  ASSUME NEW k \in Nat, k >= 1, NEW v, IsClosed(v, k),
         \A j \in Nat : \A u : j >= 1 /\ IsClosed(u, j) => k <= j
  PROVE  \A i, j \in 1..k : i < j => v[i] # v[j]
  <1> SUFFICES ASSUME NEW i \in 1..k, NEW j \in 1..k, i < j, v[i] = v[j] PROVE FALSE
    OBVIOUS
  <1> DEFINE n == j - i
             u == [x \in 1..(n + 1) |-> v[x + i - 1]]
  <1>1. n \in Nat /\ n >= 1 /\ n < k /\ n + 1 \in Nat
    OBVIOUS
  <1>2. \A x \in 1..(n + 1) : x + i - 1 \in 1..k
    OBVIOUS
  <1>3. \A x \in 1..k : v[x] \in Id
    <2>1. \A x \in 1..k : x \in 1..(k + 1)
      OBVIOUS
    <2> QED BY <2>1 DEF IsClosed
  <1>4. u[1] = v[i] /\ u[n + 1] = v[j]
    <2>1. 1 \in 1..(n + 1) /\ n + 1 \in 1..(n + 1) /\ 1 + i - 1 = i /\ (n + 1) + i - 1 = j
      OBVIOUS
    <2> HIDE DEF n
    <2> QED BY <2>1
  <1>5. u \in Seq(Id) /\ Len(u) = n + 1
    <2> HIDE DEF n
    <2>1. \A x \in 1..(n + 1) : v[x + i - 1] \in Id
      BY <1>2, <1>3
    <2> QED BY <1>1, <2>1
  <1>6. \A x \in 1..n : Leads(u[x], u[x + 1])
    <2> SUFFICES ASSUME NEW x \in 1..n PROVE Leads(u[x], u[x + 1])
      OBVIOUS
    <2>1. /\ x \in 1..(n + 1) /\ x + 1 \in 1..(n + 1)
          /\ (x + 1) + i - 1 = (x + i - 1) + 1 /\ x + i - 1 \in 1..k
      OBVIOUS
    <2> HIDE DEF n
    <2>2. u[x] = v[x + i - 1] /\ u[x + 1] = v[(x + i - 1) + 1]
      BY <2>1
    <2> HIDE DEF u
    <2>3. Leads(v[x + i - 1], v[(x + i - 1) + 1])
      BY <2>1 DEF IsClosed
    <2> QED BY <2>2, <2>3
  <1> HIDE DEF u, n
  <1>7. IsClosed(u, n)
    BY <1>4, <1>5, <1>6 DEF IsClosed
  <1>8. k <= n
    BY <1>1, <1>7
  <1> QED BY <1>1, <1>8

LEMMA WalkIsOfCycle ==
  ASSUME TypeOK, Closing, ClosedWalk
  PROVE  SimpleCycles(Id) # {} \/ \E n \in Id : Leads(n, n)
  <1>1. PICK w \in Walks : w[1] = w[Len(w)]
    BY DEF ClosedWalk
  <1>2. /\ query.limit \in Nat /\ Top \in Nat /\ Top >= 1 /\ (Top > 1 => Top = query.limit)
        /\ w \in Seq(Id) /\ Len(w) \in 2..(Top + 1) /\ IsWalk(w)
    BY WalkIsSeq
  <1> DEFINE K == {k \in Nat : k >= 1 /\ \E v : IsClosed(v, k)}
             l == Len(w) - 1
  <1>3. l \in K /\ l \in Nat /\ l <= Top
    <2>1. l \in Nat /\ l >= 1 /\ l <= Top /\ Len(w) = l + 1
      BY <1>2
    <2>2. IsClosed(w, l)
      BY <1>1, <1>2, <2>1 DEF IsClosed, IsWalk
    <2> HIDE DEF l
    <2> QED BY <2>1, <2>2
  <1>4. PICK k \in K : \A j \in K : k <= j
    <2> HIDE DEF l
    <2>1. K \subseteq Nat /\ K # {}
      BY <1>3
    <2> HIDE DEF K
    <2> QED BY <2>1, LeastNat
  <1> HIDE DEF l
  <1>5. k \in Nat /\ k >= 1 /\ k <= Top
    <2>1. k \in Nat /\ k >= 1 /\ k <= l
      BY <1>3, <1>4
    <2> QED BY <1>2, <1>3, <2>1
  <1>6. PICK v : IsClosed(v, k)
    OBVIOUS
  <1>7. \A j \in Nat : \A u : j >= 1 /\ IsClosed(u, j) => k <= j
    BY <1>4
  <1> HIDE DEF K
  <1>8. \A i, j \in 1..k : i < j => v[i] # v[j]
    BY <1>5, <1>6, <1>7, ShortestIsSimple
  <1>9. /\ \A i \in 1..k : v[i] \in Id
        /\ \A i \in 1..k : Leads(v[i], v[i + 1])
        /\ v[1] = v[k + 1]
        /\ 1 \in 1..k /\ k \in 1..k
    <2>1. (\A i \in 1..k : i \in 1..(k + 1)) /\ 1 \in 1..k /\ k \in 1..k
      BY <1>5
    <2> QED BY <1>6, <2>1 DEF IsClosed
  <1>10. CASE k = 1
    <2>1. Leads(v[1], v[1])
      BY <1>9, <1>10
    <2> QED BY <1>9, <2>1
  <1>11. CASE k # 1
    <2> DEFINE c == [i \in 1..k |-> v[i]]
    <2>1. c \in Seq(Id) /\ Len(c) = k /\ \A i \in 1..k : c[i] = v[i]
      BY <1>5, <1>9
    <2> HIDE DEF c
    <2>2. Len(c) \in 1..query.limit /\ Len(c) >= 1
      <3>1. k \in 1..query.limit
        BY <1>2, <1>5, <1>11
      <3> QED BY <1>5, <2>1, <3>1
    <2>3. IsSimple(c)
      <3>1. \A i, j \in 1..k : i = j \/ i < j \/ j < i
        BY <1>5
      <3> QED BY <1>8, <2>1, <3>1 DEF IsSimple
    <2>4. \A i \in 1..(k - 1) : Leads(c[i], c[i + 1])
      <3>1. \A i \in 1..(k - 1) : i \in 1..k /\ i + 1 \in 1..k
        BY <1>5
      <3> QED BY <1>9, <2>1, <3>1
    <2>5. Leads(c[k], c[1])
      BY <1>9, <2>1
    <2>6. IsSimpleCycle(c, Id)
      BY <1>9, <2>1, <2>2, <2>3, <2>4, <2>5, CycleLinks
    <2>7. query # None /\ query \in Query
      BY LimitOfWalks
    <2>8. c \in SimpleCycles(Id)
      BY <2>1, <2>2, <2>6, <2>7, CycleIsSeq
    <2> QED BY <2>8
  <1> QED BY <1>10, <1>11

\* has_cycle answers yes exactly if the edges have a cycle within the limit or a self-loop.
THEOREM CycleIsNotMissed == Spec => []CycleIsSeen
  <1>1. WalkInv => CycleIsSeen
    <2> SUFFICES ASSUME WalkInv, Done, query.what = "has_cycle" PROVE CycleIsSeen
      BY DEF CycleIsSeen
    <2>1. TypeOK /\ Strides /\ Closing /\ work = {}
      BY DEF Done, Closing, WalkInv
    <2>2. HasCycle <=> ClosedWalk
      BY <2>1, HasCycleByWalk
    <2>3. ClosedWalk <=> SimpleCycles(Id) # {} \/ \E n \in Id : Leads(n, n)
      BY <2>1, WalkIsOfCycle, CycleIsWalked, LoopIsSeen
    <2> QED BY <2>2, <2>3 DEF CycleIsSeen
  <1> QED BY <1>1, WalkInvariant, PTL

-----------------------------------------------------------------------------
(* The queries of StreamQueries: each answer from the table it is asked of.  *)

LEMMA SameCardinality == \A S : Streams!Cardinality(S) = Cardinality(S)
  BY DEF Streams!Cardinality, Cardinality

EventsOK == events \subseteq Streams!Event /\ IsFiniteSet(events)

LEMMA EventColumns ==
  ASSUME EventsOK, NEW e \in events
  PROVE  e.stream \in Int /\ e.time \in Int
  BY StreamsAssumption DEF EventsOK, Streams!Considered, Streams!Event

\* An enumeration of a finite set has each of its elements once.
LEMMA EachOnce ==
  ASSUME NEW S, IsFiniteSet(S), NEW s \in [1..Cardinality(S) -> S],
         \A r \in S : \E k \in 1..Cardinality(S) : s[k] = r
  PROVE  /\ Cardinality(S) \in Nat
         /\ \A j, k \in 1..Cardinality(S) : s[j] = s[k] => j = k
  <1> DEFINE N == Cardinality(S)
  <1>1. N \in Nat
    BY FS_CardinalityType
  <1>2. IsFiniteSet(1..N) /\ Cardinality(1..N) = N
    <2> HIDE DEF N
    <2>1. Cardinality(1..N) = IF 1 > N THEN 0 ELSE N - 1 + 1
      BY <1>1, FS_Interval
    <2> QED BY <1>1, <2>1, FS_Interval
  <1>3. s \in Surjection(1..N, S)
    BY DEF Surjection
  <1>4. s \in Injection(1..N, S)
    BY <1>2, <1>3, FS_Surjection
  <1> QED BY <1>1, <1>4 DEF Injection, IsInjective

\* One newest row per stream, in the order of the streams.
LEMMA DistinctInOrder ==
  ASSUME EventsOK, NEW ids, NEW after, NEW d \in Streams!Distinct(Streams!Recent(ids, after)),
         NEW s \in Streams!Ordered(d, Streams!ByStream)
  PROVE  /\ Cardinality(d) \in Nat /\ s \in [1..Cardinality(d) -> d]
         /\ \A k \in 1..Cardinality(d) : s[k] \in Streams!Recent(ids, after)
         /\ \A j, k \in 1..Cardinality(d) : j < k => s[j].stream < s[k].stream
         /\ \A e \in Streams!Recent(ids, after) :
              \E k \in 1..Cardinality(d) : s[k].stream = e.stream /\ e.time <= s[k].time
  <1> DEFINE R == Streams!Recent(ids, after)
             n == Cardinality(d)
  <1>1. /\ R \subseteq events /\ d \subseteq R
        /\ \A e, f \in d : e.stream = f.stream => e = f
        /\ \A e \in R : \E f \in d : f.stream = e.stream /\ f.time >= e.time
    BY DEF Streams!Distinct, Streams!Recent, Streams!Of
  <1>2. IsFiniteSet(d)
    BY <1>1, FS_Subset DEF EventsOK
  <1>3. /\ s \in [1..n -> d] /\ \A r \in d : \E k \in 1..n : s[k] = r
        /\ \A j, k \in 1..n : s[j].stream < s[k].stream => j < k
    BY SameCardinality DEF Streams!Ordered, Streams!ByStream
  <1>4. n \in Nat /\ \A j, k \in 1..n : s[j] = s[k] => j = k
    BY <1>2, <1>3, EachOnce
  <1> HIDE DEF n, R
  <1>5. ASSUME NEW j \in 1..n, NEW k \in 1..n, j < k PROVE s[j].stream < s[k].stream
    <2>1. s[j] \in d /\ s[k] \in d /\ s[j] \in events /\ s[k] \in events
      BY <1>1, <1>3
    <2>2. s[j].stream # s[k].stream
      BY <1>1, <1>4, <1>5, <2>1
    <2>3. ~ (s[k].stream < s[j].stream)
      BY <1>3, <1>4, <1>5
    <2>4. s[j].stream \in Int /\ s[k].stream \in Int
      BY <2>1, EventColumns
    <2> QED BY <2>2, <2>3, <2>4
  <1>6. ASSUME NEW e \in R PROVE \E k \in 1..n : s[k].stream = e.stream /\ e.time <= s[k].time
    <2>1. PICK f \in d : f.stream = e.stream /\ f.time >= e.time
      BY <1>1
    <2>2. PICK k \in 1..n : s[k] = f
      BY <1>3
    <2> QED BY <2>1, <2>2
  <1>7. \A k \in 1..n : s[k] \in R
    BY <1>1, <1>3
  <1> QED BY <1>3, <1>4, <1>5, <1>6, <1>7 DEF n, R

\* What the property says of an answer.
Answers(a, ids, after, limit) ==
  /\ \A k \in DOMAIN a : a[k] \in Streams!Recent(ids, after)
  /\ \A j, k \in DOMAIN a : a[j].stream = a[k].stream => j = k
  /\ \A k \in DOMAIN a, e \in events : e.stream = a[k].stream => e.time <= a[k].time
  /\ limit # None => Len(a) <= limit
  /\ limit = None \/ Len(a) < limit =>
       \A e \in Streams!Recent(ids, after) : \E k \in DOMAIN a : a[k].stream = e.stream

LEMMA LatestAnswers ==
  ASSUME EventsOK, NEW ids, NEW after \in Bounds \cup {None}, NEW limit \in Limits \cup {None},
         NEW a \in Streams!Latest(ids, after, limit)
  PROVE  Answers(a, ids, after, limit)
  <1> DEFINE R == Streams!Recent(ids, after)
  <1>1. PICK d \in Streams!Distinct(R) : \E s \in Streams!Ordered(d, Streams!ByStream) :
          a = Streams!First(s, limit)
    BY DEF Streams!Latest
  <1>2. PICK s \in Streams!Ordered(d, Streams!ByStream) : a = Streams!First(s, limit)
    BY <1>1
  <1> DEFINE n == Cardinality(d)
             m == IF limit # None /\ limit < n THEN limit ELSE n
  <1>3. /\ n \in Nat /\ s \in [1..n -> d]
        /\ \A k \in 1..n : s[k] \in R
        /\ \A j, k \in 1..n : j < k => s[j].stream < s[k].stream
        /\ \A e \in R : \E k \in 1..n : s[k].stream = e.stream /\ e.time <= s[k].time
    BY DistinctInOrder
  <1> HIDE DEF n
  <1>4. limit # None => limit \in Nat
    BY StreamsAssumption DEF Streams!Considered
  <1>5. /\ m \in Nat /\ m <= n /\ Len(a) = m
        /\ DOMAIN a = 1..m /\ \A k \in 1..m : a[k] = s[k] /\ k \in 1..n
    <2>1. s \in Seq(d) /\ Len(s) = n
      BY <1>3
    <2>2. CASE limit # None /\ limit < n
      <3>1. a = SubSeq(s, 1, limit) /\ m = limit /\ limit \in Nat
        BY <1>2, <1>4, <2>1, <2>2 DEF Streams!First
      <3> HIDE DEF m
      <3> QED BY <1>3, <2>1, <2>2, <3>1
    <2>3. CASE ~ (limit # None /\ limit < n)
      <3>1. a = s /\ m = n
        BY <1>2, <2>1, <2>3 DEF Streams!First
      <3> HIDE DEF m
      <3> QED BY <1>3, <2>1, <3>1
    <2> QED BY <2>2, <2>3
  <1>6. R \subseteq events
    BY DEF Streams!Recent, Streams!Of
  <1>7. ASSUME NEW j \in 1..m, NEW k \in 1..m, a[j].stream = a[k].stream PROVE j = k
    <2> HIDE DEF m
    <2>1. j \in 1..n /\ k \in 1..n /\ s[j].stream = s[k].stream
      BY <1>5, <1>7
    <2>2. s[j] \in events /\ s[k] \in events
      BY <1>3, <1>6, <2>1
    <2>3. s[j].stream \in Int /\ s[k].stream \in Int
      BY <2>2, EventColumns
    <2>4. ~ (s[j].stream < s[k].stream) /\ ~ (s[k].stream < s[j].stream)
      BY <2>1, <2>3
    <2> QED BY <1>3, <2>1, <2>4
  <1>8. limit # None => m <= limit
    BY <1>3, <1>4
  <1>9. ASSUME limit = None \/ m < limit, NEW e \in R
        PROVE  \E k \in 1..m : a[k].stream = e.stream
    <2>1. m = n
      BY <1>3, <1>4, <1>9
    <2>2. PICK k \in 1..n : s[k].stream = e.stream
      BY <1>3
    <2> HIDE DEF m
    <2> QED BY <1>5, <2>1, <2>2
  <1>10. ASSUME NEW k \in 1..m, NEW e \in events, e.stream = a[k].stream
         PROVE  e.time <= a[k].time
    <2>1. k \in 1..n /\ a[k] = s[k] /\ s[k] \in R /\ s[k] \in events
      BY <1>3, <1>5, <1>6
    <2>2. /\ e.time \in Int /\ s[k].time \in Int
          /\ s[k].stream \in Int
      BY <2>1, EventColumns
    <2>3. CASE e \in R
      <3>1. PICK j \in 1..n : s[j].stream = e.stream /\ e.time <= s[j].time
        BY <1>3, <2>3
      <3>2. j = k
        <4>1. s[j].stream = s[k].stream
          BY <1>10, <2>1, <3>1
        <4>2. ~ (s[j].stream < s[k].stream) /\ ~ (s[k].stream < s[j].stream)
          BY <2>2, <4>1
        <4>3. ~ (j < k) /\ ~ (k < j)
          BY <1>3, <2>1, <4>2
        <4> QED BY <1>3, <4>3
      <3> QED BY <2>1, <3>1, <3>2
    <2>4. CASE e \notin R
      <3>1. after # None /\ ~ (e.time >= after) /\ s[k].time >= after
        BY <1>10, <2>1, <2>4 DEF Streams!Recent, Streams!Of
      <3>2. after \in Int
        BY <3>1, StreamsAssumption DEF Streams!Considered
      <3> QED BY <2>1, <2>2, <3>1, <3>2
    <2> QED BY <2>3, <2>4
  <1>11. \A k \in 1..m : a[k] \in R
    BY <1>3, <1>5
  <1> HIDE DEF m
  <1> QED BY <1>5, <1>7, <1>8, <1>9, <1>10, <1>11 DEF Answers

-----------------------------------------------------------------------------
(* Series.                                                                   *)

\* The sum of the counts, as the property defines it.
CountOf(S) ==
  LET count[k \in 0 .. Len(S)] == IF k = 0 THEN 0 ELSE count[k - 1] + S[k].count
  IN  count[Len(S)]

LEMMA SumIs ==
  ASSUME NEW S, NEW N \in Nat, N = Len(S), NEW h \in [0..N -> Nat], h[0] = 0,
         \A k \in 1..N : h[k] = h[k - 1] + S[k].count
  PROVE  CountOf(S) = h[N]
  <1> DEFINE Rule(g) == [k \in 0..N |-> IF k = 0 THEN 0 ELSE g[k - 1] + S[k].count]
             c == CHOOSE g : g = Rule(g)
  <1>1. CountOf(S) = c[N]
    BY DEF CountOf
  <1>2. h = Rule(h)
    <2>1. \A k \in 0..N : k # 0 => k \in 1..N
      OBVIOUS
    <2> QED BY <2>1
  <1>3. c = Rule(c)
    <2> HIDE DEF Rule
    <2> QED BY <1>2
  <1>4. \A k \in 0..N : c[k] = IF k = 0 THEN 0 ELSE c[k - 1] + S[k].count
    <2> HIDE DEF c
    <2> QED BY <1>3
  <1> HIDE DEF c
  <1> DEFINE T == {k \in Nat : k <= N => c[k] = h[k]}
  <1>5. 0 \in T
    BY <1>4
  <1>6. ASSUME NEW k \in Nat, k \in T PROVE k + 1 \in T
    <2> SUFFICES ASSUME k + 1 <= N PROVE c[k + 1] = h[k + 1]
      OBVIOUS
    <2>1. k + 1 \in 1..N /\ k + 1 \in 0..N /\ k + 1 # 0 /\ (k + 1) - 1 = k /\ k <= N
      OBVIOUS
    <2>2. c[k] = h[k]
      BY <1>6, <2>1
    <2> QED BY <1>4, <2>1, <2>2
  <1>7. Nat \subseteq T
    <2> HIDE DEF T
    <2> QED BY <1>5, <1>6, SetInduction
  <1> QED BY <1>1, <1>7

Bucket(w, t) == Streams!time_bucket(w, t)
RowOf(S, w, e) ==
  [stream_id |-> e.stream, bucket |-> Bucket(w, e.time),
   count |-> Cardinality({f \in S : f.stream = e.stream /\ Bucket(w, f.time) = Bucket(w, e.time)})]

LEMMA BucketsAre ==
  ASSUME NEW S, NEW w
  PROVE  Streams!Buckets(S, w) = {RowOf(S, w, e) : e \in S}
  BY SameCardinality DEF Streams!Buckets, RowOf, Bucket

\* Times of one bucket are on one side of a boundary between two buckets.
LEMMA BucketSide ==
  ASSUME NEW w \in Nat \ {0}, NEW end \in Int, end % w = 0, NEW t \in Int, NEW u \in Int,
         Bucket(w, t) = Bucket(w, u), t < end
  PROVE  u < end
  <1> DEFINE q == t \div w
             p == end \div w
  <1>1. t = w * q + (t % w) /\ t % w \in 0..(w - 1) /\ q \in Int
    OBVIOUS
  <1>2. end = w * p /\ p \in Int
    OBVIOUS
  <1>3. u % w \in 0..(w - 1) /\ u - (u % w) = t - (t % w)
    BY DEF Bucket, Streams!time_bucket
  <1>4. t % w \in Int /\ u % w \in Int
    BY <1>1, <1>3
  <1> HIDE DEF q, p
  <1>5. q < p
    <2> SUFFICES ASSUME p <= q PROVE FALSE
      BY <1>1, <1>2
    <2>1. w * p <= w * q
      BY <1>1, <1>2
    <2> QED BY <1>1, <1>2, <1>4, <2>1
  <1>6. w * (q + 1) <= w * p
    BY <1>1, <1>2, <1>5
  <1>7. w * (q + 1) = w * q + w
    BY <1>1
  <1> QED BY <1>1, <1>2, <1>3, <1>4, <1>6, <1>7

\* The counts of a series are those of its rows.
LEMMA SeriesCounts ==
  ASSUME NEW P, IsFiniteSet(P), NEW w,
         NEW s \in Streams!Ordered(Streams!Buckets(P, w), Streams!ByStreamAndBucket)
  PROVE  /\ {s[k] : k \in DOMAIN s} = Streams!Buckets(P, w)
         /\ CountOf(s) = Cardinality(P)
  <1> DEFINE B == Streams!Buckets(P, w)
             n == Cardinality(B)
             In(e, r) == r.stream_id = e.stream /\ r.bucket = Bucket(w, e.time)
             V(k) == {e \in P : In(e, s[k])}
             U(k) == {e \in P : \E j \in 1..k : In(e, s[j])}
  <1>1. B = {RowOf(P, w, e) : e \in P}
    BY BucketsAre
  <1>2. IsFiniteSet(B)
    <2> DEFINE f == [e \in P |-> RowOf(P, w, e)]
    <2>1. f \in Surjection(P, B)
      <3> HIDE DEF B
      <3> QED BY <1>1 DEF Surjection
    <2> HIDE DEF f, B
    <2> QED BY <2>1, FS_Surjection
  <1>3. s \in [1..n -> B] /\ \A r \in B : \E k \in 1..n : s[k] = r
    BY SameCardinality DEF Streams!Ordered
  <1>4. n \in Nat /\ \A j, k \in 1..n : s[j] = s[k] => j = k
    BY <1>2, <1>3, EachOnce
  <1> HIDE DEF n, B
  <1>5. {s[k] : k \in DOMAIN s} = B
    BY <1>3
  <1>6. ASSUME NEW k \in 1..n PROVE s[k].count = Cardinality(V(k))
    <2>1. PICK e \in P : s[k] = RowOf(P, w, e)
      BY <1>1, <1>3
    <2>2. V(k) = {f \in P : f.stream = e.stream /\ Bucket(w, f.time) = Bucket(w, e.time)}
      BY <2>1 DEF RowOf
    <2>3. s[k].count = Cardinality({f \in P : f.stream = e.stream
                                              /\ Bucket(w, f.time) = Bucket(w, e.time)})
      BY <2>1 DEF RowOf
    <2> HIDE DEF V
    <2> QED BY <2>2, <2>3
  <1>7. ASSUME NEW j \in 1..n, NEW k \in 1..n, NEW e \in P, In(e, s[j]), In(e, s[k])
        PROVE  j = k
    <2>1. PICK f \in P : s[j] = RowOf(P, w, f)
      BY <1>1, <1>3
    <2>2. PICK g \in P : s[k] = RowOf(P, w, g)
      BY <1>1, <1>3
    <2>3. f.stream = g.stream /\ Bucket(w, f.time) = Bucket(w, g.time)
      BY <1>7, <2>1, <2>2 DEF RowOf
    <2>4. s[j] = s[k]
      BY <2>1, <2>2, <2>3 DEF RowOf
    <2> QED BY <1>4, <2>4
  <1> HIDE DEF In
  <1>8. ASSUME NEW k \in Nat
        PROVE  IsFiniteSet(U(k)) /\ IsFiniteSet(V(k)) /\ Cardinality(U(k)) \in Nat
               /\ Cardinality(V(k)) \in Nat
    <2>1. U(k) \subseteq P /\ V(k) \subseteq P
      OBVIOUS
    <2> HIDE DEF U, V
    <2> QED BY <2>1, FS_Subset, FS_CardinalityType
  <1>9. U(0) = {}
    OBVIOUS
  <1>10. ASSUME NEW k \in 1..n
         PROVE  Cardinality(U(k)) = Cardinality(U(k - 1)) + Cardinality(V(k))
    <2>1. k - 1 \in Nat /\ k \in Nat /\ 1..k = (1..(k - 1)) \cup {k}
          /\ \A j \in 1..(k - 1) : j \in 1..n /\ j # k
      BY <1>4
    <2>2. U(k) = U(k - 1) \cup V(k)
      BY <2>1
    <2>3. U(k - 1) \cap V(k) = {}
      BY <1>7, <2>1
    <2> HIDE DEF U, V
    <2>4. /\ IsFiniteSet(U(k - 1)) /\ IsFiniteSet(V(k))
          /\ Cardinality(U(k - 1)) \in Nat /\ Cardinality(V(k)) \in Nat
      BY <1>8, <2>1
    <2>5. Cardinality(U(k - 1) \cup V(k))
            = Cardinality(U(k - 1)) + Cardinality(V(k)) - Cardinality(U(k - 1) \cap V(k))
      BY <2>4, FS_Union
    <2>6. Cardinality(U(k - 1) \cap V(k)) = 0
      BY <2>3, FS_EmptySet
    <2> QED BY <2>2, <2>4, <2>5, <2>6
  <1>11. U(n) = P
    <2>1. ASSUME NEW e \in P PROVE \E k \in 1..n : In(e, s[k])
      <3>1. PICK k \in 1..n : s[k] = RowOf(P, w, e)
        BY <1>1, <1>3
      <3> QED BY <3>1 DEF RowOf, In
    <2> QED BY <2>1
  <1> DEFINE h == [k \in 0..n |-> Cardinality(U(k))]
  <1>12. h \in [0..n -> Nat] /\ h[0] = 0 /\ h[n] = Cardinality(P)
    <2>1. 0 \in 0..n /\ n \in 0..n /\ \A k \in 0..n : k \in Nat
      BY <1>4
    <2> HIDE DEF U, V
    <2> QED BY <1>8, <1>9, <1>11, <2>1, FS_EmptySet
  <1>13. ASSUME NEW k \in 1..n PROVE h[k] = h[k - 1] + s[k].count
    <2>1. k \in 0..n /\ k - 1 \in 0..n
      BY <1>4
    <2>2. h[k] = Cardinality(U(k)) /\ h[k - 1] = Cardinality(U(k - 1))
      <3> HIDE DEF U, V
      <3> QED BY <2>1
    <2> HIDE DEF h, U, V
    <2> QED BY <1>6, <1>10, <2>2
  <1>14. Len(s) = n
    BY <1>3, <1>4
  <1>15. CountOf(s) = h[n]
    <2> HIDE DEF h
    <2> QED BY <1>4, <1>12, <1>13, <1>14, SumIs
  <1> QED BY <1>5, <1>12, <1>15 DEF B

\* Ranges that meet at end.
LEMMA RangesJoin ==
  ASSUME EventsOK, NEW ids, NEW start \in Int, NEW end \in Int, NEW next \in Int,
         start <= end, end <= next
  PROVE  /\ Streams!Within(ids, start, end) \cap Streams!Within(ids, end, next) = {}
         /\ Streams!Within(ids, start, end) \cup Streams!Within(ids, end, next)
              = Streams!Within(ids, start, next)
  <1>1. \A e \in Streams!Of(ids) : e.time \in Int
    BY EventColumns DEF Streams!Of
  <1> QED BY <1>1 DEF Streams!Within

\* Their series join where they meet between two buckets: each bucket is of one range.
LEMMA SeriesJoin ==
  ASSUME EventsOK, NEW ids, NEW start \in Int, NEW end \in Int, NEW next \in Int,
         start <= end, end <= next, NEW w \in Nat \ {0}, end % w = 0
  PROVE  Streams!Buckets(Streams!Within(ids, start, next), w)
           = Streams!Buckets(Streams!Within(ids, start, end), w)
               \cup Streams!Buckets(Streams!Within(ids, end, next), w)
  <1> DEFINE P == Streams!Within(ids, start, end)
             Q == Streams!Within(ids, end, next)
             R == Streams!Within(ids, start, next)
             Same(e, f) == f.stream = e.stream /\ Bucket(w, f.time) = Bucket(w, e.time)
  <1>1. P \cup Q = R
    BY RangesJoin
  <1>2. \A e \in R : e.time \in Int
    BY EventColumns DEF Streams!Within, Streams!Of
  <1>3. /\ \A e \in P : e.time < end
        /\ \A e \in Q : ~ (e.time < end)
    <2>1. \A e \in Q : end <= e.time /\ e.time \in Int
      BY <1>1, <1>2 DEF Streams!Within
    <2> QED BY <2>1 DEF Streams!Within
  <1> HIDE DEF P, Q, R
  <1>4. ASSUME NEW e \in R, NEW f \in R, Same(e, f), e.time < end PROVE f.time < end
    BY <1>2, <1>4, BucketSide
  <1>5. ASSUME NEW e \in P PROVE RowOf(R, w, e) = RowOf(P, w, e)
    <2>1. \A f : f \in R /\ Same(e, f) <=> f \in P /\ Same(e, f)
      BY <1>1, <1>3, <1>4
    <2>2. {f \in R : Same(e, f)} = {f \in P : Same(e, f)}
      BY <2>1
    <2> QED BY <2>2 DEF RowOf
  <1>6. ASSUME NEW e \in Q PROVE RowOf(R, w, e) = RowOf(Q, w, e)
    <2>1. \A f : f \in R /\ Same(e, f) <=> f \in Q /\ Same(e, f)
      BY <1>1, <1>3, <1>4
    <2>2. {f \in R : Same(e, f)} = {f \in Q : Same(e, f)}
      BY <2>1
    <2> QED BY <2>2 DEF RowOf
  <1>7. Streams!Buckets(R, w) = Streams!Buckets(P, w) \cup Streams!Buckets(Q, w)
    BY <1>1, <1>5, <1>6, BucketsAre
  <1> QED BY <1>7 DEF P, Q, R

StreamInv == EventsOK /\ LatestIsNewest /\ PagesJoin

LEMMA StreamStarts == Streams!Init => StreamInv
  <1> SUFFICES ASSUME Streams!Init PROVE StreamInv
    OBVIOUS
  <1>1. PICK ids \in SUBSET Pk : \E of \in [ids -> [stream : Stream, time : Time]] :
          events = {[id |-> i, stream |-> of[i].stream, time |-> of[i].time] : i \in ids}
    BY DEF Streams!Init
  <1>2. PICK of \in [ids -> [stream : Stream, time : Time]] :
          events = {[id |-> i, stream |-> of[i].stream, time |-> of[i].time] : i \in ids}
    BY <1>1
  <1> DEFINE f == [i \in ids |-> [id |-> i, stream |-> of[i].stream, time |-> of[i].time]]
  <1>3. events \subseteq Streams!Event
    BY <1>2 DEF Streams!Event
  <1>4. f \in Surjection(ids, events)
    BY <1>2 DEF Surjection
  <1>5. IsFiniteSet(ids)
    <2>1. IsFiniteSet(Pk)
      BY StreamsAssumption DEF Streams!Considered, Streams!IsFiniteSet, IsFiniteSet
    <2> QED BY <2>1, FS_Subset
  <1>6. IsFiniteSet(events)
    <2> HIDE DEF f
    <2> QED BY <1>4, <1>5, FS_Surjection
  <1>7. call = None
    BY DEF Streams!Init
  <1> QED BY <1>3, <1>6, <1>7
        DEF StreamInv, EventsOK, LatestIsNewest, PagesJoin,
            Streams!LatestIsNewest, Streams!PagesJoin

LEMMA LatestStep ==
  ASSUME EventsOK, UNCHANGED events,
         NEW ids, NEW after \in Bounds \cup {None}, NEW limit \in Limits \cup {None},
         Streams!latest_per_stream(ids, after, limit)
  PROVE  LatestIsNewest' /\ PagesJoin'
  <1>1. /\ call' = [what |-> "latest_per_stream", ids |-> ids, after |-> after, limit |-> limit]
        /\ answer' \in Streams!Latest(ids, after, limit)
    BY DEF Streams!latest_per_stream
  <1>2. /\ call'.what = "latest_per_stream" /\ call'.ids = ids
        /\ call'.after = after /\ call'.limit = limit
    BY <1>1
  <1>3. Answers(answer', ids, after, limit)
    BY <1>1, LatestAnswers
  <1>4. Streams!Recent(ids, after)' = Streams!Recent(ids, after)
    BY DEF Streams!Recent, Streams!Of
  <1>5. LatestIsNewest'
    BY <1>2, <1>3, <1>4
    DEF LatestIsNewest, Streams!LatestIsNewest, Answers
  <1>6. PagesJoin'
    BY <1>2 DEF PagesJoin, Streams!PagesJoin
  <1> QED BY <1>5, <1>6

LEMMA SeriesStep ==
  ASSUME EventsOK, UNCHANGED events,
         NEW ids, NEW start \in Bounds, NEW end \in Bounds, NEW width \in Widths,
         Streams!time_series(ids, start, end, width)
  PROVE  LatestIsNewest' /\ PagesJoin'
  <1> DEFINE W(a, b) == Streams!Within(ids, a, b)
  <1>1. /\ call' = [what |-> "time_series", ids |-> ids, start |-> start, end |-> end,
                    width |-> width]
        /\ answer' \in Streams!Ordered(Streams!Buckets(W(start, end), width),
                                       Streams!ByStreamAndBucket)
    BY DEF Streams!time_series
  <1>2. /\ call'.what = "time_series" /\ call'.ids = ids
        /\ call'.start = start /\ call'.end = end /\ call'.width = width
    BY <1>1
  <1>3. LatestIsNewest'
    BY <1>2 DEF LatestIsNewest, Streams!LatestIsNewest
  <1>4. \A a, b : Streams!Within(ids, a, b)' = W(a, b)
    BY DEF Streams!Within, Streams!Of
  <1>5. start \in Int /\ end \in Int /\ width \in Nat \ {0} /\ Bounds \subseteq Int
    BY StreamsAssumption DEF Streams!Considered
  <1>6. IsFiniteSet(W(start, end))
    <2>1. W(start, end) \subseteq events
      BY DEF Streams!Within, Streams!Of
    <2> QED BY <2>1, FS_Subset DEF EventsOK
  <1>7. /\ {answer'[k] : k \in DOMAIN answer'} = Streams!Buckets(W(start, end), width)
        /\ CountOf(answer') = Cardinality(W(start, end))
    BY <1>1, <1>6, SeriesCounts
  <1>8. ASSUME NEW next \in Bounds, start <= end, end <= next
        PROVE  /\ W(start, end) \cap W(end, next) = {}
               /\ W(start, end) \cup W(end, next) = W(start, next)
               /\ CountOf(answer') = Streams!Cardinality(W(start, end))
               /\ end % width = 0 =>
                    Streams!Buckets(W(start, next), width)
                      = {answer'[k] : k \in DOMAIN answer'}
                          \cup Streams!Buckets(W(end, next), width)
    BY <1>5, <1>7, <1>8, RangesJoin, SeriesJoin, SameCardinality
  <1>9. PagesJoin'
    BY <1>2, <1>4, <1>8 DEF PagesJoin, Streams!PagesJoin, CountOf
  <1> QED BY <1>3, <1>9

LEMMA StreamNext == StreamInv /\ [Streams!Next]_(Streams!vars) => StreamInv'
  <1> SUFFICES ASSUME StreamInv, [Streams!Next]_(Streams!vars) PROVE StreamInv'
    OBVIOUS
  <1>1. CASE UNCHANGED Streams!vars
    <2>1. events' = events /\ call' = call /\ answer' = answer
      BY <1>1 DEF Streams!vars
    <2>2. EventsOK'
      BY <2>1 DEF StreamInv, EventsOK
    <2>3. LatestIsNewest' = LatestIsNewest
      BY <2>1 DEF LatestIsNewest, Streams!LatestIsNewest, Streams!Recent, Streams!Of
    <2>4. PagesJoin' = PagesJoin
      BY <2>1 DEF PagesJoin, Streams!PagesJoin, Streams!Within, Streams!Of
    <2> QED BY <2>2, <2>3, <2>4 DEF StreamInv
  <1>2. CASE Streams!Next
    <2>1. UNCHANGED events /\ EventsOK /\ EventsOK'
      BY <1>2 DEF Streams!Next, StreamInv, EventsOK
    <2>2. PICK ids \in Streams!StreamIds :
            \/ \E start, end \in Bounds : Streams!in_range(ids, start, end)
            \/ \E after \in Bounds \cup {None}, limit \in Limits \cup {None} :
                 Streams!latest_per_stream(ids, after, limit)
            \/ \E start, end \in Bounds, width \in Widths :
                 Streams!time_series(ids, start, end, width)
      BY <1>2 DEF Streams!Next
    <2>3. CASE \E start, end \in Bounds : Streams!in_range(ids, start, end)
      <3>1. call'.what = "in_range"
        BY <2>3 DEF Streams!in_range
      <3> QED BY <2>1, <3>1 DEF StreamInv, LatestIsNewest, PagesJoin,
                                Streams!LatestIsNewest, Streams!PagesJoin
    <2>4. CASE \E after \in Bounds \cup {None}, limit \in Limits \cup {None} :
                 Streams!latest_per_stream(ids, after, limit)
      BY <2>1, <2>4, LatestStep DEF StreamInv
    <2>5. CASE \E start, end \in Bounds, width \in Widths :
                 Streams!time_series(ids, start, end, width)
      BY <2>1, <2>5, SeriesStep DEF StreamInv
    <2> QED BY <2>2, <2>3, <2>4, <2>5
  <1> QED BY <1>1, <1>2

\* latest_per_stream answers one newest row of each stream asked for, or of as many of them
\* as the limit.
THEOREM LatestOfEachStream == Streams!Spec => []LatestIsNewest
  <1>1. StreamInv => LatestIsNewest
    BY DEF StreamInv
  <1> QED BY <1>1, StreamStarts, StreamNext, PTL DEF Streams!Spec

\* Ranges that meet share no row and miss none, the counts of a series are those of the
\* rows of its range, and series join where their ranges meet between two buckets.
THEOREM ReportsJoin == Streams!Spec => []PagesJoin
  <1>1. StreamInv => PagesJoin
    BY DEF StreamInv
  <1> QED BY <1>1, StreamStarts, StreamNext, PTL DEF Streams!Spec
=============================================================================
