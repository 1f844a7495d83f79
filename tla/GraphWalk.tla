------------------------------ MODULE GraphWalk ------------------------------
(***************************************************************************)
(* The walks of BaseGraphNodeModel (models/graph_node.py): path_to_root    *)
(* and subtree read one row, or the children of one row, per statement,    *)
(* while other tasks insert, reparent and delete nodes.                    *)
(*                                                                         *)
(* Of a row the walks read parent_id and depth.  save() checks no cycle    *)
(* and delete() leaves dangling links, so the links may be any, to rows of *)
(* other namespaces, too; depth is what the user stored at creation,       *)
(* nothing keeps it up to date.                                            *)
(***************************************************************************)
EXTENDS Integers, FiniteSets, Sequences

CONSTANTS
  Node,
  MaxDepth,    \* bound: the largest depth stored
  NamespaceOf, \* the namespace of the row of each node
  SafetyLimit, \* of descendants() without max_depth; 1000 in the code
  Limits,      \* max_depth arguments of subtree
  MaxChanges,  \* bound: changes of the table during a walk
  None

Unlimited == -1
Parents == Node \cup {None}
Row == [parent : Parents, depth : 0 .. MaxDepth]
Instance == [id : Node, parent : Parents, depth : 0 .. MaxDepth]

\* What GraphModel assumes of them.
GraphWalkAssumption ==
  /\ IsFiniteSet(Node)
  /\ MaxDepth \in Nat /\ MaxChanges \in Nat /\ SafetyLimit \in Nat
  /\ Limits \subseteq Nat \cup {Unlimited}
  /\ None \notin Node \cup Row \cup Instance

VARIABLES
  row,      \* the table
  call,     \* the method called and how far it is
  found,    \* its local "path" or "result"
  queue,    \* its local "queue"; for path_to_root the instance "current"
  changes   \* history: changes of the table since the call

vars == <<row, call, found, queue, changes>>

TypeOK ==
  /\ row \in [Node -> Row \cup {None}]
  /\ call \in [method : {"path_to_root", "subtree"}, limit : Limits \cup {Unlimited},
               at : {"reading", "done", "GraphError"}]
  /\ found \in Seq(Instance) /\ queue \in Seq(Instance)
  /\ changes \in 0 .. MaxChanges

-----------------------------------------------------------------------------
(* The table                                                                 *)

Stored == {n \in Node : row[n] # None}
Loaded(n) == [id |-> n, parent |-> row[n].parent, depth |-> row[n].depth]

Children(n) == {m \in Stored : row[m].parent = n}

\* The links lead up to rows without a parent, or to missing ones, and depth counts them.
DepthsAreKept ==
  \A n \in Stored :
    row[n].depth = IF row[n].parent \in Stored THEN row[row[n].parent].depth + 1 ELSE 0

\* The methods of this name, of an instance i: ranges of depth within its namespace.
Peers(i) == {n \in Stored : NamespaceOf[n] = NamespaceOf[i.id]}
descendants(i, max) ==
  LET levels == IF max = Unlimited THEN SafetyLimit ELSE max IN
  {n \in Peers(i) : row[n].depth > i.depth /\ row[n].depth <= i.depth + levels}
ancestors(i) == {n \in Peers(i) : row[n].depth < i.depth}

Init ==
  /\ row \in [Node -> Row \cup {None}]
  /\ DepthsAreKept \/ \A n \in Stored : row[n].depth = 0
  /\ \E n \in Stored :
       /\ found = <<Loaded(n)>> /\ queue = found
       /\ \/ \E k \in Limits : call = [method |-> "subtree", limit |-> k, at |-> "reading"]
          \/ call = [method |-> "path_to_root", limit |-> Unlimited,
                     at |-> IF row[n].parent = None THEN "done" ELSE "reading"]
  /\ changes = 0

\* What create, save and delete of other tasks do to the columns a walk reads.
Change ==
  /\ call.at = "reading"
  /\ changes < MaxChanges
  /\ changes' = changes + 1
  /\ \/ \E n \in Node \ Stored, r \in Row :
          (\A k \in DOMAIN found : found[k].id # n) /\ row' = [row EXCEPT ![n] = r]
     \/ \E n \in Stored, p \in Parents : row' = [row EXCEPT ![n].parent = p]
     \/ \E n \in Stored : row' = [row EXCEPT ![n] = None]
  /\ UNCHANGED <<call, found, queue>>

-----------------------------------------------------------------------------
(* The walks                                                                 *)

\* Mutant: nothing is remembered.
Forgotten == {}

Visited == {found[k].id : k \in DOMAIN found}

\* Mutant: get() for get_or_none(): a missing parent shows as what the ORM raises.
EndUncaught(result) ==
  call' = [call EXCEPT !.at = IF result = "GraphError" THEN "DoesNotExist" ELSE result]

End(result) == call' = [call EXCEPT !.at = result]

\* Mutant: the cycle guard only keeps the row off the path, the walk goes on.
AscendUnguarded ==
  LET current == Head(queue) IN
  /\ call.at = "reading" /\ call.method = "path_to_root"
  /\ IF current.parent \notin Stored
     THEN End("GraphError") /\ UNCHANGED <<found, queue>>
     ELSE /\ queue' = <<Loaded(current.parent)>>
          /\ found' = IF current.parent \in Visited THEN found ELSE found \o queue'
          /\ IF row[current.parent].parent = None THEN End("done") ELSE UNCHANGED call
  /\ UNCHANGED <<row, changes>>

\* await get_or_none(pk=current.parent_id), then the next round of the loop.
Ascend ==
  LET current == Head(queue) IN
  /\ call.at = "reading" /\ call.method = "path_to_root"
  /\ \/ /\ current.parent \notin Stored
        /\ End("GraphError")
        /\ UNCHANGED <<found, queue>>
     \/ /\ current.parent \in Visited \cap Stored
        /\ End("done")
        /\ UNCHANGED <<found, queue>>
     \/ /\ current.parent \in Stored \ Visited
        /\ queue' = <<Loaded(current.parent)>>
        /\ found' = found \o queue'
        /\ IF row[current.parent].parent = None THEN End("done") ELSE UNCHANGED call
  /\ UNCHANGED <<row, changes>>

\* The result of path_to_root: a stable sort by depth.
Before(j, k) ==
  found[j].depth < found[k].depth \/ (found[j].depth = found[k].depth /\ j < k)
Rank(k) == Cardinality({j \in DOMAIN found : Before(j, k)}) + 1
Sorted == [r \in DOMAIN found |-> found[CHOOSE k \in DOMAIN found : Rank(k) = r]]

\* Mutant: the limit is tested as it reads, not for the level below.
EnqueuesToLimit(i) == call.limit = Unlimited \/ i.depth <= found[1].depth + call.limit

Enqueues(i) == call.limit = Unlimited \/ i.depth < found[1].depth + call.limit

\* The loop over the children of one node: those with a level below them to read.
Enqueued(new) ==
  LET kept[k \in 0 .. Len(new)] ==
        IF k = 0 THEN <<>>
        ELSE IF Enqueues(new[k]) THEN Append(kept[k - 1], new[k]) ELSE kept[k - 1]
  IN  kept[Len(new)]

\* The rows of a result, in any order; theirs is by name.
Listings(S) == {s \in [1 .. Cardinality(S) -> S] : \A n \in S : \E k \in DOMAIN s : s[k] = n}

\* await current.children().all(), then the next round of the loop.
Descend ==
  /\ call.at = "reading" /\ call.method = "subtree"
  /\ \E s \in Listings(Children(Head(queue).id) \ Visited) :
       LET new == [k \in DOMAIN s |-> Loaded(s[k])] IN
       /\ found' = found \o new
       /\ queue' = Tail(queue) \o Enqueued(new)
  /\ IF queue' = <<>> THEN End("done") ELSE UNCHANGED call
  /\ UNCHANGED <<row, changes>>

Next == Change \/ Ascend \/ Descend

Spec == Init /\ [][Next]_vars /\ WF_vars(Ascend \/ Descend)

-----------------------------------------------------------------------------
(* Properties                                                                *)

\* The nodes reached from n by at most k links, downwards and upwards.
Below(n, k) ==
  LET below[j \in 0 .. k] == IF j = 0 THEN {n} ELSE below[j - 1] \cup UNION {Children(m) : m \in below[j - 1]}
  IN  below[k]
Above(n, k) ==
  LET above[j \in 0 .. k] ==
        IF j = 0 THEN {n} ELSE above[j - 1] \cup {row[m].parent : m \in above[j - 1] \cap Stored}
  IN  above[k] \ {None}

Self == found[1]
Everywhere == Cardinality(Node)

(* Whatever is reparented, deleted or inserted under a walk, cycles          *)
(* included, it takes no node twice - so it ends - and takes each, but for   *)
(* the first, by a link to one it took before: path_to_root to the last one, *)
(* subtree in breadth-first order.                                           *)
WalksFollowLinks ==
  \A k \in 2 .. Len(found) :
    /\ \A j \in 1 .. k - 1 : found[j].id # found[k].id
    /\ IF call.method = "path_to_root"
       THEN found[k].id = found[k - 1].parent
       ELSE \E j \in 1 .. k - 1 : found[k].parent = found[j].id

\* What a walk has found that a range of depth may hold, too.
WithinRange ==
  {n \in Visited \ {Self.id} :
    /\ NamespaceOf[n] = NamespaceOf[Self.id]
    /\ call.limit = Unlimited => row[n].depth <= Self.depth + SafetyLimit}

(* A walk the table kept still for returns what the links say: all nodes     *)
(* above or below, or, where depth is kept, those within max_depth levels.   *)
(* GraphError means that a node above is missing.  Then the ranges by depth, *)
(* ancestors() and descendants(), hold what the walk finds, except for nodes *)
(* of other namespaces and beyond the safety limit.                          *)
QuietWalksAreExact ==
  changes = 0 /\ call.at # "reading" =>
    /\ call.method = "path_to_root" =>
         IF call.at = "done" THEN Visited = Above(Self.id, Everywhere)
                             ELSE ~(Above(Self.id, Everywhere) \subseteq Stored)
    /\ call.method = "subtree" /\ call.limit = Unlimited =>
         Visited = Below(Self.id, Everywhere)
    /\ DepthsAreKept /\ call.limit # 0 =>
         /\ call.method = "subtree" /\ call.limit # Unlimited =>
              Visited = Below(Self.id, call.limit)
         /\ WithinRange \subseteq
              IF call.method = "path_to_root" THEN ancestors(Self)
                                              ELSE descendants(Self, call.limit)

(* "Maximum depth to traverse": with max_depth a subtree goes no deeper.     *)
WithinMaxDepth ==
  call.method = "subtree" /\ call.limit # Unlimited /\ changes = 0 /\ DepthsAreKept =>
    Visited \subseteq Below(Self.id, call.limit)

(* path_to_root returns the path from the root down when depth grows along   *)
(* it, as the walk has read it.                                              *)
RootFirst ==
  call.method = "path_to_root" /\ call.at = "done" =>
    LET n == Len(found) IN
    (\A k \in 2 .. n : found[k].depth < found[k - 1].depth) =>
      \A k \in 1 .. n : Sorted[k] = found[n + 1 - k]

(* "List of nodes from root to this node", whatever the depths.              *)
PathFromRoot ==
  call.method = "path_to_root" /\ call.at = "done" =>
    LET n == Len(found) IN
    found[n].parent = None => \A k \in 1 .. n : Sorted[k] = found[n + 1 - k]

(* Every walk ends.                                                          *)
WalksEnd == <>(call.at # "reading")
=============================================================================
