---------------------------- MODULE HierarchyModel ----------------------------
(***************************************************************************)
(* BaseHierarchyModel of models/hierarchy_model.py: one table of nodes     *)
(* that hold their ltree path from the root beside the link to their       *)
(* parent, and move_to, which rewrites both for a whole subtree.           *)
(*                                                                         *)
(* move_to is a transaction of PostgreSQL at its default isolation, READ   *)
(* COMMITTED: a statement sees what is committed and what its transaction  *)
(* wrote, and waits for a row another one wrote.                           *)
(***************************************************************************)
EXTENDS Integers, SequencesExt

CONSTANTS
  Task,
  Node,         \* primary keys
  Label,
  NameOf,       \* [Node -> Label]: the column name, one ltree label
  NamespaceOf,  \* the column namespace
  Allowed,      \* what the users of the table do, see Usages
  MaxDepth,     \* bound: no move starts under a deeper node, or once a row is deeper
  MaxViews,     \* bound: instances a task holds at a time
  None

Usages ==
  {"interleave",     \* operations of several tasks overlap
   "stale",          \* move_to with instances older than the table
   "same_names"}     \* move_to beside a node of the same name

ASSUME HierarchyModelAssumption ==
  /\ NameOf \in [Node -> Label]
  /\ DOMAIN NamespaceOf = Node
  /\ Allowed \subseteq Usages
  /\ MaxDepth \in Nat /\ MaxViews \in Nat
  /\ None \notin Node

Row == [path : Seq(Label), parent : Node \cup {None}, depth : Int]

ASSUME NoneIsNoRow == None \notin Row

VARIABLES
  row,     \* the committed table
  view,    \* the instances of each task, as of when it loaded them
  move,    \* the move_to a task is at
  written  \* the rows its transaction has written

vars == <<row, view, move, written>>

Idle == [at |-> "idle", node |-> None, under |-> None, matched |-> {}]
NoRows == [n \in Node |-> None]

TypeOK ==
  /\ row \in [Node -> Row \cup {None}]
  /\ view \in [Task -> [Node -> Row \cup {None}]]
  /\ move \in [Task -> [at : {"idle", "update", "match", "cascade", "refresh", "commit"},
                        node : Node \cup {None}, under : Node \cup {None},
                        matched : SUBSET Node]]
  /\ written \in [Task -> [Node -> Row \cup {None}]]

Init ==
  /\ row = NoRows
  /\ view = [t \in Task |-> NoRows]
  /\ move = [t \in Task |-> Idle]
  /\ written = [t \in Task |-> NoRows]

-----------------------------------------------------------------------------
Stored == {n \in Node : row[n] # None}
Links == [n \in Stored |-> row[n].parent]
Forest == INSTANCE Forest WITH up <- Links

SameNamespace(n, m) == NamespaceOf[n] = NamespaceOf[m]

MayStart(t) ==
  /\ move[t].at = "idle"
  /\ "interleave" \in Allowed \/ \A u \in Task : move[u].at = "idle"
  /\ \A n \in Stored : Len(row[n].path) <= MaxDepth

NameIsFree(n, p) ==
  \A m \in Stored \ {n} :
    row[m].parent = p /\ SameNamespace(m, n) => NameOf[m] # NameOf[n]

MayUseName(n, p) == "same_names" \in Allowed \/ NameIsFree(n, p)
IsFresh(t, n) == "stale" \in Allowed \/ view[t][n] = row[n]

-----------------------------------------------------------------------------
(* The users of the table.                                                   *)

\* Model.create with the path and the depth that follow from the parent's row.
Create(t, n, p) ==
  LET above == IF p = None THEN <<>> ELSE row[p].path IN
  /\ MayStart(t)
  /\ n \notin Stored
  /\ p # None => p \in Stored /\ SameNamespace(n, p)
  /\ NameIsFree(n, p)
  /\ row' = [row EXCEPT ![n] =
       [path |-> Append(above, NameOf[n]), parent |-> p, depth |-> Len(above)]]
  /\ UNCHANGED <<view, move, written>>

Load(t, n) ==
  /\ move[t].at = "idle"
  /\ n \in Stored
  /\ view[t][n] = None => Cardinality({m \in Node : view[t][m] # None}) < MaxViews
  /\ view' = [view EXCEPT ![t][n] = row[n]]
  /\ UNCHANGED <<row, move, written>>

Drop(t, n) ==
  /\ move[t].at = "idle"
  /\ view[t][n] # None
  /\ view' = [view EXCEPT ![t][n] = None]
  /\ UNCHANGED <<row, move, written>>

-----------------------------------------------------------------------------
(* move_to                                                                   *)

OldPath(t) == view[t][move[t].node].path
NewPath(t) == Append(view[t][move[t].under].path, NameOf[move[t].node])
NewDepth(t) == view[t][move[t].under].depth + 1
DepthDelta(t) == view[t][move[t].under].depth - view[t][move[t].node].depth + 1

\* Mutant: the cycle guard is missing.
MoveToUnguarded(t, n, p) ==
  /\ MayStart(t)
  /\ view[t][n] # None /\ view[t][p] # None
  /\ Len(view[t][p].path) <= MaxDepth
  /\ IsFresh(t, n) /\ IsFresh(t, p) /\ MayUseName(n, p)
  /\ SameNamespace(n, p)
  /\ p # n
  /\ move' = [move EXCEPT ![t] =
       [at |-> "update", node |-> n, under |-> p, matched |-> {}]]
  /\ UNCHANGED <<row, view, written>>

\* The guards look at the two instances; then the transaction begins.
MoveTo(t, n, p) ==
  /\ MayStart(t)
  /\ view[t][n] # None /\ view[t][p] # None
  /\ Len(view[t][p].path) <= MaxDepth
  /\ IsFresh(t, n) /\ IsFresh(t, p) /\ MayUseName(n, p)
  /\ SameNamespace(n, p)
  /\ p # n
  /\ ~IsStrictPrefix(view[t][n].path, view[t][p].path)
  /\ move' = [move EXCEPT ![t] =
       [at |-> "update", node |-> n, under |-> p, matched |-> {}]]
  /\ UNCHANGED <<row, view, written>>

Visible(t, n) == IF written[t][n] # None THEN written[t][n] ELSE row[n]
Locked(t, n) == \E u \in Task \ {t} : written[u][n] # None
Goto(t, label) == move' = [move EXCEPT ![t].at = label]

UpdateSelfAtOnce(t) ==
  LET n == move[t].node IN
  /\ move[t].at = "update"
  /\ ~Locked(t, n)
  /\ row' = [row EXCEPT ![n] =
       [path |-> NewPath(t), parent |-> move[t].under, depth |-> NewDepth(t)]]
  /\ Goto(t, "match")
  /\ UNCHANGED <<view, written>>

\* UPDATE ... WHERE pk = self.pk
UpdateSelf(t) ==
  LET n == move[t].node IN
  /\ move[t].at = "update"
  /\ ~Locked(t, n)
  /\ written' = [written EXCEPT ![t][n] =
       [path |-> NewPath(t), parent |-> move[t].under, depth |-> NewDepth(t)]]
  /\ Goto(t, "match")
  /\ UNCHANGED <<row, view>>

\* Mutant: the cascade is not scoped to the namespace.
BelowAnywhere(t, m) ==
  /\ m # move[t].node
  /\ Visible(t, m) # None
  /\ IsPrefix(OldPath(t), Visible(t, m).path)

\* Mutant: the cascade finds the direct children only.
BelowDirectly(t, m) ==
  /\ m # move[t].node
  /\ SameNamespace(m, move[t].node)
  /\ Visible(t, m) # None
  /\ Visible(t, m).parent = move[t].node

\* path <@ the old path, in the namespace, but for the node itself.
Below(t, m) ==
  /\ m # move[t].node
  /\ SameNamespace(m, move[t].node)
  /\ Visible(t, m) # None
  /\ IsPrefix(OldPath(t), Visible(t, m).path)

\* The second UPDATE takes its snapshot ...
Match(t) ==
  /\ move[t].at = "match"
  /\ move' = [move EXCEPT ![t].at = "cascade", ![t].matched = {m \in Node : Below(t, m)}]
  /\ UNCHANGED <<row, view, written>>

\* Mutant: what is kept of a path starts one label too early.
RebasedEarly(t, path) == NewPath(t) \o SubSeq(path, Len(OldPath(t)), Len(path))

\* _PrefixReplace: the new path and what follows the old one, however often the labels
\* of the old one are repeated below.
Rebased(t, path) == NewPath(t) \o SubSeq(path, Len(OldPath(t)) + 1, Len(path))

\* Mutant: the depth of the subtree is not shifted.
ShiftedPathOnly(t, r) == [r EXCEPT !.path = Rebased(t, r.path)]

Shifted(t, r) == [r EXCEPT !.path = Rebased(t, r.path), !.depth = @ + DepthDelta(t)]

\* ... waits for rows in it that others wrote, and rewrites those that still qualify.
Cascade(t) ==
  /\ move[t].at = "cascade"
  /\ \A m \in move[t].matched : ~Locked(t, m)
  /\ written' = [written EXCEPT ![t] = [m \in Node |->
       IF m \in move[t].matched /\ Below(t, m) THEN Shifted(t, Visible(t, m)) ELSE @[m]]]
  /\ Goto(t, "refresh")
  /\ UNCHANGED <<row, view>>

Refresh(t) ==
  /\ move[t].at = "refresh"
  /\ view' = [view EXCEPT ![t][move[t].node] = Visible(t, move[t].node)]
  /\ Goto(t, "commit")
  /\ UNCHANGED <<row, written>>

EndTransaction(t) ==
  /\ move' = [move EXCEPT ![t] = Idle]
  /\ written' = [written EXCEPT ![t] = NoRows]
  /\ UNCHANGED view

Commit(t) ==
  /\ move[t].at = "commit"
  /\ row' = [n \in Node |-> Visible(t, n)]
  /\ EndTransaction(t)

\* A statement or the commit fails, the task is cancelled or its process dies, or the
\* server breaks a deadlock of two moves.
Rollback(t) ==
  /\ move[t].at # "idle"
  /\ UNCHANGED row
  /\ EndTransaction(t)

Next ==
  \E t \in Task :
    \/ \E n \in Node, p \in Node \cup {None} : Create(t, n, p)
    \/ \E n \in Node : Load(t, n) \/ Drop(t, n)
    \/ \E n, p \in Node : MoveTo(t, n, p)
    \/ UpdateSelf(t) \/ Match(t) \/ Cascade(t) \/ Refresh(t) \/ Commit(t) \/ Rollback(t)

Spec == Init /\ [][Next]_vars

-----------------------------------------------------------------------------
(* The queries, for an instance as fresh as the table.                       *)

get_descendants(n) ==
  {m \in Stored \ {n} : SameNamespace(m, n) /\ IsPrefix(row[n].path, row[m].path)}

get_ancestors(n) ==
  {m \in Stored \ {n} : SameNamespace(m, n) /\ IsPrefix(row[m].path, row[n].path)}

get_children(n) == {m \in Stored : row[m].parent = n}

get_siblings(n) ==
  {m \in Stored \ {n} :
     row[n].parent # None /\ row[m].parent = row[n].parent /\ row[m].depth = row[n].depth}

get_path_to_root(n) ==
  {m \in Stored : SameNamespace(m, n) /\ row[m].path \in Prefixes(row[n].path)} \cup {n}

get_root(n) ==
  IF Len(row[n].path) = 1 THEN {n}
  ELSE {m \in Stored : SameNamespace(m, n) /\ row[m].path = <<Head(row[n].path)>>}

\* validate_hierarchy reports no error.
validate_hierarchy(n) ==
  LET r == row[n] IN
  /\ Last(r.path) = NameOf[n]
  /\ r.depth = Len(r.path) - 1
  /\ r.parent # None =>
       /\ r.parent \in Stored /\ SameNamespace(r.parent, n)
       /\ IsStrictPrefix(row[r.parent].path, r.path)

-----------------------------------------------------------------------------
(* What the columns are for.                                                 *)

\* The ltree queries and the parent links describe the same tree: the descendants,
\* ancestors, root and path to the root that the paths give are those the links give,
\* the children the links give are one label below, and the depth that siblings are
\* compared by tells no two of them apart - after any moves, whether they commit or
\* roll back half way.
QueriesFollowLinks ==
  \A n \in Stored :
    LET above == {m \in Stored \ {n} : n \in Forest!Subtree(m)} IN
    /\ get_descendants(n) = Forest!Subtree(n) \ {n}
    /\ get_ancestors(n) = above
    /\ get_children(n) = {m \in get_descendants(n) : Len(row[m].path) = Len(row[n].path) + 1}
    /\ get_siblings(n) = {m \in Stored \ {n} : row[m].parent = row[n].parent
                                               /\ row[n].parent # None}
    /\ get_path_to_root(n) = above \cup {n}
    /\ get_root(n) = {m \in above \cup {n} : row[m].parent = None}

\* validate_hierarchy finds nothing to report in any committed state.
AlwaysValid == \A n \in Stored : validate_hierarchy(n)

\* Seen through the parent links, the table is a forest in which moves graft subtrees
\* and never make a cycle.
ImplementsForest == Forest!Spec

\* The depth of every node is that of its path, and its path ends with its name, even
\* when moves overlap, work on outdated instances or meet nodes with the same path.
DepthsAndNamesMatch ==
  \A n \in Stored :
    /\ row[n].depth = Len(row[n].path) - 1
    /\ Last(row[n].path) = NameOf[n]

\* A move rewrites rows of the namespace of the moved node only, whatever other
\* namespaces have under the same paths.
MovesStayInNamespace ==
  [][\A m \in Stored : row'[m] # row[m] =>
       \E t \in Task : move[t].at = "commit" /\ SameNamespace(m, move[t].node)]_vars

\* "Move this node and all its descendants", "only true descendants match": a committed
\* move rewrites the paths of the moved node and of the nodes below it, and no others.
MovesTheSubtree ==
  [][\A t \in Task : move[t].at = "commit" /\ row' # row =>
       {m \in Stored : row'[m].path # row[m].path}
         \in {{}, Forest!Subtree(move[t].node)}]_vars
=============================================================================
