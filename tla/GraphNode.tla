------------------------------ MODULE GraphNode ------------------------------
(***************************************************************************)
(* BaseGraphNodeModel.save and delete (models/graph_node.py): the parent   *)
(* links of a table of nodes and the child_count each row keeps of its     *)
(* direct children.                                                        *)
(*                                                                         *)
(* Neither method runs in a transaction, so a step is one statement on the *)
(* database.  A handle is a Python instance: it keeps the values it was    *)
(* loaded or created with until it is assigned to, and outlives the        *)
(* operations made through it.                                             *)
(***************************************************************************)
EXTENDS Integers, FiniteSets

CONSTANTS
  Node,          \* primary keys; uuid4, so a key is never used for a second row
  Handle,
  BlockOrphans,  \* _block_orphan_delete
  Allowed,       \* what the users of the model do, see Usages
  MaxCount,      \* bound: nothing is loaded or started with a counter beyond it
  MaxLost,       \* bound: nothing crashes with more than this missing in a counter
  None

Usages ==
  {"interleave",     \* operations of several handles overlap
   "shared_node",    \* two handles hold the same node
   "full_save",      \* save() without update_fields
   "dirty_delete",   \* delete() after an assignment to parent_id that was not saved
   "after_delete",   \* save() or delete() of a handle whose row is deleted already
   "crash"}          \* an operation stops between two of its statements

Parents == Node \cup {None}
Row == [parent : Parents, count : Int]
Instance == [node : Node, parent : Parents, count : Int, clean : BOOLEAN]

ASSUME GraphNodeAssumption ==
  /\ IsFiniteSet(Node) /\ IsFiniteSet(Handle)
  /\ None \notin Node \cup Row \cup Instance
  /\ BlockOrphans \in BOOLEAN
  /\ Allowed \subseteq Usages
  /\ MaxCount \in Nat /\ MaxLost \in Nat

VARIABLES
  row,     \* the table: parent_id and child_count of each stored node
  known,   \* keys of the rows inserted so far, which other nodes may refer to
  handle,  \* the instance behind a handle, or None
  op,      \* the operation under way on a handle: where it is, the update_fields it
           \* was given and its local "old_parent_id"
  lost     \* history: the sum of the adjustments of a counter that crashes left undone

vars == <<row, known, handle, op, lost>>

Fields == {"all", "parent_id", "name"}
Labels == {"idle", "insert", "read", "write", "dec", "inc", "guard", "remove", "undo"}
Idle == [at |-> "idle", fields |-> "name", old |-> None]

TypeOK ==
  /\ row \in [Node -> Row \cup {None}]
  /\ known \subseteq Node
  /\ handle \in [Handle -> Instance \cup {None}]
  /\ op \in [Handle -> [at : Labels, fields : Fields, old : Parents]]
  /\ lost \in [Node -> Int]

Init ==
  /\ row = [n \in Node |-> None]
  /\ known = {}
  /\ handle = [h \in Handle |-> None]
  /\ op = [h \in Handle |-> Idle]
  /\ lost = [n \in Node |-> 0]

Children(p) == {n \in Node : row[n] # None /\ row[n].parent = p}

\* Adjustments of the count of p that an operation under way has still to make.
OwedDecrements(p) ==
  {h \in Handle : \/ op[h].at = "dec" /\ op[h].old = p
                  \/ op[h].at = "undo" /\ handle[h].parent = p}
OwedIncrements(p) ==
  {h \in Handle : op[h].at \in {"dec", "inc"} /\ handle[h].parent = p}

-----------------------------------------------------------------------------
Goto(h, label) == op' = [op EXCEPT ![h].at = label]
Return(h) == op' = [op EXCEPT ![h] = Idle]

WithinBound(n) == row[n].count \in -MaxCount .. MaxCount

\* An operation may start on an idle handle.
MayStart(h) ==
  /\ op[h].at = "idle"
  /\ "interleave" \in Allowed \/ \A g \in Handle : op[g].at = "idle"
  /\ \A n \in Node : row[n] # None => WithinBound(n)

Held(n) == \E g \in Handle : handle[g] # None /\ handle[g].node = n

\* A handle is not used once its row is deleted; a user of a shared node cannot know.
MayUse(h) ==
  /\ handle[h] # None
  /\ row[handle[h].node] # None \/ Allowed \cap {"after_delete", "shared_node"} # {}

\* UPDATE ... SET child_count = child_count + d WHERE id = p: no row, no change.
Count(p, d) ==
  row' = IF p # None /\ row[p] # None THEN [row EXCEPT ![p].count = @ + d] ELSE row

-----------------------------------------------------------------------------
(* Getting hold of an instance.                                              *)

\* Model.create: a new instance, saved with force_create.
Create(h, n, p) ==
  /\ handle[h] = None
  /\ MayStart(h)
  /\ n \notin known
  /\ ~Held(n)
  /\ p \in known \cup {None}
  /\ handle' = [handle EXCEPT ![h] = [node |-> n, parent |-> p, count |-> 0, clean |-> TRUE]]
  /\ Goto(h, "insert")
  /\ UNCHANGED <<row, known, lost>>

Load(h, n) ==
  /\ handle[h] = None
  /\ row[n] # None
  /\ WithinBound(n)
  /\ "shared_node" \in Allowed \/ ~Held(n)
  /\ handle' = [handle EXCEPT ![h] =
       [node |-> n, parent |-> row[n].parent, count |-> row[n].count, clean |-> TRUE]]
  /\ UNCHANGED <<row, known, op, lost>>

Drop(h) ==
  /\ handle[h] # None
  /\ op[h].at = "idle"
  /\ handle' = [handle EXCEPT ![h] = None]
  /\ UNCHANGED <<row, known, op, lost>>

\* node.parent_id = p, in memory only.
Assign(h, p) ==
  /\ handle[h] # None
  /\ op[h].at = "idle"
  /\ p \in known \cup {None}
  /\ handle' = [handle EXCEPT ![h].parent = p, ![h].clean = FALSE]
  /\ UNCHANGED <<row, known, op, lost>>

-----------------------------------------------------------------------------
(* save                                                                      *)

\* A create inserts the row, then counts it in the new parent.
Insert(h) ==
  /\ op[h].at = "insert"
  /\ row' = [row EXCEPT ![handle[h].node] = [parent |-> handle[h].parent, count |-> 0]]
  /\ known' = known \cup {handle[h].node}
  /\ IF handle[h].parent = None THEN Return(h) ELSE Goto(h, "inc")
  /\ UNCHANGED <<handle, lost>>

Save(h, f) ==
  /\ MayUse(h)
  /\ MayStart(h)
  /\ f = "all" => "full_save" \in Allowed
  /\ op' = [op EXCEPT ![h].at = "read", ![h].fields = f]
  /\ UNCHANGED <<row, known, handle, lost>>

\* _previous_parent_id
ReadOldParent(h) ==
  LET n == handle[h].node IN
  /\ op[h].at = "read"
  /\ op' = [op EXCEPT ![h].at = "write",
                      ![h].old = IF row[n] = None THEN None ELSE row[n].parent]
  /\ UNCHANGED <<row, known, handle, lost>>

\* Model.save: an UPDATE of the listed columns, of all of them without a list,
\* child_count included; it may find no row.
Updated(h) ==
  LET i == handle[h] IN
  CASE row[i.node] = None \/ op[h].fields = "name" -> row
    [] row[i.node] # None /\ op[h].fields = "parent_id" -> [row EXCEPT ![i.node].parent = i.parent]
    [] row[i.node] # None /\ op[h].fields = "all" ->
         [row EXCEPT ![i.node] = [parent |-> i.parent, count |-> i.count]]

\* Mutant: the counters are adjusted whatever columns are saved.
UpdateAlwaysCounting(h) ==
  /\ op[h].at = "write"
  /\ row' = Updated(h)
  /\ IF op[h].old # None THEN Goto(h, "dec")
     ELSE IF handle[h].parent # None THEN Goto(h, "inc") ELSE Return(h)
  /\ handle' = [handle EXCEPT ![h].clean = TRUE]
  /\ UNCHANGED <<known, lost>>

\* The counters are adjusted only when parent_id was among the columns.
Update(h) ==
  /\ op[h].at = "write"
  /\ row' = Updated(h)
  /\ IF op[h].fields = "name"
       THEN Return(h) /\ UNCHANGED handle
       ELSE /\ IF op[h].old # None THEN Goto(h, "dec")
               ELSE IF handle[h].parent # None THEN Goto(h, "inc") ELSE Return(h)
            /\ handle' = [handle EXCEPT ![h].clean = TRUE]
  /\ UNCHANGED <<known, lost>>

Decrement(h) ==
  /\ op[h].at = "dec"
  /\ Count(op[h].old, -1)
  /\ IF handle[h].parent # None THEN Goto(h, "inc") ELSE Return(h)
  /\ UNCHANGED <<known, handle, lost>>

Increment(h) ==
  /\ op[h].at = "inc"
  /\ Count(handle[h].parent, 1)
  /\ Return(h)
  /\ UNCHANGED <<known, handle, lost>>

-----------------------------------------------------------------------------
(* delete                                                                    *)

Delete(h) ==
  /\ MayUse(h)
  /\ MayStart(h)
  /\ handle[h].clean \/ "dirty_delete" \in Allowed
  /\ Goto(h, IF BlockOrphans THEN "guard" ELSE "remove")
  /\ UNCHANGED <<row, known, handle, lost>>

\* The orphan guard counts the children and raises GraphError when there are any.
Guard(h) ==
  /\ op[h].at = "guard"
  /\ IF Children(handle[h].node) = {} THEN Goto(h, "remove") ELSE Return(h)
  /\ UNCHANGED <<row, known, handle, lost>>

\* Mutant: the former parent keeps counting the deleted child.
RemoveUncounted(h) ==
  /\ op[h].at = "remove"
  /\ row' = [row EXCEPT ![handle[h].node] = None]
  /\ Return(h)
  /\ UNCHANGED <<known, handle, lost>>

Remove(h) ==
  /\ op[h].at = "remove"
  /\ row' = [row EXCEPT ![handle[h].node] = None]
  /\ IF handle[h].parent # None THEN Goto(h, "undo") ELSE Return(h)
  /\ UNCHANGED <<known, handle, lost>>

\* The former parent is the one the instance holds in memory.
DecrementFormer(h) ==
  /\ op[h].at = "undo"
  /\ Count(handle[h].parent, -1)
  /\ Return(h)
  /\ UNCHANGED <<known, handle, lost>>

\* The task is cancelled, a statement fails or the process dies between two statements.
Crash(h) ==
  /\ "crash" \in Allowed
  /\ op[h].at # "idle"
  /\ \A n \in Node : lost[n] \in -MaxLost .. MaxLost
  /\ Return(h)
  /\ handle' = [handle EXCEPT ![h] = None]
  /\ lost' = [p \in Node |->
       IF row[p] = None THEN 0
       ELSE lost[p] + (IF h \in OwedDecrements(p) THEN 1 ELSE 0)
                    - (IF h \in OwedIncrements(p) THEN 1 ELSE 0)]
  /\ UNCHANGED <<row, known>>

Next ==
  \E h \in Handle :
    \/ \E n \in Node, p \in Parents : Create(h, n, p)
    \/ \E n \in Node : Load(h, n)
    \/ Drop(h)
    \/ \E p \in Parents : Assign(h, p)
    \/ \E f \in Fields : Save(h, f)
    \/ Insert(h) \/ ReadOldParent(h) \/ Update(h) \/ Decrement(h) \/ Increment(h)
    \/ Delete(h) \/ Guard(h) \/ Remove(h) \/ DecrementFormer(h)
    \/ Crash(h)

Spec == Init /\ [][Next]_vars

-----------------------------------------------------------------------------
(* What the counter is for.                                                  *)

\* The counter of a stored node differs from the number of its children by exactly
\* the adjustments that saves and deletes under way still owe it and those that
\* crashed ones owed it, in any interleaving: nothing is counted twice or forgotten.
CountsMatch ==
  \A p \in Node : row[p] # None =>
    row[p].count = Cardinality(Children(p)) + Cardinality(OwedDecrements(p))
                     - Cardinality(OwedIncrements(p)) + lost[p]

\* No counter is negative unless a crash has left it off, not even between the decrement
\* and the increment of a save: is_leaf never takes a leaf for an inner node.
NeverNegative == \A p \in Node : row[p] # None /\ lost[p] = 0 => row[p].count >= 0

\* When no operation is under way child_count is the number of children (and is_leaf
\* is right), unless a crash has left it off: "kept in sync on every write".
SettledCounts ==
  (\A h \in Handle : op[h].at = "idle") =>
    \A p \in Node : row[p] # None /\ lost[p] = 0 => row[p].count = Cardinality(Children(p))
=============================================================================
