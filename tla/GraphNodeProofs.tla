--------------------------- MODULE GraphNodeProofs ---------------------------
(* Proofs about GraphNode, for every finite set of nodes and handles: users  *)
(* who keep one handle for each node, name the columns they save and delete  *)
(* no row with an unsaved parent, however their operations overlap or crash. *)
(*                                                                         *)
(* And about the walks of GraphWalk, for every finite set of nodes and every *)
(* table over it, whatever other tasks do to it meanwhile.                   *)
EXTENDS GraphModel, FiniteSetTheorems, SequenceTheorems, WellFoundedInduction, TLAPS

Disciplined == Allowed \subseteq {"interleave", "crash"}

\* The row an operation is about, and what its handle knows of it.
Located(h) ==
  LET i == handle[h] IN
  /\ op[h].at # "idle" => i # None
  /\ i # None => i.parent \in known \cup {None}
  /\ op[h].old \in known \cup {None}
  /\ op[h].at = "insert" => i.node \notin known /\ i.clean
  /\ i # None /\ op[h].at # "insert" => i.node \in known
  /\ op[h].at \in {"read", "write"} => row[i.node] # None /\ op[h].fields # "all"
  /\ op[h].at = "write" => op[h].old = row[i.node].parent
  /\ op[h].at \in {"guard", "remove", "dec", "inc"} => row[i.node] # None /\ i.clean
  /\ i # None /\ row[i.node] # None /\ i.clean => row[i.node].parent = i.parent

\* Rows were inserted, below nodes that were.
Rows ==
  /\ \A n \in Node : row[n] # None => n \in known /\ row[n].parent \in known \cup {None}
  /\ \A n \in Node \ known : lost[n] = 0
  /\ "crash" \notin Allowed => \A n \in Node : lost[n] = 0

OneHandleEach ==
  \A g, h \in Handle :
    handle[g] # None /\ handle[h] # None /\ handle[g].node = handle[h].node => g = h

Structure == TypeOK /\ Rows /\ OneHandleEach /\ \A h \in Handle : Located(h)

CountInv == Structure /\ CountsMatch

-----------------------------------------------------------------------------
(* Counting: a step of h about n changes the three sets by h and n at most.  *)

Bit(b) == IF b THEN 1 ELSE 0
Counter(p) == IF row[p] = None THEN 0 ELSE row[p].count

IsChild(n, p) == row[n] # None /\ row[n].parent = p
OwesDecrement(h, p) ==
  (op[h].at = "dec" /\ op[h].old = p) \/ (op[h].at = "undo" /\ handle[h].parent = p)
OwesIncrement(h, p) == op[h].at \in {"dec", "inc"} /\ handle[h].parent = p

Balanced(h, n, p) ==
  Counter(p)' = Counter(p) + Bit(IsChild(n, p)') - Bit(IsChild(n, p))
                  + Bit(OwesDecrement(h, p)') - Bit(OwesDecrement(h, p))
                  - Bit(OwesIncrement(h, p)') + Bit(OwesIncrement(h, p))
                  + lost'[p] - lost[p]

\* What a step of handle h about node n leaves alone.
Frame(h, n) ==
  /\ \A g \in Handle \ {h} : /\ op'[g] = op[g] /\ handle'[g] = handle[g]
                             /\ handle[g] # None => handle[g].node # n
  /\ \A m \in Node \ {n} : /\ row'[m] = None <=> row[m] = None
                           /\ row[m] # None => row'[m].parent = row[m].parent
  /\ known \subseteq known'
  /\ known' \subseteq known \cup {n}

\* What a step of handle h about node n does.
Step(h, n) ==
  /\ TypeOK'
  /\ Frame(h, n)
  /\ handle'[h] # None => handle'[h].node = n
  /\ Located(h)'
  /\ Rows'
  /\ \A p \in Node : row'[p] # None => /\ row[p] # None \/ p \notin known
                                       /\ Balanced(h, n, p)

\* Two subsets of a finite set that agree except on x differ in size by x.
LEMMA DifferByOne ==
  ASSUME NEW X, IsFiniteSet(X), NEW S \in SUBSET X, NEW T \in SUBSET X, NEW x \in X,
         \A y \in X \ {x} : y \in S <=> y \in T
  PROVE  /\ Cardinality(S) \in Nat
         /\ Cardinality(T) \in Nat
         /\ Cardinality(T) = Cardinality(S) + Bit(x \in T) - Bit(x \in S)
  <1> DEFINE R == S \ {x}
  <1>1. IsFiniteSet(S) /\ IsFiniteSet(T) /\ IsFiniteSet(R)
    BY FS_Subset
  <1>2. Cardinality(S) \in Nat /\ Cardinality(T) \in Nat /\ Cardinality(R) \in Nat
    BY <1>1, FS_CardinalityType
  <1>3. R = T \ {x}
    OBVIOUS
  <1>4. Cardinality(R) = Cardinality(S) - Bit(x \in S)
    BY <1>1, <1>2, FS_RemoveElement DEF Bit
  <1>5. Cardinality(R) = Cardinality(T) - Bit(x \in T)
    BY <1>1, <1>2, <1>3, FS_RemoveElement DEF Bit
  <1> HIDE DEF R
  <1> QED BY <1>2, <1>4, <1>5 DEF Bit

LEMMA ChildrenChange ==
  ASSUME NEW h \in Handle, NEW n \in Node, NEW p \in Node, Frame(h, n)
  PROVE  /\ Cardinality(Children(p)) \in Nat
         /\ Cardinality(Children(p)') \in Nat
         /\ Cardinality(Children(p)')
              = Cardinality(Children(p)) + Bit(IsChild(n, p)') - Bit(IsChild(n, p))
  <1>1. \A m \in Node \ {n} : m \in Children(p) <=> m \in Children(p)'
    BY DEF Frame, Children
  <1>2. n \in Children(p) <=> IsChild(n, p)
    BY DEF Children, IsChild
  <1>3. n \in Children(p)' <=> IsChild(n, p)'
    BY DEF Children, IsChild
  <1>4. Children(p) \in SUBSET Node /\ Children(p)' \in SUBSET Node
    BY DEF Children
  <1> QED
    BY ONLY <1>1, <1>2, <1>3, <1>4, DifferByOne, GraphNodeAssumption, n \in Node DEF Bit

LEMMA OwedChange ==
  ASSUME NEW h \in Handle, NEW n \in Node, NEW p \in Node, Frame(h, n)
  PROVE  /\ Cardinality(OwedDecrements(p)) \in Nat
         /\ Cardinality(OwedDecrements(p)') \in Nat
         /\ Cardinality(OwedDecrements(p)')
              = Cardinality(OwedDecrements(p)) + Bit(OwesDecrement(h, p)')
                  - Bit(OwesDecrement(h, p))
         /\ Cardinality(OwedIncrements(p)) \in Nat
         /\ Cardinality(OwedIncrements(p)') \in Nat
         /\ Cardinality(OwedIncrements(p)')
              = Cardinality(OwedIncrements(p)) + Bit(OwesIncrement(h, p)')
                  - Bit(OwesIncrement(h, p))
  <1>1. \A g \in Handle \ {h} : /\ g \in OwedDecrements(p) <=> g \in OwedDecrements(p)'
                                /\ g \in OwedIncrements(p) <=> g \in OwedIncrements(p)'
    BY DEF Frame, OwedDecrements, OwedIncrements
  <1>2. /\ h \in OwedDecrements(p) <=> OwesDecrement(h, p)
        /\ h \in OwedIncrements(p) <=> OwesIncrement(h, p)
    BY DEF OwedDecrements, OwedIncrements, OwesDecrement, OwesIncrement
  <1>3. /\ h \in OwedDecrements(p)' <=> OwesDecrement(h, p)'
        /\ h \in OwedIncrements(p)' <=> OwesIncrement(h, p)'
    BY DEF OwedDecrements, OwedIncrements, OwesDecrement, OwesIncrement
  <1>4. /\ OwedDecrements(p) \in SUBSET Handle /\ OwedDecrements(p)' \in SUBSET Handle
        /\ OwedIncrements(p) \in SUBSET Handle /\ OwedIncrements(p)' \in SUBSET Handle
    BY DEF OwedDecrements, OwedIncrements
  <1>5. /\ Cardinality(OwedDecrements(p)) \in Nat
        /\ Cardinality(OwedDecrements(p)') \in Nat
        /\ Cardinality(OwedDecrements(p)')
             = Cardinality(OwedDecrements(p)) + Bit(OwesDecrement(h, p)')
                 - Bit(OwesDecrement(h, p))
    BY ONLY <1>1, <1>2, <1>3, <1>4, DifferByOne, GraphNodeAssumption, h \in Handle DEF Bit
  <1>6. /\ Cardinality(OwedIncrements(p)) \in Nat
        /\ Cardinality(OwedIncrements(p)') \in Nat
        /\ Cardinality(OwedIncrements(p)')
             = Cardinality(OwedIncrements(p)) + Bit(OwesIncrement(h, p)')
                 - Bit(OwesIncrement(h, p))
    BY ONLY <1>1, <1>2, <1>3, <1>4, DifferByOne, GraphNodeAssumption, h \in Handle DEF Bit
  <1> QED BY <1>5, <1>6

\* No key is referred to before its row is inserted, so a new row starts right at 0.
LEMMA UnknownUnreferenced ==
  ASSUME Structure, NEW p \in Node, p \notin known
  PROVE  /\ Cardinality(Children(p)) = 0
         /\ Cardinality(OwedDecrements(p)) = 0
         /\ Cardinality(OwedIncrements(p)) = 0
         /\ Counter(p) = 0 /\ lost[p] = 0
  <1>1. Children(p) = {}
    BY GraphNodeAssumption DEF Structure, Rows, Children
  <1>2. OwedDecrements(p) = {} /\ OwedIncrements(p) = {}
    <2> SUFFICES ASSUME NEW h \in Handle
                 PROVE  h \notin OwedDecrements(p) /\ h \notin OwedIncrements(p)
      BY DEF OwedDecrements, OwedIncrements
    <2>1. Located(h)
      BY DEF Structure
    <2> QED BY <2>1, GraphNodeAssumption DEF Located, OwedDecrements, OwedIncrements
  <1>3. Counter(p) = 0 /\ lost[p] = 0
    BY DEF Structure, Rows, Counter
  <1> QED BY <1>1, <1>2, <1>3, FS_EmptySet

LEMMA StepKeepsCountInv ==
  ASSUME CountInv, NEW h \in Handle, NEW n \in Node, Step(h, n)
  PROVE  CountInv'
  <1>1. ASSUME NEW g \in Handle \ {h} PROVE Located(g)'
    <2>1. Located(g)
      BY <1>1 DEF CountInv, Structure
    <2>2. handle'[g] = handle[g] /\ op'[g] = op[g] /\ known \subseteq known'
      BY <1>1 DEF Step, Frame
    <2>3. CASE handle[g] = None
      BY <2>1, <2>2, <2>3 DEF Located
    <2>4. CASE handle[g] # None
      <3>1. handle[g].node \in Node \ {n}
        BY <1>1, <2>4 DEF CountInv, Structure, TypeOK, Instance, Step, Frame
      <3>2. /\ row'[handle[g].node] = None <=> row[handle[g].node] = None
            /\ row[handle[g].node] # None
                 => row'[handle[g].node].parent = row[handle[g].node].parent
            /\ handle[g].node \in known' <=> handle[g].node \in known
        BY <3>1 DEF Step, Frame
      <3> QED BY <2>1, <2>2, <2>4, <3>2 DEF Located
    <2> QED BY <2>3, <2>4
  <1>2. \A g \in Handle : Located(g)'
    BY <1>1 DEF Step
  <1>3. OneHandleEach'
    <2> SUFFICES ASSUME NEW f \in Handle, NEW g \in Handle, handle'[f] # None,
                        handle'[g] # None, handle'[f].node = handle'[g].node
                 PROVE  f = g
      BY DEF OneHandleEach
    <2> QED BY DEF CountInv, Structure, OneHandleEach, Step, Frame
  <1>4. CountsMatch'
    <2> SUFFICES ASSUME NEW p \in Node, row'[p] # None
                 PROVE  row'[p].count
                          = Cardinality(Children(p)') + Cardinality(OwedDecrements(p)')
                              - Cardinality(OwedIncrements(p)') + lost'[p]
      BY DEF CountsMatch
    <2>1. Counter(p) = Cardinality(Children(p)) + Cardinality(OwedDecrements(p))
                         - Cardinality(OwedIncrements(p)) + lost[p]
      <3>1. CASE row[p] # None
        BY <3>1 DEF CountInv, CountsMatch, Counter
      <3>2. CASE p \notin known
        BY <3>2, UnknownUnreferenced DEF CountInv, Structure
      <3> QED BY <3>1, <3>2 DEF Step
    <2>2. Balanced(h, n, p) /\ Frame(h, n)
      BY DEF Step
    <2>3. Counter(p)' = row'[p].count
      BY DEF Counter
    <2>4. lost[p] \in Int /\ lost'[p] \in Int
      BY DEF CountInv, Structure, Step, TypeOK
    <2> QED
      BY <2>1, <2>2, <2>3, <2>4, ChildrenChange, OwedChange DEF Balanced, Bit
  <1> QED BY <1>2, <1>3, <1>4 DEF CountInv, Structure, Step

-----------------------------------------------------------------------------
(* The operation under way after Goto and Return.                            *)

Operation == [at : Labels, fields : Fields, old : Parents]

LEMMA GotoMoves ==
  ASSUME TypeOK, NEW h \in Handle, NEW label \in Labels, Goto(h, label)
  PROVE  /\ op' \in [Handle -> Operation]
         /\ op'[h].at = label /\ op'[h].fields = op[h].fields /\ op'[h].old = op[h].old
         /\ \A g \in Handle \ {h} : op'[g] = op[g]
  BY DEF TypeOK, Goto, Operation

LEMMA ReturnMoves ==
  ASSUME TypeOK, NEW h \in Handle, Return(h)
  PROVE  /\ op' \in [Handle -> Operation]
         /\ op'[h].at = "idle" /\ op'[h].old = None
         /\ \A g \in Handle \ {h} : op'[g] = op[g]
  BY DEF TypeOK, Return, Operation, Idle, Labels, Fields, Parents

LEMMA IdleOrLocated ==
  ASSUME CountInv, NEW h \in Handle
  PROVE  /\ Located(h)
         /\ handle[h] # None => handle[h] \in Instance /\ handle[h].node \in Node
         /\ \A g \in Handle \ {h} :
              handle[h] # None /\ handle[g] # None => handle[g].node # handle[h].node
  BY DEF CountInv, Structure, OneHandleEach, TypeOK, Instance

\* A step that leaves the table alone and owes no adjustment before and after.
LEMMA QuietStep ==
  ASSUME CountInv, NEW h \in Handle, NEW n \in Node,
         UNCHANGED <<row, known, lost>>,
         op' \in [Handle -> Operation],
         handle' \in [Handle -> Instance \cup {None}],
         \A g \in Handle \ {h} : /\ op'[g] = op[g] /\ handle'[g] = handle[g]
                                 /\ handle[g] # None => handle[g].node # n,
         handle'[h] # None => handle'[h].node = n,
         op[h].at \notin {"dec", "inc", "undo"},
         op'[h].at \notin {"dec", "inc", "undo"},
         Located(h)'
  PROVE  Step(h, n)
  <1>1. TypeOK'
    BY DEF CountInv, Structure, TypeOK, Operation
  <1>2. Rows'
    BY DEF CountInv, Structure, Rows
  <1>3. Frame(h, n)
    BY DEF Frame
  <1>4. ASSUME NEW p \in Node, row'[p] # None PROVE row[p] # None /\ Balanced(h, n, p)
    <2>1. Counter(p)' = Counter(p) /\ IsChild(n, p)' = IsChild(n, p)
      BY DEF Counter, IsChild
    <2>2. /\ Bit(OwesDecrement(h, p)) = 0 /\ Bit(OwesDecrement(h, p)') = 0
          /\ Bit(OwesIncrement(h, p)) = 0 /\ Bit(OwesIncrement(h, p)') = 0
      BY DEF Bit, OwesDecrement, OwesIncrement
    <2>3. Counter(p) \in Int /\ lost[p] \in Int /\ lost'[p] = lost[p]
      BY DEF CountInv, Structure, TypeOK, Counter, Row
    <2> QED BY <1>4, <2>1, <2>2, <2>3 DEF Balanced, Bit
  <1> QED BY <1>1, <1>2, <1>3, <1>4 DEF Step

-----------------------------------------------------------------------------
(* One lemma for each action.                                                *)

LEMMA CreateStep ==
  ASSUME CountInv, NEW h \in Handle, NEW n \in Node, NEW p \in Parents, Create(h, n, p)
  PROVE  Step(h, n)
  <1> DEFINE i == [node |-> n, parent |-> p, count |-> 0, clean |-> TRUE]
  <1>1. TypeOK /\ "insert" \in Labels
    BY DEF CountInv, Structure, Labels
  <1>2. /\ handle' \in [Handle -> Instance \cup {None}]
        /\ handle'[h] = i
        /\ \A g \in Handle \ {h} : handle'[g] = handle[g]
    BY <1>1 DEF Create, TypeOK, Instance
  <1>3. /\ op' \in [Handle -> Operation]
        /\ op'[h].at = "insert" /\ op'[h].old = op[h].old /\ op[h].at = "idle"
        /\ \A g \in Handle \ {h} : op'[g] = op[g]
    BY <1>1, GotoMoves DEF Create, MayStart
  <1>4. n \notin known /\ p \in known \cup {None} /\ UNCHANGED <<row, known, lost>>
        /\ \A g \in Handle : handle[g] # None => handle[g].node # n
    BY DEF Create, Held
  <1>5. Located(h)'
    <2>1. op[h].old \in known \cup {None} /\ row[n] = None
      BY <1>4, IdleOrLocated DEF Located, CountInv, Structure, Rows
    <2>2. i # None /\ i.node = n /\ i.parent = p /\ i.clean
      <3>1. i \in Instance
        BY DEF Instance
      <3> QED BY <3>1, GraphNodeAssumption
    <2> HIDE DEF i
    <2> QED BY <1>2, <1>3, <1>4, <2>1, <2>2 DEF Located
  <1> QED BY <1>2, <1>3, <1>4, <1>5, QuietStep

LEMMA LoadStep ==
  ASSUME Disciplined, CountInv, NEW h \in Handle, NEW n \in Node, Load(h, n)
  PROVE  Step(h, n)
  <1> DEFINE i == [node |-> n, parent |-> row[n].parent, count |-> row[n].count, clean |-> TRUE]
  <1>1. TypeOK /\ row[n] \in Row /\ n \in known /\ row[n].parent \in known \cup {None}
    BY DEF CountInv, Structure, TypeOK, Load, Rows
  <1>2. /\ handle' \in [Handle -> Instance \cup {None}]
        /\ handle'[h] = i
        /\ \A g \in Handle \ {h} : handle'[g] = handle[g]
    BY <1>1 DEF Load, TypeOK, Instance, Row
  <1>3. /\ UNCHANGED <<row, known, lost, op>> /\ handle[h] = None
        /\ \A g \in Handle : handle[g] # None => handle[g].node # n
    BY DEF Load, Held, Disciplined
  <1>4. op[h].at = "idle" /\ op[h].old \in known \cup {None}
    BY <1>3, IdleOrLocated DEF Located
  <1>5. Located(h)'
    <2>1. i.node = n /\ i.parent = row[n].parent /\ i.clean
      OBVIOUS
    <2> HIDE DEF i
    <2> QED BY <1>1, <1>2, <1>3, <1>4, <2>1 DEF Located
  <1> QED BY <1>1, <1>2, <1>3, <1>4, <1>5, QuietStep DEF TypeOK, Operation

LEMMA DropStep ==
  ASSUME CountInv, NEW h \in Handle, NEW n \in Node, n = handle[h].node,
         Drop(h)
  PROVE  Step(h, n)
  <1>1. /\ handle' \in [Handle -> Instance \cup {None}]
        /\ handle'[h] = None
        /\ \A g \in Handle \ {h} : handle'[g] = handle[g]
    BY DEF Drop, CountInv, Structure, TypeOK
  <1>2. handle[h] # None /\ op[h].at = "idle" /\ UNCHANGED <<row, known, lost, op>>
    BY DEF Drop
  <1>3. Located(h)'
    BY <1>1, <1>2, IdleOrLocated DEF Located
  <1> QED
    BY <1>1, <1>2, <1>3, IdleOrLocated, QuietStep DEF CountInv, Structure, TypeOK, Operation

LEMMA AssignStep ==
  ASSUME CountInv, NEW h \in Handle, NEW n \in Node, n = handle[h].node,
         NEW p \in Parents, Assign(h, p)
  PROVE  Step(h, n)
  <1>1. handle[h] # None /\ op[h].at = "idle" /\ p \in known \cup {None}
        /\ UNCHANGED <<row, known, lost, op>>
    BY DEF Assign
  <1>2. handle[h] \in Instance
    BY <1>1, IdleOrLocated
  <1>3. /\ handle' \in [Handle -> Instance \cup {None}]
        /\ handle'[h] \in Instance /\ handle'[h].node = handle[h].node
        /\ handle'[h].parent = p /\ handle'[h].clean = FALSE
        /\ \A g \in Handle \ {h} : handle'[g] = handle[g]
    BY <1>2 DEF Assign, CountInv, Structure, TypeOK, Instance
  <1>4. Located(h)'
    BY <1>1, <1>3, IdleOrLocated DEF Located
  <1> QED
    BY <1>1, <1>3, <1>4, IdleOrLocated, QuietStep DEF CountInv, Structure, TypeOK, Operation

LEMMA SaveStep ==
  ASSUME Disciplined, CountInv, NEW h \in Handle, NEW n \in Node, n = handle[h].node,
         NEW f \in Fields, Save(h, f)
  PROVE  Step(h, n)
  <1>1. /\ handle[h] # None /\ op[h].at = "idle" /\ f # "all" /\ row[handle[h].node] # None
        /\ UNCHANGED <<row, known, lost, handle>>
    BY DEF Save, MayUse, MayStart, Disciplined
  <1>2. /\ op' \in [Handle -> Operation]
        /\ op'[h].at = "read" /\ op'[h].fields = f /\ op'[h].old = op[h].old
        /\ \A g \in Handle \ {h} : op'[g] = op[g]
    BY DEF Save, CountInv, Structure, TypeOK, Operation, Labels
  <1>3. Located(h)'
    BY <1>1, <1>2, IdleOrLocated DEF Located
  <1> QED BY <1>1, <1>2, <1>3, IdleOrLocated, QuietStep DEF CountInv, Structure, TypeOK

LEMMA ReadOldParentStep ==
  ASSUME CountInv, NEW h \in Handle, NEW n \in Node, n = handle[h].node,
         ReadOldParent(h)
  PROVE  Step(h, n)
  <1>1. /\ op[h].at = "read" /\ UNCHANGED <<row, known, lost, handle>>
        /\ handle[h] # None /\ row[handle[h].node] # None /\ op[h].fields # "all"
        /\ handle[h].node \in Node
    BY IdleOrLocated DEF ReadOldParent, Located
  <1>2. /\ row[handle[h].node].parent \in known \cup {None}
        /\ row[handle[h].node].parent \in Parents
    BY <1>1 DEF CountInv, Structure, Rows, TypeOK, Row
  <1>3. /\ op' \in [Handle -> Operation]
        /\ op'[h].at = "write" /\ op'[h].fields = op[h].fields
        /\ op'[h].old = row[handle[h].node].parent
        /\ \A g \in Handle \ {h} : op'[g] = op[g]
    BY <1>1, <1>2 DEF ReadOldParent, CountInv, Structure, TypeOK, Operation, Labels
  <1>4. Located(h)'
    BY <1>1, <1>2, <1>3, IdleOrLocated DEF Located
  <1> QED BY <1>1, <1>3, <1>4, IdleOrLocated, QuietStep DEF CountInv, Structure, TypeOK

LEMMA DeleteStep ==
  ASSUME Disciplined, CountInv, NEW h \in Handle, NEW n \in Node, n = handle[h].node,
         Delete(h)
  PROVE  Step(h, n)
  <1>1. /\ handle[h] # None /\ op[h].at = "idle" /\ handle[h].clean
        /\ row[handle[h].node] # None /\ UNCHANGED <<row, known, lost, handle>>
    BY DEF Delete, MayUse, MayStart, Disciplined
  <1>2. /\ op' \in [Handle -> Operation]
        /\ op'[h].at \in {"guard", "remove"} /\ op'[h].old = op[h].old
        /\ \A g \in Handle \ {h} : op'[g] = op[g]
    BY GotoMoves DEF Delete, CountInv, Structure, Labels
  <1>3. Located(h)'
    BY <1>1, <1>2, IdleOrLocated DEF Located
  <1> QED BY <1>1, <1>2, <1>3, IdleOrLocated, QuietStep DEF CountInv, Structure, TypeOK

LEMMA GuardStep ==
  ASSUME CountInv, NEW h \in Handle, NEW n \in Node, n = handle[h].node,
         Guard(h)
  PROVE  Step(h, n)
  <1>1. /\ op[h].at = "guard" /\ handle[h] # None /\ row[handle[h].node] # None
        /\ handle[h].clean /\ UNCHANGED <<row, known, lost, handle>>
    BY IdleOrLocated DEF Guard, Located
  <1>2. /\ op' \in [Handle -> Operation]
        /\ op'[h].at \in {"idle", "remove"} /\ op'[h].old \in {None, op[h].old}
        /\ \A g \in Handle \ {h} : op'[g] = op[g]
    BY GotoMoves, ReturnMoves DEF Guard, CountInv, Structure, Labels
  <1>3. Located(h)'
    BY <1>1, <1>2, IdleOrLocated DEF Located
  <1> QED BY <1>1, <1>2, <1>3, IdleOrLocated, QuietStep DEF CountInv, Structure, TypeOK

\* An UPDATE of a counter changes no link, and that counter only.
LEMMA CountMoves ==
  ASSUME TypeOK, NEW p \in Parents, NEW d \in Int, Count(p, d)
  PROVE  /\ row' \in [Node -> Row \cup {None}]
         /\ \A m \in Node : /\ row'[m] = None <=> row[m] = None
                            /\ row[m] # None => row'[m].parent = row[m].parent
                            /\ row[m] # None => Counter(m)' = Counter(m) + (IF m = p THEN d ELSE 0)
  <1>1. CASE p # None /\ row[p] # None
    <2>1. p \in Node /\ row[p] \in Row
      BY <1>1 DEF TypeOK, Parents
    <2> DEFINE r == [row[p] EXCEPT !.count = @ + d]
    <2>2. r \in Row /\ r.parent = row[p].parent /\ r.count = row[p].count + d
      BY <2>1 DEF Row
    <2>3. row' = [row EXCEPT ![p] = r]
      BY <1>1 DEF Count
    <2> HIDE DEF r
    <2>4. r # None
      BY <2>2, GraphNodeAssumption
    <2> QED BY <1>1, <2>1, <2>2, <2>3, <2>4 DEF TypeOK, Counter, Row
  <1>2. CASE ~(p # None /\ row[p] # None)
    <2>1. row' = row
      BY <1>2 DEF Count
    <2>2. ASSUME NEW m \in Node, row[m] # None PROVE Counter(m)' = Counter(m) + 0 /\ m # p
      BY <1>2, <2>1, <2>2, GraphNodeAssumption DEF TypeOK, Counter, Row
    <2> QED BY <2>1, <2>2 DEF TypeOK
  <1> QED BY <1>1, <1>2

\* A step that adjusts one counter, by what its operation owes no longer.
LEMMA CountStep ==
  ASSUME CountInv, NEW h \in Handle, NEW p \in Parents, NEW d \in Int, Count(p, d),
         handle[h] # None, NEW n \in Node, n = handle[h].node,
         UNCHANGED <<known, lost, handle>>,
         op' \in [Handle -> Operation],
         \A g \in Handle \ {h} : op'[g] = op[g],
         Located(h)',
         \A q \in Node :
           Bit(OwesDecrement(h, q)') - Bit(OwesDecrement(h, q))
             - Bit(OwesIncrement(h, q)') + Bit(OwesIncrement(h, q)) = IF q = p THEN d ELSE 0
  PROVE  Step(h, n)
  <1>1. /\ row' \in [Node -> Row \cup {None}]
        /\ \A m \in Node : /\ row'[m] = None <=> row[m] = None
                           /\ row[m] # None => row'[m].parent = row[m].parent
    BY CountMoves DEF CountInv, Structure
  <1>2. TypeOK'
    BY <1>1 DEF CountInv, Structure, TypeOK, Operation
  <1>3. Rows'
    BY <1>1 DEF CountInv, Structure, Rows
  <1>4. Frame(h, n)
    BY <1>1, IdleOrLocated DEF Frame
  <1>5. ASSUME NEW q \in Node, row'[q] # None PROVE row[q] # None /\ Balanced(h, n, q)
    <2>1. row[q] # None
      BY <1>1, <1>5
    <2>2. IsChild(n, q)' = IsChild(n, q)
      BY <1>1, IdleOrLocated DEF IsChild
    <2>3. Counter(q)' = Counter(q) + (IF q = p THEN d ELSE 0)
      BY <2>1, CountMoves DEF CountInv, Structure
    <2>4. /\ Counter(q) \in Int /\ lost[q] \in Int /\ lost'[q] = lost[q]
      BY DEF CountInv, Structure, TypeOK, Counter, Row
    <2> QED BY <2>1, <2>2, <2>3, <2>4 DEF Balanced, Bit
  <1> QED BY <1>2, <1>3, <1>4, <1>5 DEF Step

LEMMA DecrementStep ==
  ASSUME CountInv, NEW h \in Handle, NEW n \in Node, n = handle[h].node,
         Decrement(h)
  PROVE  Step(h, n)
  <1>1. /\ op[h].at = "dec" /\ op[h].old \in Parents /\ handle[h] # None
        /\ handle[h].parent \in Parents /\ Count(op[h].old, -1)
        /\ UNCHANGED <<known, lost, handle>>
    BY IdleOrLocated DEF Decrement, Located, CountInv, Structure, TypeOK, Instance
  <1>2. /\ op' \in [Handle -> Operation]
        /\ op'[h].at = IF handle[h].parent # None THEN "inc" ELSE "idle"
        /\ op'[h].old \in {None, op[h].old}
        /\ \A g \in Handle \ {h} : op'[g] = op[g]
    BY GotoMoves, ReturnMoves DEF Decrement, CountInv, Structure, Labels
  <1>3. Located(h)'
    <2>1. row[handle[h].node] # None /\ row'[handle[h].node] # None
          /\ row'[handle[h].node].parent = row[handle[h].node].parent
      BY <1>1, CountMoves, IdleOrLocated DEF Located, CountInv, Structure
    <2> QED BY <1>1, <1>2, <2>1, IdleOrLocated DEF Located
  <1>4. ASSUME NEW q \in Node
        PROVE  Bit(OwesDecrement(h, q)') - Bit(OwesDecrement(h, q))
                 - Bit(OwesIncrement(h, q)') + Bit(OwesIncrement(h, q))
                   = IF q = op[h].old THEN -1 ELSE 0
    BY <1>1, <1>2, GraphNodeAssumption DEF Bit, OwesDecrement, OwesIncrement
  <1> QED BY <1>1, <1>2, <1>3, <1>4, CountStep

LEMMA IncrementStep ==
  ASSUME CountInv, NEW h \in Handle, NEW n \in Node, n = handle[h].node,
         Increment(h)
  PROVE  Step(h, n)
  <1>1. /\ op[h].at = "inc" /\ handle[h] # None /\ handle[h].parent \in Parents
        /\ Count(handle[h].parent, 1) /\ UNCHANGED <<known, lost, handle>>
    BY IdleOrLocated DEF Increment, Located, CountInv, Structure, TypeOK, Instance
  <1>2. /\ op' \in [Handle -> Operation] /\ op'[h].at = "idle" /\ op'[h].old = None
        /\ \A g \in Handle \ {h} : op'[g] = op[g]
    BY ReturnMoves DEF Increment, CountInv, Structure
  <1>3. Located(h)'
    <2>1. row[handle[h].node] # None /\ row'[handle[h].node] # None
          /\ row'[handle[h].node].parent = row[handle[h].node].parent
      BY <1>1, CountMoves, IdleOrLocated DEF Located, CountInv, Structure
    <2> QED BY <1>1, <1>2, <2>1, IdleOrLocated DEF Located
  <1>4. ASSUME NEW q \in Node
        PROVE  Bit(OwesDecrement(h, q)') - Bit(OwesDecrement(h, q))
                 - Bit(OwesIncrement(h, q)') + Bit(OwesIncrement(h, q))
                   = IF q = handle[h].parent THEN 1 ELSE 0
    BY <1>1, <1>2 DEF Bit, OwesDecrement, OwesIncrement
  <1> QED BY <1>1, <1>2, <1>3, <1>4, CountStep

LEMMA DecrementFormerStep ==
  ASSUME CountInv, NEW h \in Handle, NEW n \in Node, n = handle[h].node,
         DecrementFormer(h)
  PROVE  Step(h, n)
  <1>1. /\ op[h].at = "undo" /\ handle[h] # None /\ handle[h].parent \in Parents
        /\ Count(handle[h].parent, -1) /\ UNCHANGED <<known, lost, handle>>
    BY IdleOrLocated DEF DecrementFormer, Located, CountInv, Structure, TypeOK, Instance
  <1>2. /\ op' \in [Handle -> Operation] /\ op'[h].at = "idle" /\ op'[h].old = None
        /\ \A g \in Handle \ {h} : op'[g] = op[g]
    BY ReturnMoves DEF DecrementFormer, CountInv, Structure
  <1>3. Located(h)'
    <2>1. /\ row'[handle[h].node] = None <=> row[handle[h].node] = None
          /\ row[handle[h].node] # None
               => row'[handle[h].node].parent = row[handle[h].node].parent
      BY <1>1, CountMoves, IdleOrLocated DEF Located, CountInv, Structure
    <2> QED BY <1>1, <1>2, <2>1, IdleOrLocated DEF Located
  <1>4. ASSUME NEW q \in Node
        PROVE  Bit(OwesDecrement(h, q)') - Bit(OwesDecrement(h, q))
                 - Bit(OwesIncrement(h, q)') + Bit(OwesIncrement(h, q))
                   = IF q = handle[h].parent THEN -1 ELSE 0
    BY <1>1, <1>2 DEF Bit, OwesDecrement, OwesIncrement
  <1> QED BY <1>1, <1>2, <1>3, <1>4, CountStep

LEMMA InsertStep ==
  ASSUME CountInv, NEW h \in Handle, NEW n \in Node, n = handle[h].node,
         Insert(h)
  PROVE  Step(h, n)
  <1> DEFINE r == [parent |-> handle[h].parent, count |-> 0]
  <1>1. /\ op[h].at = "insert" /\ handle[h] # None /\ n \in Node /\ n \notin known
        /\ handle[h].parent \in known \cup {None} /\ handle[h].parent \in Parents
        /\ handle[h].clean /\ op[h].old \in known \cup {None}
        /\ row' = [row EXCEPT ![n] = r] /\ known' = known \cup {n}
        /\ UNCHANGED <<handle, lost>>
    BY IdleOrLocated DEF Insert, Located, CountInv, Structure, TypeOK, Instance
  <1>2. r \in Row /\ r # None /\ r.parent = handle[h].parent /\ r.count = 0
    <2>1. r \in Row
      BY <1>1 DEF Row
    <2> QED BY <2>1, GraphNodeAssumption
  <1> HIDE DEF r
  <1>3. /\ op' \in [Handle -> Operation]
        /\ op'[h].at = IF handle[h].parent = None THEN "idle" ELSE "inc"
        /\ op'[h].old \in {None, op[h].old}
        /\ \A g \in Handle \ {h} : op'[g] = op[g]
    BY GotoMoves, ReturnMoves DEF Insert, CountInv, Structure, Labels
  <1>4. TypeOK'
    BY <1>1, <1>2, <1>3 DEF CountInv, Structure, TypeOK, Operation
  <1>5. /\ row[n] = None /\ row'[n] = r
        /\ \A m \in Node \ {n} : row'[m] = row[m]
    BY <1>1 DEF CountInv, Structure, TypeOK, Rows
  <1>6. Rows'
    BY <1>1, <1>2, <1>5 DEF CountInv, Structure, Rows
  <1>7. Frame(h, n)
    BY <1>1, <1>3, <1>5, IdleOrLocated DEF Frame
  <1>8. Located(h)'
    BY <1>1, <1>2, <1>3, <1>5 DEF Located
  <1>9. ASSUME NEW q \in Node, row'[q] # None
        PROVE  (row[q] # None \/ q \notin known) /\ Balanced(h, n, q)
    <2>1. Counter(q)' = Counter(q) /\ Counter(q) \in Int
      BY <1>1, <1>2, <1>5 DEF Counter, CountInv, Structure, TypeOK, Row
    <2>2. Bit(IsChild(n, q)) = 0 /\ Bit(IsChild(n, q)') = Bit(q = handle[h].parent)
      BY <1>1, <1>2, <1>5 DEF IsChild, Bit
    <2>3. /\ Bit(OwesDecrement(h, q)) = 0 /\ Bit(OwesDecrement(h, q)') = 0
          /\ Bit(OwesIncrement(h, q)) = 0
          /\ Bit(OwesIncrement(h, q)') = Bit(q = handle[h].parent)
      BY <1>1, <1>3, GraphNodeAssumption DEF OwesDecrement, OwesIncrement, Bit
    <2>4. lost'[q] = lost[q] /\ lost[q] \in Int
      BY <1>1 DEF CountInv, Structure, TypeOK
    <2>5. Balanced(h, n, q)
      BY <2>1, <2>2, <2>3, <2>4 DEF Balanced, Bit
    <2> QED BY <1>1, <1>5, <1>9, <2>5
  <1> QED BY <1>1, <1>4, <1>6, <1>7, <1>8, <1>9 DEF Step

LEMMA UpdateStep ==
  ASSUME CountInv, NEW h \in Handle, NEW n \in Node, n = handle[h].node,
         Update(h)
  PROVE  Step(h, n)
  <1> DEFINE p == handle[h].parent
             o == op[h].old
             r == [row[n] EXCEPT !.parent = p]
  <1>1. /\ op[h].at = "write" /\ handle[h] # None /\ handle[h] \in Instance /\ n \in Node
        /\ row[n] # None /\ row[n] \in Row /\ row[n].parent = o
        /\ p \in known \cup {None} /\ o \in known \cup {None}
        /\ p \in Parents /\ n \in known
        /\ op[h].fields \in {"name", "parent_id"}
        /\ UNCHANGED <<known, lost>>
    BY IdleOrLocated DEF Update, Located, CountInv, Structure, TypeOK, Instance, Fields
  <1>2. CASE op[h].fields = "name"
    <2>1. UNCHANGED <<row, handle>> /\ Return(h)
      BY <1>1, <1>2 DEF Update, Updated
    <2>2. /\ op' \in [Handle -> Operation] /\ op'[h].at = "idle" /\ op'[h].old = None
          /\ \A g \in Handle \ {h} : op'[g] = op[g]
      BY <2>1, ReturnMoves DEF CountInv, Structure
    <2>3. Located(h)'
      BY <1>1, <2>1, <2>2, IdleOrLocated DEF Located
    <2> QED
      BY <1>1, <2>1, <2>2, <2>3, IdleOrLocated, QuietStep DEF CountInv, Structure, TypeOK
  <1>3. CASE op[h].fields = "parent_id"
    <2>1. r \in Row /\ r # None /\ r.parent = p /\ r.count = row[n].count
      <3>1. r \in Row /\ r.parent = p /\ r.count = row[n].count
        BY <1>1 DEF Row
      <3> QED BY <3>1, GraphNodeAssumption
    <2>2. row' = [row EXCEPT ![n] = r]
      BY <1>1, <1>3 DEF Update, Updated
    <2> HIDE DEF r
    <2>3. /\ row'[n] = r /\ \A m \in Node \ {n} : row'[m] = row[m]
          /\ row' \in [Node -> Row \cup {None}]
      BY <1>1, <2>1, <2>2 DEF CountInv, Structure, TypeOK
    <2>4. /\ handle' \in [Handle -> Instance \cup {None}]
          /\ handle'[h] \in Instance /\ handle'[h].node = n /\ handle'[h].parent = p
          /\ handle'[h].clean
          /\ \A g \in Handle \ {h} : handle'[g] = handle[g]
      <3>1. handle' = [handle EXCEPT ![h].clean = TRUE]
        BY <1>1, <1>3 DEF Update
      <3> QED BY <1>1, <3>1 DEF CountInv, Structure, TypeOK, Instance
    <2>5. /\ op' \in [Handle -> Operation]
          /\ op'[h].at = IF o # None THEN "dec" ELSE IF p # None THEN "inc" ELSE "idle"
          /\ op'[h].old = IF op'[h].at = "idle" THEN None ELSE o
          /\ \A g \in Handle \ {h} : op'[g] = op[g]
      BY <1>1, <1>3, GotoMoves, ReturnMoves DEF Update, CountInv, Structure, Labels
    <2>6. handle'[h] # None
      BY <2>4, GraphNodeAssumption
    <2>7. TypeOK'
      BY <1>1, <2>3, <2>4, <2>5 DEF CountInv, Structure, TypeOK, Operation
    <2>8. Rows'
      BY <1>1, <2>1, <2>3 DEF CountInv, Structure, Rows
    <2>9. Frame(h, n)
      BY <1>1, <2>3, <2>4, <2>5, IdleOrLocated DEF Frame
    <2>10. Located(h)'
      BY <1>1, <2>1, <2>3, <2>4, <2>5, <2>6 DEF Located
    <2>11. ASSUME NEW q \in Node, row'[q] # None PROVE row[q] # None /\ Balanced(h, n, q)
      <3>1. row[q] # None /\ Counter(q)' = Counter(q) /\ Counter(q) \in Int
        <4>1. row[q] # None /\ row[q] \in Row
          BY <1>1, <2>3, <2>11 DEF CountInv, Structure, TypeOK
        <4>2. row'[q].count = row[q].count
          BY <2>1, <2>3
        <4> QED BY <2>11, <4>1, <4>2 DEF Counter, Row
      <3>2. Bit(IsChild(n, q)) = Bit(q = o) /\ Bit(IsChild(n, q)') = Bit(q = p)
        BY <1>1, <2>1, <2>3 DEF IsChild, Bit
      <3>3. /\ Bit(OwesDecrement(h, q)) = 0 /\ Bit(OwesDecrement(h, q)') = Bit(q = o)
            /\ Bit(OwesIncrement(h, q)) = 0 /\ Bit(OwesIncrement(h, q)') = Bit(q = p)
        BY <1>1, <2>4, <2>5, GraphNodeAssumption DEF OwesDecrement, OwesIncrement, Bit
      <3>4. lost'[q] = lost[q] /\ lost[q] \in Int
        BY <1>1 DEF CountInv, Structure, TypeOK
      <3> QED BY <3>1, <3>2, <3>3, <3>4 DEF Balanced, Bit
    <2> HIDE DEF p, o
    <2> QED BY <2>4, <2>7, <2>8, <2>9, <2>10, <2>11 DEF Step
  <1> QED BY <1>1, <1>2, <1>3

LEMMA RemoveStep ==
  ASSUME CountInv, NEW h \in Handle, NEW n \in Node, n = handle[h].node,
         Remove(h)
  PROVE  Step(h, n)
  <1> DEFINE p == handle[h].parent
  <1>1. /\ op[h].at = "remove" /\ handle[h] # None /\ n \in Node /\ n \in known
        /\ row[n] # None /\ row[n].parent = p /\ p \in known \cup {None}
        /\ op[h].old \in known \cup {None}
        /\ row' = [row EXCEPT ![n] = None] /\ UNCHANGED <<known, lost, handle>>
    BY IdleOrLocated DEF Remove, Located
  <1>2. /\ row' \in [Node -> Row \cup {None}] /\ row'[n] = None
        /\ \A m \in Node \ {n} : row'[m] = row[m]
    BY <1>1 DEF CountInv, Structure, TypeOK
  <1>3. /\ op' \in [Handle -> Operation]
        /\ op'[h].at = IF p # None THEN "undo" ELSE "idle"
        /\ op'[h].old \in {None, op[h].old}
        /\ \A g \in Handle \ {h} : op'[g] = op[g]
    BY GotoMoves, ReturnMoves DEF Remove, CountInv, Structure, Labels
  <1>4. TypeOK'
    BY <1>1, <1>2, <1>3 DEF CountInv, Structure, TypeOK, Operation
  <1>5. Rows'
    BY <1>1, <1>2 DEF CountInv, Structure, Rows
  <1>6. ASSUME NEW q \in Node, row'[q] # None PROVE row[q] # None /\ Balanced(h, n, q)
    <2>1. q # n /\ row[q] # None /\ Counter(q)' = Counter(q) /\ Counter(q) \in Int
      BY <1>1, <1>2, <1>6 DEF Counter, CountInv, Structure, TypeOK, Row
    <2>2. Bit(IsChild(n, q)) = Bit(q = p) /\ Bit(IsChild(n, q)') = 0
      BY <1>1, <1>2 DEF IsChild, Bit
    <2>3. /\ Bit(OwesDecrement(h, q)) = 0 /\ Bit(OwesDecrement(h, q)') = Bit(q = p)
          /\ Bit(OwesIncrement(h, q)) = 0 /\ Bit(OwesIncrement(h, q)') = 0
      BY <1>1, <1>3, GraphNodeAssumption DEF OwesDecrement, OwesIncrement, Bit
    <2>4. lost'[q] = lost[q] /\ lost[q] \in Int
      BY <1>1 DEF CountInv, Structure, TypeOK
    <2> QED BY <2>1, <2>2, <2>3, <2>4 DEF Balanced, Bit
  <1>7. Frame(h, n)
    <2>1. \A m \in Node \ {n} : /\ row'[m] = None <=> row[m] = None
                                /\ row[m] # None => row'[m].parent = row[m].parent
      BY <1>2
    <2> QED BY <1>1, <1>3, <2>1, IdleOrLocated DEF Frame
  <1>8. Located(h)'
    BY <1>1, <1>2, <1>3, IdleOrLocated DEF Located
  <1> HIDE DEF p
  <1> QED BY <1>1, <1>4, <1>5, <1>6, <1>7, <1>8 DEF Step

LEMMA CrashStep ==
  ASSUME CountInv, NEW h \in Handle, NEW n \in Node, n = handle[h].node,
         Crash(h)
  PROVE  Step(h, n)
  <1>1. /\ handle[h] # None /\ n \in Node /\ "crash" \in Allowed
        /\ UNCHANGED <<row, known>>
    BY IdleOrLocated DEF Crash, Located
  <1>2. /\ handle' \in [Handle -> Instance \cup {None}] /\ handle'[h] = None
        /\ \A g \in Handle \ {h} : handle'[g] = handle[g]
    BY DEF Crash, CountInv, Structure, TypeOK
  <1>3. /\ op' \in [Handle -> Operation] /\ op'[h].at = "idle" /\ op'[h].old = None
        /\ \A g \in Handle \ {h} : op'[g] = op[g]
    BY ReturnMoves DEF Crash, CountInv, Structure
  <1>4. lost' \in [Node -> Int]
        /\ \A q \in Node : lost'[q] = IF row[q] = None THEN 0
                                     ELSE lost[q] + Bit(h \in OwedDecrements(q))
                                                  - Bit(h \in OwedIncrements(q))
    BY DEF Crash, CountInv, Structure, TypeOK, Bit
  <1>5. TypeOK'
    BY <1>1, <1>2, <1>3, <1>4 DEF CountInv, Structure, TypeOK, Operation
  <1>6. Rows'
    BY <1>1, <1>4 DEF CountInv, Structure, Rows
  <1>7. Frame(h, n)
    BY <1>1, <1>2, <1>3, IdleOrLocated DEF Frame
  <1>8. Located(h)'
    BY <1>1, <1>2, <1>3 DEF Located
  <1>9. ASSUME NEW q \in Node, row'[q] # None PROVE row[q] # None /\ Balanced(h, n, q)
    <2>1. /\ Counter(q)' = Counter(q) /\ Counter(q) \in Int /\ lost[q] \in Int
          /\ Bit(IsChild(n, q)') = Bit(IsChild(n, q))
      <3>1. row[q] # None /\ row[q] \in Row /\ lost[q] \in Int
        BY <1>1, <1>9 DEF CountInv, Structure, TypeOK
      <3> QED BY <1>1, <3>1 DEF Counter, IsChild, Row
    <2>2. Bit(OwesDecrement(h, q)') = 0 /\ Bit(OwesIncrement(h, q)') = 0
      BY <1>3 DEF OwesDecrement, OwesIncrement, Bit
    <2>3. lost'[q] = lost[q] + Bit(OwesDecrement(h, q)) - Bit(OwesIncrement(h, q))
      BY <1>1, <1>4, <1>9
      DEF OwesDecrement, OwesIncrement, OwedDecrements, OwedIncrements, Bit
    <2> QED BY <1>1, <1>9, <2>1, <2>2, <2>3 DEF Balanced, Bit
  <1> QED BY <1>1, <1>2, <1>5, <1>6, <1>7, <1>8, <1>9 DEF Step

-----------------------------------------------------------------------------
(* The theorems.                                                             *)

LEMMA InitCountInv == Init => CountInv
  <1> SUFFICES ASSUME Init PROVE CountInv
    OBVIOUS
  <1> USE GraphNodeAssumption DEF Init
  <1>1. TypeOK
    BY DEF TypeOK, Idle, Labels, Fields, Parents
  <1>2. Rows /\ OneHandleEach /\ CountsMatch
    BY DEF Rows, OneHandleEach, CountsMatch
  <1>3. \A h \in Handle : Located(h)
    BY DEF Located, Idle
  <1> QED BY <1>1, <1>2, <1>3 DEF CountInv, Structure

LEMMA NextCountInv ==
  ASSUME Disciplined, CountInv, [Next]_vars
  PROVE  CountInv'
  <1>1. CASE Next
    <2> PICK h \in Handle :
           \/ \E n \in Node, p \in Parents : Create(h, n, p)
           \/ \E n \in Node : Load(h, n)
           \/ Drop(h)
           \/ \E p \in Parents : Assign(h, p)
           \/ \E f \in Fields : Save(h, f)
           \/ Insert(h) \/ ReadOldParent(h) \/ Update(h) \/ Decrement(h) \/ Increment(h)
           \/ Delete(h) \/ Guard(h) \/ Remove(h) \/ DecrementFormer(h)
           \/ Crash(h)
      BY <1>1 DEF Next
    <2>1. ASSUME NEW n \in Node, Step(h, n) PROVE CountInv'
      BY <2>1, StepKeepsCountInv
    <2>2. ASSUME handle[h] # None,
                 \A n \in Node : n = handle[h].node => Step(h, n)
          PROVE  CountInv'
      <3>1. PICK n \in Node : n = handle[h].node
        BY <2>2, IdleOrLocated
      <3> QED BY <2>1, <2>2, <3>1
    <2>3. ASSUME NEW n \in Node, NEW p \in Parents, Create(h, n, p) PROVE CountInv'
      BY <2>1, <2>3, CreateStep
    <2>4. ASSUME NEW n \in Node, Load(h, n) PROVE CountInv'
      BY <2>1, <2>4, LoadStep
    <2>5. ASSUME Drop(h) PROVE CountInv'
      BY <2>2, <2>5, DropStep DEF Drop
    <2>6. ASSUME NEW p \in Parents, Assign(h, p) PROVE CountInv'
      BY <2>2, <2>6, AssignStep DEF Assign
    <2>7. ASSUME NEW f \in Fields, Save(h, f) PROVE CountInv'
      BY <2>2, <2>7, SaveStep DEF Save, MayUse
    <2>8. ASSUME Delete(h) PROVE CountInv'
      BY <2>2, <2>8, DeleteStep DEF Delete, MayUse
    <2>9. op[h].at # "idle" => handle[h] # None
      BY IdleOrLocated DEF Located
    <2>10. ASSUME Insert(h) \/ ReadOldParent(h) \/ Update(h) PROVE CountInv'
      BY <2>2, <2>9, <2>10, InsertStep, ReadOldParentStep, UpdateStep
      DEF Insert, ReadOldParent, Update
    <2>11. ASSUME Decrement(h) \/ Increment(h) \/ DecrementFormer(h) PROVE CountInv'
      BY <2>2, <2>9, <2>11, DecrementStep, IncrementStep, DecrementFormerStep
      DEF Decrement, Increment, DecrementFormer
    <2>12. ASSUME Guard(h) \/ Remove(h) PROVE CountInv'
      BY <2>2, <2>9, <2>12, GuardStep, RemoveStep DEF Guard, Remove
    <2>13. ASSUME Crash(h) PROVE CountInv'
      BY <2>2, <2>9, <2>13, CrashStep DEF Crash
    <2> QED
      BY <2>3, <2>4, <2>5, <2>6, <2>7, <2>8, <2>10, <2>11, <2>12, <2>13
  <1>2. CASE UNCHANGED vars
    BY <1>2 DEF vars, CountInv, Structure, TypeOK, Rows, OneHandleEach, Located, CountsMatch,
                Children, OwedDecrements, OwedIncrements
  <1> QED BY <1>1, <1>2

LEMMA CountInvariant == Disciplined /\ Spec => []CountInv
  <1>1. Disciplined /\ CountInv /\ [Next]_vars => CountInv'
    BY NextCountInv
  <1>2. CASE Disciplined
    <2>1. CountInv /\ [Next]_vars => CountInv'
      BY <1>1, <1>2
    <2> QED BY <2>1, InitCountInv, PTL DEF Spec
  <1> QED BY <1>2

\* The table, the instances and the operations keep their types.
THEOREM TypeCorrect == Disciplined /\ Spec => []TypeOK
  <1>1. CountInv => TypeOK
    BY DEF CountInv, Structure
  <1> QED BY <1>1, CountInvariant, PTL

\* child_count in any interleaving of creates, reparents and deletes, crashed ones
\* included: what it differs by from the number of children is what operations owe it.
THEOREM CountsAreAccountedFor == Disciplined /\ Spec => []CountsMatch
  <1>1. CountInv => CountsMatch
    BY DEF CountInv
  <1> QED BY <1>1, CountInvariant, PTL

\* Once nothing is under way child_count is the number of children of every node whose
\* counter no crash has left off.
THEOREM CountsSettle == Disciplined /\ Spec => []SettledCounts
  <1>1. ASSUME CountInv PROVE SettledCounts
    <2> SUFFICES ASSUME \A h \in Handle : op[h].at = "idle",
                        NEW p \in Node, row[p] # None, lost[p] = 0
                 PROVE  row[p].count = Cardinality(Children(p))
      BY DEF SettledCounts
    <2>1. OwedDecrements(p) = {} /\ OwedIncrements(p) = {}
      BY DEF OwedDecrements, OwedIncrements
    <2>2. Cardinality(Children(p)) \in Nat
      BY FS_Subset, FS_CardinalityType, GraphNodeAssumption DEF Children
    <2>3. row[p].count = Cardinality(Children(p)) + 0 - 0 + 0
      BY <1>1, <2>1, FS_EmptySet DEF CountInv, CountsMatch
    <2> QED BY <2>2, <2>3
  <1> QED BY <1>1, CountInvariant, PTL

\* Nor is such a counter ever negative: a save decrements a parent only once the link it
\* counted is gone, and the children an increment is still owed for are there already.
THEOREM CountsStayNatural == Disciplined /\ Spec => []NeverNegative
  <1>1. ASSUME CountInv PROVE NeverNegative
    <2> SUFFICES ASSUME NEW p \in Node, row[p] # None, lost[p] = 0
                 PROVE  row[p].count >= 0
      BY DEF NeverNegative
    <2>1. /\ IsFiniteSet(Children(p)) /\ IsFiniteSet(OwedDecrements(p))
          /\ IsFiniteSet(OwedIncrements(p))
      BY FS_Subset, GraphNodeAssumption DEF Children, OwedDecrements, OwedIncrements
    <2>2. Cardinality(OwedIncrements(p)) <= Cardinality(Children(p))
      <3> DEFINE f == [h \in OwedIncrements(p) |-> handle[h].node]
      <3>1. ASSUME NEW h \in OwedIncrements(p)
            PROVE  h \in Handle /\ handle[h] # None /\ handle[h].node \in Children(p)
        <4>1. h \in Handle /\ op[h].at \in {"dec", "inc"} /\ handle[h].parent = p
          BY DEF OwedIncrements
        <4> QED BY <1>1, <4>1, IdleOrLocated DEF Located, Children
      <3>2. \A g, h \in OwedIncrements(p) : f[g] = f[h] => g = h
        BY <1>1, <3>1 DEF CountInv, Structure, OneHandleEach
      <3>3. f \in Injection(OwedIncrements(p), Children(p))
        BY <3>1, <3>2 DEF Injection, IsInjective
      <3> QED BY <2>1, <3>3, FS_Injection
    <2>3. /\ Cardinality(Children(p)) \in Nat /\ Cardinality(OwedDecrements(p)) \in Nat
          /\ Cardinality(OwedIncrements(p)) \in Nat
      BY <2>1, FS_CardinalityType
    <2>4. row[p].count = Cardinality(Children(p)) + Cardinality(OwedDecrements(p))
                           - Cardinality(OwedIncrements(p)) + 0
      BY <1>1 DEF CountInv, CountsMatch
    <2> QED BY <2>2, <2>3, <2>4
  <1> QED BY <1>1, CountInvariant, PTL

-----------------------------------------------------------------------------
(* The walks: GraphWalk, over its table in GraphModel.                        *)

LEMMA NodesAreFinite == IsFiniteSet(Node)
  BY GraphNodeAssumption

LEMMA SameSizes == \A S : Walk!Cardinality(S) = Cardinality(S)
  BY DEF Walk!Cardinality, Cardinality

-----------------------------------------------------------------------------
(* Induction.  The library's theorems about it take an operator, which the   *)
(* provers cannot instantiate; a set has a least element.                    *)

\* A set of numbers has a least one.
LEMMA LeastNat ==
  ASSUME NEW S, S \subseteq Nat, S # {}
  PROVE  \E m \in S : \A k \in S : m <= k
  <1> DEFINE R == {ss \in Nat \X Nat : ss[1] < ss[2]}
  <1>1. IsWellFoundedOn(R, Nat)
    BY NatLessThanWellFounded DEF OpToRel
  <1>2. \A j, k \in Nat : j < k => <<j, k>> \in R
    OBVIOUS
  <1> HIDE DEF R
  <1>3. PICK m \in S : \A k \in S : ~ (<<k, m>> \in R)
    BY <1>1, WFMin
  <1>4. ASSUME NEW k \in S PROVE m <= k
    <2>1. k \in Nat /\ m \in Nat /\ ~ (<<k, m>> \in R)
      BY <1>3
    <2> QED BY <1>2, <2>1
  <1> QED BY <1>4

\* What holds of 0, and of n + 1 when it holds of n, holds of every number.
LEMMA SetInduction ==
  ASSUME NEW S, 0 \in S, \A n \in Nat : n \in S => n + 1 \in S
  PROVE  Nat \subseteq S
  <1> SUFFICES ASSUME Nat \ S # {} PROVE FALSE
    OBVIOUS
  <1>1. PICK m \in Nat \ S : \A k \in Nat \ S : m <= k
    BY LeastNat
  <1>2. m # 0 /\ m - 1 \in Nat /\ m - 1 \in S
    BY <1>1
  <1> QED BY <1>1, <1>2

Iterates(f, first, step) == f[0] = first /\ \A n \in Nat : f[n + 1] = step[n][f[n]]

\* What is defined by a first value and a step from each to the next exists.
LEMMA Recursion ==
  ASSUME NEW T, NEW first \in T, NEW step \in [Nat -> [T -> T]]
  PROVE  \E f \in [Nat -> T] : Iterates(f, first, step)
  <1> DEFINE Upto(n) == {g \in [0..n -> T] : g[0] = first
          /\ \A i \in 0..(n - 1) : g[i + 1] = step[i][g[i]]}
             S == {n \in Nat : Upto(n) # {}}
  <1>1. 0 \in S
    <2>1. [i \in 0..0 |-> first] \in Upto(0)
      OBVIOUS
    <2> QED BY <2>1
  <1>2. ASSUME NEW n \in Nat, n \in S PROVE n + 1 \in S
    <2>1. PICK g \in Upto(n) : TRUE
      BY <1>2
    <2> DEFINE h == [i \in 0..(n + 1) |-> IF i <= n THEN g[i] ELSE step[n][g[n]]]
    <2>2. g \in [0..n -> T] /\ g[0] = first /\ \A i \in 0..(n - 1) : g[i + 1] = step[i][g[i]]
      BY <2>1
    <2>3. h \in [0..(n + 1) -> T] /\ h[0] = first
      BY <2>2
    <2>4. ASSUME NEW i \in 0..n PROVE h[i + 1] = step[i][h[i]]
      <3>1. h[i] = g[i]
        OBVIOUS
      <3>2. CASE i = n
        BY <3>1, <3>2
      <3>3. CASE i < n
        <4>1. i \in 0..(n - 1) /\ i + 1 \in 0..(n + 1) /\ i + 1 <= n
          BY <3>3
        <4>2. h[i + 1] = g[i + 1]
          BY <4>1
        <4> QED BY <2>2, <3>1, <4>1, <4>2
      <3> QED BY <3>2, <3>3
    <2>5. \A i \in 0..(n + 1 - 1) : h[i + 1] = step[i][h[i]]
      <3>1. n + 1 - 1 = n
        OBVIOUS
      <3> HIDE DEF h
      <3> QED BY <2>4, <3>1
    <2>6. h \in Upto(n + 1)
      <3> HIDE DEF h
      <3> QED BY <2>3, <2>5
    <2>7. Upto(n + 1) # {} /\ n + 1 \in Nat
      <3> HIDE DEF h, Upto
      <3> QED BY <2>6
    <2> HIDE DEF h, Upto
    <2> QED BY <2>7
  <1>3. \A n \in Nat : Upto(n) # {}
    <2> HIDE DEF Upto
    <2>1. Nat \subseteq S
      <3> HIDE DEF S
      <3> QED BY <1>1, <1>2, SetInduction
    <2> QED BY <2>1
  <1>4. ASSUME NEW n \in Nat, NEW g \in Upto(n), NEW h \in Upto(n + 1) PROVE g[n] = h[n]
    <2> DEFINE E == {i \in Nat : i <= n => g[i] = h[i]}
    <2>1. 0 \in E
      OBVIOUS
    <2>2. ASSUME NEW i \in Nat, i \in E PROVE i + 1 \in E
      <3>1. i + 1 <= n => i \in 0..(n - 1) /\ i \in 0..(n + 1 - 1) /\ i <= n
        OBVIOUS
      <3> QED BY <2>2, <3>1
    <2>3. Nat \subseteq E
      <3> HIDE DEF E
      <3> QED BY <2>1, <2>2, SetInduction
    <2> QED BY <2>3
  <1> DEFINE G(n) == CHOOSE g : g \in Upto(n)
             f == [n \in Nat |-> G(n)[n]]
  <1>5. \A n \in Nat : G(n) \in Upto(n)
    <2> HIDE DEF Upto
    <2> QED BY <1>3
  <1>6. ASSUME NEW n \in Nat PROVE f[n] \in T /\ f[n + 1] = step[n][f[n]]
    <2>1. G(n) \in Upto(n) /\ G(n + 1) \in Upto(n + 1)
      <3> HIDE DEF G, Upto
      <3>1. n + 1 \in Nat
        OBVIOUS
      <3> QED BY <1>5, <3>1
    <2>2. f[n] = G(n)[n] /\ f[n + 1] = G(n + 1)[n + 1]
      <3> HIDE DEF G
      <3> QED OBVIOUS
    <2> HIDE DEF G, f
    <2>3. G(n)[n] \in T /\ G(n + 1)[n + 1] = step[n][G(n + 1)[n]]
      BY <2>1
    <2>4. G(n)[n] = G(n + 1)[n]
      BY <1>4, <2>1
    <2> QED BY <2>2, <2>3, <2>4
  <1>7. f[0] = first
    <2>1. G(0) \in Upto(0) /\ f[0] = G(0)[0]
      BY <1>5
    <2> HIDE DEF G, f
    <2> QED BY <2>1
  <1> HIDE DEF G
  <1>8. f \in [Nat -> T]
    <2>1. \A n \in Nat : G(n)[n] \in T
      BY <1>6
    <2> QED BY <2>1
  <1> HIDE DEF f
  <1>9. Iterates(f, first, step)
    BY <1>6, <1>7 DEF Iterates
  <1> QED BY <1>8, <1>9

-----------------------------------------------------------------------------
(* What is queued.                                                           *)

\* The loop over the children keeps those with a level to read below them, and no others.
LEMMA EnqueuedAre ==
  ASSUME NEW new \in Seq(Walk!Instance)
  PROVE  /\ Walk!Enqueued(new) \in Seq(Walk!Instance)
         /\ \A i : (\E q \in 1..Len(Walk!Enqueued(new)) : Walk!Enqueued(new)[q] = i)
                     <=> (\E j \in 1..Len(new) : new[j] = i /\ Walk!Enqueues(i))
  <1> DEFINE T == Seq(Walk!Instance)
             Keeps(k) == k + 1 <= Len(new) /\ Walk!Enqueues(new[k + 1])
             Taken(k, s) == IF Keeps(k) THEN Append(s, new[k + 1]) ELSE s
             step == [k \in Nat |-> [s \in T |-> Taken(k, s)]]
             first == <<>>
             N == Len(new)
  <1>0. N \in Nat /\ \A k \in 1..N : new[k] \in Walk!Instance
    OBVIOUS
  <1>1. first \in T /\ step \in [Nat -> [T -> T]]
    <2>1. ASSUME NEW k \in Nat, NEW s \in T PROVE Taken(k, s) \in T
      <3>1. CASE Keeps(k)
        <4>1. new[k + 1] \in Walk!Instance
          BY <3>1, <1>0
        <4> QED BY <3>1, <4>1, AppendProperties
      <3>2. CASE ~Keeps(k)
        BY <3>2
      <3> QED BY <3>1, <3>2
    <2> HIDE DEF Taken
    <2> QED BY <2>1
  <1>2. PICK f \in [Nat -> T] : Iterates(f, first, step)
    <2>1. first \in T /\ step \in [Nat -> [T -> T]]
      BY <1>1
    <2> HIDE DEF T, step, first, Taken
    <2> QED BY <2>1, Recursion
  <1>3. \A k \in Nat : f[k] \in T /\ f[k + 1] = Taken(k, f[k])
    <2> HIDE DEF Taken, T
    <2> QED BY <1>2 DEF Iterates
  <1>4. Walk!Enqueued(new) = f[N]
    <2> DEFINE Rule(g) == [k \in 0..N |-> IF k = 0 THEN <<>>
                             ELSE IF Walk!Enqueues(new[k])
                                  THEN Append(g[k - 1], new[k]) ELSE g[k - 1]]
               h == [k \in 0..N |-> f[k]]
               g == CHOOSE x : x = Rule(x)
    <2>1. ASSUME NEW k \in 1..N
          PROVE  k - 1 \in Nat /\ (k - 1) + 1 = k /\ (Keeps(k - 1) <=> Walk!Enqueues(new[k]))
      BY <1>0
    <2>2. h = Rule(h)
      <3>1. ASSUME NEW k \in 0..N
            PROVE h[k] = IF k = 0 THEN <<>>
                         ELSE IF Walk!Enqueues(new[k]) THEN Append(h[k - 1], new[k]) ELSE h[k - 1]
        <4>1. CASE k = 0
          BY <1>2, <4>1 DEF Iterates
        <4>2. CASE k # 0
          <5>1. k \in 1..N /\ k - 1 \in 0..N
            BY <4>2, <1>0
          <5>2. h[k] = f[k] /\ h[k - 1] = f[k - 1]
            BY <5>1
          <5>3. h[k] = Taken(k - 1, h[k - 1])
            <6> HIDE DEF Taken, h
            <6> QED BY <1>3, <2>1, <5>1, <5>2
          <5> HIDE DEF h, Keeps
          <5> QED BY <2>1, <4>2, <5>1, <5>3
        <4> QED BY <4>1, <4>2
      <3>2. h = [k \in 0..N |-> h[k]]
        OBVIOUS
      <3> HIDE DEF h, N
      <3> QED BY <3>1, <3>2
    <2>3. Walk!Enqueued(new) = g[N]
      BY DEF Walk!Enqueued
    <2>4. g = Rule(g)
      <3> HIDE DEF Rule, h
      <3> QED BY <2>2
    <2>5. \A k \in 0..N : g[k] = IF k = 0 THEN <<>>
                             ELSE IF Walk!Enqueues(new[k])
                                  THEN Append(g[k - 1], new[k]) ELSE g[k - 1]
      <3> HIDE DEF g, N
      <3> QED BY <2>4
    <2> DEFINE S == {k \in Nat : k <= N => g[k] = f[k]}
    <2> HIDE DEF g
    <2>6. 0 \in S
      <3>1. 0 \in 0..N /\ g[0] = <<>>
        BY <2>5, <1>0
      <3> QED BY <1>2, <3>1 DEF Iterates
    <2>7. ASSUME NEW k \in Nat, k \in S PROVE k + 1 \in S
      <3> SUFFICES ASSUME k + 1 <= N PROVE g[k + 1] = f[k + 1]
        OBVIOUS
      <3>1. k + 1 \in 1..N /\ k + 1 \in 0..N /\ k + 1 # 0 /\ (k + 1) - 1 = k /\ k <= N
        BY <1>0
      <3>2. g[k] = f[k]
        BY <2>7, <3>1
      <3>3. Keeps(k) <=> Walk!Enqueues(new[k + 1])
        BY <3>1
      <3> HIDE DEF N, Keeps
      <3> QED BY <1>3, <2>5, <3>1, <3>2, <3>3
    <2>8. Nat \subseteq S
      <3> HIDE DEF S
      <3> QED BY <2>6, <2>7, SetInduction
    <2> HIDE DEF N
    <2> QED BY <1>0, <2>3, <2>8
  <1> HIDE DEF T, step, first
  <1> DEFINE Kept(k, i) == \E j \in 1..k : new[j] = i /\ Walk!Enqueues(i)
             Has(s, i) == \E q \in 1..Len(s) : s[q] = i
             S == {k \in Nat : k <= N => \A i : Has(f[k], i) <=> Kept(k, i)}
  <1>5. 0 \in S
    <2>1. f[0] = <<>>
      BY <1>2 DEF first, Iterates
    <2> QED BY <2>1
  <1>6. ASSUME NEW k \in Nat, k \in S PROVE k + 1 \in S
    <2> SUFFICES ASSUME k + 1 <= N, NEW i PROVE Has(f[k + 1], i) <=> Kept(k + 1, i)
      OBVIOUS
    <2>1. k <= N /\ k + 1 \in 1..N /\ new[k + 1] \in Walk!Instance
      BY <1>0
    <2>2. Has(f[k], i) <=> Kept(k, i)
      BY <1>6, <2>1
    <2>3. Kept(k + 1, i) <=> Kept(k, i) \/ (i = new[k + 1] /\ Walk!Enqueues(i))
      <3>1. 1..(k + 1) = (1..k) \cup {k + 1}
        OBVIOUS
      <3> HIDE DEF N
      <3> QED BY <3>1
    <2>4. CASE Walk!Enqueues(new[k + 1])
      <3>1. f[k + 1] = Append(f[k], new[k + 1]) /\ f[k] \in Seq(Walk!Instance)
        BY <1>3, <2>1, <2>4 DEF T
      <3>2. Has(f[k + 1], i) <=> Has(f[k], i) \/ i = new[k + 1]
        <4> DEFINE s == f[k]  e == new[k + 1]
        <4>1. s \in Seq(Walk!Instance) /\ e \in Walk!Instance
          BY <2>1, <3>1
        <4> HIDE DEF s, e
        <4>2. /\ Len(Append(s, e)) = Len(s) + 1 /\ Len(s) \in Nat
              /\ \A q \in 1..Len(s) : Append(s, e)[q] = s[q]
              /\ Append(s, e)[Len(s) + 1] = e
          BY <4>1
        <4>3. Has(Append(s, e), i) <=> Has(s, i) \/ i = e
          <5>1. 1..Len(Append(s, e)) = (1..Len(s)) \cup {Len(s) + 1}
            BY <4>2
          <5> QED BY <4>2, <5>1
        <4> QED BY <3>1, <4>3 DEF s, e
      <3> HIDE DEF Has, Kept
      <3> QED BY <2>2, <2>3, <2>4, <3>2
    <2>5. CASE ~Walk!Enqueues(new[k + 1])
      <3>1. f[k + 1] = f[k]
        BY <1>3, <2>5
      <3> HIDE DEF Has, Kept
      <3> QED BY <2>2, <2>3, <2>5, <3>1
    <2> QED BY <2>4, <2>5
  <1>7. Nat \subseteq S
    <2> HIDE DEF S
    <2> QED BY <1>5, <1>6, SetInduction
  <1>8. f[N] \in Seq(Walk!Instance) /\ \A i : Has(f[N], i) <=> Kept(N, i)
    <2>1. N \in S /\ N <= N
      <3> HIDE DEF S, N
      <3> QED BY <1>0, <1>7
    <2> HIDE DEF N, Has, Kept, Taken
    <2>2. f[N] \in T
      BY <1>0, <1>3
    <2> QED BY <2>1, <2>2 DEF T
  <1> QED BY <1>4, <1>8

-----------------------------------------------------------------------------
(* The nodes below and above.                                                *)

\* The levels below a node by their recursion.
LEMMA BelowSteps ==
  ASSUME NEW n \in Node
  PROVE  /\ Walk!Below(n, 0) = {n}
         /\ \A k \in Nat : Walk!Below(n, k + 1) =
                Walk!Below(n, k) \cup UNION {Walk!Children(m) : m \in Walk!Below(n, k)}
  <1> DEFINE T == SUBSET Node
             Further(S) == S \cup UNION {Walk!Children(m) : m \in S}
             step == [i \in Nat |-> [S \in T |-> Further(S)]]
  <1>1. {n} \in T /\ step \in [Nat -> [T -> T]]
    <2>1. \A S \in T : Further(S) \in T
      BY DEF Walk!Children, Walk!Stored
    <2> QED BY <2>1
  <1> DEFINE first == {n}
  <1>2. PICK f \in [Nat -> T] : Iterates(f, first, step)
    <2>1. first \in T /\ step \in [Nat -> [T -> T]]
      BY <1>1
    <2> HIDE DEF T, step, first
    <2> QED BY <2>1, Recursion
  <1>3. \A i \in Nat : f[i] \in T /\ f[i + 1] = Further(f[i])
    <2> HIDE DEF Further, T
    <2> QED BY <1>2 DEF Iterates
  <1>4. ASSUME NEW k \in Nat PROVE Walk!Below(n, k) = f[k]
    <2> DEFINE Rule(g) == [j \in 0..k |-> IF j = 0 THEN {n}
            ELSE g[j - 1] \cup UNION {Walk!Children(m) : m \in g[j - 1]}]
               h == [j \in 0..k |-> f[j]]
               g == CHOOSE x : x = Rule(x)
    <2>1. h = Rule(h)
      <3>1. ASSUME NEW j \in 0..k PROVE h[j] = IF j = 0 THEN {n} ELSE Further(h[j - 1])
        <4>1. CASE j = 0
          BY <1>2, <4>1 DEF Iterates
        <4>2. CASE j # 0
          <5>1. j - 1 \in Nat /\ j - 1 \in 0..k /\ (j - 1) + 1 = j
            BY <4>2
          <5>2. h[j] = f[j] /\ h[j - 1] = f[j - 1]
            BY <5>1
          <5> HIDE DEF Further, h
          <5> QED BY <1>3, <4>2, <5>1, <5>2
        <4> QED BY <4>1, <4>2
      <3>2. h = [j \in 0..k |-> h[j]]
        OBVIOUS
      <3>3. Rule(h) = [j \in 0..k |-> IF j = 0 THEN {n} ELSE Further(h[j - 1])]
        OBVIOUS
      <3> HIDE DEF Further, h, Rule
      <3> QED BY <3>1, <3>2, <3>3
    <2>2. Walk!Below(n, k) = g[k]
      BY DEF Walk!Below
    <2>3. g = Rule(g)
      <3> HIDE DEF Rule, h
      <3> QED BY <2>1
    <2>4. \A j \in 0..k : g[j] = IF j = 0 THEN {n} ELSE Further(g[j - 1])
      <3> HIDE DEF g
      <3> QED BY <2>3
    <2> DEFINE S == {j \in Nat : j <= k => g[j] = f[j]}
    <2> HIDE DEF g, Further
    <2>5. 0 \in S
      <3>1. 0 \in 0..k /\ g[0] = {n}
        BY <2>4
      <3> QED BY <1>2, <3>1 DEF Iterates
    <2>6. ASSUME NEW j \in Nat, j \in S PROVE j + 1 \in S
      <3> SUFFICES ASSUME j + 1 <= k PROVE g[j + 1] = f[j + 1]
        OBVIOUS
      <3>1. j + 1 \in 0..k /\ j + 1 # 0 /\ (j + 1) - 1 = j /\ j <= k
        OBVIOUS
      <3>2. g[j] = f[j]
        BY <2>6, <3>1
      <3> QED BY <1>3, <2>4, <3>1, <3>2
    <2>7. Nat \subseteq S
      <3> HIDE DEF S
      <3> QED BY <2>5, <2>6, SetInduction
    <2> QED BY <2>2, <2>7
  <1> HIDE DEF T, step
  <1>5. Walk!Below(n, 0) = {n}
    BY <1>2, <1>4 DEF Iterates
  <1>6. ASSUME NEW k \in Nat PROVE Walk!Below(n, k + 1) = Further(Walk!Below(n, k))
    <2> HIDE DEF Further
    <2>1. k + 1 \in Nat
      OBVIOUS
    <2>2. Walk!Below(n, k) = f[k] /\ Walk!Below(n, k + 1) = f[k + 1]
      BY <1>4, <2>1
    <2> QED BY <1>3, <2>2
  <1> QED BY <1>5, <1>6

\* The levels above a node likewise; None, above a root, is among them on the way.
LEMMA AboveSteps ==
  ASSUME Walk!TypeOK, NEW n \in Node
  PROVE  \E f \in [Nat -> SUBSET Walk!Parents] :
           /\ f[0] = {n}
           /\ \A k \in Nat : f[k + 1] = f[k] \cup {table[m].parent : m \in f[k] \cap Walk!Stored}
           /\ \A k \in Nat : Walk!Above(n, k) = f[k] \ {None}
  <1> DEFINE T == SUBSET Walk!Parents
             Further(S) == S \cup {table[m].parent : m \in S \cap Walk!Stored}
             step == [i \in Nat |-> [S \in T |-> Further(S)]]
  <1>1. {n} \in T /\ step \in [Nat -> [T -> T]]
    <2>1. \A m \in Walk!Stored : table[m].parent \in Walk!Parents
      BY DEF Walk!TypeOK, Walk!Stored, Walk!Row
    <2>2. {n} \in T
      BY DEF Walk!Parents
    <2>3. \A S \in T : Further(S) \in T
      BY <2>1
    <2> QED BY <2>2, <2>3
  <1> DEFINE first == {n}
  <1>2. PICK f \in [Nat -> T] : Iterates(f, first, step)
    <2>1. first \in T /\ step \in [Nat -> [T -> T]]
      BY <1>1
    <2> HIDE DEF T, step, first
    <2> QED BY <2>1, Recursion
  <1>3. \A i \in Nat : f[i] \in T /\ f[i + 1] = Further(f[i])
    <2> HIDE DEF Further, T
    <2> QED BY <1>2 DEF Iterates
  <1>4. ASSUME NEW k \in Nat PROVE Walk!Above(n, k) = f[k] \ {None}
    <2> DEFINE Rule(g) == [j \in 0..k |-> IF j = 0 THEN {n}
            ELSE g[j - 1] \cup {table[m].parent : m \in g[j - 1] \cap Walk!Stored}]
               h == [j \in 0..k |-> f[j]]
               g == CHOOSE x : x = Rule(x)
    <2>1. h = Rule(h)
      <3>1. ASSUME NEW j \in 0..k PROVE h[j] = IF j = 0 THEN {n} ELSE Further(h[j - 1])
        <4>1. CASE j = 0
          BY <1>2, <4>1 DEF Iterates
        <4>2. CASE j # 0
          <5>1. j - 1 \in Nat /\ j - 1 \in 0..k /\ (j - 1) + 1 = j
            BY <4>2
          <5>2. h[j] = f[j] /\ h[j - 1] = f[j - 1]
            BY <5>1
          <5> HIDE DEF Further, h
          <5> QED BY <1>3, <4>2, <5>1, <5>2
        <4> QED BY <4>1, <4>2
      <3>2. h = [j \in 0..k |-> h[j]]
        OBVIOUS
      <3>3. Rule(h) = [j \in 0..k |-> IF j = 0 THEN {n} ELSE Further(h[j - 1])]
        OBVIOUS
      <3> HIDE DEF Further, h, Rule
      <3> QED BY <3>1, <3>2, <3>3
    <2>2. Walk!Above(n, k) = g[k] \ {None}
      BY DEF Walk!Above
    <2>3. g = Rule(g)
      <3> HIDE DEF Rule, h
      <3> QED BY <2>1
    <2>4. \A j \in 0..k : g[j] = IF j = 0 THEN {n} ELSE Further(g[j - 1])
      <3> HIDE DEF g
      <3> QED BY <2>3
    <2> DEFINE S == {j \in Nat : j <= k => g[j] = f[j]}
    <2> HIDE DEF g, Further
    <2>5. 0 \in S
      <3>1. 0 \in 0..k /\ g[0] = {n}
        BY <2>4
      <3> QED BY <1>2, <3>1 DEF Iterates
    <2>6. ASSUME NEW j \in Nat, j \in S PROVE j + 1 \in S
      <3> SUFFICES ASSUME j + 1 <= k PROVE g[j + 1] = f[j + 1]
        OBVIOUS
      <3>1. j + 1 \in 0..k /\ j + 1 # 0 /\ (j + 1) - 1 = j /\ j <= k
        OBVIOUS
      <3>2. g[j] = f[j]
        BY <2>6, <3>1
      <3> QED BY <1>3, <2>4, <3>1, <3>2
    <2>7. Nat \subseteq S
      <3> HIDE DEF S
      <3> QED BY <2>5, <2>6, SetInduction
    <2> QED BY <2>2, <2>7
  <1> HIDE DEF T, step
  <1>5. f[0] = {n} /\ \A k \in Nat : f[k + 1] = Further(f[k])
    BY <1>2, <1>3 DEF Iterates
  <1>6. f \in [Nat -> SUBSET Walk!Parents]
    BY <1>2 DEF T
  <1> QED BY <1>4, <1>5, <1>6

-----------------------------------------------------------------------------
(* The walk so far.                                                          *)

Ids(f) == {f[k].id : k \in 1..Len(f)}
Under(r, n) == {m \in Node : r[m] # None /\ r[m].parent = n}

\* Of a row the walk that began at f[1] reads the children.
Reads(c, f, i) == c.limit = Walk!Unlimited \/ i.depth < f[1].depth + c.limit

\* An instance as the table has it.
AsIn(r, i) == r[i.id] # None /\ i.parent = r[i.id].parent /\ i.depth = r[i.id].depth

PathTrail(f, q) ==
  /\ \A k \in 2..Len(f) : f[k].id = f[k - 1].parent
  /\ q = <<f[Len(f)]>>

TreeTrail(c, f, q) ==
  /\ c.at # "GraphError" /\ (c.at = "reading" <=> q # <<>>)
  /\ \A k \in 2..Len(f) : \E j \in 1..(k - 1) :
       f[k].parent = f[j].id /\ (j = 1 \/ Reads(c, f, f[j]))
  /\ \A m \in 1..Len(q) : \E j \in 1..Len(f) : q[m] = f[j] /\ (j = 1 \/ Reads(c, f, f[j]))

\* What a walk has found, whatever the table does meanwhile.
Trail(c, f, q) ==
  /\ Len(f) >= 1
  /\ \A j, k \in 1..Len(f) : f[j].id = f[k].id => j = k
  /\ c.method = "path_to_root" => PathTrail(f, q)
  /\ c.method = "subtree" => TreeTrail(c, f, q)

PathEnds(r, c, f) ==
  LET up == f[Len(f)].parent IN
  /\ c.at = "reading" => up # None
  /\ c.at = "done" => up = None \/ up \in Ids(f)
  /\ c.at = "GraphError" => up \in Node /\ r[up] = None

TreeGrown(r, c, f, q) ==
  \A k \in 1..Len(f) :
    \/ \E m \in 1..Len(q) : q[m] = f[k]
    \/ Under(r, f[k].id) \subseteq Ids(f)
    \/ k # 1 /\ ~Reads(c, f, f[k])

\* What it has found while the table kept still: where a row is not read further, there
\* is nothing, or nothing new, or the limit.
Quiet(r, c, f, q) ==
  /\ \A k \in 1..Len(f) : AsIn(r, f[k])
  /\ c.method = "path_to_root" => PathEnds(r, c, f)
  /\ c.method = "subtree" => TreeGrown(r, c, f, q)

WalkInv ==
  /\ Walk!TypeOK
  /\ Trail(call, found, queue)
  /\ changes = 0 => Quiet(table, call, found, queue)

\* Where the elements of two lists are in their concatenation.
LEMMA JoinedAre ==
  ASSUME NEW f \in Seq(Walk!Instance), NEW new \in Seq(Walk!Instance)
  PROVE  /\ f \o new \in Seq(Walk!Instance)
         /\ Len(f \o new) = Len(f) + Len(new) /\ Len(f) \in Nat /\ Len(new) \in Nat
         /\ \A k \in 1..Len(f) : (f \o new)[k] = f[k]
         /\ \A k \in 1..Len(new) : (f \o new)[Len(f) + k] = new[k]
         /\ \A k \in 1..Len(f \o new) : k \in 1..Len(f) \/ \E j \in 1..Len(new) : k = Len(f) + j
  <1>1. /\ f \o new \in Seq(Walk!Instance)
        /\ Len(f \o new) = Len(f) + Len(new) /\ Len(f) \in Nat /\ Len(new) \in Nat
    OBVIOUS
  <1>2. \A k \in 1..Len(f) : (f \o new)[k] = f[k]
    OBVIOUS
  <1>3. ASSUME NEW k \in 1..Len(new) PROVE (f \o new)[Len(f) + k] = new[k]
    OBVIOUS
  <1>4. ASSUME NEW k \in 1..Len(f \o new), k \notin 1..Len(f)
        PROVE  \E j \in 1..Len(new) : k = Len(f) + j
    <2>1. k - Len(f) \in 1..Len(new) /\ k = Len(f) + (k - Len(f))
      BY <1>1, <1>4
    <2> QED BY <2>1
  <1> QED BY <1>1, <1>2, <1>3, <1>4

\* The rows a step adds are children of the row it reads, none of them found before.
Brood(f, i, new) ==
  /\ \A k \in 1..Len(new) : new[k].parent = i.id /\ new[k].id \notin Ids(f)
  /\ \A j, k \in 1..Len(new) : new[j].id = new[k].id => j = k

Requeued(c, f, q, new, q2) ==
  \A i : (\E m \in 1..Len(q2) : q2[m] = i)
            <=> (\E m \in 2..Len(q) : q[m] = i)
                  \/ (\E j \in 1..Len(new) : new[j] = i /\ Reads(c, f, i))

\* New rows below one that was read leave the walk without a row found twice.
LEMMA DistinctJoined ==
  ASSUME NEW f \in Seq(Walk!Instance), NEW new \in Seq(Walk!Instance), NEW i,
         \A j, k \in 1..Len(f) : f[j].id = f[k].id => j = k,
         Brood(f, i, new)
  PROVE  \A j, k \in 1..Len(f \o new) : (f \o new)[j].id = (f \o new)[k].id => j = k
  <1> DEFINE F == f \o new
  <1> SUFFICES ASSUME NEW j \in 1..Len(F), NEW k \in 1..Len(F), F[j].id = F[k].id PROVE j = k
    OBVIOUS
  <1>1. \A m \in 1..Len(f) : F[m] = f[m] /\ f[m].id \in Ids(f)
    BY JoinedAre DEF Ids
  <1>2. \A m \in 1..Len(new) : F[Len(f) + m] = new[m] /\ new[m].id \notin Ids(f)
    BY JoinedAre DEF Brood
  <1>3. \A m \in 1..Len(F) : m \in 1..Len(f) \/ \E n \in 1..Len(new) : m = Len(f) + n
    BY JoinedAre
  <1> HIDE DEF F
  <1>4. CASE j \in 1..Len(f) /\ k \in 1..Len(f)
    BY <1>1, <1>4
  <1>5. CASE j \in 1..Len(f) /\ k \notin 1..Len(f)
    <2>1. F[j].id \in Ids(f)
      BY <1>1, <1>5
    <2>2. F[k].id \notin Ids(f)
      BY <1>2, <1>3, <1>5
    <2> QED BY <2>1, <2>2
  <1>6. CASE j \notin 1..Len(f) /\ k \in 1..Len(f)
    <2>1. F[k].id \in Ids(f)
      BY <1>1, <1>6
    <2>2. F[j].id \notin Ids(f)
      BY <1>2, <1>3, <1>6
    <2> QED BY <2>1, <2>2
  <1>7. CASE j \notin 1..Len(f) /\ k \notin 1..Len(f)
    <2>1. PICK a \in 1..Len(new) : j = Len(f) + a
      BY <1>3, <1>7
    <2>2. PICK b \in 1..Len(new) : k = Len(f) + b
      BY <1>3, <1>7
    <2>3. new[a].id = new[b].id
      BY <1>2, <2>1, <2>2
    <2>4. a = b
      BY <2>3 DEF Brood
    <2> QED BY <2>1, <2>2, <2>4
  <1> QED BY <1>4, <1>5, <1>6, <1>7


Methods == {"path_to_root", "subtree"}
Call == [method : Methods, limit : Limits \cup {Walk!Unlimited},
         at : {"reading", "done", "GraphError"}]

\* The conditions of a call as its queue is left by a step of subtree.
Onward(c, q2) == IF q2 = <<>> THEN [c EXCEPT !.at = "done"] ELSE c

LEMMA SameCall ==
  ASSUME NEW c \in Call, NEW q2, c.at = "reading"
  PROVE  LET c2 == Onward(c, q2) IN
         /\ c2 \in Call /\ c2.method = c.method /\ c2.limit = c.limit
         /\ c2.at # "GraphError" /\ (c2.at = "reading" <=> q2 # <<>>)
  BY DEF Call, Onward

\* A step of subtree keeps the trail: each row found has its parent before it.
LEMMA TreeStep ==
  ASSUME NEW c \in Call, NEW f \in Seq(Walk!Instance), NEW q \in Seq(Walk!Instance),
         NEW new \in Seq(Walk!Instance), NEW q2 \in Seq(Walk!Instance),
         c.method = "subtree", c.at = "reading", Trail(c, f, q),
         Brood(f, Head(q), new), Requeued(c, f, q, new, q2)
  PROVE  Trail(Onward(c, q2), f \o new, q2)
  <1> DEFINE c2 == Onward(c, q2)
             F == f \o new
             L == Len(f)
             M == Len(new)
  <1>1. /\ c2.method = "subtree" /\ c2.limit = c.limit
        /\ c2.at # "GraphError" /\ (c2.at = "reading" <=> q2 # <<>>)
    BY SameCall
  <1>2. /\ F \in Seq(Walk!Instance) /\ Len(F) = L + M /\ L \in Nat /\ M \in Nat
        /\ \A k \in 1..L : F[k] = f[k]
        /\ \A k \in 1..M : F[L + k] = new[k]
        /\ \A k \in 1..Len(F) : k \in 1..L \/ \E j \in 1..M : k = L + j
    BY JoinedAre
  <1>3. L >= 1 /\ F[1] = f[1]
    BY <1>2 DEF Trail
  <1> HIDE DEF c2, F
  <1>4. \A i : Reads(c2, F, i) <=> Reads(c, f, i)
    BY <1>1, <1>3 DEF Reads
  <1>5. \A j, k \in 1..Len(F) : F[j].id = F[k].id => j = k
    <2>1. \A j, k \in 1..L : f[j].id = f[k].id => j = k
      BY DEF Trail
    <2> QED BY <2>1, DistinctJoined DEF F
  <1> HIDE DEF L, M
  <1>6. TreeTrail(c, f, q)
    BY DEF Trail
  <1>7. PICK p \in 1..L : Head(q) = f[p] /\ (p = 1 \/ Reads(c, f, f[p]))
    <2>1. 1 \in 1..Len(q) /\ Head(q) = q[1]
      BY <1>6 DEF TreeTrail
    <2> QED BY <1>6, <2>1 DEF TreeTrail, L
  <1>8. ASSUME NEW k \in 2..Len(F)
        PROVE  \E j \in 1..(k - 1) : F[k].parent = F[j].id /\ (j = 1 \/ Reads(c2, F, F[j]))
    <2>1. CASE k \in 1..L
      <3>1. k \in 2..L
        BY <1>2, <2>1
      <3>2. PICK j \in 1..(k - 1) : f[k].parent = f[j].id /\ (j = 1 \/ Reads(c, f, f[j]))
        BY <1>6, <3>1 DEF TreeTrail, L
      <3>3. j \in 1..L /\ F[j] = f[j] /\ F[k] = f[k]
        BY <1>2, <2>1
      <3> QED BY <1>4, <3>2, <3>3
    <2>2. CASE k \notin 1..L
      <3> k \in 1..Len(F)
        BY <1>2
      <3>1. PICK j \in 1..M : k = L + j
        BY <1>2, <2>2
      <3>2. F[k] = new[j] /\ new[j].parent = Head(q).id
        BY <1>2, <3>1 DEF Brood, M
      <3>3. p \in 1..(k - 1) /\ F[p] = f[p]
        BY <1>2, <3>1
      <3> QED BY <1>4, <1>7, <3>2, <3>3
    <2> QED BY <2>1, <2>2
  <1>9. ASSUME NEW m \in 1..Len(q2)
        PROVE  \E j \in 1..Len(F) : q2[m] = F[j] /\ (j = 1 \/ Reads(c2, F, F[j]))
    <2>1. (\E n \in 2..Len(q) : q[n] = q2[m])
          \/ (\E j \in 1..M : new[j] = q2[m] /\ Reads(c, f, q2[m]))
      BY DEF Requeued, M
    <2>2. CASE \E n \in 2..Len(q) : q[n] = q2[m]
      <3>1. PICK n \in 1..Len(q) : q[n] = q2[m]
        BY <2>2
      <3>2. PICK j \in 1..L : q[n] = f[j] /\ (j = 1 \/ Reads(c, f, f[j]))
        BY <1>6 DEF TreeTrail, L
      <3>3. j \in 1..Len(F) /\ F[j] = f[j]
        BY <1>2
      <3> QED BY <1>4, <3>1, <3>2, <3>3
    <2>3. CASE \E j \in 1..M : new[j] = q2[m] /\ Reads(c, f, q2[m])
      <3>1. PICK j \in 1..M : new[j] = q2[m] /\ Reads(c, f, q2[m])
        BY <2>3
      <3>2. L + j \in 1..Len(F) /\ F[L + j] = new[j]
        BY <1>2
      <3> QED BY <1>4, <3>1, <3>2
    <2> QED BY <2>1, <2>2, <2>3
  <1>10. TreeTrail(c2, F, q2)
    BY <1>1, <1>8, <1>9 DEF TreeTrail
  <1>11. Len(F) >= 1 /\ c2.method # "path_to_root"
    BY <1>1, <1>2, <1>3
  <1>12. Trail(c2, F, q2)
    BY <1>5, <1>10, <1>11 DEF Trail
  <1> QED BY <1>12 DEF c2, F

\* Over a table that kept still it leaves no row half read.
LEMMA TreeQuiet ==
  ASSUME NEW r, NEW c \in Call, NEW f \in Seq(Walk!Instance), NEW q \in Seq(Walk!Instance),
         NEW new \in Seq(Walk!Instance), NEW q2 \in Seq(Walk!Instance),
         c.method = "subtree", c.at = "reading", Trail(c, f, q), Quiet(r, c, f, q),
         Requeued(c, f, q, new, q2),
         \A k \in 1..Len(new) : AsIn(r, new[k]),
         Under(r, Head(q).id) \subseteq Ids(f) \cup Ids(new)
  PROVE  Quiet(r, Onward(c, q2), f \o new, q2)
  <1> DEFINE c2 == Onward(c, q2)
             F == f \o new
             L == Len(f)
             M == Len(new)
             Waits(i) == \E m \in 1..Len(q2) : q2[m] = i
  <1>1. c2.method = "subtree" /\ c2.limit = c.limit
    BY SameCall
  <1>2. /\ F \in Seq(Walk!Instance) /\ Len(F) = L + M /\ L \in Nat /\ M \in Nat
        /\ \A k \in 1..L : F[k] = f[k]
        /\ \A k \in 1..M : F[L + k] = new[k]
        /\ \A k \in 1..Len(F) : k \in 1..L \/ \E j \in 1..M : k = L + j
    BY JoinedAre
  <1>3. L >= 1 /\ F[1] = f[1]
    BY <1>2 DEF Trail
  <1>4. Len(q) >= 1 /\ Head(q) = q[1]
    BY DEF Trail, TreeTrail
  <1> HIDE DEF c2, F
  <1>5. \A i : Reads(c2, F, i) <=> Reads(c, f, i)
    BY <1>1, <1>3 DEF Reads
  <1>6. Ids(f) \cup Ids(new) \subseteq Ids(F)
    <2>1. ASSUME NEW k \in 1..L PROVE f[k].id \in Ids(F)
      BY <1>2 DEF Ids
    <2>2. ASSUME NEW k \in 1..M PROVE new[k].id \in Ids(F)
      <3>1. L + k \in 1..Len(F) /\ F[L + k] = new[k]
        <4> HIDE DEF L, M
        <4> QED BY <1>2
      <3> QED BY <3>1 DEF Ids
    <2> QED BY <2>1, <2>2 DEF Ids
  <1>7. TreeGrown(r, c, f, q) /\ \A k \in 1..L : AsIn(r, f[k])
    BY DEF Quiet
  <1>8. \A i : Waits(i) <=> (\E m \in 2..Len(q) : q[m] = i)
        \/ (\E j \in 1..M : new[j] = i /\ Reads(c, f, i))
    BY DEF Requeued
  <1> HIDE DEF L, M, Waits
  <1>9. ASSUME NEW k \in 1..Len(F)
        PROVE  /\ AsIn(r, F[k])
               /\ Waits(F[k]) \/ Under(r, F[k].id) \subseteq Ids(F)
                  \/ (k # 1 /\ ~Reads(c2, F, F[k]))
    <2>1. CASE k \in 1..L
      <3>1. F[k] = f[k] /\ AsIn(r, f[k])
        BY <1>2, <1>7, <2>1
      <3>2. CASE \E m \in 1..Len(q) : q[m] = f[k]
        <4>1. PICK m \in 1..Len(q) : q[m] = f[k]
          BY <3>2
        <4>2. CASE m = 1
          BY <1>4, <1>6, <3>1, <4>1, <4>2
        <4>3. CASE m # 1
          <5>1. m \in 2..Len(q)
            BY <4>3
          <5> QED BY <1>8, <3>1, <4>1, <5>1
        <4> QED BY <4>2, <4>3
      <3>3. CASE Under(r, f[k].id) \subseteq Ids(f)
        BY <1>6, <3>1, <3>3
      <3>4. CASE k # 1 /\ ~Reads(c, f, f[k])
        BY <1>5, <3>1, <3>4
      <3> QED BY <1>7, <2>1, <3>1, <3>2, <3>3, <3>4 DEF TreeGrown, L
    <2>2. CASE k \notin 1..L
      <3>1. PICK j \in 1..M : k = L + j
        BY <1>2, <2>2
      <3>2. F[k] = new[j] /\ k # 1 /\ AsIn(r, new[j])
        BY <1>2, <1>3, <3>1 DEF M
      <3> QED BY <1>5, <1>8, <3>2
    <2> QED BY <2>1, <2>2
  <1>10. TreeGrown(r, c2, F, q2)
    BY <1>9 DEF TreeGrown, Waits
  <1>11. Quiet(r, c2, F, q2)
    BY <1>1, <1>9, <1>10 DEF Quiet
  <1> QED BY <1>11 DEF c2, F


\* A step of path_to_root keeps the trail: each row is the parent of the one before.
LEMMA PathStep ==
  ASSUME NEW c \in Call, NEW c2 \in Call, NEW f \in Seq(Walk!Instance), NEW q,
      NEW i \in Walk!Instance,
         c.method = "path_to_root", c2.method = "path_to_root", Trail(c, f, q),
         i.id = Head(q).parent, i.id \notin Ids(f)
  PROVE  Trail(c2, f \o <<i>>, <<i>>)
  <1> DEFINE F == f \o <<i>>
             L == Len(f)
  <1>1. PathTrail(f, q) /\ L >= 1
    BY DEF Trail
  <1>2. /\ Len(F) = L + 1 /\ L \in Nat
        /\ \A k \in 1..L : F[k] = f[k]
        /\ F[L + 1] = i
    OBVIOUS
  <1>3. Head(q) = f[L]
    BY <1>1 DEF PathTrail
  <1>4. \A j, k \in 1..Len(F) : F[j].id = F[k].id => j = k
    <2>1. \A j, k \in 1..L : f[j].id = f[k].id => j = k
      BY DEF Trail
    <2>2. \A k \in 1..L : f[k].id \in Ids(f)
      BY DEF Ids
    <2>3. \A k \in 1..Len(F) : k \in 1..L \/ k = L + 1
      BY <1>2
    <2> HIDE DEF F, L
    <2> QED BY <1>2, <2>1, <2>2, <2>3
  <1>5. PathTrail(F, <<i>>)
    <2>1. ASSUME NEW k \in 2..Len(F) PROVE F[k].id = F[k - 1].parent
      <3>1. CASE k \in 2..L
        <4>1. k \in 1..L /\ k - 1 \in 1..L /\ f[k].id = f[k - 1].parent
          BY <1>1, <1>2, <3>1 DEF PathTrail
        <4> HIDE DEF F, L
        <4> QED BY <1>2, <4>1
      <3>2. CASE k = L + 1
        <4>1. k - 1 = L /\ L \in 1..L
          BY <1>1, <1>2, <3>2
        <4> HIDE DEF F, L
        <4> QED BY <1>2, <1>3, <3>2, <4>1
      <3> HIDE DEF F, L
      <3> QED BY <1>2, <3>1, <3>2
    <2> HIDE DEF F
    <2>2. <<i>> = <<F[Len(F)]>>
      BY <1>2
    <2> QED BY <2>1, <2>2 DEF PathTrail
  <1>6. Len(F) >= 1 /\ c2.method # "subtree"
    BY <1>1, <1>2
  <1> HIDE DEF F
  <1>7. Trail(c2, F, <<i>>)
    BY <1>4, <1>5, <1>6 DEF Trail
  <1> QED BY <1>7 DEF F

\* Over a table that kept still the walk goes on as long as there is a parent.
LEMMA PathQuiet ==
  ASSUME NEW r, NEW c \in Call, NEW f \in Seq(Walk!Instance), NEW q, NEW i \in Walk!Instance,
         c.method = "path_to_root", Len(f) >= 1, \A k \in 1..Len(f) : AsIn(r, f[k]), AsIn(r, i),
         c.at \in {"reading", "done"}, c.at = "done" <=> i.parent = None
  PROVE  Quiet(r, c, f \o <<i>>, <<i>>)
  <1> DEFINE F == f \o <<i>>
             L == Len(f)
  <1>1. /\ Len(F) = L + 1 /\ L \in Nat
        /\ \A k \in 1..L : F[k] = f[k]
        /\ F[L + 1] = i
    OBVIOUS
  <1>2. \A k \in 1..Len(F) : k \in 1..L \/ k = L + 1
    BY <1>1
  <1> HIDE DEF F
  <1>3. \A k \in 1..Len(F) : AsIn(r, F[k])
    <2> HIDE DEF AsIn
    <2> QED BY <1>1, <1>2
  <1>4. PathEnds(r, c, F)
    BY <1>1 DEF PathEnds
  <1>5. Quiet(r, c, F, <<i>>)
    BY <1>3, <1>4 DEF Quiet
  <1> QED BY <1>5 DEF F

-----------------------------------------------------------------------------
(* Every step keeps the invariant.                                           *)

LEMMA LoadedIs ==
  ASSUME Walk!TypeOK, NEW n \in Walk!Stored
  PROVE  /\ n \in Node /\ Walk!Loaded(n) \in Walk!Instance
         /\ Walk!Loaded(n).id = n /\ Walk!Loaded(n).parent = table[n].parent
             /\ AsIn(table, Walk!Loaded(n))
  <1>1. n \in Node /\ table[n] \in Walk!Row
    BY DEF Walk!TypeOK, Walk!Stored
  <1>2. table[n] # None
    BY DEF Walk!Stored
  <1> QED BY <1>1, <1>2 DEF Walk!Loaded, Walk!Instance, Walk!Row, AsIn

LEMMA VisitedIs == Walk!TypeOK => Walk!Visited = Ids(found)
  BY DEF Walk!TypeOK, Walk!Visited, Ids

LEMMA SingleWalk ==
  ASSUME NEW i \in Walk!Instance
  PROVE  /\ <<i>> \in Seq(Walk!Instance) /\ Len(<<i>>) = 1 /\ <<i>>[1] = i /\ Ids(<<i>>) = {i.id}
  <1>1. Len(<<i>>) = 1 /\ <<i>>[1] = i /\ <<i>> \in Seq(Walk!Instance)
    OBVIOUS
  <1>2. 1..Len(<<i>>) = {1}
    BY <1>1
  <1> HIDE DEF Ids
  <1>3. Ids(<<i>>) = {i.id}
    BY <1>1, <1>2 DEF Ids
  <1> QED BY <1>1, <1>3

LEMMA WalkStarts == Walk!Init => WalkInv
  <1> SUFFICES ASSUME Walk!Init PROVE WalkInv
    OBVIOUS
  <1>1. PICK n \in Walk!Stored :
          /\ found = <<Walk!Loaded(n)>> /\ queue = found
          /\ \/ \E k \in Limits : call = [method |-> "subtree", limit |-> k, at |-> "reading"]
             \/ call = [method |-> "path_to_root", limit |-> Walk!Unlimited,
                        at |-> IF table[n].parent = None THEN "done" ELSE "reading"]
    BY DEF Walk!Init
  <1>2. table \in [Node -> Walk!Row \cup {None}] /\ changes = 0 /\ MaxChanges \in Nat
    BY WalkAssumption DEF Walk!Init, Walk!GraphWalkAssumption
  <1>3. n \in Node /\ table[n] # None /\ table[n] \in Walk!Row
    BY <1>2 DEF Walk!Stored
  <1> DEFINE i == Walk!Loaded(n)
  <1>4. i \in Walk!Instance /\ i.id = n /\ i.parent = table[n].parent /\ AsIn(table, i)
    BY <1>3 DEF Walk!Loaded, Walk!Instance, Walk!Row, AsIn
  <1>5. call \in Call
    BY <1>1 DEF Call, Methods
  <1> HIDE DEF i
  <1>6. found = <<i>> /\ queue = <<i>> /\ <<i>> \in Seq(Walk!Instance) /\ Len(found) = 1
            /\ found[1] = i
    BY <1>1, <1>4, SingleWalk DEF i
  <1>7. Walk!TypeOK
    BY <1>2, <1>5, <1>6 DEF Walk!TypeOK, Call, Methods
  <1>8. Trail(call, found, queue)
    <2>1. call.method = "path_to_root" => PathTrail(found, queue)
      BY <1>6 DEF PathTrail
    <2>2. call.method = "subtree" => TreeTrail(call, found, queue)
      <3>1. call.method = "subtree" => call.at = "reading"
        BY <1>1
      <3> QED BY <1>6, <3>1 DEF TreeTrail
    <2> QED BY <1>6, <2>1, <2>2 DEF Trail
  <1>9. Quiet(table, call, found, queue)
    <2>1. call.method = "path_to_root" => PathEnds(table, call, found)
      <3>1. call.method = "path_to_root" =>
                call.at = IF table[n].parent = None THEN "done" ELSE "reading"
        BY <1>1
      <3> QED BY <1>4, <1>6, <3>1 DEF PathEnds
    <2>2. TreeGrown(table, call, found, queue)
      BY <1>6 DEF TreeGrown
    <2>3. \A k \in 1..Len(found) : AsIn(table, found[k])
      BY <1>4, <1>6
    <2> QED BY <2>1, <2>2, <2>3 DEF Quiet
  <1> QED BY <1>7, <1>8, <1>9 DEF WalkInv

LEMMA ChangeKeepsWalk == ASSUME WalkInv, Walk!Change PROVE WalkInv'
  <1>1. Walk!TypeOK'
    <2>1. changes' \in 0..MaxChanges /\ changes' # 0
      BY WalkAssumption DEF WalkInv, Walk!TypeOK, Walk!Change, Walk!GraphWalkAssumption
    <2>2. UNCHANGED <<call, found, queue>>
      BY DEF Walk!Change
    <2>3. table' \in [Node -> Walk!Row \cup {None}]
      <3>0. table \in [Node -> Walk!Row \cup {None}]
        BY DEF WalkInv, Walk!TypeOK
      <3>1. CASE \E n \in Node, r \in Walk!Row : table' = [table EXCEPT ![n] = r]
        BY <3>0, <3>1
      <3>2. CASE \E n \in Walk!Stored, p \in Walk!Parents :
                table' = [table EXCEPT ![n].parent = p]
        <4>1. PICK n \in Walk!Stored, p \in Walk!Parents : table' = [table EXCEPT ![n].parent = p]
          BY <3>2
        <4>2. n \in Node /\ table[n] \in Walk!Row
          BY <3>0 DEF Walk!Stored
        <4>3. [table[n] EXCEPT !.parent = p] \in Walk!Row
          BY <4>2 DEF Walk!Row
        <4>4. table' = [table EXCEPT ![n] = [table[n] EXCEPT !.parent = p]]
          BY <4>1
        <4> QED BY <3>0, <4>2, <4>3, <4>4
      <3>3. CASE \E n \in Walk!Stored : table' = [table EXCEPT ![n] = None]
        BY <3>0, <3>3 DEF Walk!Stored
      <3> QED BY <3>1, <3>2, <3>3 DEF Walk!Change
    <2> QED BY <2>1, <2>2, <2>3 DEF WalkInv, Walk!TypeOK
  <1>2. changes' # 0
    BY DEF WalkInv, Walk!TypeOK, Walk!Change
  <1>3. Trail(call, found, queue)'
    <2>1. UNCHANGED <<call, found, queue>>
      BY DEF Walk!Change
    <2> QED BY <2>1 DEF WalkInv
  <1> QED BY <1>1, <1>2, <1>3 DEF WalkInv

LEMMA AscendKeepsWalk == ASSUME WalkInv, Walk!Ascend PROVE WalkInv'
  <1> DEFINE p == Head(queue).parent
             i == Walk!Loaded(p)
  <1>1. /\ Walk!TypeOK /\ call \in Call /\ found \in Seq(Walk!Instance)
            /\ queue \in Seq(Walk!Instance)
        /\ Trail(call, found, queue) /\ Ids(found) = Walk!Visited
        /\ changes = 0 => Quiet(table, call, found, queue)
    BY VisitedIs DEF WalkInv, Walk!TypeOK, Call, Methods
  <1>2. call.method = "path_to_root" /\ call.at = "reading" /\ UNCHANGED <<table, changes>>
    BY DEF Walk!Ascend
  <1>3. PathTrail(found, queue) /\ Len(found) \in Nat /\ Len(found) >= 1
    BY <1>1, <1>2 DEF Trail
  <1>4. Head(queue) = found[Len(found)] /\ found[Len(found)] \in Walk!Instance
    BY <1>1, <1>3 DEF PathTrail
  <1>5. p \in Walk!Parents /\ p = found[Len(found)].parent
    BY <1>4 DEF Walk!Instance
  <1>6. changes = 0 => p # None /\ \A k \in 1..Len(found) : AsIn(table, found[k])
    BY <1>1, <1>2, <1>5 DEF Quiet, PathEnds
  <1> HIDE DEF p, i
  <1>7. ASSUME NEW end \in {"GraphError", "done"}, Walk!End(end), UNCHANGED <<found, queue>>,
               end = "GraphError" => p \notin Walk!Stored, end = "done" => p \in Walk!Visited
        PROVE  WalkInv'
    <2>1. call' \in Call /\ call'.method = "path_to_root" /\ call'.at = end
      BY <1>1, <1>2, <1>7 DEF Call, Methods, Walk!End
    <2>2. Walk!TypeOK'
      BY <1>1, <1>2, <1>7, <2>1 DEF Walk!TypeOK, Call, Methods
    <2>3. Trail(call', found', queue')
      BY <1>1, <1>2, <1>3, <1>7, <2>1 DEF Trail
    <2>4. ASSUME changes' = 0 PROVE Quiet(table', call', found', queue')
      <3>1. changes = 0 /\ table' = table /\ found' = found
        BY <1>2, <1>7, <2>4
      <3>2. end = "GraphError" => p \in Node /\ table[p] = None
        BY <1>5, <1>6, <1>7, <3>1 DEF Walk!Parents, Walk!Stored
      <3>3. PathEnds(table, call', found)
        BY <1>1, <1>5, <1>7, <2>1, <3>2 DEF PathEnds
      <3> QED BY <1>6, <2>1, <3>1, <3>3 DEF Quiet
    <2> QED BY <2>2, <2>3, <2>4 DEF WalkInv
  <1>8. ASSUME p \in Walk!Stored \ Walk!Visited, queue' = <<i>>, found' = found \o <<i>>,
               IF table[p].parent = None THEN Walk!End("done") ELSE UNCHANGED call
        PROVE  WalkInv'
    <2>1. i \in Walk!Instance /\ i.id = p /\ i.parent = table[p].parent /\ AsIn(table, i)
      BY <1>1, <1>8, LoadedIs DEF i
    <2>2. /\ call' \in Call /\ call'.method = "path_to_root" /\ call'.at \in {"reading", "done"}
          /\ (call'.at = "done" <=> i.parent = None)
      BY <1>1, <1>2, <1>8, <2>1 DEF Call, Methods, Walk!End
    <2>3. Walk!TypeOK'
      <3>1. <<i>> \in Seq(Walk!Instance) /\ found \o <<i>> \in Seq(Walk!Instance)
        BY <1>1, <2>1
      <3> QED BY <1>1, <1>2, <1>8, <2>2, <3>1 DEF Walk!TypeOK, Call, Methods
    <2>4. Trail(call', found', queue')
      <3>1. i.id = Head(queue).parent /\ i.id \notin Ids(found)
        BY <1>1, <1>8, <2>1 DEF p
      <3>2. Trail(call', found \o <<i>>, <<i>>)
        BY <1>1, <1>2, <2>1, <2>2, <3>1, PathStep
      <3> QED BY <1>8, <3>2
    <2>5. ASSUME changes' = 0 PROVE Quiet(table', call', found', queue')
      <3>1. changes = 0 /\ table' = table
        BY <1>2, <2>5
      <3>2. Quiet(table, call', found \o <<i>>, <<i>>)
        BY <1>1, <1>3, <1>6, <2>1, <2>2, <3>1, PathQuiet
      <3> QED BY <1>8, <3>1, <3>2
    <2> QED BY <2>3, <2>4, <2>5 DEF WalkInv
  <1>9. CASE p \notin Walk!Stored
    <2>1. Walk!End("GraphError") /\ UNCHANGED <<found, queue>>
      BY <1>9 DEF Walk!Ascend, p
    <2> QED BY <1>7, <1>9, <2>1
  <1>10. CASE p \in Walk!Visited \cap Walk!Stored
    <2>1. Walk!End("done") /\ UNCHANGED <<found, queue>>
      BY <1>10 DEF Walk!Ascend, p
    <2> QED BY <1>7, <1>10, <2>1
  <1>11. CASE p \in Walk!Stored \ Walk!Visited
    <2>1. /\ queue' = <<i>> /\ found' = found \o queue'
          /\ IF table[p].parent = None THEN Walk!End("done") ELSE UNCHANGED call
      BY <1>11 DEF Walk!Ascend, p, i
    <2> QED BY <1>8, <1>11, <2>1
  <1> QED BY <1>9, <1>10, <1>11

\* A listing of a finite set has each of its elements once.
LEMMA ListingIs ==
  ASSUME NEW S, IsFiniteSet(S), NEW s \in Walk!Listings(S)
  PROVE  /\ Cardinality(S) \in Nat /\ s \in [1..Cardinality(S) -> S]
         /\ \A n \in S : \E k \in 1..Cardinality(S) : s[k] = n
         /\ \A j, k \in 1..Cardinality(S) : s[j] = s[k] => j = k
  <1> DEFINE N == Cardinality(S)
  <1>1. N \in Nat
    BY FS_CardinalityType
  <1>2. s \in [1..N -> S] /\ \A n \in S : \E k \in 1..N : s[k] = n
    BY SameSizes DEF Walk!Listings
  <1>3. IsFiniteSet(1..N) /\ Cardinality(1..N) = N
    <2> HIDE DEF N
    <2>1. Cardinality(1..N) = IF 1 > N THEN 0 ELSE N - 1 + 1
      BY <1>1, FS_Interval
    <2> QED BY <1>1, <2>1, FS_Interval
  <1>4. s \in Surjection(1..N, S)
    BY <1>2 DEF Surjection
  <1>5. s \in Injection(1..N, S)
    BY <1>3, <1>4, FS_Surjection
  <1>6. \A j, k \in 1..N : s[j] = s[k] => j = k
    BY <1>5 DEF Injection, IsInjective
  <1> QED BY <1>1, <1>2, <1>6


LEMMA DescendKeepsWalk == ASSUME WalkInv, Walk!Descend PROVE WalkInv'
  <1> DEFINE i == Head(queue)
             S == Walk!Children(i.id) \ Walk!Visited
             N == Cardinality(S)
  <1>1. /\ Walk!TypeOK /\ call \in Call /\ found \in Seq(Walk!Instance)
            /\ queue \in Seq(Walk!Instance)
        /\ Trail(call, found, queue) /\ Ids(found) = Walk!Visited
        /\ changes = 0 => Quiet(table, call, found, queue)
    BY VisitedIs DEF WalkInv, Walk!TypeOK, Call, Methods
  <1>2. call.method = "subtree" /\ call.at = "reading" /\ UNCHANGED <<table, changes>>
    BY DEF Walk!Descend
  <1>3. Walk!Children(i.id) = Under(table, i.id)
    BY DEF Walk!Children, Walk!Stored, Under
  <1>4. S \subseteq Walk!Stored /\ IsFiniteSet(S) /\ \A n \in S : table[n].parent = i.id
    <2>1. S \subseteq Node
      BY DEF Walk!Children, Walk!Stored
    <2>2. IsFiniteSet(S)
      <3> HIDE DEF S
      <3> QED BY <2>1, FS_Subset, NodesAreFinite
    <2> QED BY <2>2 DEF Walk!Children
  <1> HIDE DEF i, S
  <1>5. PICK s \in Walk!Listings(S) :
          /\ found' = found \o [k \in DOMAIN s |-> Walk!Loaded(s[k])]
          /\ queue' = Tail(queue) \o Walk!Enqueued([k \in DOMAIN s |-> Walk!Loaded(s[k])])
    BY DEF Walk!Descend, S, i
  <1>6. call' = Onward(call, queue')
    BY DEF Walk!Descend, Walk!End, Onward
  <1>7. /\ N \in Nat /\ s \in [1..N -> S]
        /\ \A n \in S : \E k \in 1..N : s[k] = n
        /\ \A j, k \in 1..N : s[j] = s[k] => j = k
    BY <1>4, ListingIs
  <1> HIDE DEF N
  <1> DEFINE new == [k \in 1..N |-> Walk!Loaded(s[k])]
  <1>8. found' = found \o new /\ queue' = Tail(queue) \o Walk!Enqueued(new)
    BY <1>5, <1>7
  <1>9. \A k \in 1..N : s[k] \in S /\ new[k] = Walk!Loaded(s[k])
    BY <1>7
  <1>10. /\ new \in Seq(Walk!Instance) /\ Len(new) = N
         /\ \A k \in 1..N : /\ new[k].id = s[k] /\ new[k].parent = i.id
                            /\ AsIn(table, new[k])
    <2>1. \A k \in 1..N : /\ Walk!Loaded(s[k]) \in Walk!Instance
                          /\ Walk!Loaded(s[k]).id = s[k] /\ Walk!Loaded(s[k]).parent = i.id
                          /\ AsIn(table, Walk!Loaded(s[k]))
      BY <1>1, <1>4, <1>7, LoadedIs
    <2>2. new \in Seq(Walk!Instance) /\ Len(new) = N
      BY <1>7, <2>1
    <2> HIDE DEF new
    <2> QED BY <1>9, <2>1, <2>2
  <1> HIDE DEF new
  <1>11. Brood(found, i, new)
    <2>1. \A k \in 1..N : s[k] \notin Ids(found)
      BY <1>1, <1>9 DEF S
    <2> QED BY <1>7, <1>10, <2>1 DEF Brood
  <1> DEFINE t == Walk!Enqueued(new)
  <1>12. /\ t \in Seq(Walk!Instance)
         /\ \A x : (\E m \in 1..Len(t) : t[m] = x)
                     <=> (\E j \in 1..Len(new) : new[j] = x /\ Reads(call, found, x))
    <2>1. \A x : Walk!Enqueues(x) <=> Reads(call, found, x)
      BY DEF Walk!Enqueues, Reads
    <2>2. /\ t \in Seq(Walk!Instance)
          /\ \A x : (\E m \in 1..Len(t) : t[m] = x)
                     <=> (\E j \in 1..Len(new) : new[j] = x /\ Walk!Enqueues(x))
      BY <1>10, EnqueuedAre
    <2> HIDE DEF t
    <2> QED BY <2>1, <2>2
  <1> HIDE DEF t
  <1>13. queue # <<>>
    BY <1>1, <1>2 DEF Trail, TreeTrail
  <1>14. /\ Tail(queue) \in Seq(Walk!Instance) /\ Len(Tail(queue)) = Len(queue) - 1
             /\ Len(queue) \in Nat
         /\ \A m \in 1..(Len(queue) - 1) : Tail(queue)[m] = queue[m + 1]
    BY <1>1, <1>13
  <1>15. queue' \in Seq(Walk!Instance) /\ Requeued(call, found, queue, new, queue')
    <2> DEFINE u == Tail(queue)
               q2 == u \o t
    <2>1. /\ q2 \in Seq(Walk!Instance)
          /\ Len(q2) = Len(u) + Len(t) /\ Len(u) \in Nat /\ Len(t) \in Nat
          /\ \A k \in 1..Len(u) : q2[k] = u[k]
          /\ \A k \in 1..Len(t) : q2[Len(u) + k] = t[k]
          /\ \A k \in 1..Len(q2) : k \in 1..Len(u) \/ \E j \in 1..Len(t) : k = Len(u) + j
      BY <1>12, <1>14, JoinedAre
    <2>2. queue' = q2
      BY <1>8 DEF t
    <2>3. Len(u) = Len(queue) - 1 /\ \A m \in 1..Len(u) : u[m] = queue[m + 1]
      BY <1>14
    <2> HIDE DEF u, q2
    <2>4. ASSUME NEW x
          PROVE  (\E m \in 1..Len(q2) : q2[m] = x)
                   <=> (\E m \in 2..Len(queue) : queue[m] = x) \/ (\E m \in 1..Len(t) : t[m] = x)
      <3>1. ASSUME NEW m \in 1..Len(q2), q2[m] = x
            PROVE  (\E k \in 2..Len(queue) : queue[k] = x) \/ (\E k \in 1..Len(t) : t[k] = x)
        <4>1. CASE m \in 1..Len(u)
          <5>1. m + 1 \in 2..Len(queue) /\ queue[m + 1] = x
            BY <1>14, <2>1, <2>3, <3>1, <4>1
          <5> QED BY <5>1
        <4>2. CASE \E k \in 1..Len(t) : m = Len(u) + k
          BY <2>1, <3>1, <4>2
        <4> QED BY <2>1, <4>1, <4>2
      <3>2. ASSUME NEW m \in 2..Len(queue), queue[m] = x PROVE \E k \in 1..Len(q2) : q2[k] = x
        <4>1. m - 1 \in 1..Len(u) /\ (m - 1) + 1 = m
          BY <1>14, <2>3
        <4>2. m - 1 \in 1..Len(q2) /\ q2[m - 1] = x
          BY <2>1, <2>3, <3>2, <4>1
        <4> QED BY <4>2
      <3>3. ASSUME NEW m \in 1..Len(t), t[m] = x PROVE \E k \in 1..Len(q2) : q2[k] = x
        <4>1. Len(u) + m \in 1..Len(q2) /\ q2[Len(u) + m] = x
          BY <2>1, <3>3
        <4> QED BY <4>1
      <3> QED BY <3>1, <3>2, <3>3
    <2>5. Requeued(call, found, queue, new, q2)
      BY <1>12, <2>4 DEF Requeued
    <2> QED BY <2>1, <2>2, <2>5
  <1>16. Walk!TypeOK'
    <2>1. found' \in Seq(Walk!Instance)
      BY <1>1, <1>8, <1>10, JoinedAre
    <2>2. call' \in Call
      BY <1>1, <1>2, <1>6, SameCall
    <2> QED BY <1>1, <1>2, <1>15, <2>1, <2>2 DEF Walk!TypeOK, Call, Methods
  <1>17. Trail(call', found', queue')
    <2>1. Trail(Onward(call, queue'), found \o new, queue')
      BY <1>1, <1>2, <1>10, <1>11, <1>15, TreeStep DEF i
    <2> QED BY <1>6, <1>8, <2>1
  <1>18. ASSUME changes' = 0 PROVE Quiet(table', call', found', queue')
    <2>1. changes = 0 /\ table' = table
      BY <1>2, <1>18
    <2>2. Under(table, Head(queue).id) \subseteq Ids(found) \cup Ids(new)
      <3>1. \A n \in S : n \in Ids(new)
        BY <1>7, <1>10 DEF Ids
      <3> QED BY <1>1, <1>3, <3>1 DEF S, i
    <2>3. \A k \in 1..Len(new) : AsIn(table, new[k])
      BY <1>10
    <2>4. Quiet(table, Onward(call, queue'), found \o new, queue')
      BY <1>1, <1>2, <1>10, <1>15, <2>1, <2>2, <2>3, TreeQuiet
    <2> QED BY <1>6, <1>8, <2>1, <2>4
  <1> QED BY <1>16, <1>17, <1>18 DEF WalkInv

\* What the theorems about the walks follow from.
LEMMA WalkInvariant == Walk!Spec => []WalkInv
  <1>1. WalkInv /\ [Walk!Next]_(Walk!vars) => WalkInv'
    <2> SUFFICES ASSUME WalkInv, [Walk!Next]_(Walk!vars) PROVE WalkInv'
      OBVIOUS
    <2>1. CASE Walk!Change
      BY <2>1, ChangeKeepsWalk
    <2>2. CASE Walk!Ascend
      BY <2>2, AscendKeepsWalk
    <2>3. CASE Walk!Descend
      BY <2>3, DescendKeepsWalk
    <2>4. CASE UNCHANGED Walk!vars
      BY <2>4 DEF Walk!vars, WalkInv, Walk!TypeOK
    <2> QED BY <2>1, <2>2, <2>3, <2>4 DEF Walk!Next
  <1> QED BY <1>1, WalkStarts, PTL DEF Walk!Spec

\* The calls and their lists stay within their types while other tasks write the table.
THEOREM WalkTypeCorrect == Walk!Spec => []WalkTypeOK
  <1>1. WalkInv => WalkTypeOK
    BY DEF WalkInv, WalkTypeOK
  <1> QED BY <1>1, WalkInvariant, PTL

\* Whatever is reparented, deleted or inserted under a walk, cycles included, it takes no
\* node twice, and each but the first by a link to one it took before.
THEOREM WalksKeepToLinks == Walk!Spec => []WalksFollowLinks
  <1>1. ASSUME WalkInv PROVE WalksFollowLinks
    <2>1. Walk!TypeOK /\ Trail(call, found, queue)
      BY <1>1 DEF WalkInv
    <2> SUFFICES ASSUME NEW k \in 2..Len(found)
                 PROVE  /\ \A j \in 1..k - 1 : found[j].id # found[k].id
                        /\ IF call.method = "path_to_root"
                           THEN found[k].id = found[k - 1].parent
                           ELSE \E j \in 1..k - 1 : found[k].parent = found[j].id
      BY DEF WalksFollowLinks, Walk!WalksFollowLinks
    <2>2. Len(found) \in Nat /\ k \in 1..Len(found)
          /\ \A j \in 1..k - 1 : j \in 1..Len(found) /\ j # k
      BY <2>1 DEF Walk!TypeOK
    <2>3. \A j \in 1..k - 1 : found[j].id # found[k].id
      BY <2>1, <2>2 DEF Trail
    <2>4. CASE call.method = "path_to_root"
      BY <2>1, <2>3, <2>4 DEF Trail, PathTrail
    <2>5. CASE call.method = "subtree"
      BY <2>1, <2>3, <2>5 DEF Trail, TreeTrail
    <2> QED BY <2>1, <2>4, <2>5 DEF Walk!TypeOK
  <1> QED BY <1>1, WalkInvariant, PTL

-----------------------------------------------------------------------------
(* What a walk finds while the table keeps still.                            *)

\* Levels that each hold the one before hold all before.
LEMMA Grows ==
  ASSUME NEW f, \A k \in Nat : f[k] \subseteq f[k + 1]
  PROVE  \A k \in Nat : \A j \in 0..k : f[j] \subseteq f[k]
  <1> DEFINE S == {k \in Nat : \A j \in 0..k : f[j] \subseteq f[k]}
  <1>1. 0 \in S
    <2>1. \A j \in 0..0 : j = 0
      OBVIOUS
    <2> QED BY <2>1
  <1>2. ASSUME NEW k \in Nat, k \in S PROVE k + 1 \in S
    <2>1. \A j \in 0..(k + 1) : j \in 0..k \/ j = k + 1
      OBVIOUS
    <2>2. \A j \in 0..k : f[j] \subseteq f[k + 1]
      BY <1>2
    <2> QED BY <2>1, <2>2
  <1>3. Nat \subseteq S
    <2> HIDE DEF S
    <2> QED BY <1>1, <1>2, SetInduction
  <1> QED BY <1>3

\* What every walk of the invariant has.
LEMMA FoundAre ==
  ASSUME WalkInv
  PROVE  /\ Walk!TypeOK /\ found \in Seq(Walk!Instance) /\ Len(found) \in Nat /\ Len(found) >= 1
         /\ \A k \in 1..Len(found) : found[k] \in Walk!Instance
         /\ Walk!Visited = Ids(found) /\ Walk!Visited \subseteq Node
         /\ Walk!Self = found[1] /\ Walk!Self.id \in Node /\ Walk!Self.id \in Walk!Visited
         /\ call.method \in Methods /\ call.at \in {"reading", "done", "GraphError"}
         /\ call.limit \in Limits \cup {Walk!Unlimited}
  <1>1. /\ Walk!TypeOK /\ found \in Seq(Walk!Instance) /\ Len(found) \in Nat /\ Len(found) >= 1
        /\ Walk!Visited = Ids(found)
    BY VisitedIs DEF WalkInv, Walk!TypeOK, Trail
  <1>2. \A k \in 1..Len(found) : found[k] \in Walk!Instance
    BY <1>1
  <1>3. 1 \in 1..Len(found)
    BY <1>1
  <1>4. \A k \in 1..Len(found) : found[k].id \in Node
    BY <1>2 DEF Walk!Instance
  <1>5. Walk!Visited \subseteq Node /\ found[1].id \in Walk!Visited
    BY <1>1, <1>3, <1>4 DEF Ids
  <1>6. /\ call.method \in Methods /\ call.at \in {"reading", "done", "GraphError"}
        /\ call.limit \in Limits \cup {Walk!Unlimited}
    BY <1>1 DEF Walk!TypeOK, Methods
  <1> QED BY <1>1, <1>2, <1>5, <1>6 DEF Walk!Self

\* No node is found twice, so a walk is no longer than the table.
LEMMA WalkFits ==
  ASSUME WalkInv
  PROVE  Walk!Everywhere \in Nat /\ Len(found) <= Walk!Everywhere
  <1> DEFINE n == Len(found)
             g == [k \in 1..n |-> found[k].id]
  <1>1. n \in Nat /\ \A k \in 1..n : found[k].id \in Node
    BY FoundAre DEF Walk!Instance
  <1>2. \A j, k \in 1..n : found[j].id = found[k].id => j = k
    BY DEF WalkInv, Trail
  <1> HIDE DEF n
  <1>3. g \in Injection(1..n, Node)
    BY <1>1, <1>2 DEF Injection, IsInjective
  <1>4. Cardinality(1..n) <= Cardinality(Node) /\ Cardinality(Node) \in Nat
    BY <1>3, FS_Injection, FS_CardinalityType, NodesAreFinite
  <1>5. Cardinality(1..n) = n
    <2>1. Cardinality(1..n) = IF 1 > n THEN 0 ELSE n - 1 + 1
      BY <1>1, FS_Interval
    <2> QED BY <1>1, <2>1
  <1> QED BY <1>4, <1>5, SameSizes DEF Walk!Everywhere, n

\* As the table is, so were the rows when they were read.
LEMMA FoundIsStored ==
  ASSUME WalkInv, changes = 0, NEW k \in 1..Len(found)
  PROVE  /\ found[k].id \in Walk!Stored /\ found[k].id \in Walk!Visited /\ found[k].id \in Node
         /\ table[found[k].id].parent = found[k].parent
             /\ table[found[k].id].depth = found[k].depth
         /\ found[k].depth \in Nat
  <1>1. AsIn(table, found[k]) /\ found[k] \in Walk!Instance
    BY FoundAre DEF WalkInv, Quiet
  <1>2. found[k].id \in Node /\ found[k].depth \in 0..MaxDepth
    BY <1>1 DEF Walk!Instance
  <1>3. found[k].depth \in Nat
    BY <1>2, WalkAssumption DEF Walk!GraphWalkAssumption
  <1> QED BY <1>1, <1>2, <1>3, FoundAre DEF AsIn, Walk!Stored, Ids

\* The path up, from both sides: it is no longer than the table, so the levels above hold
\* it, and where it ends nothing is above.
LEMMA PathIsExact ==
  ASSUME WalkInv, changes = 0, call.method = "path_to_root",
      call.at # "reading"
  PROVE  IF call.at = "done" THEN Walk!Visited = Walk!Above(Walk!Self.id, Walk!Everywhere)
                             ELSE ~(Walk!Above(Walk!Self.id, Walk!Everywhere)
                                      \subseteq Walk!Stored)
  <1> DEFINE n == Len(found)
             E == Walk!Everywhere
             up == found[n].parent
  <1>1. /\ Walk!TypeOK /\ n \in Nat /\ n >= 1 /\ Walk!Self = found[1] /\ Walk!Self.id \in Node
        /\ Walk!Visited = Ids(found) /\ Walk!Visited \subseteq Node
    BY FoundAre
  <1>2. E \in Nat /\ n <= E
    BY WalkFits
  <1>3. \A k \in 2..n : found[k].id = found[k - 1].parent
    BY DEF WalkInv, Trail, PathTrail
  <1>4. PathEnds(table, call, found)
    BY DEF WalkInv, Quiet
  <1>5. \A k \in 1..n : /\ found[k].id \in Walk!Stored /\ found[k].id \in Walk!Visited
                        /\ table[found[k].id].parent = found[k].parent
    BY FoundIsStored
  <1>6. PICK f \in [Nat -> SUBSET Walk!Parents] :
          /\ f[0] = {Walk!Self.id}
          /\ \A k \in Nat : f[k + 1] = f[k] \cup {table[m].parent : m \in f[k] \cap Walk!Stored}
          /\ \A k \in Nat : Walk!Above(Walk!Self.id, k) = f[k] \ {None}
    BY <1>1, AboveSteps
  <1>7. \A k \in Nat : \A j \in 0..k : f[j] \subseteq f[k]
    BY <1>6, Grows
  <1> HIDE DEF n, E
  <1>8. \A k \in 1..n : found[k].id \in f[k - 1]
    <2> DEFINE S == {k \in Nat : k + 1 <= n => found[k + 1].id \in f[k]}
    <2>1. 0 \in S
      BY <1>1, <1>6
    <2>2. ASSUME NEW k \in Nat, k \in S PROVE k + 1 \in S
      <3> SUFFICES ASSUME (k + 1) + 1 <= n PROVE found[(k + 1) + 1].id \in f[k + 1]
        OBVIOUS
      <3>1. k + 1 \in 1..n /\ (k + 1) + 1 \in 2..n /\ ((k + 1) + 1) - 1 = k + 1 /\ k + 1 <= n
        BY <1>1
      <3>2. found[k + 1].id \in f[k] \cap Walk!Stored
        BY <1>5, <2>2, <3>1
      <3>3. table[found[k + 1].id].parent = found[(k + 1) + 1].id
        BY <1>3, <1>5, <3>1
      <3>4. f[k + 1] = f[k] \cup {table[m].parent : m \in f[k] \cap Walk!Stored}
        BY <1>6
      <3> QED BY <3>2, <3>3, <3>4
    <2>3. Nat \subseteq S
      <3> HIDE DEF S
      <3> QED BY <2>1, <2>2, SetInduction
    <2>4. ASSUME NEW k \in 1..n PROVE found[k].id \in f[k - 1]
      <3>1. k - 1 \in Nat /\ (k - 1) + 1 = k /\ k <= n
        BY <1>1
      <3>2. k - 1 \in S
        <4> HIDE DEF S
        <4> QED BY <2>3, <3>1
      <3> QED BY <3>1, <3>2
    <2> QED BY <2>4
  <1>9. CASE call.at = "done"
    <2>1. up = None \/ up \in Walk!Visited
      BY <1>1, <1>4, <1>9 DEF PathEnds, n
    <2>2. Walk!Visited \subseteq Walk!Above(Walk!Self.id, E)
      <3>1. ASSUME NEW k \in 1..n PROVE found[k].id \in f[E]
        <4>1. k - 1 \in 0..E
          BY <1>1, <1>2
        <4> QED BY <1>2, <1>7, <1>8, <4>1
      <3>2. None \notin Walk!Visited
        BY <1>1, WalkAssumption DEF Walk!GraphWalkAssumption
      <3> QED BY <1>1, <1>2, <1>6, <3>1, <3>2 DEF Ids, n
    <2>3. Walk!Above(Walk!Self.id, E) \subseteq Walk!Visited
      <3> DEFINE S == {k \in Nat : f[k] \subseteq Walk!Visited \cup {None}}
      <3>1. 0 \in S
        <4>1. Walk!Self.id \in Walk!Visited
          BY FoundAre
        <4> QED BY <1>6, <4>1
      <3>2. ASSUME NEW k \in Nat, k \in S PROVE k + 1 \in S
        <4>1. ASSUME NEW m \in f[k] \cap Walk!Stored
              PROVE  table[m].parent \in Walk!Visited \cup {None}
          <5>1. m # None
            BY WalkAssumption DEF Walk!Stored, Walk!GraphWalkAssumption
          <5>2. m \in Ids(found)
            BY <1>1, <3>2, <5>1
          <5>3. PICK j \in 1..n : m = found[j].id
            BY <5>2 DEF Ids, n
          <5>4. CASE j = n
            BY <1>5, <2>1, <5>3, <5>4
          <5>5. CASE j # n
            <6>1. j + 1 \in 2..n /\ j + 1 \in 1..n /\ (j + 1) - 1 = j
              BY <1>1, <5>5
            <6>2. table[m].parent = found[j + 1].id
              BY <1>3, <1>5, <5>3, <6>1
            <6> QED BY <1>5, <6>1, <6>2
          <5> QED BY <5>4, <5>5
        <4> QED BY <1>6, <3>2, <4>1
      <3>3. Nat \subseteq S
        <4> HIDE DEF S
        <4> QED BY <3>1, <3>2, SetInduction
      <3> QED BY <1>2, <1>6, <3>3
    <2>4. Walk!Visited = Walk!Above(Walk!Self.id, E)
      BY <2>2, <2>3
    <2> QED BY <1>9, <2>4 DEF E
  <1>10. CASE call.at # "done"
    <2>1. up \in Node /\ table[up] = None
      BY <1>4, <1>10, FoundAre DEF PathEnds, n
    <2>2. n \in 1..n /\ n - 1 \in Nat /\ (n - 1) + 1 = n /\ n \in 0..E
      BY <1>1, <1>2
    <2>3. found[n].id \in f[n - 1] \cap Walk!Stored /\ table[found[n].id].parent = up
      BY <1>5, <1>8, <2>2
    <2>4. up \in f[n]
      <3>1. f[(n - 1) + 1] = f[n - 1] \cup {table[m].parent : m \in f[n - 1] \cap Walk!Stored}
        BY <1>6, <2>2
      <3>2. up \in f[(n - 1) + 1]
        <4> HIDE DEF up
        <4> QED BY <2>3, <3>1
      <3> QED BY <2>2, <3>2
    <2>5. up \in f[E] \ {None}
      BY <1>2, <1>7, <2>1, <2>2, <2>4, WalkAssumption DEF Walk!GraphWalkAssumption
    <2>6. up \notin Walk!Stored /\ up \in Walk!Above(Walk!Self.id, E)
      BY <1>2, <1>6, <2>1, <2>5 DEF Walk!Stored
    <2> QED BY <1>10, <2>6 DEF E
  <1> QED BY <1>9, <1>10


\* Of a row the links below lead on; at most one level deeper each.
LEMMA BelowGrows ==
  ASSUME NEW n \in Node
  PROVE  \A k \in Nat : \A j \in 0..k : Walk!Below(n, j) \subseteq Walk!Below(n, k)
  <1> DEFINE f == [k \in Nat |-> Walk!Below(n, k)]
  <1>1. \A k \in Nat : f[k] \subseteq f[k + 1]
    BY BelowSteps
  <1>2. \A k \in Nat : \A j \in 0..k : f[j] \subseteq f[k]
    <2> HIDE DEF f
    <2> QED BY <1>1, Grows
  <1> QED BY <1>2

\* The rows of a subtree that has been read, as the table has them.
LEMMA TreeRead ==
  ASSUME WalkInv, changes = 0, call.method = "subtree", call.at # "reading"
  PROVE  /\ \A k \in 2..Len(found) : \E j \in 1..(k - 1) :
              /\ found[k].parent = found[j].id
              /\ j = 1 \/ Reads(call, found, found[j])
         /\ \A k \in 1..Len(found) : \/ Walk!Children(found[k].id) \subseteq Walk!Visited
                                     \/ k # 1 /\ ~Reads(call, found, found[k])
  <1>1. TreeTrail(call, found, queue) /\ TreeGrown(table, call, found, queue)
    BY DEF WalkInv, Trail, Quiet
  <1>2. queue = <<>>
    BY <1>1 DEF TreeTrail
  <1>3. \A n : Walk!Children(n) = Under(table, n)
    BY DEF Walk!Children, Walk!Stored, Under
  <1> QED BY <1>1, <1>2, <1>3, FoundAre DEF TreeTrail, TreeGrown

\* The whole subtree: each row found is below, and the rows found are closed under links.
LEMMA TreeIsExact ==
  ASSUME WalkInv, changes = 0, call.method = "subtree",
      call.at # "reading",
         call.limit = Walk!Unlimited
  PROVE  Walk!Visited = Walk!Below(Walk!Self.id, Walk!Everywhere)
  <1> DEFINE n == Len(found)
             E == Walk!Everywhere
             B(k) == Walk!Below(Walk!Self.id, k)
  <1>1. /\ n \in Nat /\ n >= 1 /\ Walk!Self = found[1] /\ Walk!Self.id \in Node
        /\ Walk!Visited = Ids(found) /\ Walk!Visited \subseteq Node
            /\ Walk!Self.id \in Walk!Visited
    BY FoundAre
  <1>2. E \in Nat /\ n <= E
    BY WalkFits
  <1>3. /\ \A k \in 2..n : \E j \in 1..(k - 1) : found[k].parent = found[j].id
        /\ \A k \in 1..n : Walk!Children(found[k].id) \subseteq Walk!Visited
    BY TreeRead DEF Reads
  <1>4. \A k \in 1..n : found[k].id \in Walk!Stored /\ table[found[k].id].parent = found[k].parent
    BY FoundIsStored
  <1>5. B(0) = {Walk!Self.id}
            /\ \A k \in Nat : B(k + 1) = B(k) \cup UNION {Walk!Children(m) : m \in B(k)}
    BY <1>1, BelowSteps
  <1>6. \A k \in Nat : \A j \in 0..k : B(j) \subseteq B(k)
    BY <1>1, BelowGrows
  <1> HIDE DEF n, E, B
  <1>7. \A k \in 1..n : found[k].id \in B(k - 1)
    <2> DEFINE S == {k \in Nat : \A m \in 1..n : m <= k => found[m].id \in B(m - 1)}
    <2>1. 0 \in S
      OBVIOUS
    <2>2. ASSUME NEW k \in Nat, k \in S PROVE k + 1 \in S
      <3> SUFFICES ASSUME k + 1 \in 1..n PROVE found[k + 1].id \in B(k)
        <4>1. \A m \in 1..n : m <= k + 1 => m <= k \/ m = k + 1
          BY <1>1
        <4>2. (k + 1) - 1 = k
          OBVIOUS
        <4> QED BY <2>2, <4>1, <4>2
      <3>1. CASE k = 0
        BY <1>1, <1>5, <3>1
      <3>2. CASE k # 0
        <4>1. k + 1 \in 2..n
          BY <3>2
        <4>2. PICK j \in 1..((k + 1) - 1) : found[k + 1].parent = found[j].id
          BY <1>3, <4>1
        <4>3. j \in 1..n /\ j <= k /\ j - 1 \in Nat /\ k - 1 \in Nat /\ j - 1 \in 0..(k - 1)
                  /\ (k - 1) + 1 = k
          BY <1>1, <4>1, <4>2
        <4>4. found[j].id \in B(j - 1)
          BY <2>2, <4>3
        <4>5. found[j].id \in B(k - 1)
          BY <1>6, <4>3, <4>4
        <4>6. found[k + 1].id \in Walk!Children(found[j].id)
          BY <1>4, <4>2 DEF Walk!Children
        <4>7. B((k - 1) + 1) = B(k - 1) \cup UNION {Walk!Children(m) : m \in B(k - 1)}
          BY <1>5, <4>3
        <4>8. found[k + 1].id \in B((k - 1) + 1)
          BY <4>5, <4>6, <4>7
        <4> QED BY <4>3, <4>8
      <3> QED BY <3>1, <3>2
    <2>3. Nat \subseteq S
      <3> HIDE DEF S
      <3> QED BY <2>1, <2>2, SetInduction
    <2>4. n \in S
      <3> HIDE DEF S
      <3> QED BY <1>1, <2>3
    <2> QED BY <1>1, <2>4
  <1>8. Walk!Visited \subseteq B(E)
    <2>1. ASSUME NEW k \in 1..n PROVE found[k].id \in B(E)
      <3>1. k - 1 \in 0..E
        BY <1>1, <1>2
      <3> QED BY <1>2, <1>6, <1>7, <3>1
    <2> QED BY <1>1, <2>1 DEF Ids, n
  <1>9. B(E) \subseteq Walk!Visited
    <2> DEFINE S == {k \in Nat : B(k) \subseteq Walk!Visited}
    <2>1. 0 \in S
      BY <1>1, <1>5
    <2>2. ASSUME NEW k \in Nat, k \in S PROVE k + 1 \in S
      <3>1. ASSUME NEW m \in B(k) PROVE Walk!Children(m) \subseteq Walk!Visited
        <4>1. PICK j \in 1..n : m = found[j].id
          BY <1>1, <2>2 DEF Ids, n
        <4> QED BY <1>3, <4>1
      <3> QED BY <1>5, <2>2, <3>1
    <2>3. Nat \subseteq S
      <3> HIDE DEF S
      <3> QED BY <2>1, <2>2, SetInduction
    <2> QED BY <1>2, <2>3
  <1> QED BY <1>8, <1>9 DEF B, E

-----------------------------------------------------------------------------
(* Where depth is kept.                                                      *)

\* The levels a call reads; max_depth=0 reads one too.
Reach == IF call.limit = 0 THEN 1 ELSE call.limit

LEMMA ChildIsDeeper ==
  ASSUME Walk!TypeOK, Walk!DepthsAreKept, NEW n \in Walk!Stored, table[n].parent \in Walk!Stored
  PROVE  table[n].depth = table[table[n].parent].depth + 1
  BY DEF Walk!DepthsAreKept

\* On the way up depth falls.
LEMMA PathGoesUp ==
  ASSUME WalkInv, changes = 0, Walk!DepthsAreKept,
      call.method = "path_to_root"
  PROVE  \A k \in 2..Len(found) : found[k].depth < Walk!Self.depth
  <1> DEFINE n == Len(found)
             S == {k \in Nat : k + 2 <= n => found[k + 2].depth < Walk!Self.depth}
  <1>1. n \in Nat /\ n >= 1 /\ Walk!Self = found[1] /\ Walk!TypeOK
    BY FoundAre
  <1>2. \A k \in 2..n : found[k].id = found[k - 1].parent
    BY DEF WalkInv, Trail, PathTrail
  <1>3. \A k \in 1..n : /\ found[k].id \in Walk!Stored /\ found[k].depth \in Nat
                        /\ table[found[k].id].parent = found[k].parent
                        /\ table[found[k].id].depth = found[k].depth
    BY FoundIsStored
  <1> HIDE DEF n
  <1>4. ASSUME NEW k \in 2..n PROVE found[k - 1].depth = found[k].depth + 1
    <2>1. k \in 1..n /\ k - 1 \in 1..n
      BY <1>1
    <2>2. table[found[k - 1].id].parent = found[k].id /\ found[k].id \in Walk!Stored
              /\ found[k - 1].id \in Walk!Stored
      BY <1>2, <1>3, <2>1
    <2>3. table[found[k - 1].id].depth = table[found[k].id].depth + 1
      BY <1>1, <2>2, ChildIsDeeper
    <2> QED BY <1>3, <2>1, <2>3
  <1>5. 0 \in S
    <2> SUFFICES ASSUME 2 <= n PROVE found[2].depth < found[1].depth
      BY <1>1
    <2>1. 2 \in 2..n /\ 2 \in 1..n /\ 2 - 1 = 1
      BY <1>1
    <2> QED BY <1>3, <1>4, <2>1
  <1>6. ASSUME NEW k \in Nat, k \in S PROVE k + 1 \in S
    <2> SUFFICES ASSUME (k + 1) + 2 <= n PROVE found[(k + 1) + 2].depth < Walk!Self.depth
      OBVIOUS
    <2>1. /\ (k + 1) + 2 \in 2..n /\ (k + 1) + 2 \in 1..n /\ k + 2 \in 1..n /\ k + 2 <= n
          /\ ((k + 1) + 2) - 1 = k + 2 /\ 1 \in 1..n
      BY <1>1
    <2>2. found[k + 2].depth = found[(k + 1) + 2].depth + 1
              /\ found[k + 2].depth < Walk!Self.depth
      BY <1>4, <1>6, <2>1
    <2>3. found[k + 2].depth \in Nat /\ found[(k + 1) + 2].depth \in Nat
              /\ Walk!Self.depth \in Nat
      BY <1>1, <1>3, <2>1
    <2> QED BY <2>2, <2>3
  <1>7. Nat \subseteq S
    <2> HIDE DEF S
    <2> QED BY <1>5, <1>6, SetInduction
  <1>8. ASSUME NEW k \in 2..n PROVE found[k].depth < Walk!Self.depth
    <2>1. k - 2 \in Nat /\ (k - 2) + 2 = k /\ k <= n
      BY <1>1
    <2>2. k - 2 \in S
      <3> HIDE DEF S
      <3> QED BY <1>7, <2>1
    <2> QED BY <2>1, <2>2
  <1> QED BY <1>8 DEF n

\* A row of the subtree is as far below the first as its depth says, and within reach.
LEMMA TreeGoesDown ==
  ASSUME WalkInv, changes = 0, Walk!DepthsAreKept,
      call.method = "subtree", call.at # "reading"
  PROVE  \A k \in 1..Len(found) :
           LET d == found[k].depth - Walk!Self.depth IN
           /\ d \in Nat /\ found[k].id \in Walk!Below(Walk!Self.id, d)
           /\ k # 1 => d >= 1 /\ (call.limit = Walk!Unlimited \/ d <= Reach)
  <1> DEFINE n == Len(found)
             B(k) == Walk!Below(Walk!Self.id, k)
             d(k) == found[k].depth - Walk!Self.depth
             Right(k) == /\ d(k) \in Nat /\ found[k].id \in B(d(k))
                         /\ k # 1 => d(k) >= 1 /\ (call.limit = Walk!Unlimited \/ d(k) <= Reach)
             S == {k \in Nat : \A m \in 1..n : m <= k => Right(m)}
  <1>1. /\ n \in Nat /\ n >= 1 /\ Walk!Self = found[1] /\ Walk!TypeOK /\ Walk!Self.id \in Node
        /\ call.limit \in Nat \cup {Walk!Unlimited}
    BY FoundAre, WalkAssumption DEF Walk!GraphWalkAssumption
  <1>2. \A k \in 2..n : \E j \in 1..(k - 1) :
          /\ found[k].parent = found[j].id
          /\ j = 1 \/ Reads(call, found, found[j])
    BY TreeRead
  <1>3. \A k \in 1..n : /\ found[k].id \in Walk!Stored /\ found[k].depth \in Nat
                        /\ table[found[k].id].parent = found[k].parent
                        /\ table[found[k].id].depth = found[k].depth
    BY FoundIsStored
  <1>4. B(0) = {Walk!Self.id}
            /\ \A k \in Nat : B(k + 1) = B(k) \cup UNION {Walk!Children(m) : m \in B(k)}
    BY <1>1, BelowSteps
  <1> HIDE DEF n, B
  <1>5. 1 \in 1..n /\ Walk!Self.depth \in Nat
    BY <1>1, <1>3
  <1>6. 0 \in S
    OBVIOUS
  <1>7. ASSUME NEW k \in Nat, k \in S PROVE k + 1 \in S
    <2> SUFFICES ASSUME k + 1 \in 1..n PROVE Right(k + 1)
      <3>1. \A m \in 1..n : m <= k + 1 => m <= k \/ m = k + 1
        BY <1>1
      <3> HIDE DEF Right
      <3> QED BY <1>7, <3>1
    <2>1. CASE k = 0
      <3>1. Right(1)
        <4>1. d(1) = 0
          BY <1>1, <1>5
        <4> HIDE DEF d
        <4> QED BY <1>1, <1>4, <4>1
      <3> QED BY <2>1, <3>1
    <2>2. CASE k # 0
      <3>1. k + 1 \in 2..n
        BY <2>2
      <3>2. PICK j \in 1..((k + 1) - 1) :
              found[k + 1].parent = found[j].id /\ (j = 1 \/ Reads(call, found, found[j]))
        BY <1>2, <3>1
      <3>3. j \in 1..n /\ j <= k /\ k + 1 # 1
        BY <1>1, <2>2, <3>1, <3>2
      <3>4. Right(j)
        <4> HIDE DEF Right
        <4> QED BY <1>7, <3>3
      <3>5. found[k + 1].depth = found[j].depth + 1
        <4>1. table[found[k + 1].id].parent = found[j].id /\ found[k + 1].id \in Walk!Stored
                  /\ found[j].id \in Walk!Stored
          BY <1>3, <3>2, <3>3
        <4>2. table[found[k + 1].id].depth = table[found[j].id].depth + 1
          BY <1>1, <4>1, ChildIsDeeper
        <4> QED BY <1>3, <3>3, <4>2
      <3>6. d(k + 1) = d(j) + 1 /\ d(j) \in Nat
        BY <1>3, <1>5, <3>3, <3>4, <3>5
      <3>7. found[k + 1].id \in Walk!Children(found[j].id)
        BY <1>3, <3>2 DEF Walk!Children
      <3>8. found[j].id \in B(d(j))
        BY <3>4
      <3>9. call.limit = Walk!Unlimited \/ d(k + 1) <= Reach
        <4>1. CASE j = 1
          <5>1. d(k + 1) = 1
            BY <1>1, <1>5, <3>6, <4>1
          <5> HIDE DEF d
          <5> QED BY <1>1, <5>1 DEF Reach
        <4>2. CASE Reads(call, found, found[j])
          <5>1. call.limit = Walk!Unlimited \/ found[j].depth < Walk!Self.depth + call.limit
            BY <1>1, <4>2 DEF Reads
          <5>2. call.limit # Walk!Unlimited => d(j) < call.limit /\ call.limit \in Nat
            BY <1>1, <1>3, <1>5, <3>3, <5>1
          <5> HIDE DEF d
          <5> QED BY <3>6, <5>2 DEF Reach
        <4> QED BY <3>2, <4>1, <4>2
      <3> HIDE DEF d
      <3>10. found[k + 1].id \in B(d(j) + 1)
        BY <1>4, <3>6, <3>7, <3>8
      <3> QED BY <3>3, <3>6, <3>9, <3>10
    <2> QED BY <2>1, <2>2
  <1>8. Nat \subseteq S
    <2> HIDE DEF S
    <2> QED BY <1>6, <1>7, SetInduction
  <1>9. n \in S
    <2> HIDE DEF S
    <2> QED BY <1>1, <1>8
  <1> QED BY <1>1, <1>9 DEF n, B

\* The subtree within max_depth levels, where depth is kept.
LEMMA LimitedTreeIsExact ==
  ASSUME WalkInv, changes = 0, Walk!DepthsAreKept,
      call.method = "subtree", call.at # "reading",
         call.limit # Walk!Unlimited
  PROVE  Walk!Visited = Walk!Below(Walk!Self.id, Reach)
  <1> DEFINE n == Len(found)
             B(k) == Walk!Below(Walk!Self.id, k)
  <1>1. /\ n \in Nat /\ n >= 1 /\ Walk!Self = found[1] /\ Walk!TypeOK /\ Walk!Self.id \in Node
        /\ call.limit \in Nat /\ Walk!Visited = Ids(found) /\ Walk!Self.id \in Walk!Visited
    BY FoundAre, WalkAssumption DEF Walk!GraphWalkAssumption
  <1>2. Reach \in Nat /\ Reach >= 1
    BY <1>1 DEF Reach
  <1>3. \A k \in 1..n : /\ found[k].id \in Walk!Stored /\ found[k].depth \in Nat
                        /\ table[found[k].id].depth = found[k].depth
    BY FoundIsStored
  <1>4. B(0) = {Walk!Self.id}
            /\ \A k \in Nat : B(k + 1) = B(k) \cup UNION {Walk!Children(m) : m \in B(k)}
    BY <1>1, BelowSteps
  <1>5. \A k \in Nat : \A j \in 0..k : B(j) \subseteq B(k)
    BY <1>1, BelowGrows
  <1>6. Walk!Self.depth \in Nat /\ Walk!Self.id \in Walk!Stored
            /\ table[Walk!Self.id].depth = Walk!Self.depth
    <2>1. 1 \in 1..n
      BY <1>1
    <2> QED BY <1>1, <1>3, <2>1
  <1> HIDE DEF n, B
  <1>7. Walk!Visited \subseteq B(Reach)
    <2>1. ASSUME NEW k \in 1..n PROVE found[k].id \in B(Reach)
      <3> DEFINE d == found[k].depth - Walk!Self.depth
      <3>1. d \in Nat /\ found[k].id \in B(d) /\ (k # 1 => d <= Reach)
        BY TreeGoesDown DEF n, B
      <3>2. k = 1 => d <= Reach
        BY <1>1, <1>2, <1>6
      <3> HIDE DEF d
      <3>3. d \in 0..Reach
        BY <1>2, <3>1, <3>2
      <3> QED BY <1>2, <1>5, <3>1, <3>3
    <2> QED BY <1>1, <2>1 DEF Ids, n
  <1>8. B(Reach) \subseteq Walk!Visited
    <2> DEFINE S == {k \in Nat : k <= Reach =>
                       \A m \in B(k) : m \in Walk!Visited /\ table[m].depth \in Nat
                           /\ table[m].depth <= Walk!Self.depth + k}
    <2>1. 0 \in S
      BY <1>1, <1>4, <1>6
    <2>2. ASSUME NEW k \in Nat, k \in S PROVE k + 1 \in S
      <3> SUFFICES ASSUME k + 1 <= Reach, NEW c \in B(k + 1)
                   PROVE  c \in Walk!Visited /\ table[c].depth \in Nat
                       /\ table[c].depth <= Walk!Self.depth + (k + 1)
        OBVIOUS
      <3>1. k <= Reach /\ k < Reach
        BY <1>2
      <3>2. CASE c \in B(k)
        BY <1>6, <2>2, <3>1, <3>2
      <3>3. CASE c \notin B(k)
        <4>1. PICK m \in B(k) : c \in Walk!Children(m)
          BY <1>4, <3>3
        <4>2. m \in Walk!Visited /\ table[m].depth \in Nat
                  /\ table[m].depth <= Walk!Self.depth + k
          BY <2>2, <3>1
        <4>3. PICK j \in 1..n : m = found[j].id
          BY <1>1, <4>2 DEF Ids, n
        <4>4. c \in Walk!Stored /\ table[c].parent = m /\ m \in Walk!Stored
          BY <1>3, <4>1, <4>3 DEF Walk!Children
        <4>5. table[c].depth = table[m].depth + 1
          BY <1>1, <4>4, ChildIsDeeper
        <4>6. table[c].depth \in Nat /\ table[c].depth <= Walk!Self.depth + (k + 1)
          BY <1>6, <4>2, <4>5
        <4>7. c \in Walk!Visited
          <5>1. CASE Walk!Children(found[j].id) \subseteq Walk!Visited
            BY <4>1, <4>3, <5>1
          <5>2. CASE j # 1 /\ ~Reads(call, found, found[j])
            <6>1. ~(found[j].depth < Walk!Self.depth + call.limit)
              BY <1>1, <5>2 DEF Reads
            <6>2. Walk!Self.depth + call.limit <= Walk!Self.depth + k
              BY <1>1, <1>3, <1>6, <4>2, <4>3, <6>1
            <6>3. call.limit = 0 /\ k = 0
              BY <1>1, <1>6, <3>1, <6>2 DEF Reach
            <6>4. found[j].id = found[1].id
              BY <1>1, <1>4, <4>1, <4>3, <6>3
            <6>5. j = 1
              <7>1. \A a, b \in 1..Len(found) : found[a].id = found[b].id => a = b
                BY DEF WalkInv, Trail
              <7>2. 1 \in 1..n
                BY <1>1
              <7> QED BY <6>4, <7>1, <7>2 DEF n
            <6> QED BY <5>2, <6>5
          <5> QED BY <5>1, <5>2, TreeRead DEF n
        <4> QED BY <4>6, <4>7
      <3> QED BY <3>2, <3>3
    <2>3. Nat \subseteq S
      <3> HIDE DEF S
      <3> QED BY <2>1, <2>2, SetInduction
    <2>4. Reach \in S
      <3> HIDE DEF S
      <3> QED BY <1>2, <2>3
    <2> QED BY <1>2, <2>4
  <1> QED BY <1>7, <1>8 DEF B

\* All cases of the property.
LEMMA StillWalkIsExact ==
  ASSUME WalkInv
  PROVE  Walk!QuietWalksAreExact
  <1> SUFFICES ASSUME changes = 0, call.at # "reading" PROVE
        /\ call.method = "path_to_root" =>
             IF call.at = "done" THEN Walk!Visited = Walk!Above(Walk!Self.id, Walk!Everywhere)
                                 ELSE ~(Walk!Above(Walk!Self.id, Walk!Everywhere)
                                          \subseteq Walk!Stored)
        /\ call.method = "subtree" /\ call.limit = Walk!Unlimited =>
             Walk!Visited = Walk!Below(Walk!Self.id, Walk!Everywhere)
        /\ Walk!DepthsAreKept /\ call.limit # 0 =>
             /\ call.method = "subtree" /\ call.limit # Walk!Unlimited =>
                  Walk!Visited = Walk!Below(Walk!Self.id, call.limit)
             /\ Walk!WithinRange \subseteq
                  IF call.method = "path_to_root" THEN Walk!ancestors(Walk!Self)
                      ELSE Walk!descendants(Walk!Self, call.limit)
    BY DEF Walk!QuietWalksAreExact
  <1>1. call.method = "path_to_root" =>
          IF call.at = "done" THEN Walk!Visited = Walk!Above(Walk!Self.id, Walk!Everywhere)
                              ELSE ~(Walk!Above(Walk!Self.id, Walk!Everywhere)
                                       \subseteq Walk!Stored)
    BY PathIsExact
  <1>2. call.method = "subtree"
            /\ call.limit = Walk!Unlimited =>
                Walk!Visited = Walk!Below(Walk!Self.id, Walk!Everywhere)
    BY TreeIsExact
  <1>3. ASSUME Walk!DepthsAreKept, call.limit # 0, call.method = "subtree",
               call.limit # Walk!Unlimited
        PROVE  Walk!Visited = Walk!Below(Walk!Self.id, call.limit)
    BY <1>3, LimitedTreeIsExact DEF Reach
  <1>4. ASSUME Walk!DepthsAreKept, call.limit # 0, NEW x \in Walk!WithinRange
        PROVE  x \in IF call.method = "path_to_root" THEN Walk!ancestors(Walk!Self)
            ELSE Walk!descendants(Walk!Self, call.limit)
    <2>0. /\ x \in Walk!Visited \ {Walk!Self.id}
          /\ NamespaceOf[x] = NamespaceOf[Walk!Self.id]
          /\ call.limit = Walk!Unlimited => table[x].depth <= Walk!Self.depth + SafetyLimit
      BY DEF Walk!WithinRange
    <2>1. PICK k \in 1..Len(found) : x = found[k].id
      BY <2>0, FoundAre DEF Ids
    <2>2. k # 1 /\ k \in 2..Len(found) /\ Walk!Self.depth \in Nat /\ call.method \in Methods
          /\ call.limit \in Nat \cup {Walk!Unlimited}
      <3>1. k # 1 /\ 1 \in 1..Len(found) /\ Walk!Self = found[1] /\ Len(found) \in Nat
        BY <2>0, <2>1, FoundAre
      <3>2. found[1].depth \in Nat
        BY <3>1, FoundIsStored
      <3>3. call.method \in Methods /\ call.limit \in Nat \cup {Walk!Unlimited}
        BY FoundAre, WalkAssumption DEF Walk!GraphWalkAssumption
      <3>4. k \in 2..Len(found)
        BY <3>1
      <3> QED BY <3>1, <3>2, <3>3, <3>4
    <2>3. /\ table[x].depth = found[k].depth /\ found[k].depth \in Nat
          /\ x \in Walk!Peers(Walk!Self)
      BY <2>0, <2>1, FoundIsStored DEF Walk!Peers
    <2>4. CASE call.method = "path_to_root"
      <3>1. found[k].depth < Walk!Self.depth
        BY <1>4, <2>2, <2>4, PathGoesUp
      <3> QED BY <2>3, <2>4, <3>1 DEF Walk!ancestors
    <2>5. CASE call.method = "subtree"
      <3> DEFINE d == found[k].depth - Walk!Self.depth
                 levels == IF call.limit = Walk!Unlimited THEN SafetyLimit ELSE call.limit
      <3>1. d >= 1 /\ (call.limit = Walk!Unlimited \/ d <= call.limit)
        BY <1>4, <2>2, <2>5, TreeGoesDown DEF Reach
      <3>2. levels \in Nat
        BY <2>2, WalkAssumption DEF Walk!GraphWalkAssumption
      <3>3. table[x].depth > Walk!Self.depth
        BY <2>2, <2>3, <3>1
      <3>4. table[x].depth <= Walk!Self.depth + levels
        <4>1. CASE call.limit = Walk!Unlimited
          BY <2>0, <4>1
        <4>2. CASE call.limit # Walk!Unlimited
          BY <2>2, <2>3, <3>1, <4>2
        <4> QED BY <4>1, <4>2
      <3> QED BY <2>3, <2>5, <3>3, <3>4 DEF Walk!descendants
    <2> QED BY <2>2, <2>4, <2>5 DEF Methods
  <1>5. ASSUME Walk!DepthsAreKept, call.limit # 0
        PROVE  Walk!WithinRange \subseteq
                 IF call.method = "path_to_root" THEN Walk!ancestors(Walk!Self)
                     ELSE Walk!descendants(Walk!Self, call.limit)
    BY <1>4, <1>5
  <1> QED BY <1>1, <1>2, <1>3, <1>5

\* A walk during which the table kept still returns all nodes above or below, or those
\* within max_depth levels where depth is kept and max_depth is positive, and reports a
\* missing one; the ranges by depth hold what it finds of its namespace.
THEOREM QuietWalksReturnAll == Walk!Spec => []QuietWalksAreExact
  <1>1. WalkInv => QuietWalksAreExact
    BY StillWalkIsExact DEF QuietWalksAreExact
  <1> QED BY <1>1, WalkInvariant, PTL

-----------------------------------------------------------------------------
(* The order of the path.                                                    *)

\* What falls from each row to the next falls from each to all later ones.
LEMMA Falling ==
  ASSUME NEW n \in Nat, NEW d \in [1..n -> Nat], \A k \in 2..n : d[k] < d[k - 1]
  PROVE  \A j, k \in 1..n : j < k => d[k] < d[j]
  <1> DEFINE S == {k \in Nat : \A j, m \in 1..n : j < m /\ m <= k => d[m] < d[j]}
  <1>1. 0 \in S
    OBVIOUS
  <1>2. ASSUME NEW k \in Nat, k \in S PROVE k + 1 \in S
    <2> SUFFICES ASSUME NEW j \in 1..n, NEW m \in 1..n, j < m, m <= k + 1 PROVE d[m] < d[j]
      OBVIOUS
    <2>1. CASE m <= k
      BY <1>2, <2>1
    <2>2. CASE m = k + 1
      <3>1. m \in 2..n /\ m - 1 \in 1..n /\ m - 1 <= k
        BY <2>2
      <3>2. d[m] < d[m - 1] /\ d[m] \in Nat /\ d[m - 1] \in Nat /\ d[j] \in Nat
        BY <3>1
      <3>3. j < m - 1 => d[m - 1] < d[j]
        BY <1>2, <3>1
      <3>4. j = m - 1 \/ j < m - 1
        OBVIOUS
      <3> QED BY <3>2, <3>3, <3>4
    <2> QED BY <2>1, <2>2
  <1>3. Nat \subseteq S
    <2> HIDE DEF S
    <2> QED BY <1>1, <1>2, SetInduction
  <1>4. n \in S
    <2> HIDE DEF S
    <2> QED BY <1>3
  <1> QED BY <1>4

\* The rank of a row of a path, and what is sorted by it.
LEMMA SortedBy ==
  ASSUME Walk!TypeOK, NEW place \in [1..Len(found) -> 1..Len(found)],
         \A k \in 1..Len(found) : Walk!Rank(k) = place[k],
         \A k \in 1..Len(found) : place[place[k]] = k
  PROVE  Walk!Sorted = [r \in 1..Len(found) |-> found[place[r]]]
  <1> DEFINE n == Len(found)
             C(r) == CHOOSE k \in DOMAIN found : Walk!Rank(k) = r
  <1>1. DOMAIN found = 1..n
    BY DEF Walk!TypeOK
  <1>2. ASSUME NEW r \in 1..n PROVE C(r) = place[r]
    <2>1. place[r] \in 1..n /\ Walk!Rank(place[r]) = r
      <3> HIDE DEF n
      <3>1. place[r] \in 1..n
        BY DEF n
      <3> QED BY <3>1 DEF n
    <2>2. ASSUME NEW k \in 1..n, Walk!Rank(k) = r PROVE k = place[r]
      BY <2>2
    <2> HIDE DEF n
    <2>3. C(r) \in 1..n /\ Walk!Rank(C(r)) = r
      BY <1>1, <2>1
    <2> QED BY <2>2, <2>3
  <1>3. Walk!Sorted = [r \in 1..n |-> found[C(r)]]
    BY <1>1 DEF Walk!Sorted
  <1> HIDE DEF C, n
  <1>4. Walk!Sorted = [r \in 1..n |-> found[place[r]]]
    BY <1>2, <1>3
  <1> QED BY <1>4 DEF n

\* Ranks from the last to the first.
LEMMA PathIsRootFirst ==
  ASSUME Walk!TypeOK
  PROVE  Walk!RootFirst
  <1> DEFINE n == Len(found)
             d == [k \in 1..n |-> found[k].depth]
  <1>1. n \in Nat /\ found \in [1..n -> Walk!Instance] /\ DOMAIN found = 1..n
    BY DEF Walk!TypeOK
  <1>2. \A k \in 1..n : found[k] \in Walk!Instance
    <2> HIDE DEF n
    <2> QED BY <1>1
  <1>3. \A k \in 1..n : found[k].depth \in Nat
    BY <1>2, WalkAssumption DEF Walk!Instance, Walk!GraphWalkAssumption
  <1>4. d \in [1..n -> Nat] /\ \A k \in 1..n : d[k] = found[k].depth
    BY <1>3
  <1>5. \A k \in 2..n : k \in 1..n /\ k - 1 \in 1..n
    BY <1>1
  <1>6. \A k : Walk!Rank(k) = Cardinality({j \in 1..n : Walk!Before(j, k)}) + 1
    BY <1>1, SameSizes DEF Walk!Rank
  <1> HIDE DEF n, d
  <1>7. ASSUME \A k \in 2..n : found[k].depth < found[k - 1].depth
        PROVE  \A k \in 1..n : Walk!Sorted[k] = found[n + 1 - k]
    <2> DEFINE place == [k \in 1..n |-> n + 1 - k]
    <2>1. \A j, k \in 1..n : j < k => d[k] < d[j]
      <3>1. \A k \in 2..n : d[k] < d[k - 1]
        BY <1>4, <1>5, <1>7
      <3> QED BY <1>1, <1>4, <3>1, Falling
    <2>2. ASSUME NEW k \in 1..n PROVE Walk!Rank(k) = n + 1 - k
      <3>1. \A j \in 1..n : Walk!Before(j, k) <=> j > k
        <4> SUFFICES ASSUME NEW j \in 1..n PROVE Walk!Before(j, k) <=> j > k
          OBVIOUS
        <4>1. d[j] \in Nat /\ d[k] \in Nat /\ d[j] = found[j].depth /\ d[k] = found[k].depth
          BY <1>4
        <4>2. j < k \/ j = k \/ j > k
          OBVIOUS
        <4> QED BY <2>1, <4>1, <4>2 DEF Walk!Before
      <3>2. {j \in 1..n : Walk!Before(j, k)} = (k + 1)..n
        BY <1>1, <3>1
      <3>3. Cardinality((k + 1)..n) = n - k
        <4>1. Cardinality((k + 1)..n) = IF k + 1 > n THEN 0 ELSE n - (k + 1) + 1
          BY <1>1, FS_Interval
        <4> QED BY <1>1, <4>1
      <3> QED BY <1>1, <1>6, <3>2, <3>3
    <2>3. /\ place \in [1..n -> 1..n] /\ \A k \in 1..n : place[k] = n + 1 - k
          /\ \A k \in 1..n : place[place[k]] = k
      BY <1>1
    <2> HIDE DEF place
    <2>4. Walk!Sorted = [r \in 1..n |-> found[place[r]]]
      BY <2>2, <2>3, SortedBy DEF n
    <2> QED BY <2>3, <2>4
  <1> QED BY <1>7 DEF Walk!RootFirst, n

\* path_to_root returns the path from the root down where depth grows along it.
THEOREM PathsAreRootFirst == Walk!Spec => []RootFirst
  <1>1. WalkTypeOK => RootFirst
    BY PathIsRootFirst DEF WalkTypeOK, RootFirst
  <1> QED BY <1>1, WalkTypeCorrect, PTL
=============================================================================
