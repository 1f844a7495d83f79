------------------------- MODULE HierarchyModelProofs -------------------------
(***************************************************************************)
(* What holds of BaseHierarchyModel for any nodes, names, namespaces and   *)
(* tasks.  However moves overlap and whatever instances they use: the      *)
(* columns of a row agree with each other, and a move stays in its         *)
(* namespace.  Where moves come one at a time, on up-to-date instances,    *)
(* and siblings differ in name: the paths and the parent links describe    *)
(* one forest, so the queries, the moves and validate_hierarchy agree with *)
(* it, and the table implements Forest.                                    *)
(***************************************************************************)
EXTENDS HierarchyModel, SequenceTheorems, WellFoundedInduction, TLAPS

-----------------------------------------------------------------------------
(* Paths.                                                                    *)

LEMMA LastOfAppend ==
  ASSUME NEW S, NEW s \in Seq(S), NEW e \in S
  PROVE  /\ Append(s, e) \in Seq(S)
         /\ Len(Append(s, e)) = Len(s) + 1
         /\ Last(Append(s, e)) = e
  BY AppendProperties DEF Last

\* What _PrefixReplace makes of a path: the length it says, and the last label is kept.
LEMMA RebasedPath ==
  ASSUME NEW S, NEW old \in Seq(S), NEW new \in Seq(S), NEW path \in Seq(S),
         Len(old) > 0, Len(new) > 0,
         Last(new) = Last(old), IsPrefix(old, path)
  PROVE  LET r == new \o SubSeq(path, Len(old) + 1, Len(path)) IN
         /\ r \in Seq(S)
         /\ Len(r) = Len(new) + Len(path) - Len(old)
         /\ Last(r) = Last(path)
<1> DEFINE tail == SubSeq(path, Len(old) + 1, Len(path))
           r == new \o tail
<1>1. Len(old) \in Nat /\ Len(new) \in Nat /\ Len(path) \in Nat /\ Len(old) <= Len(path)
  BY LenProperties DEF IsPrefix
<1>2. /\ tail \in Seq(S)
      /\ Len(tail) = Len(path) - Len(old)
      /\ \A i \in 1 .. Len(path) - Len(old) : tail[i] = path[Len(old) + i]
  <2>1. \A i \in Len(old) + 1 .. Len(path) : path[i] \in S
    BY <1>1, ElementOfSeq
  <2>2. /\ tail \in Seq(S)
        /\ Len(tail) = IF Len(old) + 1 <= Len(path) THEN Len(path) - (Len(old) + 1) + 1 ELSE 0
        /\ \A i \in 1 .. Len(path) - (Len(old) + 1) + 1 : tail[i] = path[(Len(old) + 1) + i - 1]
    BY <1>1, <2>1, SubSeqProperties
  <2> QED BY <1>1, <2>2
<1>3. /\ r \in Seq(S)
      /\ Len(r) = Len(new) + Len(tail)
      /\ \A i \in 1 .. Len(new) + Len(tail) :
           r[i] = IF i <= Len(new) THEN new[i] ELSE tail[i - Len(new)]
  BY <1>2, ConcatProperties
<1>4. Last(r) = Last(path)
  <2>1. CASE Len(path) > Len(old)
    <3> DEFINE k == Len(path) - Len(old)
    <3>1. k \in 1 .. Len(path) - Len(old) /\ Len(r) = Len(new) + k /\ Len(tail) = k
      BY <1>1, <1>2, <1>3, <2>1
    <3>2. tail[k] = path[Len(path)]
      BY <1>1, <1>2, <3>1
    <3>3. Len(new) + k \in 1 .. Len(new) + Len(tail) /\ ~(Len(new) + k <= Len(new))
      BY <1>1, <3>1
    <3>4. r[Len(new) + k] = tail[Len(new) + k - Len(new)]
      BY <1>3, <3>3
    <3>5. Len(new) + k - Len(new) = k
      BY <1>1, <3>1
    <3> QED BY <3>1, <3>2, <3>4, <3>5 DEF Last
  <2>2. CASE Len(path) = Len(old)
    <3>1. path = old
      BY <1>1, <2>2, SubSeqFull DEF IsPrefix
    <3> QED BY <1>1, <1>2, <1>3, <2>2, <3>1 DEF Last
  <2> QED BY <1>1, <2>1, <2>2
<1> QED BY <1>1, <1>2, <1>3, <1>4

-----------------------------------------------------------------------------
(* The columns of a row.                                                     *)

Sound(n, r) ==
  r # None => Len(r.path) > 0 /\ r.depth = Len(r.path) - 1 /\ Last(r.path) = NameOf[n]

\* Whatever a user holds or a transaction has written is sound, so moves only ever
\* combine sound rows.
AllSound ==
  /\ \A n \in Node : Sound(n, row[n])
  /\ \A t \in Task, n \in Node : Sound(n, view[t][n]) /\ Sound(n, written[t][n])

Moving ==
  \A t \in Task : move[t].at # "idle" =>
    /\ move[t].node \in Node /\ move[t].under \in Node
    /\ view[t][move[t].node] # None /\ view[t][move[t].under] # None
    /\ SameNamespace(move[t].node, move[t].under)
    /\ move[t].at # "update" => written[t][move[t].node] # None

\* A transaction has rows of the namespace of the node it moves.
WrittenInNamespace ==
  \A t \in Task, m \in Node : written[t][m] # None =>
    move[t].at # "idle" /\ SameNamespace(m, move[t].node)

ColumnInv == TypeOK /\ AllSound /\ Moving /\ WrittenInNamespace

LEMMA RowFields ==
  ASSUME NEW r \in Row
  PROVE  /\ r # None /\ r.path \in Seq(Label) /\ r.parent \in Node \cup {None}
         /\ r.depth \in Int /\ Len(r.path) \in Nat
  BY NoneIsNoRow, LenProperties DEF Row

\* The row that a move writes for the moved node.
LEMMA MovedRow ==
  ASSUME ColumnInv, NEW t \in Task, move[t].at # "idle"
  PROVE  LET r == [path |-> NewPath(t), parent |-> move[t].under, depth |-> NewDepth(t)] IN
         /\ r \in Row /\ Sound(move[t].node, r)
         /\ NewPath(t) \in Seq(Label) /\ Len(NewPath(t)) = Len(view[t][move[t].under].path) + 1
         /\ Last(NewPath(t)) = NameOf[move[t].node]
<1> DEFINE n == move[t].node
           p == move[t].under
           v == view[t][p]
<1>1. n \in Node /\ p \in Node /\ v \in Row /\ Sound(p, v)
  BY DEF ColumnInv, TypeOK, Moving, AllSound
<1>2. v # None /\ v.path \in Seq(Label) /\ v.depth \in Int /\ Len(v.path) \in Nat
  BY <1>1, RowFields
<1>3. NameOf[n] \in Label
  BY <1>1, HierarchyModelAssumption
<1>4. /\ NewPath(t) \in Seq(Label)
      /\ Len(NewPath(t)) = Len(v.path) + 1
      /\ Last(NewPath(t)) = NameOf[n]
  BY <1>2, <1>3, LastOfAppend DEF NewPath
<1>5. v.depth = Len(v.path) - 1
  BY <1>1, <1>2 DEF Sound
<1> HIDE DEF n, p, v
<1>6. NewDepth(t) = Len(NewPath(t)) - 1 /\ NewDepth(t) \in Int
  BY <1>2, <1>4, <1>5 DEF NewDepth, v, p
<1>7. Len(NewPath(t)) > 0
  BY <1>2, <1>4
<1>8. [path |-> NewPath(t), parent |-> p, depth |-> NewDepth(t)] \in Row
  BY <1>1, <1>4, <1>6 DEF Row
<1> QED BY <1>4, <1>6, <1>7, <1>8 DEF Sound, n, p, v

\* The row that the cascade writes for a row that qualifies.
LEMMA ShiftedRow ==
  ASSUME ColumnInv, NEW t \in Task, move[t].at # "idle",
         NEW m \in Node, NEW r \in Row, Sound(m, r), IsPrefix(OldPath(t), r.path)
  PROVE  Shifted(t, r) \in Row /\ Sound(m, Shifted(t, r))
<1> DEFINE n == move[t].node
           p == move[t].under
           w == view[t][n]
           v == view[t][p]
<1>1. /\ n \in Node /\ p \in Node
      /\ w \in Row /\ Sound(n, w) /\ v \in Row /\ Sound(p, v)
  BY DEF ColumnInv, TypeOK, Moving, AllSound
<1>2. /\ w.path \in Seq(Label) /\ w.depth \in Int /\ Len(w.path) \in Nat
      /\ v.path \in Seq(Label) /\ v.depth \in Int /\ Len(v.path) \in Nat
      /\ r.path \in Seq(Label) /\ r.depth \in Int /\ Len(r.path) \in Nat
  BY <1>1, RowFields
<1>3. /\ Len(w.path) > 0 /\ w.depth = Len(w.path) - 1 /\ Last(w.path) = NameOf[n]
      /\ v.depth = Len(v.path) - 1
      /\ Len(r.path) > 0 /\ r.depth = Len(r.path) - 1 /\ Last(r.path) = NameOf[m]
  BY <1>1, RowFields DEF Sound
<1>4. /\ NewPath(t) \in Seq(Label) /\ Len(NewPath(t)) = Len(v.path) + 1
      /\ Last(NewPath(t)) = NameOf[n]
  BY MovedRow
<1>5. OldPath(t) = w.path /\ IsPrefix(w.path, r.path)
  BY DEF OldPath
<1>6. /\ Rebased(t, r.path) \in Seq(Label)
      /\ Len(Rebased(t, r.path)) = Len(NewPath(t)) + Len(r.path) - Len(w.path)
      /\ Last(Rebased(t, r.path)) = Last(r.path)
  <2>1. Last(NewPath(t)) = Last(w.path)
    BY <1>3, <1>4, Zenon
  <2> HIDE DEF n, p, w, v
  <2>2. Len(NewPath(t)) > 0
    BY <1>2, <1>4
  <2>3. Rebased(t, r.path) = NewPath(t) \o SubSeq(r.path, Len(w.path) + 1, Len(r.path))
    BY <1>5 DEF Rebased
  <2>4. IsPrefix(w.path, r.path) /\ Len(w.path) > 0
    BY <1>3, <1>5
  <2> DEFINE old == w.path
             new == NewPath(t)
             path == r.path
  <2>5. /\ old \in Seq(Label) /\ new \in Seq(Label) /\ path \in Seq(Label)
        /\ Len(old) > 0 /\ Len(new) > 0 /\ Last(new) = Last(old) /\ IsPrefix(old, path)
    BY <1>2, <1>4, <2>1, <2>2, <2>4
  <2> HIDE DEF old, new, path
  <2>6. LET x == new \o SubSeq(path, Len(old) + 1, Len(path)) IN
        x \in Seq(Label) /\ Len(x) = Len(new) + Len(path) - Len(old) /\ Last(x) = Last(path)
    BY <2>5, RebasedPath
  <2> QED BY <2>3, <2>6 DEF old, new, path
<1>7. DepthDelta(t) = v.depth - w.depth + 1
  BY DEF DepthDelta
<1> HIDE DEF n, p, w, v
<1>8. IsPrefix(w.path, r.path) => Len(w.path) <= Len(r.path)
  BY DEF IsPrefix
<1> DEFINE s == Shifted(t, r)
<1>9. /\ s \in Row
      /\ s.path = Rebased(t, r.path)
      /\ s.depth = r.depth + DepthDelta(t)
  <2>1. r.depth + DepthDelta(t) \in Int
    BY <1>2, <1>7
  <2> QED BY <1>6, <2>1 DEF Shifted, Row
<1>10. Len(s.path) > 0 /\ s.depth = Len(s.path) - 1 /\ Last(s.path) = NameOf[m]
  <2>1. Len(s.path) = Len(v.path) + 1 + Len(r.path) - Len(w.path)
    BY <1>4, <1>6, <1>9
  <2>2. s.depth = (Len(r.path) - 1) + ((Len(v.path) - 1) - (Len(w.path) - 1) + 1)
    BY <1>3, <1>7, <1>9
  <2>3. Last(s.path) = NameOf[m]
    BY <1>3, <1>6, <1>9
  <2>4. Len(w.path) <= Len(r.path)
    BY <1>5, <1>8
  <2> DEFINE lr == Len(r.path)
             lv == Len(v.path)
             lw == Len(w.path)
  <2>5. lr \in Nat /\ lv \in Nat /\ lw \in Nat /\ lw <= lr
    BY <1>2, <2>4
  <2>6. Len(s.path) = lv + 1 + lr - lw /\ s.depth = (lr - 1) + ((lv - 1) - (lw - 1) + 1)
    BY <2>1, <2>2
  <2> HIDE DEF s, lr, lv, lw
  <2>7. Len(s.path) > 0 /\ s.depth = Len(s.path) - 1
    BY <2>5, <2>6
  <2> QED BY <2>3, <2>7
<1> QED BY <1>9, <1>10 DEF Sound

LEMMA ColumnInit == Init => ColumnInv
<1> SUFFICES ASSUME Init PROVE ColumnInv OBVIOUS
<1>1. TypeOK
  BY DEF Init, TypeOK, NoRows, Idle
<1>2. AllSound /\ WrittenInNamespace
  BY DEF Init, AllSound, WrittenInNamespace, Sound, NoRows
<1>3. Moving
  BY DEF Init, Moving, Idle
<1> QED BY <1>1, <1>2, <1>3 DEF ColumnInv

\* What a transaction sees of a row is sound.
LEMMA VisibleIsSound ==
  ASSUME ColumnInv, NEW t \in Task, NEW m \in Node
  PROVE  Visible(t, m) \in Row \cup {None} /\ Sound(m, Visible(t, m))
  BY DEF ColumnInv, TypeOK, AllSound, Visible

LEMMA ColumnCreate ==
  ASSUME ColumnInv,
         NEW t \in Task, NEW n \in Node, NEW p \in Node \cup {None}, Create(t, n, p)
  PROVE  ColumnInv'
<1> USE DEF ColumnInv
<1> DEFINE above == IF p = None THEN <<>> ELSE row[p].path
<1>1. above \in Seq(Label) /\ Len(above) \in Nat
  <2>1. CASE p = None
    BY <2>1, EmptySeq
  <2>2. CASE p # None
    <3>1. row[p] \in Row
      BY <2>2 DEF Create, Stored, TypeOK
    <3> QED BY <2>2, <3>1, RowFields
  <2> QED BY <2>1, <2>2
<1>2. row' = [row EXCEPT ![n] =
        [path |-> Append(above, NameOf[n]), parent |-> p, depth |-> Len(above)]]
  BY DEF Create
<1>3. NameOf[n] \in Label
  BY HierarchyModelAssumption
<1> HIDE DEF above
<1> DEFINE r == [path |-> Append(above, NameOf[n]), parent |-> p, depth |-> Len(above)]
<1>4. /\ Append(above, NameOf[n]) \in Seq(Label)
      /\ Len(Append(above, NameOf[n])) = Len(above) + 1
      /\ Last(Append(above, NameOf[n])) = NameOf[n]
  BY <1>1, <1>3, LastOfAppend
<1>5. r \in Row /\ Sound(n, r)
  BY <1>1, <1>4 DEF Row, Sound
<1>6. UNCHANGED <<view, move, written>>
  BY DEF Create
<1> HIDE DEF r
<1>7. row' = [row EXCEPT ![n] = r]
  BY <1>2 DEF r
<1>8. TypeOK'
  BY <1>5, <1>6, <1>7 DEF TypeOK
<1>9. AllSound'
  BY <1>5, <1>6, <1>7 DEF AllSound, TypeOK
<1>10. Moving' /\ WrittenInNamespace'
  BY <1>6 DEF Moving, WrittenInNamespace
<1> QED BY <1>8, <1>9, <1>10

LEMMA ColumnViews ==
  ASSUME ColumnInv, NEW t \in Task, NEW n \in Node, Load(t, n) \/ Drop(t, n)
  PROVE  ColumnInv'
<1> USE DEF ColumnInv
<1> DEFINE v == view'[t][n]
<1>1. /\ v \in Row \cup {None} /\ Sound(n, v)
      /\ view' = [view EXCEPT ![t][n] = v]
      /\ UNCHANGED <<row, move, written>>
      /\ move[t].at = "idle"
  <2>1. CASE Load(t, n)
    BY <2>1 DEF Load, TypeOK, AllSound
  <2>2. CASE Drop(t, n)
    BY <2>2 DEF Drop, TypeOK, Sound
  <2> QED BY <2>1, <2>2
<1> HIDE DEF v
<1>2. TypeOK'
  BY <1>1 DEF TypeOK
<1>3. AllSound'
  BY <1>1 DEF AllSound, TypeOK
<1>4. Moving' /\ WrittenInNamespace'
  BY <1>1 DEF Moving, WrittenInNamespace, TypeOK
<1> QED BY <1>2, <1>3, <1>4

LEMMA ColumnMoveTo ==
  ASSUME ColumnInv, NEW t \in Task, NEW n \in Node, NEW p \in Node, MoveTo(t, n, p)
  PROVE  ColumnInv'
<1> USE DEF ColumnInv
<1>1. /\ move' = [move EXCEPT ![t] =
           [at |-> "update", node |-> n, under |-> p, matched |-> {}]]
      /\ view[t][n] # None /\ view[t][p] # None
      /\ UNCHANGED <<row, view, written>>
      /\ move[t].at = "idle"
      /\ SameNamespace(n, p)
  BY DEF MoveTo, MayStart
<1>2. TypeOK'
  BY <1>1 DEF TypeOK
<1>3. AllSound'
  BY <1>1 DEF AllSound
<1>4. Moving'
  BY <1>1 DEF Moving, TypeOK, SameNamespace
<1>5. WrittenInNamespace'
  BY <1>1 DEF WrittenInNamespace, TypeOK
<1> QED BY <1>2, <1>3, <1>4, <1>5

LEMMA ColumnUpdateSelf ==
  ASSUME ColumnInv, NEW t \in Task, UpdateSelf(t)
  PROVE  ColumnInv'
<1> USE DEF ColumnInv
<1> DEFINE n == move[t].node
           r == [path |-> NewPath(t), parent |-> move[t].under, depth |-> NewDepth(t)]
<1>1. /\ move[t].at = "update"
      /\ written' = [written EXCEPT ![t][n] = r]
      /\ move' = [move EXCEPT ![t].at = "match"]
      /\ UNCHANGED <<row, view>>
  BY DEF UpdateSelf, Goto
<1>2. r \in Row /\ Sound(n, r) /\ n \in Node
  BY <1>1, MovedRow DEF Moving
<1> HIDE DEF n, r
<1>3. TypeOK'
  BY <1>1, <1>2 DEF TypeOK
<1>4. AllSound'
  BY <1>1, <1>2 DEF AllSound, TypeOK
<1>5. Moving'
  BY <1>1, <1>2, RowFields DEF Moving, TypeOK, n, SameNamespace
<1>6. WrittenInNamespace'
  BY <1>1, <1>2 DEF WrittenInNamespace, TypeOK, SameNamespace, n
<1> QED BY <1>3, <1>4, <1>5, <1>6

LEMMA ColumnMatch ==
  ASSUME ColumnInv, NEW t \in Task, Match(t)
  PROVE  ColumnInv'
<1> USE DEF ColumnInv
<1> DEFINE M == {m \in Node : Below(t, m)}
<1>1. /\ move[t].at = "match" /\ M \subseteq Node
      /\ move' = [move EXCEPT ![t].at = "cascade", ![t].matched = M]
      /\ UNCHANGED <<row, view, written>>
  BY DEF Match
<1> HIDE DEF M
<1>2. TypeOK'
  <2> DEFINE Move == [at : {"idle", "update", "match", "cascade", "refresh", "commit"},
                      node : Node \cup {None}, under : Node \cup {None},
                      matched : SUBSET Node]
  <2>1. move[t] \in Move /\ move \in [Task -> Move]
    BY DEF TypeOK
  <2>2. [move[t] EXCEPT !.at = "cascade", !.matched = M] \in Move
    BY <1>1, <2>1
  <2>3. move' \in [Task -> Move]
    <3> HIDE DEF Move
    <3> QED BY <1>1, <2>1, <2>2
  <2> QED BY <1>1, <2>3 DEF TypeOK
<1>3. AllSound'
  BY <1>1 DEF AllSound
<1>4. Moving' /\ WrittenInNamespace'
  BY <1>1 DEF Moving, WrittenInNamespace, TypeOK
<1> QED BY <1>2, <1>3, <1>4

LEMMA ColumnCascade ==
  ASSUME ColumnInv, NEW t \in Task, Cascade(t)
  PROVE  ColumnInv'
<1> USE DEF ColumnInv
<1> DEFINE w(m) == IF m \in move[t].matched /\ Below(t, m)
                     THEN Shifted(t, Visible(t, m)) ELSE written[t][m]
<1>1. /\ move[t].at = "cascade"
      /\ written' = [written EXCEPT ![t] = [m \in Node |-> w(m)]]
      /\ move' = [move EXCEPT ![t].at = "refresh"]
      /\ UNCHANGED <<row, view>>
  BY DEF Cascade, Goto, TypeOK
<1>2. ASSUME NEW m \in Node
      PROVE  /\ w(m) \in Row \cup {None} /\ Sound(m, w(m))
             /\ w(m) # None => SameNamespace(m, move[t].node)
             /\ m = move[t].node => w(m) = written[t][m]
  <2>1. CASE m \in move[t].matched /\ Below(t, m)
    <3>1. Visible(t, m) \in Row /\ Sound(m, Visible(t, m))
      BY <2>1, VisibleIsSound DEF Below
    <3>2. IsPrefix(OldPath(t), Visible(t, m).path) /\ SameNamespace(m, move[t].node)
      BY <2>1 DEF Below
    <3>3. Shifted(t, Visible(t, m)) \in Row /\ Sound(m, Shifted(t, Visible(t, m)))
      BY <1>1, <3>1, <3>2, ShiftedRow
    <3>4. m # move[t].node
      BY <2>1 DEF Below
    <3> QED BY <2>1, <3>2, <3>3, <3>4
  <2>2. CASE ~(m \in move[t].matched /\ Below(t, m))
    BY <2>2 DEF TypeOK, AllSound, WrittenInNamespace
  <2> QED BY <2>1, <2>2
<1> HIDE DEF w
<1>3. TypeOK'
  BY <1>1, <1>2 DEF TypeOK
<1>4. AllSound'
  BY <1>1, <1>2 DEF AllSound, TypeOK
<1>5. Moving'
  BY <1>1, <1>2 DEF Moving, TypeOK, SameNamespace
<1>6. WrittenInNamespace'
  BY <1>1, <1>2 DEF WrittenInNamespace, TypeOK, SameNamespace
<1> QED BY <1>3, <1>4, <1>5, <1>6

LEMMA ColumnRefresh ==
  ASSUME ColumnInv, NEW t \in Task, Refresh(t)
  PROVE  ColumnInv'
<1> USE DEF ColumnInv
<1> DEFINE n == move[t].node
           r == Visible(t, n)
<1>1. /\ move[t].at = "refresh"
      /\ view' = [view EXCEPT ![t][n] = r]
      /\ move' = [move EXCEPT ![t].at = "commit"]
      /\ UNCHANGED <<row, written>>
  BY DEF Refresh, Goto
<1>2. n \in Node /\ r \in Row /\ Sound(n, r)
  <2>1. n \in Node /\ written[t][n] # None
    BY <1>1 DEF Moving
  <2>2. r # None
    BY <2>1 DEF Visible
  <2> QED BY <2>1, <2>2, VisibleIsSound
<1>3. r # None
  BY <1>2, NoneIsNoRow
<1> HIDE DEF n, r
<1>4. TypeOK'
  BY <1>1, <1>2 DEF TypeOK
<1>5. AllSound'
  BY <1>1, <1>2 DEF AllSound, TypeOK
<1>6. Moving' /\ WrittenInNamespace'
  BY <1>1, <1>2, <1>3 DEF Moving, WrittenInNamespace, TypeOK
<1> QED BY <1>4, <1>5, <1>6

LEMMA ColumnEnd ==
  ASSUME ColumnInv, NEW t \in Task, Commit(t) \/ Rollback(t)
  PROVE  ColumnInv'
<1> USE DEF ColumnInv
<1>1. /\ move' = [move EXCEPT ![t] = Idle]
      /\ written' = [written EXCEPT ![t] = NoRows]
      /\ UNCHANGED view
  BY DEF Commit, Rollback, EndTransaction
<1>2. row' \in [Node -> Row \cup {None}] /\ \A m \in Node : Sound(m, row'[m])
  <2>1. CASE Commit(t)
    BY <2>1, VisibleIsSound DEF Commit
  <2>2. CASE Rollback(t)
    BY <2>2 DEF Rollback, TypeOK, AllSound
  <2> QED BY <2>1, <2>2
<1>3. TypeOK'
  BY <1>1, <1>2 DEF TypeOK, Idle, NoRows
<1>4. AllSound'
  BY <1>1, <1>2 DEF AllSound, NoRows, Sound, TypeOK
<1>5. Moving' /\ WrittenInNamespace'
  BY <1>1 DEF Moving, WrittenInNamespace, NoRows, Idle, TypeOK
<1> QED BY <1>3, <1>4, <1>5

LEMMA ColumnStep ==
  ASSUME ColumnInv, [Next]_vars
  PROVE  ColumnInv'
<1>1. CASE UNCHANGED vars
  BY <1>1 DEF vars, ColumnInv, TypeOK, AllSound, Moving, WrittenInNamespace, SameNamespace
<1>2. ASSUME NEW t \in Task, NEW n \in Node, NEW p \in Node \cup {None}, Create(t, n, p)
      PROVE  ColumnInv'
  BY <1>2, ColumnCreate
<1>3. ASSUME NEW t \in Task, NEW n \in Node, Load(t, n) \/ Drop(t, n)
      PROVE  ColumnInv'
  BY <1>3, ColumnViews
<1>4. ASSUME NEW t \in Task, NEW n \in Node, NEW p \in Node, MoveTo(t, n, p)
      PROVE  ColumnInv'
  BY <1>4, ColumnMoveTo
<1>5. ASSUME NEW t \in Task,
             \/ UpdateSelf(t) \/ Match(t) \/ Cascade(t)
             \/ Refresh(t) \/ Commit(t) \/ Rollback(t)
      PROVE  ColumnInv'
  BY <1>5, ColumnUpdateSelf, ColumnMatch, ColumnCascade, ColumnRefresh, ColumnEnd
<1> QED BY <1>1, <1>2, <1>3, <1>4, <1>5 DEF Next

\* The columns keep their types however moves interleave, go stale or meet nodes of one
\* name: what the cascade computes is always a path and a depth.
THEOREM TypeCorrect == Spec => []TypeOK
<1>1. ColumnInv => TypeOK
  BY DEF ColumnInv
<1> QED BY <1>1, ColumnInit, ColumnStep, PTL DEF Spec

\* The depth of every node is that of its path, and its path ends with its name, under
\* the same overlapping and outdated moves.
THEOREM ColumnsAgree == Spec => []DepthsAndNamesMatch
<1>1. ColumnInv => DepthsAndNamesMatch
  BY DEF ColumnInv, AllSound, Sound, DepthsAndNamesMatch, Stored
<1> QED BY <1>1, ColumnInit, ColumnStep, PTL DEF Spec

\* A stored row changes only when a move in its own namespace commits.
THEOREM NamespaceIsolation == Spec => MovesStayInNamespace
<1> DEFINE Changes(m) == row'[m] # row[m] =>
             \E t \in Task : move[t].at = "commit" /\ SameNamespace(m, move[t].node)
           Step == \A m \in Stored : Changes(m)
<1>1. ColumnInv /\ [Next]_vars => Step
  <2> SUFFICES ASSUME ColumnInv, [Next]_vars, NEW m \in Stored PROVE Changes(m)
    OBVIOUS
  <2> USE DEF ColumnInv
  <2>1. m \in Node /\ row[m] # None
    BY DEF Stored
  <2>2. CASE UNCHANGED vars
    BY <2>2 DEF vars
  <2>3. ASSUME NEW t \in Task, NEW n \in Node, NEW p \in Node \cup {None}, Create(t, n, p)
        PROVE  Changes(m)
    BY <2>1, <2>3 DEF Create, Stored, TypeOK
  <2>4. ASSUME NEW t \in Task, Commit(t)
        PROVE  Changes(m)
    BY <2>1, <2>4 DEF Commit, Visible, WrittenInNamespace
  <2>5. ASSUME NEW t \in Task,
               \/ \E n \in Node : Load(t, n) \/ Drop(t, n)
               \/ \E n, p \in Node : MoveTo(t, n, p)
               \/ UpdateSelf(t) \/ Match(t) \/ Cascade(t) \/ Refresh(t) \/ Rollback(t)
        PROVE  Changes(m)
    BY <2>5 DEF Load, Drop, MoveTo, UpdateSelf, Match, Cascade, Refresh, Rollback
  <2> QED BY <2>2, <2>3, <2>4, <2>5 DEF Next
<1>2. Spec => [][Step]_vars
  <2>1. ColumnInv /\ [Next]_vars => [Step]_vars
    BY <1>1
  <2> QED BY <2>1, ColumnInit, ColumnStep, PTL DEF Spec
<1> QED BY <1>2 DEF MovesStayInNamespace

-----------------------------------------------------------------------------
(* Prefixes of paths.                                                        *)

Path == Seq(Label)

LEMMA PrefixElements ==
  ASSUME NEW s \in Path, NEW t \in Path
  PROVE  IsPrefix(s, t) <=> Len(s) <= Len(t) /\ \A i \in 1 .. Len(s) : s[i] = t[i]
<1>1. Len(s) \in Nat /\ Len(t) \in Nat
  BY LenProperties DEF Path
<1>2. SubSeq(s, 1, Len(s)) = s
  BY SubSeqFull DEF Path
<1>3. ASSUME Len(s) <= Len(t)
      PROVE  SubSeq(t, 1, Len(s)) = s <=> \A i \in 1 .. Len(s) : s[i] = t[i]
  <2>1. \A i \in 1 .. Len(s) : t[i] \in Label
    BY <1>1, <1>3, ElementOfSeq DEF Path
  <2> DEFINE u == SubSeq(t, 1, Len(s))
             k == Len(s)
  <2>2. /\ SubSeq(t, 1, k) \in Path
        /\ Len(SubSeq(t, 1, k)) = IF 1 <= k THEN k - 1 + 1 ELSE 0
        /\ \A i \in 1 .. k - 1 + 1 : SubSeq(t, 1, k)[i] = t[1 + i - 1]
    <3>1. 1 \in Int /\ k \in Int /\ \A i \in 1 .. k : t[i] \in Label
      BY <1>1, <2>1
    <3> HIDE DEF k
    <3> QED BY <3>1, SubSeqProperties DEF Path
  <2>3. u \in Path /\ Len(u) = Len(s) /\ \A i \in 1 .. Len(s) : u[i] = t[i]
    BY <1>1, <2>2
  <2> HIDE DEF u
  <2>4. u = s <=> \A i \in 1 .. Len(s) : s[i] = t[i]
    BY <2>3, SeqEqual DEF Path
  <2> QED BY <2>4 DEF u
<1> QED BY <1>2, <1>3 DEF IsPrefix

LEMMA PrefixOrder ==
  ASSUME NEW s \in Path, NEW t \in Path, NEW u \in Path
  PROVE  /\ IsPrefix(s, s)
         /\ IsPrefix(s, t) /\ IsPrefix(t, u) => IsPrefix(s, u)
         /\ IsPrefix(s, t) /\ Len(s) = Len(t) => s = t
         /\ IsPrefix(s, t) => Len(s) <= Len(t)
         /\ IsPrefix(s, u) /\ IsPrefix(t, u) /\ Len(s) <= Len(t) => IsPrefix(s, t)
<1>1. Len(s) \in Nat /\ Len(t) \in Nat /\ Len(u) \in Nat
  BY LenProperties DEF Path
<1>2. IsPrefix(s, t) /\ Len(s) = Len(t) => s = t
  BY PrefixElements, SeqEqual DEF Path
<1>3. \A i \in 1 .. Len(s) : Len(s) <= Len(t) => i \in 1 .. Len(t)
  BY <1>1
<1> QED BY <1>1, <1>2, <1>3, PrefixElements

LEMMA PrefixOfAppend ==
  ASSUME NEW s \in Path, NEW t \in Path, NEW e \in Label
  PROVE  /\ IsPrefix(t, Append(t, e))
         /\ IsPrefix(s, Append(t, e)) => s = Append(t, e) \/ IsPrefix(s, t)
         /\ IsPrefix(s, t) => IsPrefix(s, Append(t, e))
<1> DEFINE a == Append(t, e)
<1>1. Len(s) \in Nat /\ Len(t) \in Nat
  BY LenProperties DEF Path
<1>2. /\ a \in Path /\ Len(a) = Len(t) + 1
      /\ \A i \in 1 .. Len(t) : a[i] = t[i]
  BY AppendProperties DEF Path
<1> HIDE DEF a
<1>3. IsPrefix(t, a)
  BY <1>1, <1>2, PrefixElements
<1>4. ASSUME IsPrefix(s, a) PROVE s = a \/ IsPrefix(s, t)
  <2>1. Len(s) <= Len(a)
    BY <1>2, <1>4, PrefixElements
  <2>2. CASE Len(s) = Len(a)
    BY <1>2, <1>4, <2>2, PrefixOrder
  <2>3. CASE Len(s) <= Len(t)
    BY <1>2, <1>3, <1>4, <2>3, PrefixOrder
  <2> QED BY <1>1, <1>2, <2>1, <2>2, <2>3
<1>5. IsPrefix(s, t) => IsPrefix(s, a)
  BY <1>2, <1>3, PrefixOrder
<1> QED BY <1>3, <1>4, <1>5 DEF a

LEMMA TakePrefix ==
  ASSUME NEW t \in Path, NEW k \in 0 .. Len(t)
  PROVE  LET s == SubSeq(t, 1, k) IN s \in Path /\ Len(s) = k /\ IsPrefix(s, t)
<1>1. Len(t) \in Nat /\ k \in Nat /\ k <= Len(t)
  BY LenProperties DEF Path
<1>2. \A i \in 1 .. k : t[i] \in Label
  BY <1>1, ElementOfSeq DEF Path
<1>3. /\ SubSeq(t, 1, k) \in Path
      /\ Len(SubSeq(t, 1, k)) = IF 1 <= k THEN k - 1 + 1 ELSE 0
      /\ \A i \in 1 .. k - 1 + 1 : SubSeq(t, 1, k)[i] = t[1 + i - 1]
  BY <1>1, <1>2, SubSeqProperties DEF Path
<1> DEFINE s == SubSeq(t, 1, k)
<1>4. s \in Path /\ Len(s) = k /\ \A i \in 1 .. k : s[i] = t[i]
  BY <1>1, <1>3
<1> HIDE DEF s
<1>5. IsPrefix(s, t)
  BY <1>1, <1>4, PrefixElements
<1> QED BY <1>4, <1>5 DEF s

LEMMA PrefixesAre ==
  ASSUME NEW s \in Path, NEW t \in Path
  PROVE  s \in Prefixes(t) <=> IsPrefix(s, t)
<1>1. Len(s) \in Nat /\ Len(t) \in Nat
  BY LenProperties DEF Path
<1>2. ASSUME s \in Prefixes(t) PROVE IsPrefix(s, t)
  BY <1>2, TakePrefix DEF Prefixes
<1>3. ASSUME IsPrefix(s, t) PROVE s \in Prefixes(t)
  <2>1. Len(s) \in 0 .. Len(t) /\ SubSeq(t, 1, Len(s)) = s
    BY <1>1, <1>3, SubSeqFull DEF Path, IsPrefix
  <2> QED BY <2>1 DEF Prefixes
<1> QED BY <1>2, <1>3

-----------------------------------------------------------------------------
(* _PrefixReplace: the new path, and what follows the old one.               *)

Rebase(old, new, path) == new \o SubSeq(path, Len(old) + 1, Len(path))

LEMMA RebaseShape ==
  ASSUME NEW old \in Path, NEW new \in Path, NEW path \in Path, IsPrefix(old, path)
  PROVE  LET r == Rebase(old, new, path) IN
         /\ r \in Path /\ Len(r) = Len(new) + (Len(path) - Len(old))
         /\ \A i \in 1 .. Len(new) : r[i] = new[i]
         /\ \A i \in 1 .. Len(path) - Len(old) : r[Len(new) + i] = path[Len(old) + i]
<1> DEFINE tail == SubSeq(path, Len(old) + 1, Len(path))
           r == Rebase(old, new, path)
           o == Len(old)
           k == Len(path) - Len(old)
<1>1. /\ Len(old) \in Nat /\ Len(new) \in Nat /\ Len(path) \in Nat /\ Len(old) <= Len(path)
      /\ k \in Nat /\ Len(path) = o + k
  BY LenProperties, PrefixOrder DEF Path
<1>2. tail \in Path /\ Len(tail) = k /\ \A i \in 1 .. k : tail[i] = path[o + i]
  <2>1. \A i \in o + 1 .. Len(path) : path[i] \in Label
    BY <1>1, ElementOfSeq DEF Path
  <2>2. /\ tail \in Seq(Label)
        /\ Len(tail) = IF o + 1 <= Len(path) THEN Len(path) - (o + 1) + 1 ELSE 0
        /\ \A i \in 1 .. Len(path) - (o + 1) + 1 : tail[i] = path[(o + 1) + i - 1]
    BY <1>1, <2>1, SubSeqProperties
  <2>3. \A i \in 1 .. k : i \in 1 .. Len(path) - (o + 1) + 1 /\ (o + 1) + i - 1 = o + i
    BY <1>1
  <2> QED BY <1>1, <2>2, <2>3 DEF Path
<1>3. /\ r \in Path
      /\ Len(r) = Len(new) + k
      /\ \A i \in 1 .. Len(new) + k :
           r[i] = IF i <= Len(new) THEN new[i] ELSE tail[i - Len(new)]
  <2>1. r = new \o tail
    BY DEF Rebase
  <2>2. tail \in Seq(Label) /\ Len(tail) = k
    BY <1>2 DEF Path
  <2> HIDE DEF tail, k, r
  <2>3. /\ new \o tail \in Seq(Label)
        /\ Len(new \o tail) = Len(new) + Len(tail)
        /\ \A i \in 1 .. Len(new) + Len(tail) :
             (new \o tail)[i] = IF i <= Len(new) THEN new[i] ELSE tail[i - Len(new)]
    BY <2>2, ConcatProperties DEF Path
  <2> QED BY <2>1, <2>2, <2>3 DEF Path
<1> HIDE DEF r, tail, o, k
<1>4. \A i \in 1 .. Len(new) : r[i] = new[i]
  BY <1>1, <1>3
<1>5. ASSUME NEW i \in 1 .. k PROVE r[Len(new) + i] = path[o + i]
  <2>1. /\ Len(new) + i \in 1 .. Len(new) + k /\ ~(Len(new) + i <= Len(new))
        /\ Len(new) + i - Len(new) = i
    BY <1>1
  <2> QED BY <1>2, <1>3, <2>1
<1> QED BY <1>3, <1>4, <1>5 DEF r, o, k

LEMMA RebaseOld ==
  ASSUME NEW old \in Path, NEW new \in Path
  PROVE  IsPrefix(old, old) /\ Rebase(old, new, old) = new
<1> DEFINE x == Rebase(old, new, old)
<1>1. Len(old) \in Nat /\ Len(new) \in Nat /\ IsPrefix(old, old)
  BY LenProperties, PrefixOrder DEF Path
<1>2. x \in Path /\ Len(x) = Len(new) + (Len(old) - Len(old))
      /\ \A i \in 1 .. Len(new) : x[i] = new[i]
  BY <1>1, RebaseShape
<1> HIDE DEF x
<1>3. x = new
  BY <1>1, <1>2, SeqEqual DEF Path
<1> QED BY <1>1, <1>3 DEF x

LEMMA RebaseIsOver ==
  ASSUME NEW old \in Path, NEW new \in Path, NEW path \in Path, IsPrefix(old, path)
  PROVE  /\ IsPrefix(new, Rebase(old, new, path))
         /\ Rebase(old, new, path) = path <=> old = new
<1> DEFINE r == Rebase(old, new, path)
<1>1. Len(old) \in Nat /\ Len(new) \in Nat /\ Len(path) \in Nat /\ Len(old) <= Len(path)
  BY LenProperties, PrefixOrder DEF Path
<1>2. /\ r \in Path /\ Len(r) = Len(new) + (Len(path) - Len(old))
      /\ \A i \in 1 .. Len(new) : r[i] = new[i]
      /\ \A i \in 1 .. Len(path) - Len(old) : r[Len(new) + i] = path[Len(old) + i]
  BY RebaseShape
<1> HIDE DEF r
<1>3. IsPrefix(new, r)
  BY <1>1, <1>2, PrefixElements
<1>4. ASSUME r = path PROVE old = new
  <2>1. Len(new) = Len(old)
    BY <1>1, <1>2, <1>4
  <2> QED BY <1>3, <1>4, <2>1, PrefixOrder
<1>5. ASSUME old = new PROVE r = path
  <2>1. Len(r) = Len(path) /\ IsPrefix(old, r)
    BY <1>1, <1>2, <1>3, <1>5
  <2>2. ASSUME NEW i \in 1 .. Len(path) PROVE r[i] = path[i]
    <3>1. CASE i <= Len(old)
      BY <1>1, <1>2, <1>5, <3>1, PrefixElements
    <3>2. CASE i > Len(old)
      <4>1. i - Len(old) \in 1 .. Len(path) - Len(old) /\ Len(old) + (i - Len(old)) = i
        BY <1>1, <3>2
      <4> QED BY <1>2, <1>5, <4>1
    <3> QED BY <1>1, <3>1, <3>2
  <2> QED BY <1>2, <2>1, <2>2, SeqEqual DEF Path
<1> QED BY <1>3, <1>4, <1>5 DEF r

LEMMA RebaseInjective ==
  ASSUME NEW old \in Path, NEW new \in Path, NEW s \in Path, NEW t \in Path,
         IsPrefix(old, s), IsPrefix(old, t), Rebase(old, new, s) = Rebase(old, new, t)
  PROVE  s = t
<1>1. /\ Len(old) \in Nat /\ Len(new) \in Nat /\ Len(s) \in Nat /\ Len(t) \in Nat
      /\ Len(old) <= Len(s) /\ Len(old) <= Len(t)
  BY LenProperties, PrefixOrder DEF Path
<1>2. Len(s) = Len(t)
  BY <1>1, RebaseShape
<1>3. ASSUME NEW i \in 1 .. Len(s) PROVE s[i] = t[i]
  <2>1. CASE i <= Len(old)
    BY <1>1, <2>1, PrefixElements
  <2>2. CASE i > Len(old)
    <3> DEFINE j == i - Len(old)
    <3>1. j \in 1 .. Len(s) - Len(old) /\ j \in 1 .. Len(t) - Len(old) /\ Len(old) + j = i
      BY <1>1, <1>2, <2>2
    <3>2. /\ Rebase(old, new, s)[Len(new) + j] = s[Len(old) + j]
          /\ Rebase(old, new, t)[Len(new) + j] = t[Len(old) + j]
      <4>1. /\ \A k \in 1 .. Len(s) - Len(old) : Rebase(old, new, s)[Len(new) + k] = s[Len(old) + k]
            /\ \A k \in 1 .. Len(t) - Len(old) : Rebase(old, new, t)[Len(new) + k] = t[Len(old) + k]
        BY RebaseShape
      <4> HIDE DEF j
      <4> QED BY <3>1, <4>1
    <3> QED BY <3>1, <3>2
  <2> QED BY <1>1, <2>1, <2>2
<1> QED BY <1>2, <1>3, SeqEqual DEF Path

LEMMA RebaseAppend ==
  ASSUME NEW old \in Path, NEW new \in Path, NEW path \in Path, NEW e \in Label,
         IsPrefix(old, path)
  PROVE  Rebase(old, new, Append(path, e)) = Append(Rebase(old, new, path), e)
<1> DEFINE a == Append(path, e)
           r == Rebase(old, new, path)
           x == Rebase(old, new, a)
           y == Append(r, e)
<1>1. Len(old) \in Nat /\ Len(new) \in Nat /\ Len(path) \in Nat /\ Len(old) <= Len(path)
  BY LenProperties, PrefixOrder DEF Path
<1>2. /\ a \in Path /\ Len(a) = Len(path) + 1 /\ a[Len(path) + 1] = e
      /\ \A i \in 1 .. Len(path) : a[i] = path[i]
  BY AppendProperties DEF Path
<1>3. IsPrefix(old, a)
  BY PrefixOfAppend
<1>4. /\ r \in Path /\ Len(r) = Len(new) + (Len(path) - Len(old))
      /\ \A i \in 1 .. Len(new) : r[i] = new[i]
      /\ \A i \in 1 .. Len(path) - Len(old) : r[Len(new) + i] = path[Len(old) + i]
  BY RebaseShape
<1> HIDE DEF a
<1>5. /\ x \in Path /\ Len(x) = Len(new) + (Len(a) - Len(old))
      /\ \A i \in 1 .. Len(new) : x[i] = new[i]
      /\ \A i \in 1 .. Len(a) - Len(old) : x[Len(new) + i] = a[Len(old) + i]
  BY <1>2, <1>3, RebaseShape
<1> HIDE DEF r, x
<1>6. /\ y \in Path /\ Len(y) = Len(r) + 1 /\ y[Len(r) + 1] = e
      /\ \A i \in 1 .. Len(r) : y[i] = r[i]
  <2>1. r \in Seq(Label)
    BY <1>4 DEF Path
  <2> QED BY <2>1, AppendProperties DEF Path
<1> HIDE DEF y
<1>7. Len(x) = Len(y)
  BY <1>1, <1>2, <1>4, <1>5, <1>6
<1>8. ASSUME NEW i \in 1 .. Len(x) PROVE x[i] = y[i]
  <2>1. CASE i <= Len(new)
    <3>1. i \in 1 .. Len(new) /\ i \in 1 .. Len(r)
      BY <1>1, <1>4, <2>1
    <3> QED BY <1>4, <1>5, <1>6, <3>1
  <2>2. CASE i > Len(new) /\ i <= Len(r)
    <3> DEFINE j == i - Len(new)
    <3>1. /\ j \in 1 .. Len(path) - Len(old) /\ j \in 1 .. Len(a) - Len(old)
          /\ Len(new) + j = i /\ Len(old) + j \in 1 .. Len(path) /\ i \in 1 .. Len(r)
      BY <1>1, <1>2, <1>4, <2>2
    <3> HIDE DEF j
    <3> QED BY <1>2, <1>4, <1>5, <1>6, <3>1
  <2>3. CASE i = Len(r) + 1
    <3> DEFINE j == i - Len(new)
    <3>1. j \in 1 .. Len(a) - Len(old) /\ Len(new) + j = i /\ Len(old) + j = Len(path) + 1
      BY <1>1, <1>2, <1>4, <2>3
    <3> HIDE DEF j
    <3> QED BY <1>2, <1>5, <1>6, <2>3, <3>1
  <2>4. i \in Nat /\ Len(r) \in Nat /\ i <= Len(r) + 1
    BY <1>1, <1>2, <1>4, <1>5
  <2> HIDE DEF x, y
  <2> QED BY <1>1, <2>1, <2>2, <2>3, <2>4
<1>9. x = y
  BY <1>5, <1>6, <1>7, <1>8, SeqEqual DEF Path
<1> QED BY <1>9 DEF x, y, a, r

\* What a rebased path begins with is the new path or less, or is rebased itself.
LEMMA PrefixOfRebased ==
  ASSUME NEW old \in Path, NEW new \in Path, NEW path \in Path, IsPrefix(old, path),
         NEW s \in Path, IsPrefix(s, Rebase(old, new, path)), ~IsPrefix(s, new)
  PROVE  \E x \in Path : IsPrefix(old, x) /\ IsPrefix(x, path) /\ s = Rebase(old, new, x)
<1> DEFINE r == Rebase(old, new, path)
           k == Len(old) + (Len(s) - Len(new))
           x == SubSeq(path, 1, k)
           y == Rebase(old, new, x)
<1>1. /\ Len(old) \in Nat /\ Len(new) \in Nat /\ Len(path) \in Nat /\ Len(old) <= Len(path)
      /\ Len(s) \in Nat
  BY LenProperties, PrefixOrder DEF Path
<1>2. /\ r \in Path /\ Len(r) = Len(new) + (Len(path) - Len(old)) /\ IsPrefix(new, r)
  BY RebaseShape, RebaseIsOver
<1>3. Len(s) <= Len(r) /\ Len(new) <= Len(s)
  <2> HIDE DEF r
  <2>1. IsPrefix(s, r)
    BY DEF r
  <2> QED BY <1>1, <1>2, <2>1, PrefixOrder
<1>4. k \in 0 .. Len(path) /\ Len(old) <= k
  <2> HIDE DEF r
  <2> QED BY <1>1, <1>2, <1>3
<1>5. x \in Path /\ Len(x) = k /\ IsPrefix(x, path)
  <2> HIDE DEF k
  <2> QED BY <1>4, TakePrefix
<1>6. IsPrefix(old, x)
  <2> HIDE DEF x, k
  <2> QED BY <1>4, <1>5, PrefixOrder
<1>7. y \in Path /\ Len(y) = Len(s)
  <2>1. y \in Path /\ Len(y) = Len(new) + (Len(x) - Len(old))
    <3> HIDE DEF x
    <3> QED BY <1>5, <1>6, RebaseShape
  <2> HIDE DEF x, y
  <2> QED BY <1>1, <1>5, <2>1
<1>8. IsPrefix(y, r)
  <2>0. /\ \A i \in 1 .. Len(new) : r[i] = new[i]
        /\ \A i \in 1 .. Len(path) - Len(old) : r[Len(new) + i] = path[Len(old) + i]
    BY RebaseShape
  <2>1. /\ \A i \in 1 .. Len(new) : y[i] = new[i]
        /\ \A i \in 1 .. Len(x) - Len(old) : y[Len(new) + i] = x[Len(old) + i]
    <3> HIDE DEF x
    <3> QED BY <1>5, <1>6, RebaseShape
  <2>2. \A i \in 1 .. Len(x) : x[i] = path[i]
    <3> HIDE DEF x
    <3> QED BY <1>5, PrefixElements
  <2>3. Len(x) = Len(old) + (Len(s) - Len(new))
    BY <1>5
  <2> HIDE DEF x, y, r, k
  <2>4. ASSUME NEW i \in 1 .. Len(y) PROVE y[i] = r[i]
    <3>1. CASE i <= Len(new)
      BY <1>1, <2>0, <2>1, <3>1
    <3>2. CASE i > Len(new)
      <4> DEFINE j == i - Len(new)
      <4>1. /\ j \in 1 .. Len(x) - Len(old) /\ j \in 1 .. Len(path) - Len(old)
            /\ Len(new) + j = i /\ Len(old) + j \in 1 .. Len(x)
        BY <1>1, <1>2, <1>3, <1>7, <2>3, <3>2
      <4> HIDE DEF j
      <4> QED BY <2>0, <2>1, <2>2, <4>1
    <3> QED BY <1>1, <3>1, <3>2
  <2> QED BY <1>2, <1>3, <1>7, <2>4, PrefixElements
<1>9. y = s
  <2> HIDE DEF x, y, r
  <2>1. IsPrefix(s, r)
    BY DEF r
  <2>2. IsPrefix(y, s)
    BY <1>1, <1>2, <1>7, <1>8, <2>1, PrefixOrder
  <2> QED BY <1>7, <2>2, PrefixOrder
<1> QED BY <1>5, <1>6, <1>9

-----------------------------------------------------------------------------
(* The tree, where moves neither overlap nor work on outdated instances, and *)
(* where siblings have names of their own.                                   *)

OneAtATime == Allowed = {}

\* A path is that of the parent, and the name.
Chained ==
  \A m \in Stored :
    IF row[m].parent = None THEN row[m].path = <<NameOf[m]>>
    ELSE /\ row[m].parent \in Stored /\ SameNamespace(row[m].parent, m)
         /\ row[m].path = Append(row[row[m].parent].path, NameOf[m])

\* No two nodes of a namespace have the same path.
PathsDiffer ==
  \A m, q \in Stored : SameNamespace(m, q) /\ row[m].path = row[q].path => m = q

\* Every prefix of a path is the path of a node.
Rooted ==
  \A m \in Stored : \A s \in Path :
    s # <<>> /\ IsPrefix(s, row[m].path) =>
      \E q \in Stored : SameNamespace(q, m) /\ row[q].path = s

Tree == Chained /\ PathsDiffer /\ Rooted

\* Where the path of a child of p starts.
PathOf(p) == IF p = None THEN <<>> ELSE row[p].path

\* The nodes at and below n by their paths.
InSubtree(n, m) == m \in Stored /\ SameNamespace(m, n) /\ IsPrefix(row[n].path, row[m].path)

\* What the table becomes when n is moved under p.
NewRow(n, p) ==
  [path |-> Append(row[p].path, NameOf[n]), parent |-> p, depth |-> row[p].depth + 1]

Moved(n, p, m) ==
  IF m = n THEN NewRow(n, p)
  ELSE IF InSubtree(n, m)
    THEN [row[m] EXCEPT !.path = Rebase(row[n].path, NewRow(n, p).path, @),
                        !.depth = @ + (row[p].depth - row[n].depth + 1)]
    ELSE row[m]

MayMove(n, p) ==
  /\ n \in Stored /\ p \in Stored /\ p # n /\ SameNamespace(n, p)
  /\ NameIsFree(n, p) /\ ~IsStrictPrefix(row[n].path, row[p].path)

\* How far the move of a task is, seen from the table it will change.
ProgressOf(t) ==
  LET at == move[t].at  n == move[t].node  p == move[t].under IN
  /\ at = "idle" => written[t] = NoRows
  /\ at # "idle" => MayMove(n, p) /\ \A u \in Task : move[u].at # "idle" => u = t
  /\ at \in {"update", "match", "cascade"} => view[t][n] = row[n] /\ view[t][p] = row[p]
  /\ at = "update" => written[t] = NoRows
  /\ at \in {"match", "cascade"} =>
       \A m \in Node : written[t][m] = IF m = n THEN NewRow(n, p) ELSE None
  /\ at = "cascade" =>
       \A m \in Node : m \in move[t].matched <=> m # n /\ InSubtree(n, m)
  /\ at \in {"refresh", "commit"} => \A m \in Node : Visible(t, m) = Moved(n, p, m)

Progress == \A t \in Task : ProgressOf(t)

TreeInv == Tree /\ Progress

LEMMA LeastNat ==
  ASSUME NEW S, S \subseteq Nat, S # {}
  PROVE  \E m \in S : \A k \in S : m <= k
<1> DEFINE R == {ss \in Nat \X Nat : ss[1] < ss[2]}
<1>1. IsWellFoundedOn(R, Nat)
  BY NatLessThanWellFounded DEF OpToRel
<1>2. \A j, k \in Nat : j < k => <<j, k>> \in R
  OBVIOUS
<1> HIDE DEF R
<1>3. PICK m \in S : \A k \in S : ~ (<<k, m>> \in R)
  BY <1>1, WFMin
<1>4. ASSUME NEW k \in S PROVE m <= k
  <2>1. k \in Nat /\ m \in Nat /\ ~ (<<k, m>> \in R)
    BY <1>3
  <2> QED BY <1>2, <2>1
<1> QED BY <1>4

\* The columns of a stored row.
LEMMA StoredRow ==
  ASSUME ColumnInv, NEW m \in Stored
  PROVE  /\ m \in Node /\ row[m] \in Row /\ row[m] # None
         /\ row[m].path \in Path /\ Len(row[m].path) \in Nat /\ Len(row[m].path) > 0
         /\ row[m].path # <<>>
         /\ row[m].depth = Len(row[m].path) - 1 /\ row[m].depth \in Int
         /\ row[m].parent \in Node \cup {None}
         /\ NameOf[m] \in Label /\ Last(row[m].path) = NameOf[m]
<1>1. m \in Node /\ row[m] \in Row /\ row[m] # None /\ Sound(m, row[m])
  BY DEF ColumnInv, TypeOK, AllSound, Stored
<1>2. row[m].path \in Path /\ Len(row[m].path) \in Nat /\ row[m].parent \in Node \cup {None}
      /\ row[m].depth \in Int
  BY <1>1, RowFields DEF Path
<1>3. Len(row[m].path) > 0 /\ row[m].depth = Len(row[m].path) - 1 /\ Last(row[m].path) = NameOf[m]
  BY <1>1 DEF Sound
<1>4. row[m].path # <<>>
  BY <1>2, <1>3, EmptySeq
<1> QED BY <1>1, <1>2, <1>3, <1>4, HierarchyModelAssumption

\* Below a node, the parent of any other node is below it too, with a shorter path.
LEMMA ParentInSubtree ==
  ASSUME ColumnInv, Tree, NEW n \in Stored, NEW m \in Stored, m # n, InSubtree(n, m)
  PROVE  LET q == row[m].parent IN
         /\ q # None /\ q \in Stored /\ InSubtree(n, q)
         /\ row[m].path = Append(row[q].path, NameOf[m])
         /\ Len(row[q].path) + 1 = Len(row[m].path)
<1> DEFINE q == row[m].parent
<1>1. /\ row[n].path \in Path /\ row[n].path # <<>> /\ Len(row[n].path) \in Nat
      /\ row[m].path \in Path /\ Len(row[m].path) \in Nat /\ NameOf[m] \in Label
      /\ Len(row[n].path) > 0
  BY StoredRow
<1>2. SameNamespace(m, n) /\ IsPrefix(row[n].path, row[m].path)
  BY DEF InSubtree
<1>3. row[m].path # row[n].path
  BY <1>2 DEF Tree, PathsDiffer
<1>4. q # None
  <2> SUFFICES ASSUME q = None PROVE FALSE
    OBVIOUS
  <2>1. row[m].path = <<NameOf[m]>>
    BY DEF Tree, Chained
  <2>2. Len(row[m].path) = 1
    BY <2>1
  <2>3. Len(row[n].path) <= Len(row[m].path)
    BY <1>1, <1>2, PrefixOrder
  <2>4. Len(row[n].path) = Len(row[m].path)
    <3> DEFINE k == Len(row[n].path)
    <3>1. k \in Nat /\ k > 0 /\ k <= 1
      BY <1>1, <2>2, <2>3
    <3> HIDE DEF k
    <3>2. k = 1
      BY <3>1
    <3> QED BY <2>2, <3>2 DEF k
  <2> QED BY <1>1, <1>2, <1>3, <2>4, PrefixOrder
<1>5. q \in Stored /\ SameNamespace(q, m) /\ row[m].path = Append(row[q].path, NameOf[m])
  BY <1>4 DEF Tree, Chained
<1> HIDE DEF q
<1>6. row[q].path \in Path /\ Len(row[q].path) \in Nat
  BY <1>5, StoredRow
<1>7. IsPrefix(row[n].path, row[q].path)
  BY <1>1, <1>2, <1>3, <1>5, <1>6, PrefixOfAppend
<1>8. Len(row[q].path) + 1 = Len(row[m].path)
  BY <1>1, <1>5, <1>6, AppendProperties DEF Path
<1>9. InSubtree(n, q)
  BY <1>2, <1>5, <1>7 DEF InSubtree, SameNamespace
<1> QED BY <1>4, <1>5, <1>8, <1>9 DEF q

\* What has its parent in a subtree is in it.
LEMMA ChildInSubtree ==
  ASSUME ColumnInv, Tree, NEW n \in Stored, NEW m \in Stored, NEW q \in Stored,
         row[m].parent = q, InSubtree(n, q)
  PROVE  InSubtree(n, m)
<1>1. /\ row[n].path \in Path /\ row[m].path \in Path /\ row[q].path \in Path
      /\ NameOf[m] \in Label /\ q # None
  BY StoredRow, HierarchyModelAssumption
<1>2. SameNamespace(q, m) /\ row[m].path = Append(row[q].path, NameOf[m])
  BY <1>1 DEF Tree, Chained
<1>3. IsPrefix(row[n].path, row[m].path)
  BY <1>1, <1>2, PrefixOfAppend DEF InSubtree
<1> QED BY <1>2, <1>3 DEF InSubtree, SameNamespace

\* The paths and the links describe the same subtrees.
LEMMA SubtreeByPath ==
  ASSUME ColumnInv, Tree, NEW n \in Stored
  PROVE  Forest!Subtree(n) = {m \in Node : InSubtree(n, m)}
<1> DEFINE B == {m \in Node : InSubtree(n, m)}
           Closed(S) == n \in S /\ \A c \in Stored : row[c].parent \in S => c \in S
<1>1. DOMAIN Links = Stored /\ \A c \in Stored : Links[c] = row[c].parent
  BY DEF Links
<1>2. Forest!Subtree(n) = {m \in Stored : \A S \in SUBSET Stored : Closed(S) => m \in S}
  BY <1>1 DEF Forest!Subtree
<1>3. B \subseteq Stored
  BY DEF InSubtree
<1>4. Closed(B)
  <2>1. n \in B
    BY StoredRow, PrefixOrder DEF InSubtree, SameNamespace
  <2>2. ASSUME NEW c \in Stored, row[c].parent \in B PROVE c \in B
    BY <1>3, <2>2, ChildInSubtree, StoredRow
  <2> QED BY <2>1, <2>2
<1>5. ASSUME NEW S \in SUBSET Stored, Closed(S) PROVE B \subseteq S
  <2> SUFFICES ASSUME B \ S # {} PROVE FALSE
    OBVIOUS
  <2> DEFINE L == {Len(row[m].path) : m \in B \ S}
  <2>1. L \subseteq Nat /\ L # {}
    BY <1>3, StoredRow
  <2>2. PICK k \in L : \A j \in L : k <= j
    <3> HIDE DEF L
    <3> QED BY <2>1, LeastNat
  <2>3. PICK m \in B \ S : k = Len(row[m].path)
    BY <2>2
  <2> DEFINE q == row[m].parent
  <2>4. m \in Stored /\ m # n /\ InSubtree(n, m)
    BY <1>3, <1>5
  <2>5. q \in Stored /\ InSubtree(n, q) /\ Len(row[q].path) + 1 = Len(row[m].path)
    BY <2>4, ParentInSubtree
  <2>6. q \notin S
    BY <1>5, <2>3, <2>4
  <2>7. Len(row[q].path) \in L /\ Len(row[q].path) \in Nat
    BY <2>5, <2>6, StoredRow
  <2>8. k \in Nat /\ k <= Len(row[q].path) /\ Len(row[q].path) + 1 = k
    <3> HIDE DEF L, q
    <3> QED BY <2>1, <2>2, <2>3, <2>5, <2>7
  <2> HIDE DEF L, q
  <2> QED BY <2>7, <2>8
<1> QED BY <1>2, <1>3, <1>4, <1>5

-----------------------------------------------------------------------------
(* A move of n under p keeps the tree.                                       *)

\* The table after a move, by the part of it that was moved.
MovedParts(n, p) ==
  LET old == row[n].path  new == Append(row[p].path, NameOf[n]) IN
  /\ row' \in [Node -> Row \cup {None}]
  /\ Stored' = Stored
  /\ \A m \in Stored :
       /\ row'[m].parent = IF m = n THEN p ELSE row[m].parent
       /\ row'[m].path = IF InSubtree(n, m) THEN Rebase(old, new, row[m].path)
                                            ELSE row[m].path

LEMMA NewPathOf ==
  ASSUME ColumnInv, NEW n \in Stored, NEW p \in Stored
  PROVE  LET new == Append(row[p].path, NameOf[n]) IN
         /\ new \in Path /\ new # <<>> /\ Len(new) = Len(row[p].path) + 1
         /\ IsPrefix(row[p].path, new)
<1>1. row[p].path \in Path /\ NameOf[n] \in Label
  BY StoredRow
<1> QED BY <1>1, AppendProperties, PrefixOfAppend DEF Path

\* Only n itself may have the path that a node of its name has under p.
LEMMA FreePath ==
  ASSUME ColumnInv, Tree, NEW n \in Node, NEW p \in Stored \cup {None}, NameIsFree(n, p),
         p # None => SameNamespace(n, p),
         NEW q \in Stored, SameNamespace(q, n), row[q].path = Append(PathOf(p), NameOf[n])
  PROVE  q = n
<1>1. /\ PathOf(p) \in Path /\ Len(PathOf(p)) \in Nat /\ NameOf[n] \in Label
      /\ NameOf[q] \in Label /\ p = None => PathOf(p) = <<>>
      /\ p # None => PathOf(p) = row[p].path /\ PathOf(p) # <<>>
  BY HierarchyModelAssumption, StoredRow DEF PathOf, Path
<1>2. PICK x \in Path :
        /\ row[q].path = Append(x, NameOf[q])
        /\ row[q].parent = None => x = <<>>
        /\ row[q].parent # None =>
             /\ x # <<>> /\ row[q].parent \in Stored
             /\ SameNamespace(row[q].parent, q) /\ x = row[row[q].parent].path
  <2>1. CASE row[q].parent = None
    <3>1. row[q].path = <<NameOf[q]>>
      BY <2>1 DEF Tree, Chained
    <3>2. Append(<<>>, NameOf[q]) = <<NameOf[q]>> /\ <<>> \in Path
      BY DEF Path
    <3> QED BY <2>1, <3>1, <3>2
  <2>2. CASE row[q].parent # None
    BY <2>2, StoredRow DEF Tree, Chained
  <2> QED BY <2>1, <2>2
<1>3. x = PathOf(p) /\ NameOf[q] = NameOf[n]
  <2> HIDE DEF PathOf
  <2>1. Append(x, NameOf[q]) = Append(PathOf(p), NameOf[n])
    BY <1>2
  <2> QED BY <1>1, <2>1, AppendInjective DEF Path
<1>4. row[q].parent = p
  <2>1. CASE p = None
    BY <1>1, <1>2, <1>3, <2>1
  <2>2. CASE p # None
    BY <1>1, <1>2, <1>3, <2>2 DEF Tree, PathsDiffer, SameNamespace
  <2> QED BY <2>1, <2>2
<1> QED BY <1>3, <1>4 DEF NameIsFree

\* p is not in the subtree of n: no cycle arises.
LEMMA TargetIsOutside ==
  ASSUME ColumnInv, Tree, NEW n \in Node, NEW p \in Node, MayMove(n, p)
  PROVE  ~InSubtree(n, p) /\ InSubtree(n, n)
<1>1. n \in Stored /\ p \in Stored /\ p # n /\ SameNamespace(n, p)
      /\ ~IsStrictPrefix(row[n].path, row[p].path)
  BY DEF MayMove
<1>2. row[n].path # row[p].path
  BY <1>1 DEF Tree, PathsDiffer
<1>3. IsPrefix(row[n].path, row[n].path)
  BY <1>1, StoredRow, PrefixOrder
<1> QED BY <1>1, <1>2, <1>3 DEF InSubtree, IsStrictPrefix, SameNamespace

LEMMA MovedTable ==
  ASSUME ColumnInv, Tree, NEW n \in Node, NEW p \in Node, MayMove(n, p),
         row' \in [Node -> Row \cup {None}], \A m \in Node : row'[m] = Moved(n, p, m)
  PROVE  MovedParts(n, p)
<1> DEFINE old == row[n].path
           new == Append(row[p].path, NameOf[n])
<1>1. n \in Stored /\ p \in Stored
  BY DEF MayMove
<1>2. new \in Path /\ old \in Path
  BY <1>1, NewPathOf, StoredRow
<1>3. NewRow(n, p).path = new /\ NewRow(n, p).parent = p
  BY DEF NewRow
<1>4. IsPrefix(old, old) /\ Rebase(old, new, old) = new
  <2> HIDE DEF new, old
  <2> QED BY <1>2, RebaseOld
<1>5. ASSUME NEW m \in Stored, m # n, InSubtree(n, m)
      PROVE  /\ row'[m].path = Rebase(old, new, row[m].path)
             /\ row'[m].parent = row[m].parent
             /\ DOMAIN row'[m] = {"path", "parent", "depth"}
  <2>1. row[m] \in Row /\ m \in Node
    BY StoredRow
  <2>2. row'[m] = [row[m] EXCEPT !.path = Rebase(old, new, @),
                                 !.depth = @ + (row[p].depth - row[n].depth + 1)]
    BY <1>3, <1>5, <2>1 DEF Moved
  <2> HIDE DEF new
  <2> QED BY <2>1, <2>2 DEF Row
<1>6. ASSUME NEW m \in Node PROVE m \in Stored' <=> m \in Stored
  <2>1. CASE m = n
    <3>1. row'[m] = [path |-> new, parent |-> p, depth |-> row[p].depth + 1]
      <4>1. row'[m] = NewRow(n, p)
        BY <2>1 DEF Moved
      <4> QED BY <4>1 DEF NewRow
    <3>2. row[p].depth + 1 \in Int
      BY <1>1, StoredRow
    <3>3. row'[m] \in Row
      BY <1>2, <3>1, <3>2 DEF Row, Path
    <3> QED BY <1>1, <2>1, <3>3, NoneIsNoRow DEF Stored
  <2>2. CASE m # n /\ InSubtree(n, m)
    <3>1. m \in Stored
      BY <2>2 DEF InSubtree
    <3>2. row[m] \in Row /\ row[m].depth \in Int /\ row[m].path \in Path
      BY <3>1, StoredRow
    <3>3. row'[m] = [row[m] EXCEPT !.path = Rebase(old, new, @),
                                   !.depth = @ + (row[p].depth - row[n].depth + 1)]
      BY <1>3, <2>2 DEF Moved
    <3>4. Rebase(old, new, row[m].path) \in Path
      BY <1>2, <2>2, <3>2, RebaseShape DEF InSubtree
    <3>5. row[m].depth + (row[p].depth - row[n].depth + 1) \in Int
      BY <1>1, <3>2, StoredRow
    <3>6. row'[m] \in Row
      <4> HIDE DEF new, old
      <4> QED BY <3>2, <3>3, <3>4, <3>5 DEF Row, Path
    <3> QED BY <3>1, <3>6, NoneIsNoRow DEF Stored
  <2>3. CASE m # n /\ ~InSubtree(n, m)
    BY <2>3 DEF Moved, Stored
  <2> QED BY <2>1, <2>2, <2>3
<1>7. Stored' = Stored
  BY <1>6 DEF Stored
<1>8. ASSUME NEW m \in Stored
      PROVE  /\ row'[m].parent = IF m = n THEN p ELSE row[m].parent
             /\ row'[m].path = IF InSubtree(n, m) THEN Rebase(old, new, row[m].path)
                                                  ELSE row[m].path
  <2>0. m \in Node
    BY DEF Stored
  <2>1. CASE m = n
    BY <1>3, <1>4, <2>1, TargetIsOutside DEF Moved
  <2>2. CASE m # n /\ InSubtree(n, m)
    BY <1>5, <2>2
  <2>3. CASE m # n /\ ~InSubtree(n, m)
    BY <2>0, <2>3 DEF Moved
  <2> QED BY <2>1, <2>2, <2>3
<1> QED BY <1>7, <1>8 DEF MovedParts

LEMMA MoveKeepsTree ==
  ASSUME ColumnInv, Tree, NEW n \in Node, NEW p \in Node, MayMove(n, p), MovedParts(n, p)
  PROVE  Tree'
<1> DEFINE old == row[n].path
           new == Append(row[p].path, NameOf[n])
<1>1. n \in Stored /\ p \in Stored /\ p # n /\ SameNamespace(n, p) /\ NameIsFree(n, p)
  BY DEF MayMove
<1>2. /\ old \in Path /\ old # <<>>
      /\ new \in Path /\ new # <<>> /\ Len(new) = Len(row[p].path) + 1
      /\ row[p].path \in Path /\ Len(row[p].path) \in Nat /\ Len(row[p].path) > 0
  BY <1>1, StoredRow, NewPathOf
<1>3. ~InSubtree(n, p) /\ InSubtree(n, n)
  BY TargetIsOutside
<1>4. /\ Stored' = Stored
      /\ \A m \in Stored : /\ row'[m].parent = IF m = n THEN p ELSE row[m].parent
                           /\ InSubtree(n, m) => row'[m].path = Rebase(old, new, row[m].path)
                           /\ ~InSubtree(n, m) => row'[m].path = row[m].path
  BY DEF MovedParts
<1>5. row'[n].path = new /\ row'[n].parent = p
  <2> HIDE DEF new, old
  <2>1. Rebase(old, new, old) = new
    BY <1>2, RebaseOld
  <2>2. row'[n].path = Rebase(old, new, row[n].path)
    BY <1>1, <1>3, <1>4
  <2> QED BY <1>1, <1>4, <2>1, <2>2 DEF old
<1>6. \A m \in Stored : InSubtree(n, m) =>
        SameNamespace(m, n) /\ IsPrefix(old, row[m].path) /\ row[m].path \in Path
  BY StoredRow DEF InSubtree
<1> HIDE DEF old, new
<1>7. Chained'
  <2> SUFFICES ASSUME NEW m \in Stored
               PROVE  IF row'[m].parent = None THEN row'[m].path = <<NameOf[m]>>
                      ELSE /\ row'[m].parent \in Stored /\ SameNamespace(row'[m].parent, m)
                           /\ row'[m].path = Append(row'[row'[m].parent].path, NameOf[m])
    BY <1>4 DEF Chained, SameNamespace
  <2>1. CASE m = n
    BY <1>1, <1>3, <1>4, <1>5, <2>1, HierarchyModelAssumption DEF new, SameNamespace
  <2>2. CASE m # n /\ InSubtree(n, m)
    <3> DEFINE q == row[m].parent
    <3>1. q # None /\ q \in Stored /\ InSubtree(n, q) /\ row[m].path = Append(row[q].path, NameOf[m])
      BY <1>1, <2>2, ParentInSubtree
    <3>2. SameNamespace(q, m) /\ row'[m].parent = q
      BY <1>4, <2>2, <3>1 DEF Tree, Chained
    <3>3. Rebase(old, new, row[m].path) = Append(Rebase(old, new, row[q].path), NameOf[m])
      BY <1>2, <1>6, <3>1, StoredRow, RebaseAppend
    <3> HIDE DEF q
    <3> QED BY <1>4, <2>2, <3>1, <3>2, <3>3
  <2>3. CASE ~InSubtree(n, m)
    <3>1. m # n /\ row'[m].parent = row[m].parent /\ row'[m].path = row[m].path
      BY <1>3, <1>4, <2>3
    <3>2. CASE row[m].parent = None
      BY <3>1, <3>2 DEF Tree, Chained
    <3>3. CASE row[m].parent # None
      <4> DEFINE q == row[m].parent
      <4>1. q \in Stored /\ SameNamespace(q, m) /\ row[m].path = Append(row[q].path, NameOf[m])
        BY <3>3 DEF Tree, Chained
      <4>2. ~InSubtree(n, q)
        BY <1>1, <2>3, <4>1, ChildInSubtree
      <4> QED BY <1>4, <3>1, <3>3, <4>1, <4>2
    <3> QED BY <3>2, <3>3
  <2> QED BY <2>1, <2>2, <2>3
<1>8. \A m \in Stored : ~InSubtree(n, m) /\ SameNamespace(m, n) => ~IsPrefix(new, row[m].path)
  <2> SUFFICES ASSUME NEW m \in Stored, ~InSubtree(n, m), SameNamespace(m, n),
                      IsPrefix(new, row[m].path)
               PROVE  FALSE
    OBVIOUS
  <2>1. PICK q \in Stored : SameNamespace(q, m) /\ row[q].path = new
    BY <1>2 DEF Tree, Rooted
  <2>2. q = n
    <3>1. row[q].path = Append(PathOf(p), NameOf[n]) /\ SameNamespace(q, n)
      BY <1>1, <2>1, HierarchyModelAssumption DEF new, PathOf, SameNamespace, Stored
    <3> QED BY <1>1, <3>1, FreePath
  <2>3. old = new
    BY <2>1, <2>2 DEF old
  <2> QED BY <2>3 DEF InSubtree, old
<1>9. PathsDiffer'
  <2> SUFFICES ASSUME NEW m \in Stored, NEW q \in Stored, SameNamespace(m, q),
                      row'[m].path = row'[q].path
               PROVE  m = q
    BY <1>4 DEF PathsDiffer, SameNamespace
  <2>1. CASE InSubtree(n, m) /\ InSubtree(n, q)
    <3>1. row[m].path = row[q].path
      BY <1>2, <1>4, <1>6, <2>1, RebaseInjective
    <3> QED BY <3>1 DEF Tree, PathsDiffer
  <2>2. CASE ~InSubtree(n, m) /\ ~InSubtree(n, q)
    BY <1>4, <2>2 DEF Tree, PathsDiffer
  <2>3. ASSUME NEW a \in Stored, NEW b \in Stored, InSubtree(n, a), ~InSubtree(n, b),
               SameNamespace(a, b), row'[a].path = row'[b].path
        PROVE  FALSE
    <3>1. IsPrefix(new, row[b].path)
      BY <1>2, <1>4, <1>6, <2>3, RebaseIsOver
    <3>2. SameNamespace(b, n)
      BY <1>6, <2>3 DEF SameNamespace
    <3> QED BY <1>8, <2>3, <3>1, <3>2
  <2>4. SameNamespace(q, m)
    BY DEF SameNamespace
  <2> QED BY <2>1, <2>2, <2>3, <2>4
<1>10. Rooted'
  <2> SUFFICES ASSUME NEW m \in Stored, NEW s \in Path, s # <<>>, IsPrefix(s, row'[m].path)
               PROVE  \E q \in Stored : SameNamespace(q, m) /\ row'[q].path = s
    BY <1>4 DEF Rooted, SameNamespace
  <2>1. CASE ~InSubtree(n, m)
    <3>1. PICK q \in Stored : SameNamespace(q, m) /\ row[q].path = s
      BY <1>4, <2>1 DEF Tree, Rooted
    <3>2. ~InSubtree(n, q)
      <4> SUFFICES ASSUME InSubtree(n, q) PROVE FALSE
        OBVIOUS
      <4>1. SameNamespace(m, n) /\ IsPrefix(old, s) /\ IsPrefix(s, row[m].path)
        BY <1>4, <1>6, <2>1, <3>1 DEF SameNamespace
      <4>2. row[m].path \in Path
        BY StoredRow
      <4>3. IsPrefix(old, row[m].path)
        BY <1>2, <4>1, <4>2, PrefixOrder
      <4> QED BY <2>1, <4>1, <4>3 DEF InSubtree, old
    <3> QED BY <1>4, <3>1, <3>2
  <2>2. CASE InSubtree(n, m) /\ IsPrefix(s, new)
    <3>0. SameNamespace(m, n)
      BY <1>6, <2>2
    <3>1. CASE s = new
      BY <1>1, <1>5, <3>0, <3>1 DEF SameNamespace
    <3>2. CASE s # new
      <4>1. IsPrefix(s, row[p].path)
        BY <1>1, <1>2, <2>2, <3>2, StoredRow, PrefixOfAppend DEF new
      <4>2. PICK q \in Stored : SameNamespace(q, p) /\ row[q].path = s
        BY <1>1, <4>1 DEF Tree, Rooted
      <4>3. ~InSubtree(n, q)
        <5> SUFFICES ASSUME InSubtree(n, q) PROVE FALSE
          OBVIOUS
        <5>1. IsPrefix(old, row[p].path)
          BY <1>2, <1>6, <4>1, <4>2, PrefixOrder
        <5> QED BY <1>1, <1>3, <5>1 DEF InSubtree, old, SameNamespace
      <4>4. SameNamespace(q, m)
        BY <1>1, <3>0, <4>2 DEF SameNamespace
      <4> QED BY <1>4, <4>2, <4>3, <4>4
    <3> QED BY <3>1, <3>2
  <2>3. CASE InSubtree(n, m) /\ ~IsPrefix(s, new)
    <3>1. PICK x \in Path : IsPrefix(old, x) /\ IsPrefix(x, row[m].path) /\ s = Rebase(old, new, x)
      BY <1>2, <1>4, <1>6, <2>3, PrefixOfRebased
    <3>2. x # <<>>
      <4>1. Len(old) \in Nat /\ Len(x) \in Nat /\ Len(old) <= Len(x) /\ Len(old) # 0
        BY <1>2, <3>1, PrefixOrder, LenProperties, EmptySeq DEF Path
      <4> QED BY <4>1
    <3>3. PICK q \in Stored : SameNamespace(q, m) /\ row[q].path = x
      BY <3>1, <3>2 DEF Tree, Rooted
    <3>4. InSubtree(n, q)
      BY <1>6, <2>3, <3>1, <3>3 DEF InSubtree, SameNamespace, old
    <3> QED BY <1>4, <3>1, <3>3, <3>4
  <2> QED BY <2>1, <2>2, <2>3
<1> QED BY <1>7, <1>9, <1>10 DEF Tree

-----------------------------------------------------------------------------
(* Every step keeps the tree.                                                *)

LEMMA SameTable ==
  ASSUME row' = row
  PROVE  /\ Stored' = Stored
         /\ Tree => Tree'
         /\ \A n, p \in Node : MayMove(n, p)' <=> MayMove(n, p)
         /\ \A n, m \in Node : InSubtree(n, m)' <=> InSubtree(n, m)
         /\ \A n, p \in Node : NewRow(n, p)' = NewRow(n, p)
         /\ \A n, p, m \in Node : Moved(n, p, m)' = Moved(n, p, m)
<1>1. Stored' = Stored
  BY DEF Stored
<1>2. Tree => Tree'
  BY <1>1 DEF Tree, Chained, PathsDiffer, Rooted, SameNamespace
<1>3. \A n, p \in Node : MayMove(n, p)' <=> MayMove(n, p)
  BY <1>1 DEF MayMove, NameIsFree, SameNamespace
<1>4. \A n, m \in Node : InSubtree(n, m)' <=> InSubtree(n, m)
  BY <1>1 DEF InSubtree, SameNamespace
<1>5. \A n, p \in Node : NewRow(n, p)' = NewRow(n, p)
  BY DEF NewRow
<1>6. \A n, p, m \in Node : Moved(n, p, m)' = Moved(n, p, m)
  BY <1>4, <1>5 DEF Moved
<1> QED BY <1>1, <1>2, <1>3, <1>4, <1>5, <1>6

LEMMA TreeInit == Init => TreeInv
<1> SUFFICES ASSUME Init PROVE TreeInv OBVIOUS
<1>1. Stored = {}
  BY DEF Init, Stored, NoRows
<1>2. Tree
  BY <1>1 DEF Tree, Chained, PathsDiffer, Rooted
<1>3. Progress
  BY DEF Init, Idle, Progress, ProgressOf
<1> QED BY <1>2, <1>3 DEF TreeInv

\* A created node is stored.
LEMMA CreatedRow ==
  ASSUME ColumnInv, NEW t \in Task, NEW n \in Node, NEW p \in Node \cup {None}, Create(t, n, p)
  PROVE  /\ PathOf(p) \in Path /\ Len(PathOf(p)) \in Nat /\ NameOf[n] \in Label
         /\ p # None => PathOf(p) # <<>>
         /\ row'[n].path = Append(PathOf(p), NameOf[n]) /\ row'[n].parent = p
         /\ \A m \in Stored : row'[m] = row[m] /\ m # n
         /\ Stored' = Stored \cup {n}
<1> DEFINE r == [path |-> Append(PathOf(p), NameOf[n]), parent |-> p, depth |-> Len(PathOf(p))]
<1>1. n \notin Stored /\ (p # None => p \in Stored) /\ row' = [row EXCEPT ![n] = r]
  BY DEF Create, PathOf
<1>2. /\ PathOf(p) \in Path /\ Len(PathOf(p)) \in Nat /\ NameOf[n] \in Label
      /\ p # None => PathOf(p) # <<>>
  BY <1>1, HierarchyModelAssumption, StoredRow DEF PathOf, Path
<1>3. r \in Row /\ r # None
  <2>1. Append(PathOf(p), NameOf[n]) \in Path
    BY <1>2 DEF Path
  <2> QED BY <1>2, <2>1, NoneIsNoRow DEF Row, Path
<1>4. row \in [Node -> Row \cup {None}]
  BY DEF ColumnInv, TypeOK
<1> HIDE DEF r
<1>5. row'[n] = r /\ \A m \in Node \ {n} : row'[m] = row[m]
  BY <1>1, <1>4
<1>6. \A m \in Stored : row'[m] = row[m] /\ m # n
  BY <1>1, <1>5 DEF Stored
<1>7. Stored' = Stored \cup {n}
  BY <1>3, <1>5 DEF Stored
<1> QED BY <1>2, <1>5, <1>6, <1>7 DEF r

LEMMA TreeCreate ==
  ASSUME ColumnInv, TreeInv, OneAtATime,
         NEW t \in Task, NEW n \in Node, NEW p \in Node \cup {None}, Create(t, n, p)
  PROVE  TreeInv'
<1>1. /\ NameIsFree(n, p)
      /\ p # None => p \in Stored /\ SameNamespace(n, p)
      /\ UNCHANGED <<view, move, written>>
      /\ \A u \in Task : move[u].at = "idle"
  BY DEF Create, MayStart, OneAtATime
<1>2. /\ PathOf(p) \in Path /\ Len(PathOf(p)) \in Nat /\ NameOf[n] \in Label
      /\ p # None => PathOf(p) # <<>>
  BY CreatedRow
<1>3. /\ row'[n].path = Append(PathOf(p), NameOf[n]) /\ row'[n].parent = p
      /\ \A m \in Stored : row'[m] = row[m] /\ m # n
      /\ Stored' = Stored \cup {n}
  BY CreatedRow
<1>4. Chained'
  <2> SUFFICES ASSUME NEW m \in Stored'
               PROVE  IF row'[m].parent = None THEN row'[m].path = <<NameOf[m]>>
                      ELSE /\ row'[m].parent \in Stored' /\ SameNamespace(row'[m].parent, m)
                           /\ row'[m].path = Append(row'[row'[m].parent].path, NameOf[m])
    BY DEF Chained, SameNamespace
  <2>1. CASE m = n /\ p = None
    BY <1>3, <2>1 DEF PathOf
  <2>2. CASE m = n /\ p # None
    BY <1>1, <1>3, <2>2 DEF PathOf, SameNamespace
  <2>3. CASE m # n
    BY <1>3, <2>3 DEF TreeInv, Tree, Chained
  <2> QED BY <2>1, <2>2, <2>3
<1>5. \A q \in Stored : SameNamespace(q, n) => row[q].path # row'[n].path
  BY <1>1, <1>3, FreePath DEF TreeInv
<1>6. PathsDiffer'
  BY <1>3, <1>5 DEF TreeInv, Tree, PathsDiffer, SameNamespace
<1>7. Rooted'
  <2> SUFFICES ASSUME NEW m \in Stored', NEW s \in Path, s # <<>>, IsPrefix(s, row'[m].path)
               PROVE  \E q \in Stored' : SameNamespace(q, m) /\ row'[q].path = s
    BY DEF Rooted, SameNamespace
  <2>1. CASE m # n
    <3>1. PICK q \in Stored : SameNamespace(q, m) /\ row[q].path = s
      BY <1>3, <2>1 DEF TreeInv, Tree, Rooted
    <3> QED BY <1>3, <3>1
  <2>2. CASE m = n /\ s = row'[n].path
    BY <1>3, <2>2 DEF SameNamespace
  <2>3. CASE m = n /\ s # row'[n].path
    <3>1. IsPrefix(s, PathOf(p))
      <4>1. IsPrefix(s, Append(PathOf(p), NameOf[n])) /\ s # Append(PathOf(p), NameOf[n])
        BY <1>3, <2>3
      <4> QED BY <1>2, <4>1, PrefixOfAppend
    <3>2. p # None
      <4> SUFFICES ASSUME p = None PROVE FALSE
        OBVIOUS
      <4>1. IsPrefix(s, <<>>) /\ <<>> \in Path /\ Len(<<>>) = 0
        BY <1>2, <3>1 DEF PathOf
      <4>2. Len(s) <= 0 /\ Len(s) \in Nat
        BY <4>1, PrefixOrder, LenProperties DEF Path
      <4> QED BY <4>2, EmptySeq DEF Path
    <3>3. PICK q \in Stored : SameNamespace(q, p) /\ row[q].path = s
      BY <1>1, <3>1, <3>2 DEF TreeInv, Tree, Rooted, PathOf
    <3> QED BY <1>1, <1>3, <2>3, <3>2, <3>3 DEF SameNamespace
  <2> QED BY <2>1, <2>2, <2>3
<1>8. Progress'
  BY <1>1 DEF TreeInv, Progress, ProgressOf, NoRows
<1> QED BY <1>4, <1>6, <1>7, <1>8 DEF TreeInv, Tree

LEMMA TreeViews ==
  ASSUME ColumnInv, TreeInv, NEW t \in Task, NEW n \in Node, Load(t, n) \/ Drop(t, n)
  PROVE  TreeInv'
<1>1. /\ UNCHANGED <<row, move, written>> /\ move[t].at = "idle"
      /\ \A u \in Task \ {t} : view'[u] = view[u]
  BY DEF Load, Drop, ColumnInv, TypeOK
<1>2. \A u \in Task : move[u].at # "idle" => move[u].node \in Node /\ move[u].under \in Node
  BY DEF ColumnInv, Moving
<1>3. Progress'
  <2> SUFFICES ASSUME NEW u \in Task PROVE ProgressOf(u)'
    BY DEF Progress
  <2>1. CASE move[u].at = "idle"
    BY <1>1, <2>1 DEF TreeInv, Progress, ProgressOf
  <2>2. CASE move[u].at # "idle"
    <3>1. ProgressOf(u) /\ u # t
      BY <1>1, <2>2 DEF TreeInv, Progress
    <3>2. view'[u] = view[u] /\ \A m \in Node : Visible(u, m)' = Visible(u, m)
      BY <1>1, <3>1 DEF Visible
    <3> QED BY <1>1, <1>2, <2>2, <3>1, <3>2, SameTable DEF ProgressOf
  <2> QED BY <2>1, <2>2
<1>4. Tree'
  BY <1>1, SameTable DEF TreeInv
<1> QED BY <1>3, <1>4 DEF TreeInv

LEMMA TreeMoveTo ==
  ASSUME ColumnInv, TreeInv, OneAtATime,
         NEW t \in Task, NEW n \in Node, NEW p \in Node, MoveTo(t, n, p)
  PROVE  TreeInv'
<1>1. /\ \A u \in Task : move[u].at = "idle"
      /\ view[t][n] # None /\ view[t][p] # None
      /\ view[t][n] = row[n] /\ view[t][p] = row[p] /\ NameIsFree(n, p)
      /\ SameNamespace(n, p) /\ p # n
      /\ ~IsStrictPrefix(view[t][n].path, view[t][p].path)
      /\ move' = [move EXCEPT ![t] =
           [at |-> "update", node |-> n, under |-> p, matched |-> {}]]
      /\ UNCHANGED <<row, view, written>>
  BY DEF MoveTo, MayStart, IsFresh, MayUseName, OneAtATime
<1>2. MayMove(n, p)
  BY <1>1 DEF MayMove, Stored
<1>3. /\ move'[t].at = "update" /\ move'[t].node = n /\ move'[t].under = p
      /\ \A u \in Task \ {t} : move'[u].at = "idle"
  BY <1>1 DEF ColumnInv, TypeOK
<1>4. \A u \in Task : written[u] = NoRows
  BY <1>1 DEF TreeInv, Progress, ProgressOf
<1>5. Progress'
  <2>1. ProgressOf(t)'
    BY <1>1, <1>2, <1>3, <1>4, SameTable DEF ProgressOf, NoRows
  <2>2. ASSUME NEW u \in Task \ {t} PROVE ProgressOf(u)'
    BY <1>1, <1>3, <1>4 DEF ProgressOf, NoRows
  <2> QED BY <2>1, <2>2 DEF Progress
<1> QED BY <1>1, <1>5, SameTable DEF TreeInv

\* Within a move: only its own task is at work.
LEMMA WithinMove ==
  ASSUME ColumnInv, TreeInv, NEW t \in Task, move[t].at # "idle"
  PROVE  LET n == move[t].node  p == move[t].under IN
         /\ n \in Node /\ p \in Node /\ MayMove(n, p) /\ n \in Stored /\ p \in Stored
         /\ NewRow(n, p) \in Row /\ NewRow(n, p) # None
         /\ \A u \in Task \ {t} : move[u].at = "idle" /\ written[u] = NoRows
<1> DEFINE n == move[t].node
           p == move[t].under
<1>1. n \in Node /\ p \in Node
  BY DEF ColumnInv, Moving
<1>2. MayMove(n, p) /\ \A u \in Task : move[u].at # "idle" => u = t
  BY DEF TreeInv, Progress, ProgressOf
<1>3. \A u \in Task \ {t} : move[u].at = "idle" /\ written[u] = NoRows
  BY <1>2 DEF TreeInv, Progress, ProgressOf
<1>4. n \in Stored /\ p \in Stored
  BY <1>2 DEF MayMove
<1> HIDE DEF n, p
<1>5. Append(row[p].path, NameOf[n]) \in Path /\ row[p].depth + 1 \in Int
  BY <1>4, NewPathOf, StoredRow
<1>6. NewRow(n, p) \in Row /\ NewRow(n, p) # None
  <2>1. [path |-> Append(row[p].path, NameOf[n]), parent |-> p, depth |-> row[p].depth + 1] \in Row
    BY <1>1, <1>5 DEF Row, Path
  <2> QED BY <2>1, NoneIsNoRow DEF NewRow
<1> QED BY <1>1, <1>2, <1>3, <1>4, <1>6 DEF n, p

\* A step of a move that leaves the table alone keeps the tree if it keeps the progress
\* of its own move.
LEMMA TreeWithin ==
  ASSUME ColumnInv, TreeInv, NEW t \in Task, move[t].at # "idle", row' = row,
         \A u \in Task \ {t} : move'[u] = move[u] /\ written'[u] = written[u],
         ProgressOf(t)'
  PROVE  TreeInv'
<1>1. ASSUME NEW u \in Task \ {t} PROVE ProgressOf(u)'
  <2>1. move'[u].at = "idle" /\ written'[u] = NoRows
    BY WithinMove
  <2> QED BY <2>1 DEF ProgressOf, NoRows
<1> QED BY <1>1, SameTable DEF TreeInv, Progress

LEMMA TreeUpdateSelf ==
  ASSUME ColumnInv, TreeInv, NEW t \in Task, UpdateSelf(t)
  PROVE  TreeInv'
<1> DEFINE n == move[t].node
           p == move[t].under
           r == [path |-> NewPath(t), parent |-> p, depth |-> NewDepth(t)]
<1>1. /\ move[t].at = "update" /\ UNCHANGED <<row, view>>
      /\ written' = [written EXCEPT ![t][n] = r]
      /\ move' = [move EXCEPT ![t].at = "match"]
  BY DEF UpdateSelf, Goto
<1>2. /\ view[t][n] = row[n] /\ view[t][p] = row[p] /\ written[t] = NoRows
      /\ n \in Node /\ p \in Node /\ MayMove(n, p)
      /\ \A u \in Task : move[u].at # "idle" => u = t
  BY <1>1, WithinMove DEF TreeInv, Progress, ProgressOf
<1>3. r = NewRow(n, p)
  BY <1>2 DEF NewRow, NewPath, NewDepth
<1> HIDE DEF n, p, r
<1>4. /\ move'[t].at = "match" /\ move'[t].node = n /\ move'[t].under = p
      /\ \A u \in Task \ {t} : move'[u] = move[u] /\ written'[u] = written[u]
      /\ \A m \in Node : written'[t][m] = IF m = n THEN NewRow(n, p) ELSE None
  BY <1>1, <1>2, <1>3 DEF ColumnInv, TypeOK, NoRows, n, p
<1>5. ProgressOf(t)'
  BY <1>1, <1>2, <1>4, SameTable DEF ProgressOf, NoRows
<1> QED BY <1>1, <1>4, <1>5, TreeWithin

LEMMA TreeMatch ==
  ASSUME ColumnInv, TreeInv, NEW t \in Task, Match(t)
  PROVE  TreeInv'
<1> DEFINE n == move[t].node
           p == move[t].under
           M == {m \in Node : Below(t, m)}
<1>1. /\ move[t].at = "match" /\ UNCHANGED <<row, view, written>>
      /\ move' = [move EXCEPT ![t].at = "cascade", ![t].matched = M]
  BY DEF Match
<1>2. /\ view[t][n] = row[n] /\ view[t][p] = row[p]
      /\ \A m \in Node : written[t][m] = IF m = n THEN NewRow(n, p) ELSE None
      /\ n \in Node /\ p \in Node /\ MayMove(n, p) /\ n \in Stored
      /\ \A u \in Task : move[u].at # "idle" => u = t
  BY <1>1, WithinMove DEF TreeInv, Progress, ProgressOf
<1>3. \A m \in Node : m \in M <=> m # n /\ InSubtree(n, m)
  <2>1. ASSUME NEW m \in Node \ {n} PROVE Below(t, m) <=> InSubtree(n, m)
    <3>1. Visible(t, m) = row[m]
      BY <1>2 DEF Visible, NoRows
    <3> QED BY <1>2, <3>1 DEF Below, InSubtree, OldPath, Stored
  <2> QED BY <2>1 DEF Below
<1> HIDE DEF n, p, M
<1>4. /\ move'[t].at = "cascade" /\ move'[t].node = n /\ move'[t].under = p
      /\ move'[t].matched = M
      /\ \A u \in Task \ {t} : move'[u] = move[u] /\ written'[u] = written[u]
  BY <1>1 DEF ColumnInv, TypeOK, n, p
<1>5. PICK k \in Node, j \in Node : k = n /\ j = p
  BY <1>2
<1>6. /\ MayMove(k, j)' /\ NewRow(k, j)' = NewRow(k, j)
      /\ \A m \in Node : InSubtree(k, m)' <=> InSubtree(k, m)
  BY <1>1, <1>2, <1>5, SameTable
<1>7. (\A m \in Node : m \in move[t].matched <=> m # move[t].node /\ InSubtree(move[t].node, m))'
  BY <1>3, <1>4, <1>5, <1>6
<1>8. (\A m \in Node : written[t][m] =
         IF m = move[t].node THEN NewRow(move[t].node, move[t].under) ELSE None)'
  BY <1>1, <1>2, <1>4, <1>5, <1>6
<1>9. (/\ MayMove(move[t].node, move[t].under)
       /\ view[t][move[t].node] = row[move[t].node]
       /\ view[t][move[t].under] = row[move[t].under]
       /\ \A u \in Task : move[u].at # "idle" => u = t)'
  BY <1>1, <1>2, <1>4, <1>5, <1>6
<1>10. ProgressOf(t)'
  BY <1>4, <1>7, <1>8, <1>9 DEF ProgressOf
<1> QED BY <1>1, <1>4, <1>10, TreeWithin

LEMMA TreeCascade ==
  ASSUME ColumnInv, TreeInv, NEW t \in Task, Cascade(t)
  PROVE  TreeInv'
<1> DEFINE n == move[t].node
           p == move[t].under
           w(m) == IF m \in move[t].matched /\ Below(t, m)
                     THEN Shifted(t, Visible(t, m)) ELSE written[t][m]
<1>1. /\ move[t].at = "cascade" /\ UNCHANGED <<row, view>>
      /\ written' = [written EXCEPT ![t] = [m \in Node |-> w(m)]]
      /\ move' = [move EXCEPT ![t].at = "refresh"]
  BY DEF Cascade, Goto, ColumnInv, TypeOK
<1>2. /\ view[t][n] = row[n] /\ view[t][p] = row[p]
      /\ \A m \in Node : written[t][m] = IF m = n THEN NewRow(n, p) ELSE None
      /\ \A m \in Node : m \in move[t].matched <=> m # n /\ InSubtree(n, m)
      /\ n \in Node /\ p \in Node /\ MayMove(n, p) /\ n \in Stored
      /\ NewRow(n, p) # None
      /\ \A u \in Task : move[u].at # "idle" => u = t
  BY <1>1, WithinMove DEF TreeInv, Progress, ProgressOf
<1>3. ASSUME NEW m \in Node
      PROVE  (IF w(m) # None THEN w(m) ELSE row[m]) = Moved(n, p, m)
  <2>1. CASE m = n
    BY <1>2, <2>1 DEF Moved, NoRows
  <2>2. CASE m # n /\ ~InSubtree(n, m)
    BY <1>2, <2>2 DEF Moved, NoRows
  <2>3. CASE m # n /\ InSubtree(n, m)
    <3>1. Visible(t, m) = row[m] /\ m \in Stored
      BY <1>2, <2>3 DEF Visible, NoRows, InSubtree
    <3>2. Below(t, m) /\ m \in move[t].matched
      BY <1>2, <2>3, <3>1 DEF Below, InSubtree, OldPath, Stored
    <3>3. w(m) = Shifted(t, row[m])
      BY <3>1, <3>2
    <3>4. row[m] \in Row /\ Sound(m, row[m])
      BY <3>1, StoredRow DEF ColumnInv, AllSound
    <3>5. IsPrefix(OldPath(t), row[m].path)
      BY <3>1, <3>2 DEF Below
    <3>6. w(m) \in Row
      <4> HIDE DEF w
      <4> QED BY <1>1, <3>3, <3>4, <3>5, ShiftedRow
    <3>7. Shifted(t, row[m]) = Moved(n, p, m)
      <4>1. OldPath(t) = row[n].path /\ NewPath(t) = NewRow(n, p).path
            /\ DepthDelta(t) = row[p].depth - row[n].depth + 1
        BY <1>2 DEF OldPath, NewPath, NewRow, DepthDelta
      <4>2. Rebased(t, row[m].path) = Rebase(row[n].path, NewRow(n, p).path, row[m].path)
        BY <4>1 DEF Rebased, Rebase
      <4> QED BY <2>3, <4>1, <4>2 DEF Shifted, Moved
    <3> HIDE DEF w
    <3> QED BY <3>3, <3>6, <3>7, NoneIsNoRow
  <2> QED BY <2>1, <2>2, <2>3
<1> HIDE DEF n, p, w
<1>4. /\ move'[t].at = "refresh" /\ move'[t].node = n /\ move'[t].under = p
      /\ \A u \in Task \ {t} : move'[u] = move[u] /\ written'[u] = written[u]
      /\ \A m \in Node : Visible(t, m)' = IF w(m) # None THEN w(m) ELSE row[m]
  BY <1>1 DEF ColumnInv, TypeOK, n, p, Visible
<1>5. ProgressOf(t)'
  BY <1>1, <1>2, <1>3, <1>4, SameTable DEF ProgressOf
<1> QED BY <1>1, <1>4, <1>5, TreeWithin

LEMMA TreeRefresh ==
  ASSUME ColumnInv, TreeInv, NEW t \in Task, Refresh(t)
  PROVE  TreeInv'
<1> DEFINE n == move[t].node
           p == move[t].under
<1>1. /\ move[t].at = "refresh" /\ UNCHANGED <<row, written>>
      /\ move' = [move EXCEPT ![t].at = "commit"]
  BY DEF Refresh, Goto
<1>2. /\ n \in Node /\ p \in Node /\ MayMove(n, p)
      /\ \A m \in Node : Visible(t, m) = Moved(n, p, m)
      /\ \A u \in Task : move[u].at # "idle" => u = t
  BY <1>1, WithinMove DEF TreeInv, Progress, ProgressOf
<1>3. /\ move'[t].at = "commit" /\ move'[t].node = n /\ move'[t].under = p
      /\ \A u \in Task \ {t} : move'[u] = move[u] /\ written'[u] = written[u]
      /\ \A m \in Node : Visible(t, m)' = Visible(t, m)
  BY <1>1 DEF ColumnInv, TypeOK, Visible
<1> HIDE DEF n, p
<1>4. ProgressOf(t)'
  BY <1>1, <1>2, <1>3, SameTable DEF ProgressOf
<1> QED BY <1>1, <1>3, <1>4, TreeWithin

\* What a commit makes of the table.
LEMMA CommitMoves ==
  ASSUME ColumnInv, TreeInv, NEW t \in Task, Commit(t)
  PROVE  /\ move[t].node \in Node /\ move[t].under \in Node
         /\ MayMove(move[t].node, move[t].under)
         /\ MovedParts(move[t].node, move[t].under)
<1> DEFINE n == move[t].node
           p == move[t].under
<1>1. move[t].at = "commit" /\ row' = [m \in Node |-> Visible(t, m)]
  BY DEF Commit
<1>2. /\ n \in Node /\ p \in Node /\ MayMove(n, p)
      /\ \A m \in Node : Visible(t, m) = Moved(n, p, m)
  BY <1>1, WithinMove DEF TreeInv, Progress, ProgressOf
<1>3. row' \in [Node -> Row \cup {None}]
  BY ColumnEnd DEF ColumnInv, TypeOK
<1> HIDE DEF n, p
<1>4. \A m \in Node : row'[m] = Moved(n, p, m)
  BY <1>1, <1>2
<1>5. MovedParts(n, p)
  BY <1>2, <1>3, <1>4, MovedTable DEF TreeInv
<1> QED BY <1>2, <1>5 DEF n, p

LEMMA TreeEnd ==
  ASSUME ColumnInv, TreeInv, NEW t \in Task, Commit(t) \/ Rollback(t)
  PROVE  TreeInv'
<1>1. move[t].at # "idle"
  BY DEF Commit, Rollback
<1>2. /\ move' = [move EXCEPT ![t] = Idle]
      /\ written' = [written EXCEPT ![t] = NoRows]
  BY DEF Commit, Rollback, EndTransaction
<1>3. \A u \in Task : move'[u].at = "idle" /\ written'[u] = NoRows
  BY <1>1, <1>2, WithinMove DEF ColumnInv, TypeOK, Idle
<1>4. Progress'
  BY <1>3 DEF Progress, ProgressOf, NoRows
<1>5. CASE Commit(t)
  BY <1>4, <1>5, CommitMoves, MoveKeepsTree DEF TreeInv
<1>6. CASE Rollback(t)
  BY <1>4, <1>6, SameTable DEF TreeInv, Rollback
<1> QED BY <1>5, <1>6

LEMMA TreeStep ==
  ASSUME OneAtATime, ColumnInv, TreeInv, [Next]_vars
  PROVE  TreeInv'
<1>1. CASE UNCHANGED vars
  <2>1. UNCHANGED <<row, view, move, written>>
    BY <1>1 DEF vars
  <2>2. Progress'
    BY <2>1, SameTable DEF TreeInv, Progress, ProgressOf, ColumnInv, Moving, Visible, NoRows
  <2> QED BY <2>1, <2>2, SameTable DEF TreeInv
<1>2. ASSUME NEW t \in Task, NEW n \in Node, NEW p \in Node \cup {None}, Create(t, n, p)
      PROVE  TreeInv'
  BY <1>2, TreeCreate
<1>3. ASSUME NEW t \in Task, NEW n \in Node, Load(t, n) \/ Drop(t, n)
      PROVE  TreeInv'
  BY <1>3, TreeViews
<1>4. ASSUME NEW t \in Task, NEW n \in Node, NEW p \in Node, MoveTo(t, n, p)
      PROVE  TreeInv'
  BY <1>4, TreeMoveTo
<1>5. ASSUME NEW t \in Task,
             \/ UpdateSelf(t) \/ Match(t) \/ Cascade(t)
             \/ Refresh(t) \/ Commit(t) \/ Rollback(t)
      PROVE  TreeInv'
  BY <1>5, TreeUpdateSelf, TreeMatch, TreeCascade, TreeRefresh, TreeEnd
<1> QED BY <1>1, <1>2, <1>3, <1>4, <1>5 DEF Next

-----------------------------------------------------------------------------
(* What the tree means for the queries, the moves and the links.             *)

\* The roots are the nodes whose path is one label.
LEMMA RootsByPath ==
  ASSUME ColumnInv, Tree, NEW m \in Stored
  PROVE  row[m].parent = None <=> Len(row[m].path) = 1
<1>1. CASE row[m].parent = None
  <2>1. row[m].path = <<NameOf[m]>>
    BY <1>1 DEF Tree, Chained
  <2> QED BY <1>1, <2>1
<1>2. CASE row[m].parent # None
  <2> DEFINE q == row[m].parent
             k == Len(row[q].path)
  <2>1. q \in Stored /\ row[m].path = Append(row[q].path, NameOf[m])
    BY <1>2 DEF Tree, Chained
  <2>2. row[q].path \in Path /\ NameOf[m] \in Label /\ k \in Nat /\ k > 0
    BY <2>1, StoredRow
  <2>3. Len(row[m].path) = k + 1
    BY <2>1, <2>2, AppendProperties DEF Path
  <2> HIDE DEF k
  <2> QED BY <1>2, <2>2, <2>3
<1> QED BY <1>1, <1>2

LEMMA FirstLabel ==
  ASSUME NEW s \in Path, NEW t \in Path, t # <<>>
  PROVE  s = <<Head(t)>> <=> Len(s) = 1 /\ IsPrefix(s, t)
<1>1. Len(s) \in Nat /\ Len(t) \in Nat /\ Len(t) # 0
  BY LenProperties, EmptySeq DEF Path
<1>2. Head(t) = t[1] /\ 1 \in 1 .. Len(t) /\ Head(t) \in Label
  <2>1. Head(t) = t[1] /\ 1 \in 1 .. Len(t)
    BY <1>1 DEF Path
  <2> QED BY <2>1, ElementOfSeq DEF Path
<1>3. ASSUME s = <<Head(t)>> PROVE Len(s) = 1 /\ IsPrefix(s, t)
  <2>1. Len(s) = 1 /\ s[1] = t[1]
    BY <1>2, <1>3
  <2>2. Len(s) <= Len(t) /\ \A i \in 1 .. Len(s) : s[i] = t[i]
    BY <1>1, <2>1
  <2> QED BY <2>1, <2>2, PrefixElements
<1>4. ASSUME Len(s) = 1, IsPrefix(s, t) PROVE s = <<Head(t)>>
  <2> DEFINE x == <<Head(t)>>
  <2>1. x \in Path /\ Len(x) = 1 /\ x[1] = t[1]
    BY <1>2 DEF Path
  <2>2. s[1] = t[1]
    BY <1>4, PrefixElements
  <2> HIDE DEF x
  <2>3. s = x
    BY <1>4, <2>1, <2>2, SeqEqual DEF Path
  <2> QED BY <2>3 DEF x
<1> QED BY <1>3, <1>4

LEMMA ValidTree ==
  ASSUME ColumnInv, Tree
  PROVE  AlwaysValid
<1> SUFFICES ASSUME NEW n \in Stored PROVE validate_hierarchy(n)
  BY DEF AlwaysValid
<1> DEFINE q == row[n].parent
<1>1. Last(row[n].path) = NameOf[n] /\ row[n].depth = Len(row[n].path) - 1
  BY StoredRow
<1>2. ASSUME q # None
      PROVE  q \in Stored /\ SameNamespace(q, n) /\ IsStrictPrefix(row[q].path, row[n].path)
  <2>1. /\ q \in Stored /\ SameNamespace(q, n)
        /\ row[n].path = Append(row[q].path, NameOf[n])
    BY <1>2 DEF Tree, Chained
  <2> DEFINE s == row[q].path
  <2>2. s \in Path /\ NameOf[n] \in Label /\ Len(s) \in Nat
    BY <2>1, StoredRow
  <2> HIDE DEF s
  <2>3. IsPrefix(s, Append(s, NameOf[n])) /\ Len(Append(s, NameOf[n])) = Len(s) + 1
    BY <2>2, PrefixOfAppend, AppendProperties DEF Path
  <2>4. s # Append(s, NameOf[n])
    BY <2>2, <2>3
  <2> QED BY <2>1, <2>3, <2>4 DEF s, IsStrictPrefix
<1> QED BY <1>1, <1>2 DEF validate_hierarchy

LEMMA QueriesOfTree ==
  ASSUME ColumnInv, Tree
  PROVE  QueriesFollowLinks
<1> SUFFICES
      ASSUME NEW n \in Stored
      PROVE  LET above == {m \in Stored \ {n} : n \in Forest!Subtree(m)} IN
             /\ get_descendants(n) = Forest!Subtree(n) \ {n}
             /\ get_ancestors(n) = above
             /\ get_children(n) =
                  {m \in get_descendants(n) : Len(row[m].path) = Len(row[n].path) + 1}
             /\ get_siblings(n) = {m \in Stored \ {n} : row[m].parent = row[n].parent
                                                        /\ row[n].parent # None}
             /\ get_path_to_root(n) = above \cup {n}
             /\ get_root(n) = {m \in above \cup {n} : row[m].parent = None}
  BY DEF QueriesFollowLinks
<1> DEFINE above == {m \in Stored \ {n} : n \in Forest!Subtree(m)}
<1>0. n \in Node /\ Stored \subseteq Node
  BY DEF Stored
<1>1. \A m \in Stored : m \in above <=> m # n /\ InSubtree(m, n)
  BY <1>0, SubtreeByPath
<1>2. get_descendants(n) = Forest!Subtree(n) \ {n}
  BY <1>0, SubtreeByPath DEF get_descendants, InSubtree
<1>3. get_ancestors(n) = above
  <2>1. \A m : m \in get_ancestors(n) <=> m \in Stored /\ m # n /\ InSubtree(m, n)
    BY DEF get_ancestors, InSubtree, SameNamespace
  <2> QED BY <1>1, <2>1
<1>4. get_children(n) = {m \in get_descendants(n) : Len(row[m].path) = Len(row[n].path) + 1}
  <2>1. ASSUME NEW m \in Stored, row[m].parent = n
        PROVE  m # n /\ InSubtree(n, m) /\ Len(row[m].path) = Len(row[n].path) + 1
    <3>1. InSubtree(n, n) /\ n # None
      BY StoredRow, PrefixOrder, HierarchyModelAssumption, <1>0 DEF InSubtree, SameNamespace
    <3>2. InSubtree(n, m) /\ row[m].path = Append(row[n].path, NameOf[m])
      BY <2>1, <3>1, ChildInSubtree DEF Tree, Chained
    <3>3. Len(row[m].path) = Len(row[n].path) + 1 /\ Len(row[n].path) \in Nat
      BY <3>2, StoredRow, AppendProperties DEF Path
    <3> QED BY <3>2, <3>3
  <2>2. ASSUME NEW m \in Stored, m # n, InSubtree(n, m), Len(row[m].path) = Len(row[n].path) + 1
        PROVE  row[m].parent = n
    <3> DEFINE q == row[m].parent
    <3>1. q \in Stored /\ InSubtree(n, q) /\ Len(row[q].path) + 1 = Len(row[m].path)
      BY <2>2, ParentInSubtree
    <3>2. Len(row[q].path) = Len(row[n].path)
      BY <2>2, <3>1, StoredRow
    <3> HIDE DEF q
    <3>3. row[n].path = row[q].path
      BY <3>1, <3>2, StoredRow, PrefixOrder DEF InSubtree
    <3>4. q = n
      BY <3>1, <3>3 DEF InSubtree, Tree, PathsDiffer
    <3> QED BY <3>4 DEF q
  <2>3. \A m : m \in get_descendants(n) <=> m \in Stored /\ m # n /\ InSubtree(n, m)
    BY DEF get_descendants, InSubtree
  <2> QED BY <2>1, <2>2, <2>3 DEF get_children
<1>5. get_siblings(n) = {m \in Stored \ {n} : row[m].parent = row[n].parent
                                              /\ row[n].parent # None}
  <2>1. ASSUME NEW m \in Stored, row[m].parent = row[n].parent, row[n].parent # None
        PROVE  row[m].depth = row[n].depth
    <3> DEFINE q == row[n].parent
    <3>1. /\ q \in Stored /\ row[n].path = Append(row[q].path, NameOf[n])
          /\ row[m].path = Append(row[q].path, NameOf[m])
      BY <2>1 DEF Tree, Chained
    <3>2. row[q].path \in Path /\ NameOf[n] \in Label /\ NameOf[m] \in Label
      BY <3>1, StoredRow
    <3>3. Len(row[n].path) = Len(row[q].path) + 1 /\ Len(row[m].path) = Len(row[q].path) + 1
      BY <3>1, <3>2, AppendProperties DEF Path
    <3> QED BY <3>3, StoredRow
  <2> QED BY <2>1 DEF get_siblings
<1>6. get_path_to_root(n) = above \cup {n}
  <2>1. ASSUME NEW m \in Stored
        PROVE  SameNamespace(m, n) /\ row[m].path \in Prefixes(row[n].path) <=> InSubtree(m, n)
    BY StoredRow, PrefixesAre DEF InSubtree, SameNamespace
  <2> QED BY <1>1, <2>1 DEF get_path_to_root
<1>7. get_root(n) = {m \in above \cup {n} : row[m].parent = None}
  <2>1. ASSUME NEW m \in Stored
        PROVE  m \in get_root(n) <=> (m \in above \/ m = n) /\ row[m].parent = None
    <3> DEFINE s == row[m].path
               w == row[n].path
    <3>1. /\ s \in Path /\ w \in Path /\ w # <<>> /\ Len(s) \in Nat /\ Len(w) \in Nat /\ Len(w) > 0
      BY StoredRow
    <3>2. row[m].parent = None <=> Len(s) = 1
      BY RootsByPath
    <3>3. row[n].parent = None <=> Len(w) = 1
      BY RootsByPath
    <3>4. m \in above <=> m # n /\ SameNamespace(n, m) /\ IsPrefix(s, w)
      BY <1>1 DEF InSubtree
    <3>5. SameNamespace(n, m) /\ s = w => m = n
      BY DEF Tree, PathsDiffer
    <3>6. m = n => s = w
      OBVIOUS
    <3>7. SameNamespace(m, n) <=> SameNamespace(n, m)
      BY DEF SameNamespace
    <3>8. m \in get_root(n) <=> IF Len(w) = 1 THEN m = n
                                ELSE SameNamespace(m, n) /\ s = <<Head(w)>>
      BY DEF get_root
    <3> HIDE DEF s, w, above
    <3>9. s = <<Head(w)>> <=> Len(s) = 1 /\ IsPrefix(s, w)
      BY <3>1, FirstLabel
    <3>10. IsPrefix(s, w) /\ Len(s) = Len(w) => s = w
      BY <3>1, PrefixOrder
    <3>11. CASE Len(w) = 1
      BY <3>2, <3>3, <3>4, <3>5, <3>6, <3>8, <3>10, <3>11
    <3>12. CASE Len(w) # 1
      BY <3>2, <3>4, <3>6, <3>7, <3>8, <3>9, <3>12
    <3> QED BY <3>11, <3>12
  <2>2. get_root(n) \subseteq Stored /\ above \cup {n} \subseteq Stored
    BY DEF get_root
  <2> HIDE DEF above
  <2> QED BY <2>1, <2>2
<1> QED BY <1>2, <1>3, <1>4, <1>5, <1>6, <1>7

\* Only one kind of step changes rows that there are.
LEMMA TableSteps ==
  ASSUME OneAtATime, ColumnInv, TreeInv, [Next]_vars
  PROVE  \/ row' = row
         \/ \E t \in Task, n \in Node, p \in Node \cup {None} : Create(t, n, p)
         \/ \E t \in Task : Commit(t)
<1>1. CASE UNCHANGED vars
  BY <1>1 DEF vars
<1>2. CASE Next
  BY <1>2 DEF Next, Load, Drop, MoveTo, UpdateSelf, Match, Cascade, Refresh, Rollback
<1> QED BY <1>1, <1>2

LEMMA MovedPaths ==
  ASSUME OneAtATime, ColumnInv, TreeInv, [Next]_vars,
         NEW t \in Task, move[t].at = "commit", row' # row
  PROVE  {m \in Stored : row'[m].path # row[m].path} \in {{}, Forest!Subtree(move[t].node)}
<1>1. Commit(t)
  <2>1. ASSUME NEW u \in Task, Commit(u) PROVE u = t
    <3>1. move[u].at # "idle" /\ move[t].at # "idle"
      BY <2>1 DEF Commit
    <3> QED BY <3>1 DEF TreeInv, Progress, ProgressOf
  <2>2. ASSUME NEW u \in Task, NEW n \in Node, NEW p \in Node \cup {None}, Create(u, n, p)
        PROVE  FALSE
    BY <2>2 DEF Create, MayStart, OneAtATime
  <2> QED BY <2>1, <2>2, TableSteps
<1>2. PICK n \in Node, p \in Node :
        n = move[t].node /\ MayMove(n, p) /\ MovedParts(n, p)
  BY <1>1, CommitMoves
<1> DEFINE old == row[n].path
           new == Append(row[p].path, NameOf[n])
<1>3. n \in Stored /\ p \in Stored
  BY <1>2 DEF MayMove
<1>4. old \in Path /\ new \in Path
  BY <1>3, StoredRow, NewPathOf
<1>5. ASSUME NEW m \in Stored
      PROVE  row'[m].path # row[m].path <=> InSubtree(n, m) /\ old # new
  <2>1. row'[m].path = IF InSubtree(n, m) THEN Rebase(old, new, row[m].path) ELSE row[m].path
    BY <1>2 DEF MovedParts
  <2>2. row[m].path \in Path
    BY StoredRow
  <2>3. InSubtree(n, m) => IsPrefix(old, row[m].path)
    BY DEF InSubtree
  <2> HIDE DEF old, new
  <2> QED BY <1>4, <2>1, <2>2, <2>3, RebaseIsOver
<1>6. Forest!Subtree(n) = {m \in Node : InSubtree(n, m)}
  BY <1>3, SubtreeByPath DEF TreeInv
<1> HIDE DEF old, new
<1>7. CASE old = new
  BY <1>5, <1>7
<1>8. CASE old # new
  <2>1. {m \in Stored : row'[m].path # row[m].path} = Forest!Subtree(n)
    BY <1>5, <1>6, <1>8 DEF InSubtree, Stored
  <2> QED BY <1>2, <2>1
<1> QED BY <1>7, <1>8

LEMMA LinksStep ==
  ASSUME OneAtATime, ColumnInv, TreeInv, [Next]_vars
  PROVE  [Forest!Next]_Links
<1>1. DOMAIN Links = Stored /\ \A m \in Stored : Links[m] = row[m].parent
  BY DEF Links
<1>2. CASE row' = row
  BY <1>2, SameTable DEF Links
<1>3. ASSUME NEW t \in Task, NEW n \in Node, NEW p \in Node \cup {None}, Create(t, n, p)
      PROVE  Forest!Plant(n, p)
  <2>1. /\ n \notin Stored /\ p \in Stored \cup {None}
        /\ row' = [row EXCEPT ![n] =
             [path |-> Append(PathOf(p), NameOf[n]), parent |-> p, depth |-> Len(PathOf(p))]]
    BY <1>3 DEF Create, PathOf
  <2>2. row'[n].parent = p /\ \A m \in Stored : row'[m] = row[m]
    BY <2>1 DEF ColumnInv, TypeOK, Stored
  <2>3. Stored' = Stored \cup {n}
    BY <1>3, CreatedRow
  <2>4. Links' = [m \in Stored \cup {n} |-> IF m = n THEN p ELSE Links[m]]
    BY <1>1, <2>1, <2>2, <2>3 DEF Links
  <2> QED BY <1>1, <2>1, <2>4 DEF Forest!Plant
<1>4. ASSUME NEW t \in Task, Commit(t)
      PROVE  \E n \in Node, p \in Node \cup {None} : Forest!Graft(n, p)
  <2>1. PICK n \in Node, p \in Node : MayMove(n, p) /\ MovedParts(n, p)
    BY <1>4, CommitMoves
  <2>2. n \in Stored /\ p \in Stored
    BY <2>1 DEF MayMove
  <2>3. p \notin Forest!Subtree(n)
    BY <2>1, <2>2, SubtreeByPath, TargetIsOutside DEF TreeInv
  <2>4. Stored' = Stored /\ \A m \in Stored : row'[m].parent = IF m = n THEN p ELSE row[m].parent
    BY <2>1 DEF MovedParts
  <2>5. Links' = [Links EXCEPT ![n] = p]
    BY <2>2, <2>4 DEF Links
  <2> QED BY <1>1, <2>2, <2>3, <2>5 DEF Forest!Graft
<1> QED BY <1>2, <1>3, <1>4, TableSteps DEF Forest!Next

LEMMA TreeAlways == OneAtATime /\ Spec => [](ColumnInv /\ TreeInv)
<1>1. CASE OneAtATime
  <2>1. Init => ColumnInv /\ TreeInv
    BY ColumnInit, TreeInit
  <2>2. ColumnInv /\ TreeInv /\ [Next]_vars => (ColumnInv /\ TreeInv)'
    BY <1>1, ColumnStep, TreeStep
  <2> QED BY <2>1, <2>2, PTL DEF Spec
<1>2. CASE ~OneAtATime
  BY <1>2, PTL
<1> QED BY <1>1, <1>2

\* Where moves come one at a time, with instances as the table has them, and siblings
\* have names of their own, validate_hierarchy finds nothing to report.
THEOREM HierarchyIsValid == OneAtATime /\ Spec => []AlwaysValid
<1>1. ColumnInv /\ TreeInv => AlwaysValid
  BY ValidTree DEF TreeInv
<1> QED BY <1>1, TreeAlways, PTL

\* There, the ltree queries answer what the parent links say: after any moves of any
\* subtrees, in any number of namespaces.
THEOREM QueriesAreRight == OneAtATime /\ Spec => []QueriesFollowLinks
<1>1. ColumnInv /\ TreeInv => QueriesFollowLinks
  BY QueriesOfTree DEF TreeInv
<1> QED BY <1>1, TreeAlways, PTL

\* There, a committed move changes the paths of the moved node and of its descendants,
\* or of no node, when the node stays where it was.
THEOREM MoveIsOfSubtree == OneAtATime /\ Spec => MovesTheSubtree
<1> DEFINE Step == \A t \in Task : move[t].at = "commit" /\ row' # row =>
              {m \in Stored : row'[m].path # row[m].path}
                \in {{}, Forest!Subtree(move[t].node)}
<1>1. CASE OneAtATime
  <2>1. ColumnInv /\ TreeInv /\ [Next]_vars => [Step]_vars
    BY <1>1, MovedPaths
  <2>2. OneAtATime /\ Spec => [][Step]_vars
    BY <2>1, TreeAlways, PTL DEF Spec
  <2> QED BY <2>2 DEF MovesTheSubtree
<1>2. CASE ~OneAtATime
  BY <1>2
<1> QED BY <1>1, <1>2

\* There, the table behind its parent links is a forest: a created node is planted, a
\* committed move grafts a subtree under a node outside of it, and no other step shows.
THEOREM HierarchyRefinesForest == OneAtATime /\ Spec => ImplementsForest
<1>1. Init => Forest!Init
  BY DEF Init, Forest!Init, Links, Stored, NoRows
<1>2. CASE OneAtATime
  <2>1. ColumnInv /\ TreeInv /\ [Next]_vars => [Forest!Next]_Links
    BY <1>2, LinksStep
  <2> QED BY <1>1, <2>1, TreeAlways, PTL DEF Spec, ImplementsForest, Forest!Spec
<1>3. CASE ~OneAtATime
  BY <1>3, PTL
<1> QED BY <1>2, <1>3
====
