-------------------------- MODULE SoftDeleteProofs --------------------------
(* Proofs about SoftDelete, for every table, every set of filters and chains *)
(* of any length.                                                            *)
EXTENDS SoftDelete, TLAPS

\* Where the scope is in _q_objects, and that everything else there is a filter of the user.
Layout(qs, a) ==
  /\ qs.index <= Len(qs.objects)
  /\ qs.mode = 0 => qs.index # 0 /\ qs.objects[qs.index] = Live /\ a.scope = "live"
  /\ qs.mode = 1 => qs.index = 0 /\ a.scope = "all"
  /\ qs.mode = 2 => qs.index # 0 /\ qs.objects[qs.index] = Dead /\ a.scope = "deleted"
  /\ \A f \in a.filters : \E n \in DOMAIN qs.objects : n # qs.index /\ qs.objects[n] = f
  /\ \A n \in DOMAIN qs.objects : n # qs.index => qs.objects[n] \in a.filters

\* An instance whose UPDATE is under way holds what it is going to write.
Pending ==
  \A h \in Handle : inst[h] # None /\ inst[h].at # "idle"
                      => inst[h].deleted = (inst[h].at = "delete")

SoftInv ==
  TypeOK /\ (\A q \in Query : Layout(query[q], asked[q])) /\ Pending /\ MemoryAgrees

-----------------------------------------------------------------------------
(* The chain of queryset calls                                               *)

LEMMA Concatenated ==
  ASSUME NEW S, NEW s \in Seq(S), NEW t \in Seq(S)
  PROVE  /\ s \o t \in Seq(S) /\ Len(s \o t) = Len(s) + Len(t)
         /\ \A n \in 1 .. Len(s) + Len(t) :
              (s \o t)[n] = IF n <= Len(s) THEN s[n] ELSE t[n - Len(s)]
  OBVIOUS

LEMMA RemovedAt ==
  ASSUME NEW S, NEW s \in Seq(S), NEW k \in 1 .. Len(s)
  PROVE  /\ RemoveAt(s, k) \in Seq(S)
         /\ Len(RemoveAt(s, k)) = Len(s) - 1
         /\ \A n \in 1 .. Len(s) - 1 : RemoveAt(s, k)[n] = IF n < k THEN s[n] ELSE s[n + 1]
  <1> DEFINE front == SubSeq(s, 1, k - 1)
             back == SubSeq(s, k + 1, Len(s))
  <1>1. /\ front \in Seq(S) /\ Len(front) = k - 1
        /\ \A n \in 1 .. k - 1 : front[n] = s[n]
    OBVIOUS
  <1>2. /\ back \in Seq(S) /\ Len(back) = Len(s) - k
        /\ \A n \in 1 .. Len(s) - k : back[n] = s[n + k]
    OBVIOUS
  <1>3. /\ front \o back \in Seq(S) /\ Len(front \o back) = Len(s) - 1
        /\ \A n \in 1 .. Len(s) - 1 :
             (front \o back)[n] = IF n < k THEN front[n] ELSE back[n - (k - 1)]
    <2> HIDE DEF front, back
    <2>1. /\ front \o back \in Seq(S) /\ Len(front \o back) = Len(front) + Len(back)
          /\ \A n \in 1 .. Len(front) + Len(back) :
               (front \o back)[n] = IF n <= Len(front) THEN front[n] ELSE back[n - Len(front)]
      BY <1>1, <1>2, Concatenated
    <2>2. Len(s) \in Nat
      OBVIOUS
    <2> QED BY <1>1, <1>2, <2>1, <2>2
  <1>4. ASSUME NEW n \in 1 .. Len(s) - 1
        PROVE  (front \o back)[n] = IF n < k THEN s[n] ELSE s[n + 1]
    <2> HIDE DEF front, back
    <2>1. CASE n < k
      BY <2>1, <1>1, <1>3
    <2>2. CASE ~(n < k)
      <3>1. n - (k - 1) \in 1 .. Len(s) - k /\ (n - (k - 1)) + k = n + 1
        BY <2>2
      <3>2. back[n - (k - 1)] = s[n + 1]
        BY <3>1, <1>2
      <3> QED BY <2>2, <1>3, <3>2
    <2> QED BY <2>1, <2>2
  <1> QED BY <1>3, <1>4 DEF RemoveAt

LEMMA FreshLayout == Fresh \in QuerySet /\ Layout(Fresh, Promise!Everything)
  BY DEF Fresh, QuerySet, Layout, Promise!Everything, Live

LEMMA FilteredLayout ==
  ASSUME NEW qs \in QuerySet, NEW a \in Promise!Asked, NEW f \in Filter, Layout(qs, a)
  PROVE  LET b == [a EXCEPT !.filters = @ \cup {f}] IN
         Filtered(qs, f) \in QuerySet /\ b \in Promise!Asked /\ Layout(Filtered(qs, f), b)
  <1> DEFINE b == [a EXCEPT !.filters = @ \cup {f}]
             fs == Filtered(qs, f)
  <1>0. f \in SUBSET Row
    BY SoftDeleteAssumption
  <1>1. fs \in QuerySet /\ b \in Promise!Asked
    BY <1>0 DEF Filtered, QuerySet, Promise!Asked
  <1>2. /\ fs.index = qs.index /\ fs.mode = qs.mode /\ b.scope = a.scope
        /\ b.filters = a.filters \cup {f}
        /\ Len(fs.objects) = Len(qs.objects) + 1 /\ fs.objects[Len(qs.objects) + 1] = f
        /\ \A n \in 1 .. Len(qs.objects) : fs.objects[n] = qs.objects[n]
        /\ DOMAIN qs.objects = 1 .. Len(qs.objects)
        /\ DOMAIN fs.objects = 1 .. Len(qs.objects) + 1
        /\ Len(qs.objects) \in Nat /\ qs.index \in Nat
    BY <1>0 DEF Filtered, QuerySet, Promise!Asked
  <1>3. Layout(fs, b)
    <2> HIDE DEF b, fs
    <2>1. \A n \in 1 .. Len(qs.objects) : n # qs.index => fs.objects[n] \in b.filters
      BY <1>2 DEF Layout
    <2>2. ASSUME NEW g \in b.filters
          PROVE  \E n \in DOMAIN fs.objects : n # fs.index /\ fs.objects[n] = g
      <3>1. CASE g = f
        <4>1. Len(qs.objects) + 1 # fs.index
          BY <1>2 DEF Layout
        <4> QED BY <1>2, <3>1, <4>1
      <3>2. CASE g \in a.filters
        BY <1>2, <3>2 DEF Layout
      <3> QED BY <1>2, <2>2, <3>1, <3>2
    <2>3. \A n \in DOMAIN fs.objects : n # fs.index => fs.objects[n] \in b.filters
      BY <1>2, <2>1
    <2>4. fs.index # 0 => fs.objects[fs.index] = qs.objects[qs.index]
      BY <1>2 DEF Layout
    <2>5. fs.index <= Len(fs.objects)
      BY <1>2 DEF Layout
    <2>6. /\ fs.mode = 0 => fs.index # 0 /\ fs.objects[fs.index] = Live /\ b.scope = "live"
          /\ fs.mode = 1 => fs.index = 0 /\ b.scope = "all"
          /\ fs.mode = 2 => fs.index # 0 /\ fs.objects[fs.index] = Dead /\ b.scope = "deleted"
      BY <1>2, <2>4 DEF Layout
    <2> QED BY <2>2, <2>3, <2>5, <2>6 DEF Layout
  <1> QED BY <1>1, <1>3

LEMMA WithDeletedLayout ==
  ASSUME NEW qs \in QuerySet, NEW a \in Promise!Asked, Layout(qs, a)
  PROVE  LET b == [a EXCEPT !.scope = "all"] IN
         WithDeleted(qs) \in QuerySet /\ b \in Promise!Asked /\ Layout(WithDeleted(qs), b)
  <1> DEFINE b == [a EXCEPT !.scope = "all"]
             ws == WithDeleted(qs)
  <1>1. b \in Promise!Asked /\ b.scope = "all" /\ b.filters = a.filters
    BY DEF Promise!Asked, Promise!Scopes
  <1>2. CASE qs.index = 0
    BY <1>1, <1>2 DEF WithDeleted, QuerySet, Layout
  <1>3. CASE qs.index # 0
    <2> DEFINE rest == RemoveAt(qs.objects, qs.index)
    <2>1. qs.objects \in Seq(SUBSET Row) /\ qs.index \in 1 .. Len(qs.objects)
      BY <1>3 DEF QuerySet, Layout
    <2>2. /\ rest \in Seq(SUBSET Row) /\ Len(rest) = Len(qs.objects) - 1
          /\ \A n \in 1 .. Len(qs.objects) - 1 :
               rest[n] = IF n < qs.index THEN qs.objects[n] ELSE qs.objects[n + 1]
      BY <2>1, RemovedAt
    <2> HIDE DEF rest
    <2>3. ws = [objects |-> rest, index |-> 0, mode |-> 1]
      BY <1>3 DEF WithDeleted, rest
    <2>4. ASSUME NEW n \in DOMAIN rest PROVE rest[n] \in a.filters
      BY <2>1, <2>2 DEF Layout
    <2>5. ASSUME NEW f \in a.filters PROVE \E n \in DOMAIN rest : n # 0 /\ rest[n] = f
      <3>1. PICK n \in 1 .. Len(qs.objects) : n # qs.index /\ qs.objects[n] = f
        BY <2>1 DEF Layout
      <3>2. CASE n < qs.index
        BY <3>1, <3>2, <2>1, <2>2
      <3>3. CASE n > qs.index
        <4>1. n - 1 \in DOMAIN rest /\ n - 1 # 0 /\ rest[n - 1] = qs.objects[n]
          BY <3>3, <2>1, <2>2
        <4> QED BY <3>1, <4>1
      <3> QED BY <3>1, <3>2, <3>3, <2>1
    <2> QED BY <1>1, <2>2, <2>3, <2>4, <2>5 DEF QuerySet, Layout
  <1> QED BY <1>2, <1>3 DEF QuerySet

LEMMA OnlyDeletedLayout ==
  ASSUME NEW qs \in QuerySet, NEW a \in Promise!Asked, Layout(qs, a)
  PROVE  LET b == [a EXCEPT !.scope = "deleted"] IN
         OnlyDeleted(qs) \in QuerySet /\ b \in Promise!Asked /\ Layout(OnlyDeleted(qs), b)
  <1> DEFINE b == [a EXCEPT !.scope = "deleted"]
             os == OnlyDeleted(qs)
             len == Len(qs.objects)
  <1>1. b \in Promise!Asked /\ b.scope = "deleted" /\ b.filters = a.filters
    BY DEF Promise!Asked, Promise!Scopes
  <1>2. Dead \in SUBSET Row /\ qs.objects \in Seq(SUBSET Row)
    BY DEF Dead, QuerySet
  <1>3. CASE qs.index = 0
    <2>1. os = [objects |-> Append(qs.objects, Dead), index |-> len + 1, mode |-> 2]
      BY <1>3 DEF OnlyDeleted
    <2>2. /\ os.objects \in Seq(SUBSET Row) /\ Len(os.objects) = len + 1
          /\ os.objects[len + 1] = Dead /\ \A n \in 1 .. len : os.objects[n] = qs.objects[n]
          /\ DOMAIN os.objects = 1 .. len + 1 /\ DOMAIN qs.objects = 1 .. len /\ len \in Nat
      BY <2>1, <1>2
    <2> QED
      <3> HIDE DEF b, len
      <3>1. os.index = len + 1 /\ os.mode = 2 /\ os \in QuerySet
        BY <2>1, <2>2 DEF QuerySet
      <3> HIDE DEF os
      <3>2. \A n \in 1 .. len + 1 : n # len + 1 => n \in 1 .. len /\ n # 0
        BY <2>2
      <3>3. \A n \in 1 .. len : n \in 1 .. len + 1 /\ n # len + 1
        BY <2>2
      <3>4. ASSUME NEW f \in b.filters
            PROVE  \E n \in DOMAIN os.objects : n # os.index /\ os.objects[n] = f
        <4>1. PICK n \in 1 .. len : qs.objects[n] = f
          BY <1>1, <2>2 DEF Layout
        <4> QED BY <2>2, <3>1, <3>3, <4>1
      <3>5. \A n \in 1 .. len : qs.objects[n] \in b.filters
        BY <1>1, <1>3, <2>2, <3>2, <3>3 DEF Layout
      <3>6. \A n \in DOMAIN os.objects : n # os.index => os.objects[n] \in b.filters
        BY <2>2, <3>1, <3>2, <3>5
      <3>7. Layout(os, b)
        BY <1>1, <2>2, <3>1, <3>4, <3>6 DEF Layout
      <3> QED BY <1>1, <3>1, <3>7 DEF b, os
  <1>4. CASE qs.index # 0
    <2>1. os = [objects |-> [qs.objects EXCEPT ![qs.index] = Dead], index |-> qs.index, mode |-> 2]
      BY <1>4 DEF OnlyDeleted, QuerySet
    <2>2. qs.index \in DOMAIN qs.objects
      BY <1>2, <1>4 DEF QuerySet, Layout
    <2>3. /\ os.objects \in Seq(SUBSET Row) /\ DOMAIN os.objects = DOMAIN qs.objects
          /\ os.objects[qs.index] = Dead /\ Len(os.objects) = len
          /\ \A n \in DOMAIN qs.objects : n # qs.index => os.objects[n] = qs.objects[n]
      BY <1>2, <2>1, <2>2
    <2> HIDE DEF b
    <2>4. os.index = qs.index /\ os.mode = 2 /\ os \in QuerySet
      BY <2>1, <2>3 DEF QuerySet
    <2>5. Layout(os, b)
      BY <1>1, <1>4, <2>3, <2>4 DEF Layout, QuerySet
    <2> QED BY <1>1, <2>4, <2>5 DEF b
  <1> QED BY <1>3, <1>4

(* A queryset of the right layout matches the rows that were asked for.      *)
LEMMA MatchedRows ==
  ASSUME TypeOK, NEW qs \in QuerySet, NEW a \in Promise!Asked, Layout(qs, a)
  PROVE  Matched(qs) = {i \in Stored : /\ row[i] \in Promise!Scopes[a.scope]
                                       /\ \A f \in a.filters : row[i] \in f}
  <1> SUFFICES ASSUME NEW i \in Stored
               PROVE  (\A n \in DOMAIN qs.objects : row[i] \in qs.objects[n])
                        <=> /\ row[i] \in Promise!Scopes[a.scope]
                            /\ \A f \in a.filters : row[i] \in f
    BY DEF Matched
  <1>1. /\ row[i] \in Row
        /\ Promise!Scopes["live"] = Live /\ Promise!Scopes["deleted"] = Dead
        /\ Promise!Scopes["all"] = Row
    BY DEF TypeOK, Stored, Promise!Scopes, Promise!Row, Promise!Live, Promise!Dead, Row, Live,
           Dead
  <1>2. qs.objects \in Seq(SUBSET Row) /\ DOMAIN qs.objects = 1 .. Len(qs.objects)
        /\ qs.mode \in {0, 1, 2} /\ (qs.index # 0 => qs.index \in DOMAIN qs.objects)
    BY DEF QuerySet, Layout
  <1> QED BY <1>1, <1>2 DEF Layout

-----------------------------------------------------------------------------
(* The invariant                                                             *)

LEMMA Conditions ==
  /\ Promise!Row = Row /\ Promise!Live = Live /\ Promise!Dead = Dead
  /\ Promise!Stored = Stored
  /\ Promise!Scopes["live"] = Live /\ Promise!Scopes["deleted"] = Dead
  /\ Promise!Scopes["all"] = Row
  /\ \A r \in Row :
       /\ Promise!Marked[r] \in Row /\ Promise!Marked[r].deleted
       /\ Promise!Unmarked[r] \in Row /\ ~Promise!Unmarked[r].deleted
       /\ Promise!Gone[r] = None
  /\ \A r \in Row, v \in Value :
       Promise!Revalued(v)[r] \in Row /\ Promise!Revalued(v)[r].deleted = r.deleted
  BY DEF Promise!Row, Promise!Live, Promise!Dead, Promise!Stored, Promise!Scopes, Promise!Marked,
         Promise!Unmarked, Promise!Revalued, Promise!Gone, Row, Live, Dead, Stored

LEMMA InitSoft == Init => SoftInv
  <1> SUFFICES ASSUME Init PROVE SoftInv
    OBVIOUS
  <1>1. Promise!Everything \in Promise!Asked
    BY DEF Promise!Everything, Promise!Asked, Promise!Scopes
  <1> QED BY <1>1, FreshLayout DEF Init, SoftInv, TypeOK, Pending, MemoryAgrees

(* The statements: what the table holds stays rows, who disagrees with it is *)
(* outdated.                                                                 *)
LEMMA ChangeKeepsSoft ==
  ASSUME SoftInv, NEW S \in SUBSET Stored, NEW to, Change(S, to),
         \A r \in Row : to[r] \in Row \cup {None}
  PROVE  SoftInv'
  <1>1. TypeOK'
    BY DEF SoftInv, TypeOK, Change, Stored
  <1>2. ASSUME NEW h \in (Handle \ outdated)', (inst[h] # None)', (inst[h].at = "idle")',
               (row[inst[h].id] # None)'
        PROVE  (inst[h].deleted = row[inst[h].id].deleted)'
    <2>1. inst[h] \in Instance /\ inst' = inst /\ h \notin outdated /\ ~Outdated(h)
      BY <1>2 DEF SoftInv, TypeOK, Change
    <2>2. Mark(row'[inst[h].id]) = Mark(row[inst[h].id]) /\ inst[h].id \in Id
      BY <1>2, <2>1 DEF Outdated, Instance
    <2>3. row[inst[h].id] # None
      BY <1>2, <2>1, <2>2 DEF Change, Stored
    <2>4. inst[h].deleted = row[inst[h].id].deleted
      BY <1>2, <2>1, <2>3 DEF SoftInv, MemoryAgrees
    <2>5. row[inst[h].id] \in Row /\ row'[inst[h].id] \in Row
      BY <1>1, <1>2, <2>1, <2>2, <2>3 DEF SoftInv, TypeOK
    <2> QED BY <2>1, <2>2, <2>3, <2>4, <2>5, <1>2, SoftDeleteAssumption DEF Mark, Row
  <1>3. MemoryAgrees'
    BY <1>2 DEF MemoryAgrees
  <1> QED BY <1>1, <1>3 DEF SoftInv, Pending, Change

LEMMA ChainKeepsSoft ==
  ASSUME SoftInv, NEW q \in Query, NEW qs \in QuerySet, NEW a \in Promise!Asked,
         Layout(qs, a), Chain(q, qs, a)
  PROVE  SoftInv'
  BY DEF SoftInv, TypeOK, Chain, Pending, MemoryAgrees

LEMMA QueryStepKeepsSoft ==
  ASSUME SoftInv, NEW q \in Query,
         \/ all(q) \/ filter(q) \/ with_deleted(q) \/ only_deleted(q)
         \/ delete(q) \/ restore(q) \/ hard_delete(q)
         \/ \E v \in Value : update(q, v)
  PROVE  SoftInv'
  <1>1. query[q] \in QuerySet /\ asked[q] \in Promise!Asked /\ Layout(query[q], asked[q])
    BY DEF SoftInv, TypeOK
  <1>2. \A qs : Matched(qs) \in SUBSET Stored
    BY DEF Matched
  <1>3. CASE all(q)
    <2>1. Promise!Everything \in Promise!Asked
      BY DEF Promise!Everything, Promise!Asked, Promise!Scopes
    <2> QED BY <1>3, <2>1, FreshLayout, ChainKeepsSoft DEF all
  <1>4. CASE filter(q)
    <2>1. PICK f \in Filter :
            Chain(q, Filtered(query[q], f), [asked[q] EXCEPT !.filters = @ \cup {f}])
      BY <1>4 DEF filter
    <2> QED BY <1>1, <2>1, FilteredLayout, ChainKeepsSoft
  <1>5. CASE with_deleted(q)
    BY <1>1, <1>5, WithDeletedLayout, ChainKeepsSoft DEF with_deleted
  <1>6. CASE only_deleted(q)
    BY <1>1, <1>6, OnlyDeletedLayout, ChainKeepsSoft DEF only_deleted
  <1>7. CASE delete(q)
    <2>1. CASE query[q].mode = 0
      BY <1>2, <1>7, <2>1, Conditions, ChangeKeepsSoft DEF delete
    <2>2. CASE query[q].mode # 0
      BY <1>2, <1>7, <2>2, Conditions, ChangeKeepsSoft DEF delete
    <2> QED BY <2>1, <2>2
  <1>8. CASE restore(q)
    BY <1>2, <1>8, Conditions, ChangeKeepsSoft DEF restore
  <1>9. CASE hard_delete(q)
    BY <1>2, <1>9, Conditions, ChangeKeepsSoft DEF hard_delete
  <1>10. CASE \E v \in Value : update(q, v)
    BY <1>2, <1>10, Conditions, ChangeKeepsSoft DEF update
  <1> QED BY <1>3, <1>4, <1>5, <1>6, <1>7, <1>8, <1>9, <1>10

LEMMA HoldKeepsSoft ==
  ASSUME SoftInv, NEW h \in Handle, NEW i \in Id, NEW r \in Row, Hold(h, i, r),
         row' = [row EXCEPT ![i] = r], UNCHANGED <<asked, query>>,
         row[i] = r \/ \A g \in Handle : inst[g] # None => inst[g].id # i
  PROVE  SoftInv'
  <1>1. TypeOK'
    BY DEF SoftInv, TypeOK, Hold, Instance, Row
  <1>2. ASSUME NEW g \in Handle \ outdated', inst'[g] # None, inst'[g].at = "idle",
               row'[inst'[g].id] # None
        PROVE  inst'[g].deleted = row'[inst'[g].id].deleted
    <2>1. CASE g = h
      BY <1>2, <2>1 DEF SoftInv, TypeOK, Hold
    <2>2. CASE g # h
      <3>1. inst'[g] = inst[g] /\ g \notin outdated /\ inst[g] \in Instance
        BY <1>2, <2>2 DEF SoftInv, TypeOK, Hold
      <3>2. row'[inst[g].id] = row[inst[g].id]
        BY <1>2, <3>1 DEF SoftInv, TypeOK, Instance
      <3> QED BY <1>2, <3>1, <3>2 DEF SoftInv, MemoryAgrees
    <2> QED BY <2>1, <2>2
  <1>3. Pending'
    BY DEF SoftInv, TypeOK, Hold, Pending
  <1> QED BY <1>1, <1>2, <1>3 DEF SoftInv, MemoryAgrees

LEMMA UpdateKeepsSoft ==
  ASSUME SoftInv, NEW h \in Handle, inst[h] # None, NEW r, Update(h, r),
         row[inst[h].id] # None => r \in Row /\ r.deleted = inst[h].deleted
  PROVE  SoftInv'
  <1>1. inst[h] \in Instance /\ inst[h].id \in Id
    BY DEF SoftInv, TypeOK, Instance
  <1>2. TypeOK'
    BY <1>1 DEF SoftInv, TypeOK, Update, Instance
  <1>3. ASSUME NEW g \in Handle \ outdated', inst'[g] # None, inst'[g].at = "idle",
               row'[inst'[g].id] # None
        PROVE  inst'[g].deleted = row'[inst'[g].id].deleted
    <2>1. CASE g = h
      BY <1>1, <1>3, <2>1 DEF SoftInv, TypeOK, Update, Instance
    <2>2. CASE g # h
      <3>1. inst'[g] = inst[g] /\ g \notin outdated /\ inst[g] \in Instance /\ ~Outdated(g)
        BY <1>3, <2>2 DEF SoftInv, TypeOK, Update
      <3>2. row[inst[g].id] # None /\ inst[g].id \in Id
        BY <1>1, <1>3, <3>1 DEF SoftInv, TypeOK, Update, Instance
      <3>3. row[inst[g].id] \in Row /\ row'[inst[g].id] \in Row
        BY <1>2, <1>3, <3>1, <3>2 DEF SoftInv, TypeOK
      <3>4. Mark(row'[inst[g].id]) = Mark(row[inst[g].id])
        BY <1>3, <3>1 DEF Outdated
      <3>5. inst[g].deleted = row[inst[g].id].deleted
        BY <1>3, <3>1, <3>2 DEF SoftInv, MemoryAgrees
      <3> QED BY <3>1, <3>2, <3>3, <3>4, <3>5, <1>3 DEF Mark, Row
    <2> QED BY <2>1, <2>2
  <1>4. Pending'
    BY <1>1 DEF SoftInv, TypeOK, Update, Pending, Instance
  <1> QED BY <1>2, <1>3, <1>4 DEF SoftInv, MemoryAgrees, Update

LEMMA NextSoft ==
  ASSUME SoftInv, [Next]_vars
  PROVE  SoftInv'
  <1>1. ASSUME NEW q \in Query, NEW h \in Handle, Fetch(q, h) PROVE SoftInv'
    <2>1. PICK i \in Matched(query[q]) : Hold(h, i, row[i])
      BY <1>1 DEF Fetch
    <2>2. i \in Id /\ row[i] \in Row /\ row' = [row EXCEPT ![i] = row[i]]
      BY <1>1, <2>1 DEF SoftInv, TypeOK, Matched, Stored, Fetch
    <2> QED BY <1>1, <2>1, <2>2, HoldKeepsSoft DEF Fetch
  <1>2. ASSUME NEW h \in Handle, NEW i \in Id, NEW v \in Value, Create(h, i, v) PROVE SoftInv'
    <2>1. row' = [row EXCEPT ![i] = [deleted |-> FALSE, val |-> v]]
      BY <1>2 DEF Create
    <2>2. Hold(h, i, [deleted |-> FALSE, val |-> v])
      BY <1>2, <2>1 DEF Create, SoftInv, TypeOK
    <2> QED BY <1>2, <2>1, <2>2, HoldKeepsSoft DEF Create, Row
  <1>3. ASSUME NEW h \in Handle, NEW v \in Value, Assign(h, v) PROVE SoftInv'
    <2>1. inst[h] \in Instance
      BY <1>3 DEF Assign, SoftInv, TypeOK
    <2>2. \A g \in Handle : inst'[g] = IF g = h THEN [inst[h] EXCEPT !.val = v] ELSE inst[g]
      BY <1>3 DEF Assign, SoftInv, TypeOK
    <2>3. TypeOK'
      BY <1>3, <2>1 DEF Assign, SoftInv, TypeOK, Instance
    <2>4. MemoryAgrees' /\ Pending'
      BY <1>3, <2>1, <2>2 DEF Assign, SoftInv, Instance, MemoryAgrees, Pending
    <2> QED BY <1>3, <2>3, <2>4 DEF Assign, SoftInv
  <1>4. ASSUME NEW h \in Handle, NEW mark \in BOOLEAN, NEW label \in {"delete", "restore"},
               Remember(h, mark, label), mark = (label = "delete")
        PROVE  SoftInv'
    <2>1. inst[h] \in Instance
      BY <1>4 DEF Remember, SoftInv, TypeOK
    <2>2. \A g \in Handle :
            inst'[g] = IF g = h THEN [inst[h] EXCEPT !.deleted = mark, !.at = label] ELSE inst[g]
      BY <1>4 DEF Remember, SoftInv, TypeOK
    <2>3. TypeOK'
      BY <1>4, <2>1 DEF Remember, SoftInv, TypeOK, Instance
    <2>4. inst'[h].deleted = mark /\ inst'[h].at = label /\ label # "idle"
      BY <2>1, <2>2 DEF Instance
    <2>5. Pending'
      BY <1>4, <2>2, <2>4 DEF SoftInv, Pending
    <2>6. \A g \in Handle : inst'[g] # None /\ inst'[g].at = "idle" => inst'[g] = inst[g]
      BY <2>2, <2>4
    <2>7. row' = row /\ outdated' = outdated
      BY <1>4 DEF Remember
    <2>8. MemoryAgrees'
      BY <2>6, <2>7 DEF SoftInv, MemoryAgrees
    <2> QED BY <1>4, <2>3, <2>5, <2>8 DEF Remember, SoftInv
  <1>5. ASSUME NEW h \in Handle, WriteMark(h) PROVE SoftInv'
    <2>1. inst[h] \in Instance /\ inst[h] # None
      BY <1>5 DEF WriteMark, SoftInv, TypeOK
    <2>2. row[inst[h].id] \in Row \cup {None}
      BY <2>1 DEF SoftInv, TypeOK, Instance
    <2> DEFINE r == [row[inst[h].id] EXCEPT !.deleted = inst[h].deleted]
    <2>3. row[inst[h].id] # None => r \in Row /\ r.deleted = inst[h].deleted
      BY <2>1, <2>2 DEF Instance, Row
    <2> QED BY <1>5, <2>1, <2>3, UpdateKeepsSoft DEF WriteMark
  <1>6. ASSUME NEW h \in Handle, WriteMarkFails(h) PROVE SoftInv'
    BY <1>6 DEF WriteMarkFails, SoftInv, TypeOK, Instance, Pending, MemoryAgrees
  <1>7. ASSUME NEW h \in Handle, Save(h) PROVE SoftInv'
    <2> DEFINE r == [deleted |-> inst[h].deleted, val |-> inst[h].val]
    <2>1. inst[h] # None /\ r \in Row /\ r.deleted = inst[h].deleted
      BY <1>7 DEF Save, SoftInv, TypeOK, Instance, Row
    <2> QED BY <1>7, <2>1, UpdateKeepsSoft DEF Save
  <1>8. CASE UNCHANGED vars
    BY <1>8 DEF vars, SoftInv, TypeOK, Pending, MemoryAgrees
  <1> QED BY <1>1, <1>2, <1>3, <1>4, <1>5, <1>6, <1>7, <1>8, QueryStepKeepsSoft DEF Next, Delete, Restore

LEMMA SoftAlways == Spec => []SoftInv
  BY InitSoft, NextSoft, PTL DEF Spec

-----------------------------------------------------------------------------
(* The theorems                                                              *)

(* Every variable keeps its type.                                            *)
THEOREM TypeCorrect == Spec => []TypeOK
  <1>1. SoftInv => TypeOK
    BY DEF SoftInv
  <1> QED BY <1>1, SoftAlways, PTL

(* An instance that is not outdated has the deleted_at of its row in memory, *)
(* so delete() and restore() are right to return when there is nothing to do.*)
THEOREM MemoryIsRight == Spec => []MemoryAgrees
  <1>1. SoftInv => MemoryAgrees
    BY DEF SoftInv
  <1> QED BY <1>1, SoftAlways, PTL

(* No call but a restore brings a deleted row back, none but a delete marks  *)
(* one, save for writes of outdated instances.                               *)
THEOREM MarksAreMeant == Spec => MarksChangeOnPurpose
  <1> DEFINE Meant(i) ==
        \/ \E q \in Query : IF row[i].deleted THEN restore(q) ELSE delete(q)
        \/ \E h \in Handle :
             /\ inst[h] # None /\ inst[h].id = i
             /\ \/ inst[h].at = IF row[i].deleted THEN "restore" ELSE "delete"
                \/ h \in outdated
  <1>1. ASSUME SoftInv, [Next]_vars, NEW i \in Id,
               row[i] # None, row'[i] # None, row'[i].deleted # row[i].deleted
        PROVE  Meant(i)
    <2>1. row[i] \in Row /\ row' # row
      BY <1>1 DEF SoftInv, TypeOK
    <2>2. \A q \in Query : ~hard_delete(q) /\ \A v \in Value : ~update(q, v)
      BY <1>1, <2>1, Conditions DEF hard_delete, update, Change
    <2>3. \A q \in Query : restore(q) => row[i].deleted
      <3> SUFFICES ASSUME NEW q \in Query, restore(q) PROVE row[i].deleted
        OBVIOUS
      <3>1. row'[i] = Promise!Unmarked[row[i]]
        BY <1>1 DEF restore, Change
      <3> QED BY <1>1, <2>1, <3>1, Conditions DEF Row
    <2>4. \A q \in Query : delete(q) => ~row[i].deleted
      <3> SUFFICES ASSUME NEW q \in Query, delete(q) PROVE ~row[i].deleted
        OBVIOUS
      <3>1. row'[i] = Promise!Marked[row[i]] \/ row'[i] = Promise!Gone[row[i]]
        BY <1>1 DEF delete, Change
      <3> QED BY <1>1, <2>1, <3>1, Conditions DEF Row
    <2>5. ASSUME NEW h \in Handle, WriteMark(h) \/ Save(h) PROVE Meant(i)
      <3>1. inst[h] \in Instance /\ inst[h] # None
        BY <1>1, <2>5 DEF WriteMark, Save, SoftInv, TypeOK
      <3>2. inst[h].id = i
        BY <1>1, <2>1, <2>5 DEF WriteMark, Save, Update, SoftInv, TypeOK
      <3>3. row'[i].deleted = inst[h].deleted
        BY <1>1, <2>1, <2>5, <3>2 DEF WriteMark, Save, Update, SoftInv, TypeOK, Row
      <3>4. CASE Save(h)
        <4>1. h \in outdated
          BY <1>1, <3>1, <3>2, <3>3, <3>4 DEF Save, SoftInv, MemoryAgrees
        <4> QED BY <3>1, <3>2, <4>1
      <3>5. CASE WriteMark(h)
        <4>1. inst[h].deleted = (inst[h].at = "delete")
          BY <1>1, <3>1, <3>5 DEF WriteMark, SoftInv, Pending
        <4> QED BY <1>1, <2>1, <3>1, <3>2, <3>3, <3>5, <4>1 DEF WriteMark, Row
      <3> QED BY <2>5, <3>4, <3>5
    <2>6. \A q \in Query : all(q) \/ filter(q) \/ with_deleted(q) \/ only_deleted(q) => row' = row
      BY DEF all, filter, with_deleted, only_deleted, Chain
    <2>7. \A h \in Handle, v \in Value, j \in Id : ~Create(h, j, v)
      BY <1>1 DEF Create, SoftInv, TypeOK
    <2> QED BY <1>1, <2>1, <2>2, <2>3, <2>4, <2>5, <2>6, <2>7
            DEF Next, vars, Fetch, Delete, Restore, Remember, WriteMarkFails, Assign
  <1>2. SoftInv /\ [Next]_vars =>
          [\A i \in Id : row[i] # None /\ row'[i] # None /\ row'[i].deleted # row[i].deleted
             => Meant(i)]_vars
    BY <1>1
  <1> QED BY <1>2, SoftAlways, PTL DEF Spec, MarksChangeOnPurpose

-----------------------------------------------------------------------------
(* The refinement                                                            *)

LEMMA OperationsKeepPromise ==
  ASSUME SoftInv, NEW q \in Query
  PROVE  /\ delete(q) => Promise!Delete(q)
         /\ restore(q) => Promise!Restore(q)
         /\ Purging \subseteq {0, 1} /\ hard_delete(q) => Promise!HardDelete(q)
         /\ \A v \in Value : update(q, v) => Promise!Update(q, v)
  <1> DEFINE a == asked[q]
             dead == [a EXCEPT !.scope = "deleted"]
             both == [a EXCEPT !.scope = "all"]
  <1>1. TypeOK /\ query[q] \in QuerySet /\ a \in Promise!Asked /\ Layout(query[q], a)
    BY DEF SoftInv, TypeOK
  <1>2. Matched(query[q]) = Promise!Selected(q)
    BY <1>1, MatchedRows, Conditions DEF Promise!Selected, Promise!Among
  <1>3. Matched(OnlyDeleted(query[q])) = Promise!Among(q, Promise!Dead)
    <2>1. /\ OnlyDeleted(query[q]) \in QuerySet /\ dead \in Promise!Asked
          /\ Layout(OnlyDeleted(query[q]), dead)
      BY <1>1, OnlyDeletedLayout
    <2>2. dead.filters = a.filters /\ dead.scope = "deleted"
      BY <1>1 DEF Promise!Asked
    <2> HIDE DEF dead
    <2> QED BY <1>1, <2>1, <2>2, MatchedRows, Conditions DEF Promise!Among
  <1>4. Matched(WithDeleted(query[q])) = Promise!Among(q, Promise!Row)
    <2>1. /\ WithDeleted(query[q]) \in QuerySet /\ both \in Promise!Asked
          /\ Layout(WithDeleted(query[q]), both)
      BY <1>1, WithDeletedLayout
    <2>2. both.filters = a.filters /\ both.scope = "all"
      BY <1>1 DEF Promise!Asked
    <2> HIDE DEF both
    <2> QED BY <1>1, <2>1, <2>2, MatchedRows, Conditions DEF Promise!Among
  <1>5. query[q].mode = 0 <=> a.scope = "live"
    BY <1>1 DEF Layout, QuerySet
  <1>6. \A S, to : Change(S, to) => Promise!Change(S, to)
    BY DEF Change, Promise!Change
  <1>7. delete(q) => Promise!Delete(q)
    BY <1>2, <1>5, <1>6 DEF delete, Promise!Delete
  <1>8. ASSUME Purging \subseteq {0, 1}, hard_delete(q) PROVE Promise!HardDelete(q)
    <2>1. a.scope \in {"live", "all"}
      BY <1>1, <1>8 DEF Layout, hard_delete
    <2>2. Promise!Selected(q) = Promise!Among(q, Promise!Row) \/ a.scope = "live"
      BY <2>1, Conditions DEF Promise!Selected
    <2> QED BY <1>4, <1>6, <1>8, <2>2 DEF hard_delete, Promise!HardDelete
  <1> QED BY <1>2, <1>3, <1>6, <1>7, <1>8 DEF restore, update, Promise!Restore, Promise!Update

(* Whatever chain a queryset is the end of, its operations change the rows   *)
(* that were asked for, in the way that was asked for, unless hard_delete()  *)
(* is called after only_deleted().                                           *)
THEOREM KeepsItsPromise == Purging \subseteq {0, 1} => (Spec => ImplementsTrash)
  <1> SUFFICES ASSUME Purging \subseteq {0, 1} PROVE Spec => ImplementsTrash
    OBVIOUS
  <1>1. Init => Promise!Init
    BY DEF Init, Promise!Init
  <1>2. ASSUME SoftInv, [Next]_vars PROVE [Promise!Next]_<<row, asked>>
    <2>1. ASSUME NEW q \in Query, all(q) \/ filter(q) \/ with_deleted(q) \/ only_deleted(q)
          PROVE  \E a \in Promise!Asked : Promise!Ask(q, a)
      <3>1. asked'[q] \in Promise!Asked
        BY <1>2, <2>1, NextSoft DEF SoftInv, TypeOK
      <3>2. row' = row /\ asked' = [asked EXCEPT ![q] = asked'[q]]
        BY <1>2, <2>1 DEF all, filter, with_deleted, only_deleted, Chain, SoftInv, TypeOK
      <3> QED BY <3>1, <3>2 DEF Promise!Ask
    <2>2. ASSUME NEW h \in Handle, NEW i \in Id, NEW v \in Value, Create(h, i, v)
          PROVE  \E r \in Promise!Row : Promise!Write(i, r)
      <3>1. [deleted |-> FALSE, val |-> v] \in Promise!Row
        BY DEF Promise!Row
      <3> QED BY <2>2, <3>1 DEF Create, Promise!Write
    <2>3. ASSUME NEW h \in Handle, WriteMark(h) \/ Save(h)
          PROVE  (row' = row /\ asked' = asked)
                   \/ \E i \in Id, r \in Promise!Row : Promise!Write(i, r)
      <3>1. inst[h] \in Instance /\ inst[h].id \in Id
        BY <1>2, <2>3 DEF WriteMark, Save, SoftInv, TypeOK, Instance
      <3>2. CASE row[inst[h].id] = None
        BY <1>2, <2>3, <3>1, <3>2 DEF WriteMark, Save, Update, SoftInv, TypeOK
      <3>3. CASE row[inst[h].id] # None
        <4>1. row'[inst[h].id] \in Row
          BY <1>2, <2>3, <3>1, <3>3, NextSoft
             DEF WriteMark, Save, Update, SoftInv, TypeOK, Instance, Row
        <4>2. row' = [row EXCEPT ![inst[h].id] = row'[inst[h].id]] /\ asked' = asked
          BY <1>2, <2>3, <3>1 DEF WriteMark, Save, Update, SoftInv, TypeOK
        <4> QED BY <3>1, <4>1, <4>2, Conditions DEF Promise!Write
      <3> QED BY <3>2, <3>3
    <2>4. (\E q \in Query, h \in Handle : Fetch(q, h))
            \/ (\E h \in Handle : Delete(h) \/ Restore(h) \/ WriteMarkFails(h)
                                    \/ \E v \in Value : Assign(h, v))
            \/ UNCHANGED vars
          => row' = row /\ asked' = asked
      BY DEF Fetch, Delete, Restore, Remember, WriteMarkFails, Assign, vars
    <2> QED BY <1>2, <2>1, <2>2, <2>3, <2>4, OperationsKeepPromise DEF Next, Promise!Next
  <1> QED BY <1>1, <1>2, SoftAlways, PTL DEF Spec, ImplementsTrash, Promise!Spec
=============================================================================
