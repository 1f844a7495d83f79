------------------------ MODULE CacheableModelProofs ------------------------
(* Proofs about CacheableModel, for every set of tasks, keys, contents and   *)
(* aliases, with failures, cancellations and saves of proxies; refreshes are *)
(* of all columns.                                                           *)
EXTENDS CacheableModel, TLAPS

FullRefreshes == "partial_refresh" \notin Allowed

\* A model without a ttl leaves Redis alone; only keys of rows are evicted.
Quiet ==
  /\ ~Cached => /\ \A q \in Lookup : cache[q] = None
                /\ \A t \in Task : task[t].at \notin {"fill", "evict"}
  /\ \A t \in Task : task[t].at = "evict" => task[t].on \in Pk

\* What a task is about to store under a row's key is the row, unless an eviction is
\* still to come or ran past it.
FillsAreExcused ==
  \A t \in Task : task[t].at = "fill" =>
    /\ task[t].got # None
    /\ \A p \in Pk : task[t].on = p /\ task[t].got # Result(p)
                      => Evicting(p) \/ p \in overlapped

\* Rows, instances and entries are about keys that were given to a row.
KnownKeys ==
  /\ \A p \in Pk : db[p] # None => p \in known
  /\ \A t \in Task : inst[t] # None => inst[t].pk \in known
  /\ \A q \in Lookup : cache[q] # None => DOMAIN cache[q] \subseteq known
  /\ \A t \in Task : task[t].got # None => DOMAIN task[t].got \subseteq known

CacheInv == TypeOK /\ Quiet /\ FillsAreExcused /\ KnownKeys /\ StaleOnlyByOverlap

LEMMA ResultType ==
  ASSUME TypeOK, KnownKeys, NEW q \in Lookup
  PROVE  /\ Result(q) \in Found /\ Result(q) # None
         /\ DOMAIN Result(q) \subseteq known /\ DOMAIN Result(q) \subseteq Pk
         /\ \A p \in DOMAIN Result(q) : Result(q)[p] = db[p] /\ db[p] \in Content
  <1> DEFINE S == {r \in Rows(q) : db[r] # None}
  <1>1. Rows(q) \subseteq Pk
    BY CacheableModelAssumption DEF Rows, Lookup
  <1>2. S \in SUBSET Pk /\ S \subseteq known /\ \A p \in S : db[p] \in Content
    BY <1>1 DEF TypeOK, KnownKeys
  <1>3. Result(q) \in [S -> Content] /\ \A p \in S : Result(q)[p] = db[p]
    BY <1>2 DEF Result
  <1> HIDE DEF S
  <1>4. DOMAIN Result(q) = S
    BY <1>3
  <1>5. Result(q) \in Found
    BY <1>2, <1>3 DEF Found
  <1> QED BY <1>2, <1>3, <1>4, <1>5, NoneIsNothing

\* The row under its own key.
LEMMA ResultOfPk ==
  ASSUME NEW p \in Pk
  PROVE  Result(p) = [x \in {y \in {p} : db[y] # None} |-> db[x]]
  BY CacheableModelAssumption DEF Result, Rows

LEMMA InitCache == Init => CacheInv
  <1> SUFFICES ASSUME Init PROVE CacheInv
    OBVIOUS
  <1>1. TypeOK
    BY DEF Init, TypeOK, Idle, Lookup
  <1>2. Quiet /\ FillsAreExcused /\ KnownKeys /\ StaleOnlyByOverlap
    BY DEF Init, Quiet, FillsAreExcused, KnownKeys, StaleOnlyByOverlap, Idle, Lookup
  <1> QED BY <1>1, <1>2 DEF CacheInv

\* A step of one task that leaves the table and Redis alone, and the task with no
\* eviction dropped and nothing but the row itself to store.
LEMMA TaskStep ==
  ASSUME CacheInv, NEW t \in Task,
         UNCHANGED <<db, cache, overlapped>>,
         known' = known,
         inst' \in [Task -> Instance \cup {None}],
         \A u \in Task : inst'[u] # None => inst'[u].pk \in known,
         task' \in [Task -> [at : {"idle", "lookup", "query", "fill", "evict"},
                             on : Lookup, got : Found \cup {None}]],
         \A u \in Task \ {t} : task'[u] = task[u],
         task[t].at # "evict",
         task'[t].at # "evict",
         task'[t].got # None => DOMAIN task'[t].got \subseteq known,
         task'[t].at = "fill" => /\ Cached
                                 /\ task'[t].got # None
                                 /\ \A p \in Pk : task'[t].on = p => task'[t].got = Result(p)
  PROVE  CacheInv'
  <1>1. TypeOK'
    BY DEF CacheInv, TypeOK
  <1>2. Quiet'
    BY DEF CacheInv, Quiet
  <1>3. \A p \in Pk : Evicting(p) => Evicting(p)'
    BY DEF Evicting
  <1>4. \A q \in Lookup : Result(q)' = Result(q)
    BY DEF Result, Rows
  <1>5. FillsAreExcused'
    <2> SUFFICES ASSUME NEW u \in Task, task'[u].at = "fill"
                 PROVE  /\ task'[u].got # None
                        /\ \A p \in Pk : task'[u].on = p /\ task'[u].got # Result(p)
                                          => Evicting(p)' \/ p \in overlapped
      BY <1>4 DEF FillsAreExcused, Lookup
    <2>1. CASE u = t
      BY <2>1
    <2>2. CASE u # t
      BY <1>3, <2>2 DEF CacheInv, FillsAreExcused
    <2> QED BY <2>1, <2>2
  <1>6. KnownKeys'
    BY DEF CacheInv, KnownKeys
  <1>7. StaleOnlyByOverlap'
    BY <1>3, <1>4 DEF CacheInv, StaleOnlyByOverlap, Lookup
  <1> QED BY <1>1, <1>2, <1>5, <1>6, <1>7 DEF CacheInv

\* The instances after one task takes an instance of a known row or drops its own.
LEMMA HoldMoves ==
  ASSUME TypeOK, KnownKeys, NEW t \in Task,
         \/ Hold(t, None)
         \/ \E p \in known, v \in Content, b \in BOOLEAN :
              Hold(t, [pk |-> p, val |-> v, saved |-> b, hit |-> ~b])
  PROVE  /\ inst' \in [Task -> Instance \cup {None}]
         /\ \A u \in Task : inst'[u] # None => inst'[u].pk \in known
  <1>1. CASE Hold(t, None)
    BY <1>1 DEF Hold, TypeOK, KnownKeys
  <1>2. ASSUME NEW p \in known, NEW v \in Content, NEW b \in BOOLEAN,
               Hold(t, [pk |-> p, val |-> v, saved |-> b, hit |-> ~b])
        PROVE  /\ inst' \in [Task -> Instance \cup {None}]
               /\ \A u \in Task : inst'[u] # None => inst'[u].pk \in known
    <2> DEFINE i == [pk |-> p, val |-> v, saved |-> b, hit |-> ~b]
    <2>1. i \in Instance /\ i.pk = p
      BY DEF Instance, TypeOK
    <2>2. inst' = [inst EXCEPT ![t] = i]
      BY <1>2 DEF Hold
    <2> HIDE DEF i
    <2> QED BY <2>1, <2>2 DEF TypeOK, KnownKeys
  <1> QED BY <1>1, <1>2

LEMMA ReadSteps ==
  ASSUME CacheInv, NEW t \in Task,
         \/ \E q \in Lookup : GetCached(t, q)
         \/ Hit(t) \/ Miss(t) \/ Query(t)
  PROVE  CacheInv'
  <1> USE DEF CacheInv
  <1> DEFINE q == task[t].on
  <1>1. q \in Lookup /\ task[t].got \in Found \cup {None}
    BY DEF TypeOK
  <1>2. ASSUME NEW r \in Lookup, GetCached(t, r) PROVE CacheInv'
    <2>1. /\ task' = [task EXCEPT ![t] = [at |-> IF Cached THEN "lookup" ELSE "query",
                                        on |-> r, got |-> None]]
          /\ task[t].at = "idle" /\ UNCHANGED <<db, known, cache, inst, overlapped>>
      BY <1>2 DEF GetCached, Begin, MayStart
    <2> QED BY <2>1, TaskStep DEF TypeOK, KnownKeys
  <1>3. CASE Hit(t)
    <2> DEFINE rows == cache[q]
    <2>1. /\ task' = [task EXCEPT ![t] = Idle] /\ task[t].at = "lookup" /\ rows # None
          /\ UNCHANGED <<db, known, cache, overlapped>>
      BY <1>3 DEF Hit, Return
    <2>2. /\ \A p \in DOMAIN rows : p \in Pk /\ rows[p] \in Content
          /\ DOMAIN rows \subseteq known
      BY <1>1, <2>1 DEF TypeOK, Found, KnownKeys
    <2>3. \/ Hold(t, None)
          \/ \E p \in DOMAIN rows : Hold(t, [pk |-> p, val |-> rows[p], saved |-> FALSE, hit |-> TRUE])
      BY <1>3 DEF Hit, FromCache
    <2>4. /\ inst' \in [Task -> Instance \cup {None}]
          /\ \A u \in Task : inst'[u] # None => inst'[u].pk \in known
      BY <2>2, <2>3, HoldMoves
    <2> QED BY <2>1, <2>4, TaskStep DEF TypeOK, Idle, Lookup
  <1>4. CASE Miss(t)
    <2>1. /\ task' = [task EXCEPT ![t] = [at |-> "query", on |-> q, got |-> None]]
          /\ task[t].at = "lookup" /\ UNCHANGED <<db, known, cache, inst, overlapped>>
      BY <1>4 DEF Miss, Begin
    <2> QED BY <1>1, <2>1, TaskStep DEF TypeOK, KnownKeys
  <1>5. CASE Query(t)
    <2> DEFINE rows == Result(q)
    <2>1. /\ rows \in Found /\ rows # None /\ DOMAIN rows \subseteq known
          /\ \A p \in DOMAIN rows : p \in Pk /\ rows[p] \in Content
      BY <1>1, ResultType
    <2>2. /\ \/ task' = [task EXCEPT ![t] = [at |-> "fill", on |-> q, got |-> rows]] /\ Cached
             \/ task' = [task EXCEPT ![t] = Idle]
          /\ task[t].at = "query" /\ UNCHANGED <<db, known, cache, overlapped>>
      BY <1>5 DEF Query, Begin, Return
    <2>3. \/ Hold(t, None)
          \/ \E p \in DOMAIN rows : Hold(t, [pk |-> p, val |-> rows[p], saved |-> TRUE, hit |-> FALSE])
      BY <1>5 DEF Query, FromDb
    <2> HIDE DEF rows
    <2>4. /\ inst' \in [Task -> Instance \cup {None}]
          /\ \A u \in Task : inst'[u] # None => inst'[u].pk \in known
      BY <2>1, <2>3, HoldMoves
    <2>5. CASE task' = [task EXCEPT ![t] = Idle]
      BY <2>2, <2>4, <2>5, TaskStep DEF TypeOK, Idle, Lookup
    <2>6. CASE task' = [task EXCEPT ![t] = [at |-> "fill", on |-> q, got |-> rows]] /\ Cached
      <3>1. task'[t] = [at |-> "fill", on |-> q, got |-> rows]
        BY <2>6 DEF TypeOK
      <3>2. task' \in [Task -> [at : {"idle", "lookup", "query", "fill", "evict"},
                                on : Lookup, got : Found \cup {None}]]
        BY <1>1, <2>1, <2>6 DEF TypeOK
      <3>3. \A u \in Task \ {t} : task'[u] = task[u]
        BY <2>6 DEF TypeOK
      <3>4. task'[t].got = Result(task'[t].on)
        BY <3>1 DEF rows
      <3> QED BY <2>1, <2>2, <2>4, <2>6, <3>1, <3>2, <3>3, <3>4, TaskStep
    <2> QED BY <2>2, <2>5, <2>6
  <1> QED BY <1>2, <1>3, <1>4, <1>5

LEMMA FillSteps ==
  ASSUME CacheInv, NEW t \in Task, task[t].at = "fill", Return(t),
         cache' \in {cache, [cache EXCEPT ![task[t].on] = task[t].got]},
         UNCHANGED <<db, known, overlapped>>,
         inst' = inst \/ Hold(t, None)
  PROVE  CacheInv'
  <1> USE DEF CacheInv
  <1> DEFINE q == task[t].on
  <1>1. /\ q \in Lookup /\ task[t].got \in Found /\ task[t].got # None
        /\ DOMAIN task[t].got \subseteq known
        /\ task' = [task EXCEPT ![t] = Idle] /\ Cached
        /\ \A p \in Pk : q = p /\ task[t].got # Result(p) => Evicting(p) \/ p \in overlapped
    BY DEF TypeOK, FillsAreExcused, KnownKeys, Quiet, Return
  <1>2. /\ task' \in [Task -> [at : {"idle", "lookup", "query", "fill", "evict"},
                              on : Lookup, got : Found \cup {None}]]
        /\ task'[t].at = "idle" /\ task'[t].got = None
        /\ \A u \in Task \ {t} : task'[u] = task[u]
    BY <1>1 DEF TypeOK, Idle, Lookup
  <1>3. /\ cache' \in [Lookup -> Found \cup {None}]
        /\ \A r \in Lookup : cache'[r] = cache[r] \/ (r = q /\ cache'[r] = task[t].got)
    BY <1>1 DEF TypeOK
  <1>4. /\ inst' \in [Task -> Instance \cup {None}]
        /\ \A u \in Task : inst'[u] # None => inst'[u].pk \in known
    BY HoldMoves DEF TypeOK, KnownKeys
  <1>5. TypeOK' /\ Quiet' /\ KnownKeys'
    BY <1>1, <1>2, <1>3, <1>4 DEF TypeOK, Quiet, KnownKeys
  <1>6. \A p \in Pk : /\ Evicting(p) => Evicting(p)'
                      /\ Result(p)' = Result(p)
    <2>1. \A p \in Pk : Evicting(p) => Evicting(p)'
      BY <1>2 DEF Evicting
    <2>2. \A p \in Pk : Result(p)' = Result(p)
      BY DEF Result, Rows
    <2> QED BY <2>1, <2>2
  <1>7. FillsAreExcused'
    BY <1>2, <1>6 DEF FillsAreExcused
  <1>8. StaleOnlyByOverlap'
    BY <1>1, <1>3, <1>6 DEF StaleOnlyByOverlap, Lookup
  <1> QED BY <1>5, <1>7, <1>8

LEMMA EvictSteps ==
  ASSUME CacheInv, NEW t \in Task, NEW p, p = task[t].on, task[t].at = "evict", Return(t),
         UNCHANGED <<db, known>>,
         inst' = inst \/ Hold(t, None),
         \/ /\ cache' \in {cache, [cache EXCEPT ![p] = None]}
            /\ overlapped' = overlapped \cup {p}
         \/ /\ cache' = [cache EXCEPT ![p] = None]
            /\ overlapped' = IF StaleReader(p) THEN overlapped \cup {p} ELSE overlapped \ {p}
  PROVE  CacheInv'
  <1> USE DEF CacheInv
  <1>1. p \in Pk /\ p \in Lookup /\ Cached /\ task' = [task EXCEPT ![t] = Idle]
    BY DEF Quiet, Return, Lookup
  <1>2. /\ task' \in [Task -> [at : {"idle", "lookup", "query", "fill", "evict"},
                              on : Lookup, got : Found \cup {None}]]
        /\ task'[t].at = "idle" /\ task'[t].got = None
        /\ \A u \in Task \ {t} : task'[u] = task[u]
    BY <1>1 DEF TypeOK, Idle, Lookup
  <1>3. /\ cache' \in [Lookup -> Found \cup {None}]
        /\ \A r \in Lookup : cache'[r] = cache[r] \/ (r = p /\ cache'[r] = None)
        /\ overlapped' \subseteq Pk
    BY <1>1 DEF TypeOK
  <1>4. /\ inst' \in [Task -> Instance \cup {None}]
        /\ \A u \in Task : inst'[u] # None => inst'[u].pk \in known
    BY HoldMoves DEF TypeOK, KnownKeys
  <1>5. TypeOK' /\ Quiet' /\ KnownKeys'
    BY <1>1, <1>2, <1>3, <1>4 DEF TypeOK, Quiet, KnownKeys
  <1>6. \A r \in Pk : Result(r)' = Result(r)
    BY DEF Result, Rows
  <1>7. \A r \in Pk \ {p} : /\ Evicting(r) => Evicting(r)'
                            /\ r \in overlapped' <=> r \in overlapped
    <2>1. ASSUME NEW r \in Pk \ {p}, Evicting(r) PROVE Evicting(r)'
      <3>1. PICK u \in Task : task[u].at = "evict" /\ task[u].on = r
        BY <2>1 DEF Evicting
      <3> QED BY <1>2, <3>1 DEF Evicting
    <2> QED BY <2>1
  <1>8. \/ p \in overlapped'
        \/ cache'[p] = None /\ ~StaleReader(p)
    BY <1>1 DEF TypeOK
  <1>9. FillsAreExcused'
    <2> SUFFICES ASSUME NEW u \in Task, task'[u].at = "fill"
                 PROVE  /\ task'[u].got # None
                        /\ \A r \in Pk : task'[u].on = r /\ task'[u].got # Result(r)
                                          => Evicting(r)' \/ r \in overlapped'
      BY <1>6 DEF FillsAreExcused
    <2>1. u # t /\ task'[u] = task[u]
      BY <1>2
    <2>2. task[u].on = p /\ task[u].got # Result(p) => p \in overlapped'
      BY <1>8, <2>1 DEF StaleReader
    <2>3. ASSUME NEW r \in Pk \ {p}, task[u].on = r, task[u].got # Result(r)
          PROVE  Evicting(r)' \/ r \in overlapped'
      <3>1. task[u].at = "fill"
        BY <2>1
      <3>2. Evicting(r) \/ r \in overlapped
        BY <2>3, <3>1 DEF FillsAreExcused
      <3> QED BY <1>7, <3>2
    <2>4. task'[u].got # None
      BY <2>1 DEF FillsAreExcused
    <2> QED BY <2>1, <2>2, <2>3, <2>4
  <1>10. StaleOnlyByOverlap'
    <2> SUFFICES ASSUME NEW r \in Pk, cache'[r] # None, cache'[r] # Result(r)
                 PROVE  Evicting(r)' \/ r \in overlapped'
      BY <1>6 DEF StaleOnlyByOverlap
    <2>1. CASE r = p
      BY <1>8, <2>1
    <2>2. CASE r # p
      <3>1. cache'[r] = cache[r]
        BY <1>3, <2>2 DEF Lookup
      <3>2. Evicting(r) \/ r \in overlapped
        BY <3>1 DEF StaleOnlyByOverlap
      <3> QED BY <1>7, <2>2, <3>2
    <2> QED BY <2>1, <2>2
  <1> QED BY <1>5, <1>9, <1>10

\* A write of one row, with its eviction to come.
LEMMA WriteSteps ==
  ASSUME CacheInv, NEW t \in Task, NEW p \in known', NEW w \in Content \cup {None},
         p \in Pk, known' = known \cup {p},
         db' = [db EXCEPT ![p] = w],
         task[t].at = "idle",
         BeginOnPk(t, "evict", p, None),
         UNCHANGED <<cache, overlapped>>,
         \/ inst' = inst
         \/ \E v \in Content : inst' = [inst EXCEPT ![t] = [pk |-> p, val |-> v, saved |-> TRUE, hit |-> FALSE]]
  PROVE  CacheInv'
  <1> USE DEF CacheInv
  <1>1. /\ IF Cached THEN task' = [task EXCEPT ![t] = [at |-> "evict", on |-> p, got |-> None]]
                     ELSE task' = [task EXCEPT ![t] = Idle]
    BY DEF BeginOnPk, Begin, Return
  <1>2. /\ task' \in [Task -> [at : {"idle", "lookup", "query", "fill", "evict"},
                              on : Lookup, got : Found \cup {None}]]
        /\ task'[t].at = IF Cached THEN "evict" ELSE "idle"
        /\ Cached => task'[t].on = p
        /\ task'[t].got = None
        /\ \A u \in Task \ {t} : task'[u] = task[u]
    BY <1>1 DEF TypeOK, Idle, Lookup
  <1>3. /\ inst' \in [Task -> Instance \cup {None}]
        /\ \A u \in Task : inst'[u] # None => inst'[u].pk \in known'
    <2>1. CASE inst' = inst
      BY <2>1 DEF TypeOK, KnownKeys
    <2>2. ASSUME NEW v \in Content,
                 inst' = [inst EXCEPT ![t] = [pk |-> p, val |-> v, saved |-> TRUE, hit |-> FALSE]]
          PROVE  <1>3!1 /\ <1>3!2
      <3> DEFINE i == [pk |-> p, val |-> v, saved |-> TRUE, hit |-> FALSE]
      <3>1. i \in Instance /\ i.pk = p /\ inst' = [inst EXCEPT ![t] = i]
        BY <2>2 DEF Instance
      <3> HIDE DEF i
      <3> QED BY <3>1 DEF TypeOK, KnownKeys
    <2> QED BY <2>1, <2>2
  <1>4. /\ db' \in [Pk -> Content \cup {None}]
        /\ \A r \in Pk \ {p} : db'[r] = db[r]
    BY DEF TypeOK
  <1>5. TypeOK' /\ Quiet' /\ KnownKeys'
    BY <1>2, <1>3, <1>4 DEF TypeOK, Quiet, KnownKeys
  <1>6. \A r \in Pk \ {p} : Result(r)' = Result(r)
    <2> SUFFICES ASSUME NEW r \in Pk \ {p}
                 PROVE  [x \in {y \in Rows(r) : db'[y] # None} |-> db'[x]]
                          = [x \in {y \in Rows(r) : db[y] # None} |-> db[x]]
      BY DEF Result, Rows
    <2>1. Rows(r) = {r}
      BY CacheableModelAssumption DEF Rows
    <2>2. db'[r] = db[r]
      BY <1>4
    <2>3. {y \in {r} : db'[y] # None} = {y \in {r} : db[y] # None}
      BY <2>2
    <2> QED BY <2>1, <2>2, <2>3
  <1>7. \A r \in Pk : Evicting(r) => Evicting(r)'
    BY <1>2 DEF Evicting
  <1>8. Cached => Evicting(p)'
    BY <1>2 DEF Evicting
  <1>9. FillsAreExcused'
    <2> SUFFICES ASSUME NEW u \in Task, task'[u].at = "fill"
                 PROVE  /\ task'[u].got # None
                        /\ \A r \in Pk : task'[u].on = r /\ task'[u].got # Result(r)'
                                          => Evicting(r)' \/ r \in overlapped'
      BY DEF FillsAreExcused
    <2>1. u # t /\ task'[u] = task[u] /\ Cached
      BY <1>2 DEF Quiet
    <2> QED BY <1>6, <1>7, <1>8, <2>1 DEF FillsAreExcused
  <1>10. StaleOnlyByOverlap'
    <2> SUFFICES ASSUME NEW r \in Pk, cache'[r] # None, cache'[r] # Result(r)'
                 PROVE  Evicting(r)' \/ r \in overlapped'
      BY DEF StaleOnlyByOverlap
    <2>1. Cached /\ cache'[r] = cache[r]
      BY DEF Quiet, Lookup
    <2> QED BY <1>6, <1>7, <1>8, <2>1 DEF StaleOnlyByOverlap
  <1> QED BY <1>5, <1>9, <1>10

LEMMA NextCache ==
  ASSUME FullRefreshes, CacheInv, [Next]_vars
  PROVE  CacheInv'
  <1> USE DEF CacheInv
  <1>1. ASSUME NEW t \in Task, \/ \E q \in Lookup : GetCached(t, q)
                               \/ Hit(t) \/ Miss(t) \/ Query(t)
        PROVE  CacheInv'
    BY <1>1, ReadSteps
  <1>2. ASSUME NEW t \in Task, Fill(t) \/ FillFails(t) PROVE CacheInv'
    BY <1>2, FillSteps DEF Fill, FillFails
  <1>3. ASSUME NEW t \in Task, NEW p \in Pk, NEW v \in Content, Create(t, p, v)
        PROVE  CacheInv'
    BY <1>3, WriteSteps DEF Create, MayStart, Hold, FromDb
  <1>4. ASSUME NEW t \in Task, NEW v \in Content, Assign(t, v) PROVE CacheInv'
    <2>1. /\ UNCHANGED <<db, known, cache, task, overlapped>> /\ task[t].at = "idle"
          /\ inst[t] \in Instance /\ inst[t] # None
          /\ inst' = [inst EXCEPT ![t] = [inst[t] EXCEPT !.val = v]]
      BY <1>4 DEF Assign, Hold, TypeOK
    <2>2. [inst[t] EXCEPT !.val = v] \in Instance /\ [inst[t] EXCEPT !.val = v].pk = inst[t].pk
      BY <2>1 DEF Instance
    <2>3. /\ inst' \in [Task -> Instance \cup {None}]
          /\ \A u \in Task : inst'[u] # None => inst'[u].pk \in known
      BY <2>1, <2>2 DEF TypeOK, KnownKeys
    <2> QED BY <2>1, <2>3, TaskStep DEF TypeOK, KnownKeys
  <1>5. ASSUME NEW t \in Task, NEW how \in Statement, Save(t, how) PROVE CacheInv'
    <2> DEFINE i == inst[t]
    <2>1. /\ i \in Instance /\ i.pk \in known /\ i.pk \in Pk /\ i.val \in Content
          /\ task[t].at = "idle" /\ UNCHANGED <<known, cache, overlapped>>
          /\ BeginOnPk(t, "evict", i.pk, None)
          /\ inst' = [inst EXCEPT ![t] = [pk |-> i.pk, val |-> i.val, saved |-> TRUE, hit |-> FALSE]]
      BY <1>5 DEF Save, MayStart, Hold, FromDb, TypeOK, KnownKeys, Instance
    <2>2. \E w \in Content \cup {None} : db' = [db EXCEPT ![i.pk] = w]
      <3>1. CASE db' = [db EXCEPT ![i.pk] = i.val]
        BY <2>1, <3>1
      <3>2. CASE db' = db
        <4>1. db = [db EXCEPT ![i.pk] = db[i.pk]] /\ db[i.pk] \in Content \cup {None}
          BY <2>1 DEF TypeOK
        <4> QED BY <3>2, <4>1
      <3> QED BY <1>5, <3>1, <3>2 DEF Save
    <2>3. PICK p \in Pk : p = i.pk
      BY <2>1
    <2>4. PICK w \in Content \cup {None} : db' = [db EXCEPT ![p] = w]
      BY <2>2, <2>3
    <2>5. /\ known' = known \cup {p} /\ p \in known' /\ BeginOnPk(t, "evict", p, None)
          /\ \E v \in Content : inst' = [inst EXCEPT ![t] = [pk |-> p, val |-> v, saved |-> TRUE, hit |-> FALSE]]
      BY <2>1, <2>3
    <2> QED BY <2>1, <2>4, <2>5, WriteSteps
  <1>6. ASSUME NEW t \in Task, Delete(t) PROVE CacheInv'
    <2>1. PICK p \in Pk : p = inst[t].pk
      BY <1>6 DEF Delete, TypeOK, Instance
    <2>2. /\ p \in known /\ known' = known \cup {p} /\ db' = [db EXCEPT ![p] = None]
          /\ BeginOnPk(t, "evict", p, None) /\ task[t].at = "idle"
          /\ UNCHANGED <<inst, cache, overlapped>>
      BY <1>6, <2>1 DEF Delete, MayStart, KnownKeys
    <2> QED BY <2>2, WriteSteps
  <1>7. ASSUME NEW t \in Task, Evict(t) \/ EvictFails(t) PROVE CacheInv'
    BY <1>7, EvictSteps DEF Evict, EvictFails
  <1>8. ASSUME NEW t \in Task, NEW full \in BOOLEAN, Refresh(t, full) PROVE CacheInv'
    <2>1. PICK p \in Pk : p = inst[t].pk
      BY <1>8 DEF Refresh, TypeOK, Instance
    <2> DEFINE rows == [x \in {p} |-> db[p]]
    <2>2. /\ UNCHANGED <<db, known, cache, overlapped>> /\ task[t].at = "idle"
          /\ inst[t] \in Instance /\ p \in known
          /\ db[p] \in Content /\ db[p] # None
          /\ inst' = [inst EXCEPT ![t] = [inst[t] EXCEPT !.val = db[p]]]
          /\ BeginOnPk(t, "fill", p, rows)
      BY <1>8, <2>1 DEF Refresh, FullRefreshes, MayStart, Hold, TypeOK, KnownKeys
    <2>3. /\ [inst[t] EXCEPT !.val = db[p]] \in Instance
          /\ [inst[t] EXCEPT !.val = db[p]].pk = p
      BY <2>1, <2>2 DEF Instance
    <2>4. /\ inst' \in [Task -> Instance \cup {None}]
          /\ \A u \in Task : inst'[u] # None => inst'[u].pk \in known
      BY <2>2, <2>3 DEF TypeOK, KnownKeys
    <2>5. rows = Result(p) /\ DOMAIN rows \subseteq known
      <3>1. {y \in {p} : db[y] # None} = {p}
        BY <2>2
      <3> QED BY <2>2, <3>1, ResultOfPk
    <2>6. rows \in Found /\ rows # None
      BY <2>5, ResultType DEF Lookup
    <2> HIDE DEF rows
    <2>7. CASE Cached
      <3>1. task' = [task EXCEPT ![t] = [at |-> "fill", on |-> p, got |-> rows]]
        BY <2>2, <2>7 DEF BeginOnPk, Begin
      <3>2. /\ task' \in [Task -> [at : {"idle", "lookup", "query", "fill", "evict"},
                                  on : Lookup, got : Found \cup {None}]]
            /\ task'[t] = [at |-> "fill", on |-> p, got |-> rows]
            /\ \A u \in Task \ {t} : task'[u] = task[u]
        BY <2>6, <3>1 DEF TypeOK, Lookup
      <3> QED BY <2>2, <2>4, <2>5, <2>6, <2>7, <3>2, TaskStep
    <2>8. CASE ~Cached
      <3>1. task' = [task EXCEPT ![t] = Idle]
        BY <2>2, <2>8 DEF BeginOnPk, Return
      <3> QED BY <2>2, <2>4, <3>1, TaskStep DEF TypeOK, Idle, Lookup
    <2> QED BY <2>7, <2>8
  <1>9. ASSUME NEW t \in Task, Rehydrate(t) PROVE CacheInv'
    <2>1. /\ UNCHANGED <<db, known, cache, task, overlapped>> /\ task[t].at = "idle"
          /\ inst[t].pk \in known /\ db[inst[t].pk] \in Content
          /\ Hold(t, [pk |-> inst[t].pk, val |-> db[inst[t].pk], saved |-> TRUE, hit |-> FALSE])
      BY <1>9 DEF Rehydrate, FromDb, MayStart, TypeOK, KnownKeys
    <2>2. /\ inst' \in [Task -> Instance \cup {None}]
          /\ \A u \in Task : inst'[u] # None => inst'[u].pk \in known
      BY <2>1, HoldMoves
    <2> QED BY <2>1, <2>2, TaskStep DEF TypeOK, KnownKeys
  <1>10. ASSUME NEW t \in Task, Cancel(t) PROVE CacheInv'
    <2>1. task[t].at \in {"lookup", "query", "fill", "evict"}
      BY <1>10 DEF Cancel, TypeOK
    <2>2. CASE task[t].at = "fill"
      BY <1>10, <2>2, FillSteps DEF Cancel
    <2>3. CASE task[t].at = "evict"
      BY <1>10, <2>3, EvictSteps DEF Cancel
    <2>4. CASE task[t].at \in {"lookup", "query"}
      <3>1. /\ UNCHANGED <<db, known, cache, overlapped>>
            /\ task' = [task EXCEPT ![t] = Idle] /\ Hold(t, None)
        BY <1>10, <2>4 DEF Cancel, Return
      <3>2. /\ inst' \in [Task -> Instance \cup {None}]
            /\ \A u \in Task : inst'[u] # None => inst'[u].pk \in known
        BY <3>1, HoldMoves
      <3> QED BY <2>4, <3>1, <3>2, TaskStep DEF TypeOK, Idle, Lookup
    <2> QED BY <2>1, <2>2, <2>3, <2>4
  <1>11. ASSUME NEW q \in Lookup, Expire(q) PROVE CacheInv'
    <2>1. /\ cache' = [cache EXCEPT ![q] = None]
          /\ UNCHANGED <<db, known, inst, task, overlapped>>
      BY <1>11 DEF Expire
    <2>2. /\ cache' \in [Lookup -> Found \cup {None}]
          /\ \A r \in Lookup : cache'[r] # None => cache'[r] = cache[r]
      BY <2>1 DEF TypeOK
    <2>3. \A p \in Pk : Result(p)' = Result(p) /\ Evicting(p)' = Evicting(p)
      BY <2>1 DEF Result, Rows, Evicting
    <2>4. TypeOK' /\ Quiet' /\ KnownKeys'
      BY <2>1, <2>2 DEF TypeOK, Quiet, KnownKeys
    <2>5. FillsAreExcused' /\ StaleOnlyByOverlap'
      BY <2>1, <2>2, <2>3 DEF FillsAreExcused, StaleOnlyByOverlap, Lookup
    <2> QED BY <2>4, <2>5
  <1>12. CASE UNCHANGED vars
    <2>1. \A p \in Pk : Result(p)' = Result(p) /\ Evicting(p)' = Evicting(p)
      BY <1>12 DEF vars, Result, Rows, Evicting
    <2>2. TypeOK' /\ Quiet' /\ KnownKeys'
      BY <1>12 DEF vars, TypeOK, Quiet, KnownKeys
    <2>3. FillsAreExcused' /\ StaleOnlyByOverlap'
      BY <1>12, <2>1 DEF vars, FillsAreExcused, StaleOnlyByOverlap
    <2> QED BY <2>2, <2>3
  <1> QED
    BY <1>1, <1>2, <1>3, <1>4, <1>5, <1>6, <1>7, <1>8, <1>9, <1>10, <1>11, <1>12 DEF Next

LEMMA CacheInvariant == FullRefreshes /\ Spec => []CacheInv
  <1>1. CASE FullRefreshes
    <2>1. CacheInv /\ [Next]_vars => CacheInv'
      BY <1>1, NextCache
    <2> QED BY <2>1, InitCache, PTL DEF Spec
  <1> QED BY <1>1

\* The table, the entries, the instances and the tasks keep their types.
THEOREM TypeCorrect == FullRefreshes /\ Spec => []TypeOK
  <1>1. CacheInv => TypeOK
    BY DEF CacheInv
  <1> QED BY <1>1, CacheInvariant, PTL

\* An entry under a primary key is stale only while its eviction is under way, or
\* because it ran past a reader, failed or was cancelled.
THEOREM Freshness == FullRefreshes /\ Spec => []StaleOnlyByOverlap
  <1>1. CacheInv => StaleOnlyByOverlap
    BY DEF CacheInv
  <1> QED BY <1>1, CacheInvariant, PTL

\* What was built from a cache hit never passes for a stored row.
HitsAreUnsaved ==
  \A t \in Task : inst[t] # None => inst[t] \in Instance /\ (inst[t].saved <=> ~inst[t].hit)

LEMMA HitsStayUnsaved ==
  ASSUME TypeOK, TypeOK', HitsAreUnsaved, [Next]_vars
  PROVE  HitsAreUnsaved'
  <1> SUFFICES ASSUME NEW t \in Task, inst'[t] # None
               PROVE  inst'[t] \in Instance /\ (inst'[t].saved <=> ~inst'[t].hit)
    BY DEF HitsAreUnsaved
  <1>1. inst'[t] \in Instance
    BY DEF TypeOK
  <1>2. CASE inst'[t] = inst[t]
    BY <1>2 DEF HitsAreUnsaved
  <1>3. CASE inst'[t] # inst[t]
    <2>1. PICK u \in Task :
            \/ Hit(u) \/ Query(u) \/ Rehydrate(u) \/ Cancel(u)
            \/ \E how \in Statement : Save(u, how)
            \/ \E v \in Content : Assign(u, v)
            \/ \E p \in Pk, v \in Content : Create(u, p, v)
            \/ \E full \in BOOLEAN : Refresh(u, full)
      BY <1>3 DEF Next, vars, GetCached, Miss, Fill, FillFails, Delete, Evict, EvictFails,
                  Expire
    <2>2. PICK i : inst' = [inst EXCEPT ![u] = i]
      BY <2>1 DEF Hit, Query, Save, Rehydrate, Cancel, Assign, Create, Refresh, Hold
    <2>3. u = t /\ \A j : inst' = [inst EXCEPT ![u] = j] => inst'[t] = j
      BY <1>3, <2>2 DEF TypeOK
    <2>4. CASE \/ Hit(u) \/ Query(u) \/ Rehydrate(u) \/ Cancel(u)
               \/ \E how \in Statement : Save(u, how)
               \/ \E p \in Pk, v \in Content : Create(u, p, v)
      <3>1. \/ inst'[t] = None
            \/ \E p, v : inst'[t] = FromCache(p, v) \/ inst'[t] = FromDb(p, v)
        <4>1. CASE \E how \in Statement : Save(u, how)
          <5>1. PICK p, v : inst' = [inst EXCEPT ![u] = FromDb(p, v)]
            BY <4>1 DEF Save, Hold
          <5> QED BY <2>3, <5>1
        <4>2. CASE \/ Hit(u) \/ Query(u) \/ Rehydrate(u) \/ Cancel(u)
                   \/ \E p \in Pk, v \in Content : Create(u, p, v)
          BY <2>3, <4>2 DEF Hit, Query, Rehydrate, Cancel, Create, Hold
        <4> QED BY <2>4, <4>1, <4>2
      <3>2. PICK p, v : inst'[t] = FromCache(p, v) \/ inst'[t] = FromDb(p, v)
        BY <3>1
      <3> QED BY <1>1, <3>2 DEF FromCache, FromDb
    <2>5. CASE \/ \E v \in Content : Assign(u, v)
               \/ \E full \in BOOLEAN : Refresh(u, full)
      <3>1. PICK v : inst'[t] = [inst[t] EXCEPT !.val = v] /\ inst[t] # None
        BY <2>3, <2>5 DEF Assign, Refresh, Hold
      <3>2. inst[t] \in Instance /\ (inst[t].saved <=> ~inst[t].hit)
        BY <3>1 DEF HitsAreUnsaved
      <3>3. inst'[t].saved = inst[t].saved /\ inst'[t].hit = inst[t].hit
        BY <3>1, <3>2 DEF Instance
      <3> QED BY <1>1, <3>2, <3>3
    <2> QED BY <2>1, <2>4, <2>5
  <1> QED BY <1>2, <1>3

\* A stored row changes only through an instance read from it, created with it or saved
\* before, or by a save of a proxy that is told to update.
THEOREM ProxySafety == FullRefreshes /\ Spec => OverwrittenOnlyWhenTold
  <1> DEFINE By(t, p) == /\ inst[t] # None /\ inst[t].pk = p
                         /\ ~inst[t].hit \/ \E how \in Forced : Save(t, how)
             Changed(p) == db[p] # None /\ db'[p] # db[p] => \E t \in Task : By(t, p)
  <1>1. ASSUME CacheInv, HitsAreUnsaved, [Next]_vars, NEW p \in Pk PROVE Changed(p)
    <2> SUFFICES ASSUME db[p] # None, db'[p] # db[p] PROVE \E t \in Task : By(t, p)
      OBVIOUS
    <2>1. p \in known /\ db \in [Pk -> Content \cup {None}]
      BY <1>1 DEF CacheInv, KnownKeys, TypeOK
    <2>2. ASSUME NEW t \in Task, NEW r \in Pk, NEW v \in Content, Create(t, r, v) PROVE FALSE
      BY <2>1, <2>2 DEF Create
    <2>3. PICK t \in Task : Delete(t) \/ \E how \in Statement : Save(t, how)
      BY <1>1, <2>2 DEF Next, vars, GetCached, Hit, Miss, Query, Fill, FillFails, Assign,
                        Evict, EvictFails, Refresh, Rehydrate, Cancel, Expire
    <2>4. ASSUME NEW how \in Statement, Save(t, how) PROVE By(t, p)
      <3>1. inst[t] # None /\ inst[t].pk = p
        BY <2>1, <2>4 DEF Save
      <3>2. CASE how \in Forced
        BY <2>4, <3>1, <3>2
      <3>3. CASE how \in {"plain", "create"}
        <4>1. inst[t].saved
          BY <2>1, <2>4, <3>1, <3>3 DEF Save
        <4> QED BY <1>1, <3>1, <4>1 DEF HitsAreUnsaved
      <3> QED BY <3>2, <3>3 DEF Statement, Forced
    <2>5. CASE Delete(t)
      <3>1. inst[t] # None /\ inst[t].pk = p /\ inst[t].saved
        BY <2>1, <2>5 DEF Delete
      <3> QED BY <1>1, <3>1 DEF HitsAreUnsaved
    <2> QED BY <2>3, <2>4, <2>5
  <1>2. Init => HitsAreUnsaved
    BY DEF Init, HitsAreUnsaved
  <1>3. CacheInv /\ CacheInv' /\ HitsAreUnsaved /\ [Next]_vars => HitsAreUnsaved'
    BY HitsStayUnsaved DEF CacheInv
  <1>4. CacheInv /\ HitsAreUnsaved /\ [Next]_vars => [\A p \in Pk : Changed(p)]_vars
    BY <1>1
  <1> QED BY <1>2, <1>3, <1>4, CacheInvariant, PTL DEF Spec, OverwrittenOnlyWhenTold

=============================================================================
