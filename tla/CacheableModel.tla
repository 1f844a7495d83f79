--------------------------- MODULE CacheableModel ---------------------------
(***************************************************************************)
(* BaseCacheableModel (models/cacheable_model.py): a table whose rows are  *)
(* read through Redis by get_cached and filter_cached and evicted by save  *)
(* and delete, used by several asyncio tasks.                              *)
(*                                                                         *)
(* A row is its primary key and one content, which stands for its cached   *)
(* columns.  A step is one request to the database or to Redis, with what  *)
(* the task does before it sends the next one.                             *)
(***************************************************************************)
EXTENDS FiniteSets

CONSTANTS
  Task,
  Pk,       \* a row inserted by create has a new key
  Content,
  Alias,    \* get_cached by other arguments than the pk_attr: a unique column, "pk", or
            \* another spelling of the key's value
  AliasOf,  \* [Alias -> Pk]: the row such arguments find
  All,      \* filter_cached()
  Cached,   \* _cache_ttl > 0
  Allowed,  \* what the users of the model do, see Usages
  Faults,
  None

Usages ==
  {"interleave",       \* operations of several tasks overlap
   "write_proxy",      \* save() of an instance built from a cache hit
   "partial_refresh"}  \* refresh_from_db(fields=...) without the column that counts

ASSUME CacheableModelAssumption ==
  /\ AliasOf \in [Alias -> Pk]
  /\ Alias \cap Pk = {} /\ All \notin Alias \cup Pk
  /\ None \notin Content
  /\ Cached \in BOOLEAN
  /\ Allowed \subseteq Usages
  /\ Faults \subseteq {"redis", "cancel"}

VARIABLES
  db,         \* the table: the content of each stored row
  known,      \* keys given to rows so far
  cache,      \* Redis: the rows kept under each lookup's key
  inst,       \* the instance a task holds; history: hit, it was built from a cache hit
              \* and has not been saved since
  task,       \* where the operation of a task is: its key and the rows it read
  overlapped  \* history: rows evicted past a reader that holds another content, or in vain

vars == <<db, known, cache, inst, task, overlapped>>

Lookup == Pk \cup Alias \cup {All}
Found == UNION {[S -> Content] : S \in SUBSET Pk}
Instance == [pk : Pk, val : Content, saved : BOOLEAN, hit : BOOLEAN]
Idle == [at |-> "idle", on |-> All, got |-> None]

ASSUME NoneIsNothing == None \notin Found \cup Instance

TypeOK ==
  /\ db \in [Pk -> Content \cup {None}]
  /\ known \subseteq Pk
  /\ cache \in [Lookup -> Found \cup {None}]
  /\ inst \in [Task -> Instance \cup {None}]
  /\ task \in [Task -> [at : {"idle", "lookup", "query", "fill", "evict"},
                        on : Lookup, got : Found \cup {None}]]
  /\ overlapped \subseteq Pk

Init ==
  /\ db = [p \in Pk |-> None]
  /\ known = {}
  /\ cache = [q \in Lookup |-> None]
  /\ inst = [t \in Task |-> None]
  /\ task = [t \in Task |-> Idle]
  /\ overlapped = {}

\* The rows a lookup finds, now.
Rows(q) == IF q = All THEN Pk ELSE IF q \in Alias THEN {AliasOf[q]} ELSE {q}
Result(q) == [p \in {r \in Rows(q) : db[r] # None} |-> db[p]]

-----------------------------------------------------------------------------
MayStart(t) ==
  /\ task[t].at = "idle"
  /\ "interleave" \in Allowed \/ \A u \in Task : task[u].at = "idle"

Begin(t, label, q, rows) == task' = [task EXCEPT ![t] = [at |-> label, on |-> q, got |-> rows]]
Return(t) == task' = [task EXCEPT ![t] = Idle]

Hold(t, i) == inst' = [inst EXCEPT ![t] = i]

\* The pk key is touched only by a model that is cached.
BeginOnPk(t, label, p, rows) == IF Cached THEN Begin(t, label, p, rows) ELSE Return(t)

-----------------------------------------------------------------------------
(* get_cached and filter_cached                                              *)

GetCached(t, q) ==
  /\ MayStart(t)
  /\ Begin(t, IF Cached THEN "lookup" ELSE "query", q, None)
  /\ UNCHANGED <<db, known, cache, inst, overlapped>>

\* Mutant: a cache hit is marked as stored.
FromCacheSaved(p, v) == [pk |-> p, val |-> v, saved |-> TRUE, hit |-> TRUE]

\* _from_cache: Model.construct, _saved_in_db = False.
FromCache(p, v) == [pk |-> p, val |-> v, saved |-> FALSE, hit |-> TRUE]
FromDb(p, v) == [pk |-> p, val |-> v, saved |-> TRUE, hit |-> FALSE]

\* Mutant: a hit is written back to renew its ttl.
HitRenews(t) ==
  LET q == task[t].on IN
  /\ task[t].at = "lookup"
  /\ cache[q] # None
  /\ Begin(t, "fill", q, cache[q])
  /\ UNCHANGED <<db, known, cache, inst, overlapped>>

\* A hit; of several instances the task keeps one.
Hit(t) ==
  LET rows == cache[task[t].on] IN
  /\ task[t].at = "lookup"
  /\ rows # None
  /\ \/ \E p \in DOMAIN rows : Hold(t, FromCache(p, rows[p]))
     \/ DOMAIN rows = {} /\ Hold(t, None)
  /\ Return(t)
  /\ UNCHANGED <<db, known, cache, overlapped>>

\* No entry, or a CacheError, which counts as none.
Miss(t) ==
  /\ task[t].at = "lookup"
  /\ cache[task[t].on] = None \/ "redis" \in Faults
  /\ Begin(t, "query", task[t].on, None)
  /\ UNCHANGED <<db, known, cache, inst, overlapped>>

\* The database answers; a row that does not exist is not cached, an empty list is.
Query(t) ==
  LET q == task[t].on
      rows == Result(q)
  IN
  /\ task[t].at = "query"
  /\ \/ \E p \in DOMAIN rows : Hold(t, FromDb(p, rows[p]))
     \/ DOMAIN rows = {} /\ Hold(t, None)
  /\ IF Cached /\ (q = All \/ DOMAIN rows # {})
       THEN Begin(t, "fill", q, rows) ELSE Return(t)
  /\ UNCHANGED <<db, known, cache, overlapped>>

\* backend.set of what was read, by a reader or by refresh_from_db.
Fill(t) ==
  /\ task[t].at = "fill"
  /\ cache' = [cache EXCEPT ![task[t].on] = task[t].got]
  /\ Return(t)
  /\ UNCHANGED <<db, known, inst, overlapped>>

\* A CacheError of the write is swallowed; a timeout may hide a write that was made.
FillFails(t) ==
  /\ "redis" \in Faults
  /\ task[t].at = "fill"
  /\ cache' \in {cache, [cache EXCEPT ![task[t].on] = task[t].got]}
  /\ Return(t)
  /\ UNCHANGED <<db, known, inst, overlapped>>

-----------------------------------------------------------------------------
(* Instances                                                                 *)

\* Model.create goes through save with force_create.
Create(t, p, v) ==
  /\ MayStart(t)
  /\ p \notin known
  /\ db' = [db EXCEPT ![p] = v]
  /\ known' = known \cup {p}
  /\ Hold(t, FromDb(p, v))
  /\ BeginOnPk(t, "evict", p, None)
  /\ UNCHANGED <<cache, overlapped>>

Assign(t, v) ==
  /\ task[t].at = "idle"
  /\ inst[t] # None
  /\ Hold(t, [inst[t] EXCEPT !.val = v])
  /\ UNCHANGED <<db, known, cache, task, overlapped>>

\* The ways to call save: with no argument, force_create, force_update, or update_fields
\* with the cached columns or with others.
Statement == {"plain", "create", "update", "fields", "other_fields"}
Forced == {"update", "fields", "other_fields"}

\* An INSERT for a proxy that is not told to update, IntegrityError over an existing row;
\* otherwise an UPDATE, which may find no row: IntegrityError for force_update.
Save(t, how) ==
  LET i == inst[t]
      insert == how = "create" \/ (how = "plain" /\ ~i.saved)
  IN
  /\ MayStart(t)
  /\ i # None
  /\ i.saved \/ "write_proxy" \in Allowed
  /\ insert => db[i.pk] = None
  /\ how = "update" => db[i.pk] # None
  /\ db' = IF insert \/ (db[i.pk] # None /\ how # "other_fields")
             THEN [db EXCEPT ![i.pk] = i.val] ELSE db
  /\ Hold(t, FromDb(i.pk, i.val))
  /\ BeginOnPk(t, "evict", i.pk, None)
  /\ UNCHANGED <<known, cache, overlapped>>

\* delete: OperationalError for a proxy; the row may be gone already.
Delete(t) ==
  /\ MayStart(t)
  /\ inst[t] # None
  /\ inst[t].saved
  /\ db' = [db EXCEPT ![inst[t].pk] = None]
  /\ BeginOnPk(t, "evict", inst[t].pk, None)
  /\ UNCHANGED <<known, cache, inst, overlapped>>

\* A reader about to store another content than the row has.
StaleReader(p) ==
  \E u \in Task : /\ task[u].at = "fill" /\ task[u].on = p
                  /\ task[u].got # Result(p)

\* Mutant: the key of the list cache is deleted.
EvictList(t) ==
  LET p == task[t].on IN
  /\ task[t].at = "evict"
  /\ cache' = [cache EXCEPT ![All] = None]
  /\ overlapped' = IF StaleReader(p) THEN overlapped \cup {p} ELSE overlapped \ {p}
  /\ Return(t)
  /\ UNCHANGED <<db, known, inst>>

\* _invalidate_cache, after the write.
Evict(t) ==
  LET p == task[t].on IN
  /\ task[t].at = "evict"
  /\ cache' = [cache EXCEPT ![p] = None]
  /\ overlapped' = IF StaleReader(p) THEN overlapped \cup {p} ELSE overlapped \ {p}
  /\ Return(t)
  /\ UNCHANGED <<db, known, inst>>

\* A CacheError of the delete is logged only.
EvictFails(t) ==
  /\ "redis" \in Faults
  /\ task[t].at = "evict"
  /\ cache' \in {cache, [cache EXCEPT ![task[t].on] = None]}
  /\ overlapped' = overlapped \cup {task[t].on}
  /\ Return(t)
  /\ UNCHANGED <<db, known, inst>>

\* refresh_from_db reads the row, DoesNotExist if there is none, and stores the
\* instance's columns, refreshed or not.
Refresh(t, full) ==
  LET i == inst[t]
      v == IF full THEN db[i.pk] ELSE i.val
  IN
  /\ MayStart(t)
  /\ i # None
  /\ db[i.pk] # None
  /\ full \/ "partial_refresh" \in Allowed
  /\ Hold(t, [i EXCEPT !.val = v])
  /\ BeginOnPk(t, "fill", i.pk, [p \in {i.pk} |-> v])
  /\ UNCHANGED <<db, known, cache, overlapped>>

Rehydrate(t) ==
  /\ MayStart(t)
  /\ inst[t] # None
  /\ db[inst[t].pk] # None
  /\ Hold(t, FromDb(inst[t].pk, db[inst[t].pk]))
  /\ UNCHANGED <<db, known, cache, task, overlapped>>

-----------------------------------------------------------------------------
(* What happens to the tasks and to Redis.                                   *)

\* The task is cancelled or its process dies; a request under way may be served.
Cancel(t) ==
  LET q == task[t].on IN
  /\ "cancel" \in Faults
  /\ task[t].at # "idle"
  /\ cache' \in CASE task[t].at = "fill" -> {cache, [cache EXCEPT ![q] = task[t].got]}
                  [] task[t].at = "evict" -> {cache, [cache EXCEPT ![q] = None]}
                  [] OTHER -> {cache}
  /\ overlapped' = IF task[t].at = "evict" THEN overlapped \cup {q} ELSE overlapped
  /\ Return(t)
  /\ Hold(t, None)
  /\ UNCHANGED <<db, known>>

\* Every entry is written with the positive ttl of the class.
Expire(q) ==
  /\ cache[q] # None
  /\ cache' = [cache EXCEPT ![q] = None]
  /\ UNCHANGED <<db, known, inst, task, overlapped>>

Next ==
  \/ \E t \in Task :
       \/ \E q \in Lookup : GetCached(t, q)
       \/ Hit(t) \/ Miss(t) \/ Query(t) \/ Fill(t) \/ FillFails(t)
       \/ \E p \in Pk, v \in Content : Create(t, p, v)
       \/ \E v \in Content : Assign(t, v)
       \/ \E how \in Statement : Save(t, how)
       \/ Delete(t) \/ Evict(t) \/ EvictFails(t)
       \/ \E full \in BOOLEAN : Refresh(t, full)
       \/ Rehydrate(t) \/ Cancel(t)
  \/ \E q \in Lookup : Expire(q)

Spec == Init /\ [][Next]_vars

\* Redis drops what has expired.
FairSpec == Spec /\ \A q \in Lookup : WF_vars(Expire(q))

-----------------------------------------------------------------------------
(* What the cache promises.                                                  *)

Evicting(p) == \E t \in Task : task[t].at = "evict" /\ task[t].on = p

\* An entry under a primary key differs from the row only while its eviction is under
\* way, or when that eviction ran past a reader which had read the row before, failed
\* or was cancelled: no other order of reads, writes and refreshes leaves a stale entry.
StaleOnlyByOverlap ==
  \A p \in Pk :
    cache[p] # None /\ cache[p] # Result(p) => Evicting(p) \/ p \in overlapped

\* What a cache hit holds may be stale, and "calling .save() on a cache hit would issue an
\* INSERT against an existing PK": a row changes only through an instance that was read
\* from the table, created with it or saved before.
ProxiesNeverOverwrite ==
  [][\A p \in Pk : db[p] # None /\ db'[p] # db[p] =>
       \E t \in Task : inst[t] # None /\ inst[t].pk = p /\ ~inst[t].hit]_vars

\* A cache hit writes over a stored row only by a save that is told to update, with
\* update_fields or force_update, or after one, which leaves it a stored instance, stale
\* columns and all: no other save, and no delete, turns what a hit holds into the row.
OverwrittenOnlyWhenTold ==
  [][\A p \in Pk : db[p] # None /\ db'[p] # db[p] =>
       \E t \in Task : /\ inst[t] # None /\ inst[t].pk = p
                       /\ ~inst[t].hit \/ \E how \in Forced : Save(t, how)]_vars

\* Once the table stops changing, what any lookup finds in Redis ends up being right
\* for good: entries nobody evicts last no longer than their ttl.
EventuallyFresh ==
  <>[][FALSE]_db => \A q \in Lookup : <>[](cache[q] # None => cache[q] = Result(q))
=============================================================================
