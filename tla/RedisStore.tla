----------------------------- MODULE RedisStore -----------------------------
(***************************************************************************)
(* RedisCacheBackend of cache/redis.py over the pool of RedisCache: the    *)
(* operations that change what Redis stores.  delete_pattern and flush     *)
(* scan for keys and delete them one by one, set_many sends a pipeline     *)
(* that is no transaction; other tasks, and the expiry, come in between.   *)
(*                                                                         *)
(* Stored keys are pairs of a namespace and a key.  A pattern "n:*" also   *)
(* matches the keys of the namespaces whose names begin with "n:".         *)
(***************************************************************************)
EXTENDS RedisPool, FiniteSets

CONSTANTS
  Task,
  Namespace,
  Key,
  Inside,   \* the namespaces whose names begin with that of a namespace and ":"
  AnyKey       \* the pattern "*"; other patterns match one key

Slot == Namespace \X Key
Pattern == Key \cup {AnyKey}

ASSUME RedisStoreAssumption ==
  /\ Inside \in [Namespace -> SUBSET Namespace]
  /\ \A n \in Namespace : n \notin Inside[n]
  /\ AnyKey \notin Key

VARIABLES
  backends,  \* namespaces of the RedisCacheBackend objects in use
  stored,    \* the keys in Redis
  job        \* the batch operation each task is in

storevars == <<backends, stored, job>>

NoJob == [op |-> "none"]
Ended(result) == [op |-> result]

Purge ==
  [op : {"delete_pattern"}, namespace : Namespace, pattern : Pattern,
   page : SUBSET Slot,     \* keys the scan returned, yet to be deleted
   found : SUBSET Slot,    \* keys the scan has returned
   last : BOOLEAN,         \* the cursor is 0
   steady : SUBSET Slot]   \* history: keys matched and stored since the call
Batch == [op : {"set_many"}, namespace : Namespace, rest : SUBSET Slot]
Purged == [op : {"purged"}, steady : SUBSET Slot]
Job == Purge \cup Batch \cup Purged \cup [op : {"none", "RedisCacheError"}]

StoreTypeOK ==
  /\ backends \subseteq Namespace
  /\ stored \subseteq Slot
  /\ job \in [Task -> Job]

StoreInit ==
  /\ Init
  /\ backends = {}
  /\ stored = {}
  /\ job = [t \in Task |-> NoJob]

-----------------------------------------------------------------------------
Purging(t) == job[t].op = "delete_pattern"

\* Redis holds these keys now: what is gone is no longer steady.
Hold(slots) ==
  /\ stored' = slots
  /\ job' = [t \in Task |->
               IF Purging(t) THEN [job[t] EXCEPT !.steady = @ \cap slots] ELSE job[t]]

\* The same, and task t goes on with j.
HoldAnd(slots, t, j) ==
  /\ stored' = slots
  /\ job' = [u \in Task |->
               LET k == IF u = t THEN j ELSE job[u]
               IN  IF k.op = "delete_pattern" THEN [k EXCEPT !.steady = @ \cap slots] ELSE k]

\* RedisCache.get_backend: raises without a pool.
GetBackend(n) ==
  /\ installed # NoPool
  /\ backends' = backends \cup {n}
  /\ UNCHANGED <<stored, job>>

\* set, and incr, which stores a missing key.
Set(s) ==
  /\ s[1] \in backends
  /\ Hold(stored \cup {s})
  /\ UNCHANGED backends

\* delete, and expire with no time left.
Delete(s) ==
  /\ s[1] \in backends
  /\ Hold(stored \ {s})
  /\ UNCHANGED backends

Expire(s) ==
  /\ s \in stored
  /\ Hold(stored \ {s})
  /\ UNCHANGED backends

-----------------------------------------------------------------------------
(* set_many                                                                  *)

\* All values serialize; the first one that does not raises before anything is sent.
SetMany(t) ==
  /\ job[t].op \notin {"delete_pattern", "set_many"}
  /\ \E n \in backends, ks \in SUBSET Key :
       /\ ks # {}
       /\ job' = [job EXCEPT ![t] = [op |-> "set_many", namespace |-> n, rest |-> {n} \X ks]]
  /\ UNCHANGED <<backends, stored>>

\* The server executes one command of the pipeline.
Pipelined(t) ==
  /\ job[t].op = "set_many"
  /\ \E s \in job[t].rest :
       HoldAnd(stored \cup {s}, t,
               IF job[t].rest = {s} THEN NoJob ELSE [job[t] EXCEPT !.rest = @ \ {s}])
  /\ UNCHANGED backends

-----------------------------------------------------------------------------
(* delete_pattern, and flush, which is delete_pattern("*")                   *)

\* Mutant: the pattern is sent without its namespace.
MatchedAnywhere(n, p) == {s \in Slot : p \in {AnyKey, s[2]}}

Matched(n, p) ==
  {s \in Slot : \/ s[1] = n /\ p \in {AnyKey, s[2]}
                \/ s[1] \in Inside[n] /\ p = AnyKey}

DeletePattern(t) ==
  /\ job[t].op \notin {"delete_pattern", "set_many"}
  /\ \E n \in backends, p \in Pattern :
       job' = [job EXCEPT ![t] =
                 [op |-> "delete_pattern", namespace |-> n, pattern |-> p, page |-> {},
                  found |-> {}, last |-> FALSE, steady |-> Matched(n, p) \cap stored]]
  /\ UNCHANGED <<backends, stored>>

\* SCAN returns a page p: any matching keys, perhaps none, perhaps some returned before.
\* The last page comes when all that was there from the start to the end was returned.
Returned(j, p, last) == [j EXCEPT !.page = p, !.found = @ \cup p, !.last = last]
Complete(j) == j.last => j.steady \subseteq j.found

\* Mutant: an empty page is taken for the last one.
ScanUntilEmpty(t) ==
  /\ Purging(t) /\ job[t].page = {} /\ ~job[t].last
  /\ \E p \in SUBSET (Matched(job[t].namespace, job[t].pattern) \cap stored), last \in BOOLEAN :
       LET j == Returned(job[t], p, last) IN
       /\ Complete(j)
       /\ job' = [job EXCEPT ![t] = IF p = {} THEN [op |-> "purged", steady |-> j.steady] ELSE j]
  /\ UNCHANGED <<backends, stored>>

\* The scan_iter loop asks for the next page when all keys of this one are deleted.
Scan(t) ==
  /\ Purging(t) /\ job[t].page = {} /\ ~job[t].last
  /\ \E p \in SUBSET (Matched(job[t].namespace, job[t].pattern) \cap stored), last \in BOOLEAN :
       LET j == Returned(job[t], p, last) IN
       Complete(j) /\ job' = [job EXCEPT ![t] = j]
  /\ UNCHANGED <<backends, stored>>

\* await self.pool.delete(key)
DeleteFound(t) ==
  /\ Purging(t)
  /\ \E s \in job[t].page : HoldAnd(stored \ {s}, t, [job[t] EXCEPT !.page = @ \ {s}])
  /\ UNCHANGED backends

Return(t) ==
  /\ Purging(t) /\ job[t].last /\ job[t].page = {}
  /\ job' = [job EXCEPT ![t] = [op |-> "purged", steady |-> job[t].steady]]
  /\ UNCHANGED <<backends, stored>>

\* A command fails, or its task is cancelled: what it asked for may have been done.
Fail(t) ==
  /\ \/ /\ Purging(t)
        /\ \E s \in {{}} \cup {{x} : x \in job[t].page} :
             HoldAnd(stored \ s, t, Ended("RedisCacheError"))
     \/ /\ job[t].op = "set_many"
        /\ \E s \in SUBSET job[t].rest :
             HoldAnd(stored \cup s, t, Ended("RedisCacheError"))
  /\ UNCHANGED backends

-----------------------------------------------------------------------------
Command ==
  \/ \E n \in Namespace : GetBackend(n)
  \/ \E s \in Slot : Set(s) \/ Delete(s) \/ Expire(s)
  \/ \E t \in Task : SetMany(t) \/ Pipelined(t)
  \/ \E t \in Task : DeletePattern(t) \/ Scan(t) \/ DeleteFound(t) \/ Return(t) \/ Fail(t)

StoreNext ==
  \/ Next /\ UNCHANGED storevars
  \/ Command /\ UNCHANGED vars

StoreSpec == StoreInit /\ [][StoreNext]_<<vars, storevars>>

-----------------------------------------------------------------------------
(* A delete_pattern or flush that returns has removed all it was called for: *)
(* no key that matched at the call has been in Redis all the time since -    *)
(* whatever is written, deleted or expires between two pages of the scan.    *)
FlushedAreGone == \A t \in Task : job[t].op = "purged" => job[t].steady = {}

(* A purge takes keys of its own namespace, and of those nested in its name, *)
(* only: any other key goes by a delete of it or by its expiry.              *)
FlushStaysWithin ==
  [][\A s \in stored \ stored' :
       \/ Delete(s) \/ Expire(s)
       \/ \E t \in Task :
            Purging(t) /\ s[1] \in {job[t].namespace} \cup Inside[job[t].namespace]]_storevars
=============================================================================
