--------------------------- MODULE RedisPoolProofs ---------------------------
(* Proofs about RedisPool, for every set of overlapping and failing calls,   *)
(* and about RedisStore, for every set of tasks, namespaces and keys.        *)
EXTENDS RedisStore, TLAPS

\* A pool is seen by other calls only once its init has installed it.
Unseen(i) == installed # i /\ \A c \in Call : old[c] # i

Openings ==
  \A i \in Opening :
    /\ pc[i] = "idle" => pool[i] = "none"
    /\ pc[i] \in {"ping", "discard"} => pool[i] = "unverified"
    /\ pc[i] \in {"aclose", "assign"} => pool[i] = "open"
    /\ pc[i] # "done" => Unseen(i)
    /\ pc[i] = "done" => pool[i] \in {"open", "closed"}

\* A call tears down a pool of a finished init, and has closed it before it assigns.
Teardowns ==
  \A c \in Call :
    /\ pc[c] \in {"aclose", "assign"} => old[c] \in Opening
    /\ pc[c] = "assign" => pool[old[c]] = "closed" /\ pc[old[c]] = "done"

PoolInv == TypeOK /\ Openings /\ Teardowns /\ ServedPoolIsOpen /\ NoForgottenPool

LEMMA InitPool == Init => PoolInv
  BY RedisPoolAssumption
  DEF Init, PoolInv, TypeOK, Openings, Teardowns, ServedPoolIsOpen, NoForgottenPool, Unseen,
      Call

LEMMA NextPool ==
  ASSUME PoolInv, [Next]_vars
  PROVE  PoolInv'
  <1> USE RedisPoolAssumption DEF PoolInv
  <1>1. ASSUME NEW i \in Opening, Connect(i) \/ Pinged(i) \/ PingFails(i) \/ Discard(i)
               \/ DiscardFails(i)
        PROVE  PoolInv'
    <2>1. TypeOK'
      BY <1>1 DEF TypeOK, Connect, Pinged, PingFails, Discard, DiscardFails, Goto, Call
    <2>2. Openings'
      BY <1>1 DEF TypeOK, Connect, Pinged, PingFails, Discard, DiscardFails, Goto, Call, Openings, Unseen
    <2>3. Teardowns'
      BY <1>1 DEF TypeOK, Connect, Pinged, PingFails, Discard, DiscardFails, Goto, Call, Teardowns
    <2>4. ServedPoolIsOpen'
      BY <1>1 DEF TypeOK, Connect, Pinged, PingFails, Discard, DiscardFails, Goto, Call, Openings, Unseen,
                  ServedPoolIsOpen
    <2>5. NoForgottenPool'
      BY <1>1 DEF TypeOK, Connect, Pinged, PingFails, Discard, DiscardFails, Goto, Call, NoForgottenPool
    <2> QED BY <2>1, <2>2, <2>3, <2>4, <2>5
  <1>2. ASSUME NEW c \in Closing, Shut(c) PROVE PoolInv'
    <2>1. TypeOK' /\ Teardowns'
      BY <1>2 DEF TypeOK, Shut, Goto, Call, Teardowns
    <2>2. Openings'
      BY <1>2 DEF TypeOK, Shut, Goto, Call, Openings, Unseen
    <2>3. ServedPoolIsOpen'
      BY <1>2 DEF TypeOK, Shut, Goto, Call, ServedPoolIsOpen
    <2>4. NoForgottenPool'
      BY <1>2, RedisPoolAssumption DEF TypeOK, Shut, Goto, Call, NoForgottenPool
    <2> QED BY <2>1, <2>2, <2>3, <2>4
  <1>3. ASSUME NEW c \in Call, Aclose(c) \/ AcloseFails(c) PROVE PoolInv'
    <2>1. old[c] \in Opening /\ pc[old[c]] = "done"
      BY <1>3 DEF Teardowns, Openings, Unseen, Aclose, AcloseFails
    <2>2. TypeOK'
      <3>1. abandoned' \subseteq Opening
        BY <1>3, <2>1 DEF TypeOK, Aclose, AcloseFails
      <3> QED BY <1>3, <2>1, <3>1 DEF TypeOK, Aclose, AcloseFails, Goto
    <2>3. Teardowns'
      <3>1. CASE Aclose(c)
        BY <2>1, <3>1 DEF TypeOK, Aclose, Goto, Teardowns
      <3>2. CASE AcloseFails(c)
        BY <2>1, <3>2 DEF TypeOK, AcloseFails, Goto, Teardowns
      <3> QED BY <1>3, <3>1, <3>2
    <2>4. Openings'
      BY <1>3, <2>1 DEF TypeOK, Aclose, AcloseFails, Goto, Call, Openings, Unseen
    <2>5. ServedPoolIsOpen'
      <3>1. CASE Aclose(c)
        BY <2>1, <3>1 DEF TypeOK, Aclose, Goto, ServedPoolIsOpen
      <3>2. CASE AcloseFails(c)
        BY <2>1, <3>2 DEF TypeOK, AcloseFails, Goto, ServedPoolIsOpen
      <3> QED BY <1>3, <3>1, <3>2
    <2>6. NoForgottenPool'
      <3>1. CASE Aclose(c)
        BY <2>1, <3>1 DEF TypeOK, Aclose, Goto, NoForgottenPool
      <3>2. CASE AcloseFails(c)
        BY <2>1, <3>2 DEF TypeOK, AcloseFails, Goto, NoForgottenPool
      <3> QED BY <1>3, <3>1, <3>2
    <2> QED BY <2>2, <2>3, <2>4, <2>5, <2>6
  <1>4. ASSUME NEW c \in Call, Assign(c) PROVE PoolInv'
    <2>1. TypeOK' /\ Teardowns'
      BY <1>4 DEF TypeOK, Assign, Goto, Call, Teardowns
    <2>2. Openings'
      BY <1>4 DEF TypeOK, Assign, Goto, Call, Openings, Unseen
    <2>3. ServedPoolIsOpen'
      BY <1>4 DEF TypeOK, Assign, Goto, Call, Openings, Teardowns, ServedPoolIsOpen
    <2>4. NoForgottenPool'
      BY <1>4 DEF TypeOK, Assign, Goto, Call, Teardowns, NoForgottenPool
    <2> QED BY <2>1, <2>2, <2>3, <2>4
  <1>5. CASE UNCHANGED vars
    BY <1>5 DEF vars, TypeOK, Openings, Unseen, Teardowns, ServedPoolIsOpen,
                NoForgottenPool
  <1> QED BY <1>1, <1>2, <1>3, <1>4, <1>5 DEF Next

LEMMA PoolInvariant == Spec => []PoolInv
  BY InitPool, NextPool, PTL DEF Spec

\* The pools, the calls and their locals keep their types.
THEOREM TypeCorrect == Spec => []TypeOK
  <1>1. PoolInv => TypeOK
    BY DEF PoolInv
  <1> QED BY <1>1, PoolInvariant, PTL

\* get_pool serves a verified pool, closed only while, or since, a teardown of it was
\* under way.
THEOREM ServedPool == Spec => []ServedPoolIsOpen
  <1>1. PoolInv => ServedPoolIsOpen
    BY DEF PoolInv
  <1> QED BY <1>1, PoolInvariant, PTL

\* A pool that is neither closed, nor served, nor being set up was lost to a failed aclose or to an overlap.
THEOREM LostPools == Spec => []NoForgottenPool
  <1>1. PoolInv => NoForgottenPool
    BY DEF PoolInv
  <1> QED BY <1>1, PoolInvariant, PTL

-----------------------------------------------------------------------------
(* The store                                                                 *)

\* What a purge knows of the keys that have been there since its call.
Sound(j) ==
  /\ j.op = "delete_pattern" =>
       /\ j.page \subseteq Matched(j.namespace, j.pattern)
       /\ j.steady \cap j.found \subseteq j.page
       /\ j.last => j.steady \subseteq j.found
  /\ j.op = "purged" => j.steady = {}

StoreInv == StoreTypeOK /\ \A t \in Task : Sound(job[t])

LEMMA FewerSteady ==
  ASSUME NEW j \in Job, j.op = "delete_pattern", Sound(j), NEW slots
  PROVE  LET k == [j EXCEPT !.steady = @ \cap slots] IN k \in Job /\ Sound(k)
  <1>1. j \in Purge
    BY DEF Job, Batch, Purged
  <1> DEFINE k == [j EXCEPT !.steady = @ \cap slots]
  <1>2. k \in Purge
    BY <1>1 DEF Purge
  <1>3. /\ k.op = j.op /\ k.namespace = j.namespace /\ k.pattern = j.pattern /\ k.page = j.page
        /\ k.found = j.found /\ k.last = j.last /\ k.steady = j.steady \cap slots
    BY <1>1 DEF Purge
  <1>4. Sound(k)
    BY <1>3 DEF Sound
  <1> QED BY <1>2, <1>4 DEF Job

LEMMA HoldKeeps ==
  ASSUME StoreInv, NEW slots \in SUBSET Slot, Hold(slots), UNCHANGED backends
  PROVE  StoreInv'
  <1>1. \A t \in Task : job'[t] \in Job /\ Sound(job'[t])
    <2> SUFFICES ASSUME NEW t \in Task PROVE job'[t] \in Job /\ Sound(job'[t])
      OBVIOUS
    <2>1. job[t] \in Job /\ Sound(job[t])
      BY DEF StoreInv, StoreTypeOK
    <2>2. CASE Purging(t)
      BY <2>1, <2>2, FewerSteady DEF Hold, Purging
    <2>3. CASE ~Purging(t)
      BY <2>1, <2>3 DEF Hold
    <2> QED BY <2>2, <2>3
  <1>2. job' \in [Task -> Job]
    <2>1. job' = [t \in Task |-> job'[t]]
      BY DEF Hold
    <2> QED BY <1>1, <2>1
  <1> QED BY <1>1, <1>2 DEF StoreInv, StoreTypeOK, Hold

LEMMA HoldAndKeeps ==
  ASSUME StoreInv, NEW slots \in SUBSET Slot, NEW t \in Task, NEW j, HoldAnd(slots, t, j),
         j \in Job, UNCHANGED backends,
         LET k == IF j.op = "delete_pattern" THEN [j EXCEPT !.steady = @ \cap slots] ELSE j
         IN  k \in Job /\ Sound(k)
  PROVE  StoreInv'
  <1>1. \A u \in Task : job'[u] \in Job /\ Sound(job'[u])
    <2> SUFFICES ASSUME NEW u \in Task PROVE job'[u] \in Job /\ Sound(job'[u])
      OBVIOUS
    <2>1. job[u] \in Job /\ Sound(job[u])
      BY DEF StoreInv, StoreTypeOK
    <2>2. CASE u = t
      BY <2>2 DEF HoldAnd
    <2>3. CASE u # t /\ job[u].op = "delete_pattern"
      BY <2>1, <2>3, FewerSteady DEF HoldAnd
    <2>4. CASE u # t /\ job[u].op # "delete_pattern"
      BY <2>1, <2>4 DEF HoldAnd
    <2> QED BY <2>2, <2>3, <2>4
  <1>2. job' \in [Task -> Job]
    <2>1. job' = [u \in Task |-> job'[u]]
      BY DEF HoldAnd
    <2> QED BY <1>1, <2>1
  <1> QED BY <1>1, <1>2 DEF StoreInv, StoreTypeOK, HoldAnd

LEMMA JobKeeps ==
  ASSUME StoreInv, NEW t \in Task, NEW j \in Job, Sound(j), job' = [job EXCEPT ![t] = j],
         UNCHANGED <<backends, stored>>
  PROVE  StoreInv'
  BY DEF StoreInv, StoreTypeOK

LEMMA InitStore == StoreInit => StoreInv
  BY DEF StoreInit, StoreInv, StoreTypeOK, NoJob, Job, Sound

LEMMA NextStore ==
  ASSUME StoreInv, [StoreNext]_<<vars, storevars>>
  PROVE  StoreInv'
  <1>1. ASSUME NEW n \in Namespace, GetBackend(n) PROVE StoreInv'
    BY <1>1 DEF GetBackend, StoreInv, StoreTypeOK
  <1>2. ASSUME NEW s \in Slot, Set(s) \/ Delete(s) \/ Expire(s) PROVE StoreInv'
    <2>1. stored \cup {s} \in SUBSET Slot /\ stored \ {s} \in SUBSET Slot
      BY DEF StoreInv, StoreTypeOK
    <2> QED BY <1>2, <2>1, HoldKeeps DEF Set, Delete, Expire
  <1>3. ASSUME NEW t \in Task, SetMany(t) PROVE StoreInv'
    <2>1. PICK n \in backends, ks \in SUBSET Key :
            job' = [job EXCEPT ![t] = [op |-> "set_many", namespace |-> n, rest |-> {n} \X ks]]
      BY <1>3 DEF SetMany
    <2> DEFINE j == [op |-> "set_many", namespace |-> n, rest |-> {n} \X ks]
    <2>2. n \in Namespace
      BY DEF StoreInv, StoreTypeOK
    <2>3. j \in Job /\ Sound(j)
      BY <2>2 DEF Job, Batch, Slot, Sound
    <2> QED BY <1>3, <2>1, <2>3, JobKeeps DEF SetMany
  <1>4. ASSUME NEW t \in Task, Pipelined(t) PROVE StoreInv'
    <2>1. PICK s \in job[t].rest :
            HoldAnd(stored \cup {s}, t,
                    IF job[t].rest = {s} THEN NoJob ELSE [job[t] EXCEPT !.rest = @ \ {s}])
      BY <1>4 DEF Pipelined
    <2>2. job[t] \in Batch
      BY <1>4 DEF Pipelined, StoreInv, StoreTypeOK, Job, Purge, Purged
    <2>3. stored \cup {s} \in SUBSET Slot
      BY <2>1, <2>2 DEF Batch, StoreInv, StoreTypeOK
    <2> DEFINE j == IF job[t].rest = {s} THEN NoJob ELSE [job[t] EXCEPT !.rest = @ \ {s}]
    <2>4. j \in Job /\ j.op \notin {"delete_pattern", "purged"}
      BY <2>2 DEF Job, Batch, NoJob
    <2> QED BY <1>4, <2>1, <2>3, <2>4, HoldAndKeeps DEF Sound, Pipelined
  <1>5. ASSUME NEW t \in Task, DeletePattern(t) PROVE StoreInv'
    <2>1. PICK n \in backends, p \in Pattern :
            job' = [job EXCEPT ![t] =
                      [op |-> "delete_pattern", namespace |-> n, pattern |-> p, page |-> {},
                       found |-> {}, last |-> FALSE, steady |-> Matched(n, p) \cap stored]]
      BY <1>5 DEF DeletePattern
    <2> DEFINE j == [op |-> "delete_pattern", namespace |-> n, pattern |-> p, page |-> {},
                     found |-> {}, last |-> FALSE, steady |-> Matched(n, p) \cap stored]
    <2>2. n \in Namespace /\ stored \subseteq Slot
      BY DEF StoreInv, StoreTypeOK
    <2>3. j \in Job /\ Sound(j)
      BY <2>2 DEF Job, Purge, Sound
    <2> QED BY <1>5, <2>1, <2>3, JobKeeps DEF DeletePattern
  <1>6. ASSUME NEW t \in Task, Scan(t) PROVE StoreInv'
    <2>1. PICK p \in SUBSET (Matched(job[t].namespace, job[t].pattern) \cap stored),
               last \in BOOLEAN :
            /\ Complete(Returned(job[t], p, last))
            /\ job' = [job EXCEPT ![t] = Returned(job[t], p, last)]
      BY <1>6 DEF Scan
    <2> DEFINE j == Returned(job[t], p, last)
    <2>2. job[t] \in Purge /\ Sound(job[t]) /\ job[t].page = {} /\ stored \subseteq Slot
      BY <1>6 DEF Scan, Purging, StoreInv, StoreTypeOK, Job, Batch, Purged
    <2>4. /\ j \in Purge /\ j.namespace = job[t].namespace /\ j.pattern = job[t].pattern
          /\ j.page = p /\ j.found = job[t].found \cup p /\ j.steady = job[t].steady
      BY <2>2 DEF Purge, Returned
    <2>5. Sound(j)
      BY <2>1, <2>2, <2>4 DEF Sound, Complete, Purge
    <2> QED BY <1>6, <2>1, <2>4, <2>5, JobKeeps DEF Scan, Job
  <1>7. ASSUME NEW t \in Task, DeleteFound(t) PROVE StoreInv'
    <2>1. PICK s \in job[t].page : HoldAnd(stored \ {s}, t, [job[t] EXCEPT !.page = @ \ {s}])
      BY <1>7 DEF DeleteFound
    <2>2. job[t] \in Purge /\ Sound(job[t]) /\ stored \ {s} \in SUBSET Slot
      BY <1>7 DEF DeleteFound, Purging, StoreInv, StoreTypeOK, Job, Batch, Purged
    <2> DEFINE j == [job[t] EXCEPT !.page = @ \ {s}]
               k == [j EXCEPT !.steady = @ \cap (stored \ {s})]
    <2>3. j \in Purge /\ k \in Purge
      BY <2>2 DEF Purge
    <2>4. /\ k.namespace = job[t].namespace /\ k.pattern = job[t].pattern
          /\ k.page = job[t].page \ {s} /\ k.found = job[t].found /\ k.last = job[t].last
          /\ k.steady = job[t].steady \cap (stored \ {s})
      BY <2>2 DEF Purge
    <2>5. Sound(k)
      BY <2>2, <2>3, <2>4 DEF Sound, Purge
    <2>6. j \in Job /\ k \in Job /\ j.op = "delete_pattern"
      BY <2>3 DEF Job, Purge
    <2>7. HoldAnd(stored \ {s}, t, j)
      BY <2>1
    <2> HIDE DEF j
    <2> QED BY <1>7, <2>2, <2>5, <2>6, <2>7, HoldAndKeeps DEF DeleteFound
  <1>8. ASSUME NEW t \in Task, Return(t) PROVE StoreInv'
    <2>1. job[t] \in Purge /\ Sound(job[t])
      BY <1>8 DEF Return, Purging, StoreInv, StoreTypeOK, Job, Batch, Purged
    <2> DEFINE j == [op |-> "purged", steady |-> job[t].steady]
    <2>2. j \in Job /\ Sound(j)
      BY <1>8, <2>1 DEF Return, Purging, Job, Purge, Purged, Sound
    <2> QED BY <1>8, <2>2, JobKeeps DEF Return
  <1>9. ASSUME NEW t \in Task, Fail(t) PROVE StoreInv'
    <2>1. job[t] \in Job /\ stored \subseteq Slot
      BY DEF StoreInv, StoreTypeOK
    <2>2. PICK slots : HoldAnd(slots, t, Ended("RedisCacheError")) /\ slots \in SUBSET Slot
      <3>1. CASE Purging(t)
        BY <1>9, <2>1, <3>1 DEF Fail, Purging
      <3>2. CASE job[t].op = "set_many"
        <4>1. job[t].rest \subseteq Slot
          BY <2>1, <3>2 DEF Job, Purge, Batch, Purged
        <4> QED BY <1>9, <2>1, <3>2, <4>1 DEF Fail, Purging
      <3> QED BY <1>9, <3>1, <3>2 DEF Fail
    <2>3. Ended("RedisCacheError") \in Job /\ Ended("RedisCacheError").op = "RedisCacheError"
      BY DEF Ended, Job
    <2> HIDE DEF Ended
    <2> QED BY <1>9, <2>2, <2>3, HoldAndKeeps DEF Sound, Fail
  <1>10. CASE UNCHANGED storevars
    BY <1>10 DEF storevars, StoreInv, StoreTypeOK
  <1> QED BY <1>1, <1>2, <1>3, <1>4, <1>5, <1>6, <1>7, <1>8, <1>9, <1>10
          DEF StoreNext, Command, storevars

LEMMA StoreInvariant == StoreSpec => []StoreInv
  BY InitStore, NextStore, PTL DEF StoreSpec

\* The store, the backends and the batches keep their types.
THEOREM StoreTypeCorrect == StoreSpec => []StoreTypeOK
  <1>1. StoreInv => StoreTypeOK
    BY DEF StoreInv
  <1> QED BY <1>1, StoreInvariant, PTL

\* What is proved of the pool holds of the pool under the store.
THEOREM PoolUnderStore == StoreSpec => Spec
  <1>1. StoreInit => Init
    BY DEF StoreInit
  <1>2. [StoreNext]_<<vars, storevars>> => [Next]_vars
    BY DEF StoreNext
  <1> QED BY <1>1, <1>2, PTL DEF StoreSpec, Spec

\* A purge that returns leaves no key that was there when it was called and ever since.
THEOREM PurgesAreComplete == StoreSpec => []FlushedAreGone
  <1>1. StoreInv => FlushedAreGone
    BY DEF StoreInv, Sound, FlushedAreGone
  <1> QED BY <1>1, StoreInvariant, PTL

\* A purge takes keys of its namespace and of those nested in it only.
THEOREM PurgesStayWithin == StoreSpec => FlushStaysWithin
  <1> DEFINE Asked(s) ==
        \/ Delete(s) \/ Expire(s)
        \/ \E t \in Task :
             Purging(t) /\ s[1] \in {job[t].namespace} \cup Inside[job[t].namespace]
  <1>1. ASSUME StoreInv, [StoreNext]_<<vars, storevars>>, NEW s \in stored \ stored'
        PROVE  Asked(s)
    <2>1. ASSUME NEW t \in Task, Purging(t), NEW r \in SUBSET job[t].page, stored' = stored \ r
          PROVE  Asked(s)
      <3>1. s \in job[t].page
        BY <1>1, <2>1
      <3>2. s \in Matched(job[t].namespace, job[t].pattern)
        BY <1>1, <2>1, <3>1 DEF StoreInv, Sound, Purging
      <3> QED BY <2>1, <3>2 DEF Matched
    <2>2. ASSUME NEW t \in Task, DeleteFound(t) \/ Fail(t) PROVE Asked(s)
      <3>1. CASE DeleteFound(t)
        <4>1. PICK x \in job[t].page : stored' = stored \ {x}
          BY <3>1 DEF DeleteFound, HoldAnd
        <4> QED BY <2>1, <3>1, <4>1 DEF DeleteFound
      <3>2. CASE Fail(t) /\ Purging(t)
        <4>1. PICK r \in {{}} \cup {{x} : x \in job[t].page} : stored' = stored \ r
          BY <3>2 DEF Fail, HoldAnd, Purging
        <4> QED BY <2>1, <3>2, <4>1
      <3>3. CASE Fail(t) /\ ~Purging(t)
        BY <1>1, <3>3 DEF Fail, HoldAnd
      <3> QED BY <2>2, <3>1, <3>2, <3>3
    <2>3. CASE \E x \in Slot : Set(x) \/ Delete(x) \/ Expire(x)
      <3>1. PICK x \in Slot : Set(x) \/ Delete(x) \/ Expire(x)
        BY <2>3
      <3>2. CASE Set(x)
        BY <1>1, <3>2 DEF Set, Hold
      <3>3. CASE Delete(x)
        <4>1. s = x
          BY <1>1, <3>3 DEF Delete, Hold
        <4> QED BY <3>3, <4>1
      <3>4. CASE Expire(x)
        <4>1. s = x
          BY <1>1, <3>4 DEF Expire, Hold
        <4> QED BY <3>4, <4>1
      <3> QED BY <3>1, <3>2, <3>3, <3>4
    <2>4. CASE UNCHANGED stored
      BY <1>1, <2>4
    <2>5. CASE \E t \in Task : Pipelined(t)
      BY <1>1, <2>5 DEF Pipelined, HoldAnd
    <2> QED BY <1>1, <2>2, <2>3, <2>4, <2>5
            DEF StoreNext, Command, GetBackend, SetMany, DeletePattern, Scan, Return, storevars
  <1>2. StoreInv /\ [StoreNext]_<<vars, storevars>> =>
          [\A s \in stored \ stored' : Asked(s)]_storevars
    BY <1>1
  <1> QED BY <1>2, StoreInvariant, PTL DEF StoreSpec, FlushStaysWithin
=============================================================================
