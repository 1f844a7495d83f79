------------------------------ MODULE RedisPool ------------------------------
(***************************************************************************)
(* RedisCache of cache/redis.py: the one connection pool of the process,   *)
(* installed by init and removed by close.                                 *)
(*                                                                         *)
(* A step is what a task does between two awaits, or what the driver does  *)
(* for it meanwhile.  A pool is named after the init call that created it. *)
(***************************************************************************)

CONSTANTS
  Opening,  \* calls of RedisCache.init
  Closing,  \* calls of RedisCache.close
  NoPool

Call == Opening \cup Closing

ASSUME RedisPoolAssumption ==
  /\ Opening \cap Closing = {}
  /\ NoPool \notin Opening

VARIABLES
  installed,  \* RedisCache._instance._pool
  pool,       \* the driver's pools
  pc,
  old,        \* the local "old_pool" of an init and "pool" of a close
  abandoned   \* history: pools of a failed aclose, and pools overwritten

vars == <<installed, pool, pc, old, abandoned>>

TypeOK ==
  /\ installed \in Opening \cup {NoPool}
  /\ pool \in [Opening -> {"none", "unverified", "open", "closed"}]
  /\ pc \in [Call -> {"idle", "ping", "discard", "aclose", "assign", "done", "failed"}]
  /\ old \in [Call -> Opening \cup {NoPool}]
  /\ abandoned \subseteq Opening

Init ==
  /\ installed = NoPool
  /\ pool = [i \in Opening |-> "none"]
  /\ pc = [c \in Call |-> "idle"]
  /\ old = [c \in Call |-> NoPool]
  /\ abandoned = {}

-----------------------------------------------------------------------------
Goto(c, label) == pc' = [pc EXCEPT ![c] = label]

\* Mutant: the new pool is installed before it is pinged.
ConnectInstalled(i) ==
  /\ pc[i] = "idle"
  /\ pool' = [pool EXCEPT ![i] = "unverified"]
  /\ installed' = i
  /\ Goto(i, "ping")
  /\ UNCHANGED <<old, abandoned>>

\* init: from_url, then await ping.
Connect(i) ==
  /\ pc[i] = "idle"
  /\ pool' = [pool EXCEPT ![i] = "unverified"]
  /\ Goto(i, "ping")
  /\ UNCHANGED <<installed, old, abandoned>>

\* Mutant: the old pool is not torn down.
PingedKeepsOld(i) ==
  /\ pc[i] = "ping"
  /\ pool' = [pool EXCEPT ![i] = "open"]
  /\ installed' = i
  /\ Goto(i, "done")
  /\ UNCHANGED <<old, abandoned>>

\* The pool answers.  Without an old pool it is installed at once.
Pinged(i) ==
  /\ pc[i] = "ping"
  /\ pool' = [pool EXCEPT ![i] = "open"]
  /\ IF installed = NoPool
       THEN installed' = i /\ Goto(i, "done") /\ UNCHANGED old
       ELSE /\ old' = [old EXCEPT ![i] = installed]
            /\ Goto(i, "aclose")
            /\ UNCHANGED installed
  /\ UNCHANGED abandoned

PingFails(i) ==
  /\ pc[i] = "ping"
  /\ Goto(i, "discard")
  /\ UNCHANGED <<installed, pool, old, abandoned>>

\* except BaseException: the unverified pool is closed, the error raised.
Discard(i) ==
  /\ pc[i] = "discard"
  /\ pool' = [pool EXCEPT ![i] = "closed"]
  /\ Goto(i, "failed")
  /\ UNCHANGED <<installed, old, abandoned>>

\* The error of that aclose, or a cancellation in it, is raised instead: the pool that
\* was never verified may keep its connections.
DiscardFails(i) ==
  /\ pc[i] = "discard"
  /\ pool' \in {pool, [pool EXCEPT ![i] = "closed"]}
  /\ abandoned' = abandoned \cup {i}
  /\ Goto(i, "failed")
  /\ UNCHANGED <<installed, old>>

\* close: nothing to do without a pool.
Shut(c) ==
  /\ pc[c] = "idle"
  /\ IF installed = NoPool
       THEN Goto(c, "done") /\ UNCHANGED old
       ELSE old' = [old EXCEPT ![c] = installed] /\ Goto(c, "aclose")
  /\ UNCHANGED <<installed, pool, abandoned>>

\* await aclose() of the pool that was installed when the call looked.
Aclose(c) ==
  /\ pc[c] = "aclose"
  /\ pool' = [pool EXCEPT ![old[c]] = "closed"]
  /\ Goto(c, "assign")
  /\ UNCHANGED <<installed, old, abandoned>>

\* The error of aclose, or a cancellation in it, ends the call there: a new pool is
\* not installed, an old one not replaced.
AcloseFails(c) ==
  /\ pc[c] = "aclose"
  /\ pool' \in {pool, [pool EXCEPT ![old[c]] = "closed"]}
  /\ abandoned' = abandoned \cup {old[c]} \cup ({c} \cap Opening)
  /\ Goto(c, "failed")
  /\ UNCHANGED <<installed, old>>

\* _pool = new_pool, or None, over whatever was installed during the await.
Assign(c) ==
  /\ pc[c] = "assign"
  /\ installed' = IF c \in Opening THEN c ELSE NoPool
  /\ abandoned' = abandoned \cup ({installed} \ {old[c], NoPool})
  /\ Goto(c, "done")
  /\ UNCHANGED <<pool, old>>

Next ==
  \/ \E i \in Opening : Connect(i) \/ Pinged(i) \/ PingFails(i) \/ Discard(i) \/ DiscardFails(i)
  \/ \E c \in Closing : Shut(c)
  \/ \E c \in Call : Aclose(c) \/ AcloseFails(c) \/ Assign(c)

Spec == Init /\ [][Next]_vars

-----------------------------------------------------------------------------
\* get_pool serves a pool that answered a ping and is open, however calls overlap,
\* but for the time a call that tears that very pool down is at it, or for good once
\* that call failed.
ServedPoolIsOpen ==
  installed # NoPool =>
    \/ pool[installed] = "open"
    \/ /\ pool[installed] = "closed"
       /\ \/ \E c \in Call : pc[c] = "assign" /\ old[c] = installed
          \/ installed \in abandoned

\* The manager is a singleton: a pool that was created and not closed is installed or
\* in the hands of the init that created it - unless it was lost, which takes an aclose
\* that raised, or another call that installed its pool during the await of one.
NoForgottenPool ==
  \A i \in Opening :
    pool[i] \in {"unverified", "open"} =>
      \/ i = installed
      \/ pc[i] \in {"ping", "discard", "aclose", "assign"}
      \/ i \in abandoned
=============================================================================
