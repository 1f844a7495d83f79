------------------------------ MODULE CachedCall ------------------------------
(***************************************************************************)
(* The @cached / @cached_method wrapper of cache/decorators.py, the same   *)
(* protocol in CachedQuerySet._execute of cache/queryset.py, the           *)
(* SingleFlight of cache/base.py both claim their keys with, and the       *)
(* @invalidate wrapper, all running as asyncio tasks over one Redis.       *)
(*                                                                         *)
(* A step is what happens between two awaits of a task, or what the Redis  *)
(* server or the database does for it while it is suspended.               *)
(***************************************************************************)
EXTENDS Naturals

CONSTANTS
  Call,         \* invocations of a decorated coroutine, or awaits of a cached query
  Update,       \* invocations of a coroutine decorated with @invalidate
  Func,         \* decorated functions, each with one tuple of arguments, and queries
  Query,        \* those of Func that are cached querysets
  Namespace,
  Key,
  FuncOf,       \* [Call -> Func]: the function a call invokes
  TargetOf,     \* [Update -> Func]: the function whose data an update changes
  NamespaceOf,  \* [Func -> Namespace]: the namespace argument of @cached
  KeyOf,        \* [Func -> Key]: what _build_cache_key returns, or a custom key
  Inner,        \* the call the body of a call's function awaits, or NoCall
  Ttl,          \* the ttl argument of @cached, 0 = no expiry
  Cancellable,  \* calls and updates whose task may be cancelled (wait_for, a client gone)
  RedisFails,   \* whether an operation on Redis may raise a CacheError
  NoCall,
  None          \* Python's None: no result, or no entry

ASSUME CachedCallAssumption ==
  /\ Query \subseteq Func
  /\ FuncOf \in [Call -> Func]
  /\ TargetOf \in [Update -> Func]
  /\ NamespaceOf \in [Func -> Namespace]
  /\ KeyOf \in [Func -> Key]
  /\ NoCall \notin Call
  /\ Inner \in [Call -> Call \cup {NoCall}]
  /\ \A c \in Call : FuncOf[c] \in Query => Inner[c] = NoCall
  /\ Ttl \in Nat
  /\ Cancellable \subseteq Call \cup Update
  /\ RedisFails \in BOOLEAN

\* Two functions never share both the namespace and the key.
ASSUME SlotsAreSeparate ==
  \A f, g \in Func : NamespaceOf[f] = NamespaceOf[g] /\ KeyOf[f] = KeyOf[g] => f = g

VARIABLES
  pc,          \* where each call is
  result,      \* the local "result" of an executing call
  awaits,      \* the call whose future a waiting call awaits
  outcome,     \* what a finished call returned or raised
  flight,      \* SingleFlight._futures, one per source module: the call that
               \* created the key's future
  future,      \* the state of the future each call created
  store,       \* Redis: one entry per namespaced key
  version,     \* the database: a version of the data each function reads
  upc,         \* where each update is
  missed       \* history: functions whose data an update changed without an effective
               \* delete of their entry, and that saw none since

vars == <<pc, result, awaits, outcome, flight, future, store, version, upc, missed>>

Executing == {"run", "store", "settle"}

\* Each of the two modules has a _single_flight of its own.
Flights == {"decorators", "queryset"} \X Key

\* Model instances, their serialized records, or the plain value of a function.
Forms == {"plain", "instances", "records"}
Values == [of : Func, ver : Nat, form : Forms]
Settled == [kind : {"value"}, val : Values \cup {None}]
             \cup [kind : {"error", "cancelled"}, val : {None}]

Returned(v) == [kind |-> "value", val |-> v]
Raised(kind) == [kind |-> kind, val |-> None]
Unsettled(kind) == [kind |-> kind, val |-> None]

\* Mutant: the namespace is left out of the stored key.
SlotWithoutNamespace(f) == <<CHOOSE n \in Namespace : TRUE, KeyOf[f]>>

FlightOf(c) ==
  <<IF FuncOf[c] \in Query THEN "queryset" ELSE "decorators", KeyOf[FuncOf[c]]>>
SlotOf(f) == <<NamespaceOf[f], KeyOf[f]>>
Slot(c) == SlotOf(FuncOf[c])

TypeOK ==
  /\ pc \in [Call -> {"idle", "get", "miss", "wait", "done"} \cup Executing]
  /\ result \in [Call -> Values \cup {None}]
  /\ awaits \in [Call -> Call \cup {NoCall}]
  /\ outcome \in [Call -> Settled \cup {Unsettled("none")}]
  /\ flight \in [Flights -> Call \cup {NoCall}]
  /\ future \in [Call -> Settled \cup {Unsettled("none"), Unsettled("pending")}]
  /\ store \in [Namespace \X Key -> [val : Values, expires : BOOLEAN] \cup {None}]
  /\ version \in [Func -> Nat]
  /\ upc \in [Update -> {"idle", "delete", "done"}]
  /\ missed \subseteq Func

Init ==
  /\ pc = [c \in Call |-> "idle"]
  /\ result = [c \in Call |-> None]
  /\ awaits = [c \in Call |-> NoCall]
  /\ outcome = [c \in Call |-> Unsettled("none")]
  /\ flight = [k \in Flights |-> NoCall]
  /\ future = [c \in Call |-> Unsettled("none")]
  /\ store = [s \in Namespace \X Key |-> None]
  /\ version = [f \in Func |-> 0]
  /\ upc = [u \in Update |-> "idle"]
  /\ missed = {}

-----------------------------------------------------------------------------
(* A call of the decorated function.                                         *)

Goto(c, label) == pc' = [pc EXCEPT ![c] = label]

\* The call ends without having touched the flight of its key.
End(c, o) ==
  /\ Goto(c, "done")
  /\ outcome' = [outcome EXCEPT ![c] = o]

\* SingleFlight.release: only the flight of this very future is dropped.
Release(c) ==
  flight' = IF flight[FlightOf(c)] = c
              THEN [flight EXCEPT ![FlightOf(c)] = NoCall] ELSE flight

\* The tail of the try statement: settle the future with s unless it is done,
\* release the key, return or raise o.  Nothing in it awaits.
FinishWith(c, o, s) ==
  /\ End(c, o)
  /\ future' = IF future[c] = Unsettled("pending")
                 THEN [future EXCEPT ![c] = s] ELSE future
  /\ Release(c)

Finish(c, o) == FinishWith(c, o, o)

\* What the function computes from the data as they are.
Computed(c) ==
  [of |-> FuncOf[c], ver |-> version[FuncOf[c]],
   form |-> IF FuncOf[c] \in Query THEN "instances" ELSE "plain"]

\* CachedQuerySet._serialize_results and _deserialize_results; a plain value is JSON.
Serialized(v) == IF v.form = "instances" THEN [v EXCEPT !.form = "records"] ELSE v
Deserialized(v) == IF v.form = "records" THEN [v EXCEPT !.form = "instances"] ELSE v

\* The body of an outer function has reached its await of the inner call.
Reachable(c) == \A outer \in Call : Inner[outer] = c => pc[outer] = "run"

Begin(c) ==
  /\ pc[c] = "idle"
  /\ Reachable(c)
  /\ Goto(c, "get")
  /\ UNCHANGED <<result, awaits, outcome, flight, future, store, version, upc, missed>>

\* backend.get: a hit is returned, a miss goes on once the task is resumed.
Lookup(c) ==
  /\ pc[c] = "get"
  /\ IF store[Slot(c)] = None
       THEN Goto(c, "miss") /\ UNCHANGED outcome
       ELSE End(c, Returned(Deserialized(store[Slot(c)].val)))
  /\ UNCHANGED <<result, awaits, flight, future, store, version, upc, missed>>

\* A CacheError of the read is logged and counts as a miss.
LookupFails(c) ==
  /\ RedisFails
  /\ pc[c] = "get"
  /\ Goto(c, "miss")
  /\ UNCHANGED <<result, awaits, outcome, flight, future, store, version, upc, missed>>

\* SingleFlight.claim: the first caller owns the key, the others share its future.
Claim(c) ==
  /\ pc[c] = "miss"
  /\ IF flight[FlightOf(c)] = NoCall
       THEN /\ flight' = [flight EXCEPT ![FlightOf(c)] = c]
            /\ future' = [future EXCEPT ![c] = Unsettled("pending")]
            /\ Goto(c, "run")
            /\ UNCHANGED awaits
       ELSE /\ awaits' = [awaits EXCEPT ![c] = flight[FlightOf(c)]]
            /\ Goto(c, "wait")
            /\ UNCHANGED <<flight, future>>
  /\ UNCHANGED <<result, outcome, store, version, upc, missed>>

InnerReturned(c) == Inner[c] # NoCall => outcome[Inner[c]].kind = "value"

\* Mutant: the key is released when the function returns, before the store.
ExecuteThenRelease(c) ==
  /\ pc[c] = "run"
  /\ InnerReturned(c)
  /\ result' = [result EXCEPT ![c] = Computed(c)]
  /\ Goto(c, "store")
  /\ Release(c)
  /\ UNCHANGED <<awaits, outcome, future, store, version, upc, missed>>

\* The function reads its data and returns; backend.set is sent.
Execute(c) ==
  /\ pc[c] = "run"
  /\ InnerReturned(c)
  /\ result' = [result EXCEPT ![c] = Computed(c)]
  /\ Goto(c, "store")
  /\ UNCHANGED <<awaits, outcome, flight, future, store, version, upc, missed>>

\* A None result is not stored; a query returns a list.
ExecuteNone(c) ==
  /\ pc[c] = "run"
  /\ FuncOf[c] \notin Query
  /\ InnerReturned(c)
  /\ Finish(c, Returned(None))
  /\ UNCHANGED <<result, awaits, store, version, upc, missed>>

\* Mutant: no except clause; the error is raised and the future stays as it is.
ExecuteFailsSilently(c) ==
  /\ pc[c] = "run"
  /\ InnerReturned(c)
  /\ End(c, Raised("error"))
  /\ Release(c)
  /\ UNCHANGED <<result, awaits, future, store, version, upc, missed>>

\* The function raises, of its own or because the call it awaits did.
ExecuteFails(c) ==
  /\ pc[c] = "run"
  /\ \/ InnerReturned(c) /\ Finish(c, Raised("error"))
     \/ /\ Inner[c] # NoCall
        /\ outcome[Inner[c]].kind \in {"error", "cancelled"}
        /\ Finish(c, Raised(outcome[Inner[c]].kind))
  /\ UNCHANGED <<result, awaits, store, version, upc, missed>>

\* Mutant: the test on the ttl is inverted.
WrittenForEver(c) ==
  [store EXCEPT ![Slot(c)] = [val |-> Serialized(result[c]), expires |-> Ttl = 0]]

\* RedisCacheBackend.set: an expiry is attached only for a positive ttl.
Written(c) ==
  [store EXCEPT ![Slot(c)] = [val |-> Serialized(result[c]), expires |-> Ttl > 0]]

Store(c) ==
  /\ pc[c] = "store"
  /\ store' = Written(c)
  /\ Goto(c, "settle")
  /\ UNCHANGED <<result, awaits, outcome, flight, future, version, upc, missed>>

\* A CacheError of the write is suppressed; a timeout may hide a write that was made.
StoreFails(c) ==
  /\ RedisFails
  /\ pc[c] = "store"
  /\ store' \in {store, Written(c)}
  /\ Goto(c, "settle")
  /\ UNCHANGED <<result, awaits, outcome, flight, future, version, upc, missed>>

Settle(c) ==
  /\ pc[c] = "settle"
  /\ FuncOf[c] \notin Query
  /\ Finish(c, Returned(result[c]))
  /\ UNCHANGED <<result, awaits, store, version, upc, missed>>

\* A query returns its instances and shares the records it serialized them to.
SettleQuery(c) ==
  /\ pc[c] = "settle"
  /\ FuncOf[c] \in Query
  /\ FinishWith(c, Returned(result[c]), Returned(Serialized(result[c])))
  /\ UNCHANGED <<result, awaits, store, version, upc, missed>>

\* Mutant: a waiter reads the entry its execution should have stored.
WakeFromCache(c) ==
  /\ pc[c] = "wait"
  /\ future[awaits[c]] # Unsettled("pending")
  /\ End(c, Returned(IF store[Slot(c)] = None THEN None ELSE store[Slot(c)].val))
  /\ UNCHANGED <<result, awaits, flight, future, store, version, upc, missed>>

\* await future: returns or raises what the future holds - as it is, by a cast, also
\* when it holds the records of a query.
Wake(c) ==
  /\ pc[c] = "wait"
  /\ future[awaits[c]] # Unsettled("pending")
  /\ End(c, future[awaits[c]])
  /\ UNCHANGED <<result, awaits, flight, future, store, version, upc, missed>>

-----------------------------------------------------------------------------
(* Cancellation of a task: CancelledError is raised at its innermost await.  *)

Innermost(c) == Inner[c] # NoCall => pc[Inner[c]] \in {"idle", "done"}

CancelLookup(c) ==
  /\ c \in Cancellable
  /\ pc[c] \in {"get", "miss"}
  /\ End(c, Raised("cancelled"))
  /\ UNCHANGED <<result, awaits, flight, future, store, version, upc, missed>>

\* except BaseException: the error goes to the future; a write under way may be made.
CancelExecution(c) ==
  /\ c \in Cancellable
  /\ pc[c] \in Executing
  /\ Innermost(c)
  /\ Finish(c, Raised("cancelled"))
  /\ IF pc[c] = "store" THEN store' \in {store, Written(c)} ELSE UNCHANGED store
  /\ UNCHANGED <<result, awaits, version, upc, missed>>

\* Cancelling a task that awaits a bare future cancels the future itself.
CancelWait(c) ==
  /\ c \in Cancellable
  /\ pc[c] = "wait"
  /\ End(c, Raised("cancelled"))
  /\ future' = IF future[awaits[c]] = Unsettled("pending")
                 THEN [future EXCEPT ![awaits[c]] = Raised("cancelled")] ELSE future
  /\ UNCHANGED <<result, awaits, flight, store, version, upc, missed>>

-----------------------------------------------------------------------------
(* An @invalidate wrapper, and the expiry of entries in Redis.               *)

\* The function runs first.
Write(u) ==
  /\ upc[u] = "idle"
  /\ version' = [version EXCEPT ![TargetOf[u]] = @ + 1]
  /\ upc' = [upc EXCEPT ![u] = "delete"]
  /\ UNCHANGED <<pc, result, awaits, outcome, flight, future, store, missed>>

\* The function raises, or is cancelled, after it has changed the data: the wrapper
\* lets the exception through, and no delete is sent.
WriteFails(u) ==
  /\ upc[u] = "idle"
  /\ version' = [version EXCEPT ![TargetOf[u]] = @ + 1]
  /\ upc' = [upc EXCEPT ![u] = "done"]
  /\ missed' = missed \cup {TargetOf[u]}
  /\ UNCHANGED <<pc, result, awaits, outcome, flight, future, store>>

\* RedisCacheBackend.delete.
Deleted(f) == [store EXCEPT ![SlotOf(f)] = None]

\* Executions that read f before its last change and have yet to store it.
Straddling(f) ==
  {c \in Call : FuncOf[c] = f /\ pc[c] = "store" /\ result[c].ver < version[f]}

\* A delete is effective when no execution is left that will store older data.
Effective(f) == Straddling(f) = {}

\* Mutant: the entry of another namespace is deleted (the default one).
InvalidateElsewhere(u) ==
  /\ upc[u] = "delete"
  /\ upc' = [upc EXCEPT ![u] = "done"]
  /\ UNCHANGED <<pc, result, awaits, outcome, flight, future, store, version, missed>>

\* Then the entry is deleted.
Invalidate(u) ==
  /\ upc[u] = "delete"
  /\ store' = Deleted(TargetOf[u])
  /\ upc' = [upc EXCEPT ![u] = "done"]
  /\ missed' = IF Effective(TargetOf[u])
                 THEN missed \ {TargetOf[u]} ELSE missed \cup {TargetOf[u]}
  /\ UNCHANGED <<pc, result, awaits, outcome, flight, future, version>>

\* A CacheError of the delete is logged and the update still succeeds; key_func may
\* raise, or the task be cancelled, before Redis has made the delete or after.
InvalidateFails(u) ==
  /\ RedisFails \/ u \in Cancellable
  /\ upc[u] = "delete"
  /\ store' \in {store, Deleted(TargetOf[u])}
  /\ upc' = [upc EXCEPT ![u] = "done"]
  /\ missed' = missed \cup {TargetOf[u]}
  /\ UNCHANGED <<pc, result, awaits, outcome, flight, future, version>>

Purge(f) ==
  /\ store' = Deleted(f)
  /\ missed' = IF Effective(f) THEN missed \ {f} ELSE missed
  /\ UNCHANGED <<pc, result, awaits, outcome, flight, future, version, upc>>

\* wrapper.invalidate of a decorated function, by anyone and at any time.
InvalidateCall(f) == f \notin Query /\ Purge(f)

\* CachedQuerySet.invalidate_cache, likewise.
InvalidateQuery(f) == f \in Query /\ Purge(f)

Expire(s) ==
  /\ store[s] # None
  /\ store[s].expires
  /\ store' = [store EXCEPT ![s] = None]
  /\ UNCHANGED <<pc, result, awaits, outcome, flight, future, version, upc, missed>>

-----------------------------------------------------------------------------
CallStep(c) ==
  \/ Begin(c) \/ Lookup(c) \/ LookupFails(c) \/ Claim(c)
  \/ Execute(c) \/ ExecuteNone(c) \/ ExecuteFails(c)
  \/ Store(c) \/ StoreFails(c) \/ Settle(c) \/ SettleQuery(c) \/ Wake(c)

Cancel(c) == CancelLookup(c) \/ CancelExecution(c) \/ CancelWait(c)

UpdateStep(u) == Write(u) \/ WriteFails(u) \/ Invalidate(u) \/ InvalidateFails(u)

Next ==
  \/ \E c \in Call : CallStep(c) \/ Cancel(c)
  \/ \E u \in Update : UpdateStep(u)
  \/ \E f \in Func : InvalidateCall(f) \/ InvalidateQuery(f)
  \/ \E s \in Namespace \X Key : Expire(s)

Spec == Init /\ [][Next]_vars

\* A started task is resumed whenever what it awaits is there; Redis and the
\* database answer or fail; an entry with a ttl expires.  Nobody has to start a
\* call or an update, and nobody has to cancel one.
Fairness ==
  /\ \A c \in Call : WF_vars(pc[c] # "idle" /\ CallStep(c))
  /\ \A c \in Call : Inner[c] # NoCall => WF_vars(Begin(Inner[c]))
  /\ \A u \in Update : WF_vars(Invalidate(u) \/ InvalidateFails(u))
  /\ \A s \in Namespace \X Key : WF_vars(Expire(s))

FairSpec == Spec /\ Fairness
-----------------------------------------------------------------------------
(* What the wrapper is for.                                                  *)

\* Stampede control: at any moment at most one call executes behind a key,
\* whatever is cancelled, fails or is released around it (claim and release).
AtMostOneExecution ==
  \A c, d \in Call :
    pc[c] \in Executing /\ pc[d] \in Executing /\ FlightOf(c) = FlightOf(d) => c = d

\* A call that awaits an unsettled future awaits one that an executing call will
\* still settle: no failure path returns and leaves its awaiters on it.
NoStrandedWaiter ==
  \A c \in Call :
    pc[c] = "wait" /\ future[awaits[c]] = Unsettled("pending")
      => pc[awaits[c]] \in Executing

\* A key is claimed exactly while a call executes behind it: no exit of the
\* wrapper leaves the key claimed, so that every later call would join a dead flight.
ClaimedWhileExecuting ==
  \A k \in Flights :
    flight[k] # NoCall => FlightOf(flight[k]) = k /\ pc[flight[k]] \in Executing

\* An entry older than its data is there only until the delete of a pending update, or
\* until the next effective one if an update missed it: it raised or was cancelled after
\* it had changed the data, its delete failed or was cut off, or the delete found an
\* execution between its read and its store.  There is no other way to a stale entry,
\* and one delete with no such execution about repairs whatever was missed before.
StaleOnlyIfMissed ==
  \A f \in Func \ missed :
    store[SlotOf(f)] # None /\ store[SlotOf(f)].val.ver < version[f]
      => \E u \in Update : TargetOf[u] = f /\ upc[u] = "delete"

\* An entry belongs to the function whose namespace and key it is stored under,
\* also when functions of several namespaces share their key and their flight.
EntriesAreOwn ==
  \A f \in Func : store[SlotOf(f)] # None => store[SlotOf(f)].val.of = f

\* The calls of a function that joined a flight of it get what its execution got,
\* serialized when it is a query - or are cancelled along with a waiter of that flight,
\* whose cancellation cancels the future they share.
WaitersShareTheExecution ==
  \A c \in Call :
    LET e == awaits[c]
        got == \/ outcome[c] = outcome[e]
               \/ /\ FuncOf[c] \in Query
                  /\ outcome[c].val = Serialized(outcome[e].val)
        cut == \E d \in Call \cap Cancellable :
                 awaits[d] = e /\ outcome[d].kind = "cancelled"
    IN  pc[c] = "done" /\ e # NoCall /\ FuncOf[e] = FuncOf[c] /\ outcome[e].kind = "value"
          => \/ outcome[c].kind = "value" /\ got
             \/ outcome[c].kind = "cancelled" /\ cut

\* Namespaces are separate cache regions: a call returns a value of its own function,
\* also while the same key is being computed in another namespace.
NamespacesAreSeparate ==
  \A c \in Call :
    outcome[c].kind = "value" /\ outcome[c].val # None => outcome[c].val.of = FuncOf[c]

\* A cached query is a QuerySet: awaited, it returns model instances.
QueriesReturnInstances ==
  \A c \in Call :
    FuncOf[c] \in Query /\ outcome[c].kind = "value" => outcome[c].val.form = "instances"

\* Every call that is made ends: it returns or raises, and awaits nothing for ever.
EveryCallEnds == \A c \in Call : pc[c] = "get" ~> pc[c] = "done"

\* With a positive ttl staleness is bounded: whatever raced or failed, from some
\* point on no entry is older than its data.
EventuallyFresh ==
  <>[](\A f \in Func :
         store[SlotOf(f)] = None \/ store[SlotOf(f)].val.ver = version[f])
=============================================================================
