-------------------------- MODULE CachedCallProofs --------------------------
(* Proofs about CachedCall, for every set of calls, updates, functions,      *)
(* namespaces and keys, with failures and cancellations.                     *)
EXTENDS CachedCall, TLAPS

\* An executing call owns the flight of its key and created its future.
Owners ==
  \A c \in Call : pc[c] \in Executing =>
    flight[FlightOf(c)] = c /\ future[c] # Unsettled("none")

\* Only an executing call still has a future to settle.
Pending ==
  \A c \in Call : future[c] = Unsettled("pending") => pc[c] \in Executing

\* What a waiting call awaits is a future that was created.
Waiters ==
  \A c \in Call : pc[c] = "wait" =>
    awaits[c] \in Call /\ future[awaits[c]] # Unsettled("none")

\* A call about to store, or about to settle after it, has a result.
Results == \A c \in Call : pc[c] \in {"store", "settle"} => result[c] \in Values

FlightInv ==
  TypeOK /\ Owners /\ ClaimedWhileExecuting /\ Pending /\ Waiters /\ Results

\* What a future is settled with is never one of its two unsettled states.
LEMMA SettledIsFinal ==
  /\ Unsettled("none") \notin Settled
  /\ Unsettled("pending") \notin Settled
  /\ Unsettled("none") # Unsettled("pending")
  /\ \A v \in Values \cup {None} : Returned(v) \in Settled
  /\ \A kind \in {"error", "cancelled"} : Raised(kind) \in Settled
  BY DEF Unsettled, Settled, Returned, Raised

LEMMA InitFlight == Init => FlightInv
  BY CachedCallAssumption
  DEF Init, FlightInv, TypeOK, Owners, ClaimedWhileExecuting, Pending, Waiters, Results,
      Executing, Unsettled

LEMMA FlightType == \A c \in Call : FlightOf(c) \in Flights
  BY CachedCallAssumption DEF FlightOf, Flights

\* What is computed, stored and read back are values.
LEMMA ConversionTypes ==
  /\ \A v \in Values : Serialized(v) \in Values /\ Deserialized(v) \in Values
  /\ \A v \in Values : Serialized(v).ver = v.ver /\ Serialized(v).of = v.of
  BY DEF Values, Forms, Serialized, Deserialized

\* The tail of the wrapper keeps every part of the invariant it touches.
LEMMA FinishKeepsFlight ==
  ASSUME FlightInv, NEW c \in Call, pc[c] \in Executing, NEW o \in Settled,
         NEW s \in Settled, FinishWith(c, o, s), UNCHANGED <<result, awaits>>
  PROVE  /\ Owners' /\ ClaimedWhileExecuting' /\ Pending' /\ Waiters' /\ Results'
         /\ pc' \in [Call -> {"idle", "get", "miss", "wait", "done"} \cup Executing]
         /\ outcome' \in [Call -> Settled \cup {Unsettled("none")}]
         /\ flight' \in [Flights -> Call \cup {NoCall}]
         /\ future' \in [Call -> Settled \cup {Unsettled("none"), Unsettled("pending")}]
  <1> USE SettledIsFinal, FlightType, CachedCallAssumption DEF FlightInv
  <1>1. /\ pc' = [pc EXCEPT ![c] = "done"]
        /\ outcome' = [outcome EXCEPT ![c] = o]
        /\ flight' = [flight EXCEPT ![FlightOf(c)] = NoCall]
        /\ future' = IF future[c] = Unsettled("pending") THEN [future EXCEPT ![c] = s] ELSE future
    BY DEF FinishWith, End, Goto, Release, Owners
  <1>2. \A d \in Call : d # c => pc'[d] = pc[d] /\ future'[d] = future[d]
    BY <1>1 DEF TypeOK
  <1>3. pc'[c] = "done" /\ future'[c] \notin {Unsettled("none"), Unsettled("pending")}
    BY <1>1 DEF TypeOK, Owners
  <1>4. Owners'
    <2> SUFFICES ASSUME NEW d \in Call, pc'[d] \in Executing
                 PROVE  flight'[FlightOf(d)] = d /\ future'[d] # Unsettled("none")
      BY DEF Owners, FlightOf
    <2>1. d # c
      BY <1>3 DEF Executing
    <2>2. flight[FlightOf(d)] = d /\ future[d] # Unsettled("none") /\ flight[FlightOf(c)] = c
      BY <1>2, <2>1 DEF Owners
    <2> QED BY <1>1, <1>2, <2>1, <2>2 DEF TypeOK
  <1>5. ClaimedWhileExecuting'
    <2> SUFFICES ASSUME NEW k \in Flights, flight'[k] # NoCall
                 PROVE  FlightOf(flight'[k]) = k /\ pc'[flight'[k]] \in Executing
      BY DEF ClaimedWhileExecuting, FlightOf
    <2>1. k # FlightOf(c) /\ flight'[k] = flight[k]
      BY <1>1 DEF TypeOK
    <2>2. FlightOf(flight[k]) = k /\ pc[flight[k]] \in Executing /\ flight[k] \in Call
      BY <2>1 DEF ClaimedWhileExecuting, TypeOK
    <2> QED BY <1>2, <2>1, <2>2
  <1>6. Pending'
    BY <1>2, <1>3 DEF Pending
  <1>7. Waiters'
    <2> SUFFICES ASSUME NEW d \in Call, pc'[d] = "wait"
                 PROVE  awaits[d] \in Call /\ future'[awaits[d]] # Unsettled("none")
      BY DEF Waiters
    <2> QED BY <1>2, <1>3 DEF Waiters
  <1>8. Results'
    BY <1>2, <1>3 DEF Results
  <1>9. /\ pc' \in [Call -> {"idle", "get", "miss", "wait", "done"} \cup Executing]
        /\ outcome' \in [Call -> Settled \cup {Unsettled("none")}]
        /\ flight' \in [Flights -> Call \cup {NoCall}]
        /\ future' \in [Call -> Settled \cup {Unsettled("none"), Unsettled("pending")}]
    BY <1>1 DEF TypeOK
  <1> QED BY <1>4, <1>5, <1>6, <1>7, <1>8, <1>9

\* A step that leaves flights and futures alone and moves one call between two
\* labels on the same side of an execution keeps the invariant's flight part.
LEMMA MoveKeepsFlight ==
  ASSUME FlightInv, NEW c \in Call, NEW to \in {"idle", "get", "miss", "wait", "done"} \cup Executing,
         Goto(c, to),
         UNCHANGED <<awaits, flight, future>>,
         pc[c] \in Executing <=> to \in Executing,
         to = "wait" => awaits[c] \in Call /\ future[awaits[c]] # Unsettled("none"),
         to \in {"store", "settle"} => result'[c] \in Values,
         \A d \in Call : d # c => result'[d] = result[d]
  PROVE  /\ Owners' /\ ClaimedWhileExecuting' /\ Pending' /\ Waiters' /\ Results'
         /\ pc' \in [Call -> {"idle", "get", "miss", "wait", "done"} \cup Executing]
  <1> USE FlightType, CachedCallAssumption DEF FlightInv
  <1>1. pc' = [pc EXCEPT ![c] = to] /\ pc'[c] = to /\ \A d \in Call : d # c => pc'[d] = pc[d]
    BY DEF Goto, TypeOK
  <1>2. Owners'
    BY <1>1 DEF Owners, FlightOf
  <1>3. ClaimedWhileExecuting'
    BY <1>1 DEF ClaimedWhileExecuting, FlightOf, TypeOK
  <1>4. Pending'
    BY <1>1 DEF Pending
  <1>5. Waiters'
    BY <1>1 DEF Waiters
  <1>6. Results'
    BY <1>1 DEF Results
  <1> QED BY <1>1, <1>2, <1>3, <1>4, <1>5, <1>6 DEF TypeOK

LEMMA NextKeepsFlight == FlightInv /\ [Next]_vars => FlightInv'
  <1> SUFFICES ASSUME FlightInv, [Next]_vars PROVE FlightInv'
    OBVIOUS
  <1> USE CachedCallAssumption, SettledIsFinal DEF FlightInv
  <1>1. ASSUME NEW c \in Call, Begin(c) PROVE FlightInv'
    <2>1. Goto(c, "get") /\ pc[c] = "idle" /\ UNCHANGED <<result, awaits, flight, future>>
      BY <1>1 DEF Begin
    <2> QED BY <1>1, <2>1, MoveKeepsFlight DEF Begin, Executing, TypeOK
  <1>2. ASSUME NEW c \in Call, Lookup(c) PROVE FlightInv'
    <2>1. CASE store[Slot(c)] = None
      BY <1>2, <2>1, MoveKeepsFlight DEF Lookup, Goto, Executing, TypeOK
    <2>2. CASE store[Slot(c)] # None
      <3>1. Slot(c) \in Namespace \X Key
        BY DEF Slot, SlotOf
      <3>2. Deserialized(store[Slot(c)].val) \in Values
        BY <2>2, <3>1, ConversionTypes DEF TypeOK
      <3> QED BY <1>2, <2>2, <3>2, MoveKeepsFlight DEF Lookup, End, Goto, Executing, TypeOK
    <2> QED BY <2>1, <2>2
  <1>3. ASSUME NEW c \in Call, LookupFails(c) PROVE FlightInv'
    <2>1. Goto(c, "miss") /\ pc[c] = "get" /\ UNCHANGED <<result, awaits, flight, future>>
      BY <1>3 DEF LookupFails
    <2> QED BY <1>3, <2>1, MoveKeepsFlight DEF LookupFails, Executing, TypeOK
  <1>4. ASSUME NEW c \in Call, Claim(c) PROVE FlightInv'
    <2> DEFINE k == FlightOf(c)
    <2>1. CASE flight[k] = NoCall
      <3>1. /\ flight' = [flight EXCEPT ![k] = c]
            /\ future' = [future EXCEPT ![c] = Unsettled("pending")]
            /\ pc' = [pc EXCEPT ![c] = "run"]
            /\ UNCHANGED <<awaits, result, outcome, store, version, upc, missed>>
        BY <1>4, <2>1 DEF Claim, Goto
      <3>2. TypeOK'
        BY <3>1 DEF TypeOK, Executing
      <3>3. Owners'
        BY <3>1, <2>1, FlightType DEF Owners, FlightOf, TypeOK, Executing
      <3>4. ClaimedWhileExecuting'
        BY <3>1, <2>1, FlightType DEF ClaimedWhileExecuting, FlightOf, TypeOK, Executing
      <3>5. Pending' /\ Waiters' /\ Results'
        BY <3>1 DEF Pending, Waiters, Results, TypeOK, Executing
      <3> QED BY <3>2, <3>3, <3>4, <3>5
    <2>2. CASE flight[k] # NoCall
      <3>1. awaits' = [awaits EXCEPT ![c] = flight[k]]
        BY <1>4, <2>2 DEF Claim
      <3>2. flight[k] \in Call /\ future[flight[k]] # Unsettled("none")
        BY <2>2, FlightType DEF TypeOK, ClaimedWhileExecuting, Owners
      <3>3. /\ pc[c] = "miss" /\ pc' = [pc EXCEPT ![c] = "wait"]
            /\ UNCHANGED <<flight, future, result, outcome, store, version, upc, missed>>
        BY <1>4, <2>2 DEF Claim, Goto
      <3>4. TypeOK'
        BY <3>1, <3>2, <3>3 DEF TypeOK
      <3>5. Owners' /\ ClaimedWhileExecuting' /\ Pending' /\ Results'
        BY <3>3 DEF Owners, ClaimedWhileExecuting, Pending, Results, Executing, TypeOK, FlightOf
      <3>6. Waiters'
        BY <3>1, <3>2, <3>3 DEF Waiters, TypeOK
      <3> QED BY <3>4, <3>5, <3>6
    <2> QED BY <2>1, <2>2
  <1>5. ASSUME NEW c \in Call, Execute(c) PROVE FlightInv'
    <2> DEFINE v == Computed(c)
    <2>1. v \in Values
      BY DEF TypeOK, Values, Forms, Computed
    <2>2. result' = [result EXCEPT ![c] = v]
      BY <1>5 DEF Execute
    <2> HIDE DEF v
    <2>3. Goto(c, "store") /\ pc[c] = "run" /\ UNCHANGED <<awaits, flight, future>>
      BY <1>5 DEF Execute
    <2>4. result'[c] \in Values /\ \A d \in Call : d # c => result'[d] = result[d]
      BY <2>1, <2>2 DEF TypeOK
    <2>5. Owners' /\ ClaimedWhileExecuting' /\ Pending' /\ Waiters' /\ Results'
      BY <2>3, <2>4, MoveKeepsFlight DEF Executing
    <2> QED BY <1>5, <2>1, <2>2, <2>5 DEF Execute, Goto, Executing, TypeOK
  <1>6. ASSUME NEW c \in Call, ExecuteNone(c) PROVE FlightInv'
    BY <1>6, FinishKeepsFlight DEF ExecuteNone, Finish, Executing, TypeOK
  <1>7. ASSUME NEW c \in Call, ExecuteFails(c) PROVE FlightInv'
    <2>1. PICK kind \in {"error", "cancelled"} : Finish(c, Raised(kind))
      BY <1>7 DEF ExecuteFails
    <2> QED BY <1>7, <2>1, FinishKeepsFlight DEF ExecuteFails, Finish, Executing, TypeOK
  <1>8. ASSUME NEW c \in Call, Store(c) \/ StoreFails(c) PROVE FlightInv'
    <2>1. result[c] \in Values
      BY <1>8 DEF Store, StoreFails, Results
    <2>2. Written(c) \in [Namespace \X Key -> [val : Values, expires : BOOLEAN] \cup {None}]
      BY <2>1, ConversionTypes DEF Written, Slot, SlotOf, TypeOK
    <2>3. store' \in {store, Written(c)}
      BY <1>8 DEF Store, StoreFails
    <2> QED BY <1>8, <2>1, <2>2, <2>3, MoveKeepsFlight DEF Store, StoreFails, Goto, Executing, TypeOK
  <1>9. ASSUME NEW c \in Call, Settle(c) PROVE FlightInv'
    BY <1>9, FinishKeepsFlight DEF Settle, Finish, Executing, TypeOK
  <1>17. ASSUME NEW c \in Call, SettleQuery(c) PROVE FlightInv'
    <2>1. result[c] \in Values /\ Serialized(result[c]) \in Values
      BY <1>17, ConversionTypes DEF SettleQuery, Results
    <2>2. Returned(result[c]) \in Settled /\ Returned(Serialized(result[c])) \in Settled
      BY <2>1
    <2> QED BY <1>17, <2>2, FinishKeepsFlight DEF SettleQuery, Executing, TypeOK
  <1>10. ASSUME NEW c \in Call, Wake(c) PROVE FlightInv'
    <2>1. future[awaits[c]] \in Settled
      BY <1>10 DEF Wake, Waiters, TypeOK
    <2>2. Goto(c, "done") /\ pc[c] = "wait" /\ UNCHANGED <<result, awaits, flight, future>>
      BY <1>10 DEF Wake, End
    <2>3. Owners' /\ ClaimedWhileExecuting' /\ Pending' /\ Waiters' /\ Results'
      BY <2>2, MoveKeepsFlight DEF Executing
    <2> QED BY <1>10, <2>1, <2>3 DEF Wake, End, Goto, Executing, TypeOK
  <1>11. ASSUME NEW c \in Call, CancelLookup(c) PROVE FlightInv'
    <2>1. /\ Goto(c, "done") /\ pc[c] \in {"get", "miss"}
          /\ UNCHANGED <<result, awaits, flight, future>>
      BY <1>11 DEF CancelLookup, End
    <2>2. Owners' /\ ClaimedWhileExecuting' /\ Pending' /\ Waiters' /\ Results'
      BY <2>1, MoveKeepsFlight DEF Executing
    <2> QED BY <1>11, <2>2 DEF CancelLookup, End, Goto, Executing, TypeOK
  <1>12. ASSUME NEW c \in Call, CancelExecution(c) PROVE FlightInv'
    <2>1. pc[c] = "store" => Written(c) \in [Namespace \X Key -> [val : Values, expires : BOOLEAN] \cup {None}]
      BY ConversionTypes DEF Written, Slot, SlotOf, TypeOK, Results
    <2>2. store' \in [Namespace \X Key -> [val : Values, expires : BOOLEAN] \cup {None}]
      BY <1>12, <2>1 DEF CancelExecution, TypeOK
    <2> QED BY <1>12, <2>2, FinishKeepsFlight DEF CancelExecution, Finish, TypeOK
  <1>13. ASSUME NEW c \in Call, CancelWait(c) PROVE FlightInv'
    <2>1. pc[c] = "wait" /\ awaits[c] \in Call
      BY <1>13 DEF CancelWait, Waiters
    <2>2. /\ pc' = [pc EXCEPT ![c] = "done"]
          /\ outcome' = [outcome EXCEPT ![c] = Raised("cancelled")]
          /\ future' = IF future[awaits[c]] = Unsettled("pending")
                         THEN [future EXCEPT ![awaits[c]] = Raised("cancelled")] ELSE future
          /\ UNCHANGED <<result, awaits, flight, store, version, upc, missed>>
      BY <1>13 DEF CancelWait, End, Goto
    <2>3. \A d \in Call : /\ future'[d] # Unsettled("none") \/ future[d] = Unsettled("none")
                          /\ future'[d] = Unsettled("pending") => future[d] = Unsettled("pending")
      BY <2>1, <2>2 DEF TypeOK
    <2>4. TypeOK'
      BY <2>1, <2>2 DEF TypeOK
    <2> QED BY <2>1, <2>2, <2>3, <2>4
            DEF TypeOK, Owners, ClaimedWhileExecuting, Pending, Waiters, Results, FlightOf, Executing
  <1>14. ASSUME NEW u \in Update, UpdateStep(u) PROVE FlightInv'
    <2>1. SlotOf(TargetOf[u]) \in Namespace \X Key
      BY DEF SlotOf
    <2>2. UNCHANGED <<pc, result, awaits, outcome, flight, future>>
      BY <1>14 DEF UpdateStep, Write, WriteFails, Invalidate, InvalidateFails
    <2>3. store' \in [Namespace \X Key -> [val : Values, expires : BOOLEAN] \cup {None}]
      BY <1>14, <2>1 DEF UpdateStep, Write, WriteFails, Invalidate, InvalidateFails, Deleted, TypeOK
    <2>4. /\ version' \in [Func -> Nat] /\ upc' \in [Update -> {"idle", "delete", "done"}]
          /\ missed' \subseteq Func
      BY <1>14 DEF UpdateStep, Write, WriteFails, Invalidate, InvalidateFails, TypeOK
    <2>5. TypeOK'
      BY <2>2, <2>3, <2>4 DEF TypeOK
    <2> QED BY <2>2, <2>5
            DEF Owners, ClaimedWhileExecuting, Pending, Waiters, Results, FlightOf
  <1>15. ASSUME NEW s \in Namespace \X Key, Expire(s) PROVE FlightInv'
    BY <1>15 DEF Expire, TypeOK, Owners, ClaimedWhileExecuting, Pending, Waiters, Results, FlightOf
  <1>18. ASSUME NEW f \in Func, InvalidateCall(f) \/ InvalidateQuery(f) PROVE FlightInv'
    BY <1>18 DEF InvalidateCall, InvalidateQuery, Purge, Deleted, SlotOf, TypeOK, Owners,
       ClaimedWhileExecuting, Pending, Waiters, Results, FlightOf
  <1>16. CASE UNCHANGED vars
    BY <1>16 DEF vars, TypeOK, Owners, ClaimedWhileExecuting, Pending, Waiters, Results, FlightOf
  <1> QED
    BY <1>1, <1>2, <1>3, <1>4, <1>5, <1>6, <1>7, <1>8, <1>9, <1>10, <1>11, <1>12, <1>13,
       <1>14, <1>15, <1>16, <1>17, <1>18 DEF Next, CallStep, Cancel

LEMMA FlightInvariant == Spec => []FlightInv
  BY InitFlight, NextKeepsFlight, PTL DEF Spec

\* The types of the wrapper's state, and of what a call returns, hold throughout.
THEOREM TypeCorrect == Spec => []TypeOK
  BY FlightInvariant, PTL DEF FlightInv

\* Stampede control: never two executions behind one cache key.
THEOREM StampedeControl == Spec => []AtMostOneExecution
  <1>1. FlightInv => AtMostOneExecution
    BY DEF FlightInv, Owners, AtMostOneExecution
  <1> QED BY <1>1, FlightInvariant, PTL

\* No failure, cancellation or release leaves a call on a future nobody will settle.
THEOREM WaitersAreServed == Spec => []NoStrandedWaiter
  <1>1. FlightInv => NoStrandedWaiter
    BY DEF FlightInv, Pending, Waiters, NoStrandedWaiter
  <1> QED BY <1>1, FlightInvariant, PTL

\* A key is claimed only while a call executes behind it.
THEOREM ClaimsAreReleased == Spec => []ClaimedWhileExecuting
  BY FlightInvariant, PTL DEF FlightInv

-----------------------------------------------------------------------------
(* Freshness: what an entry can be older than.                               *)

DeletePending(f) == \E u \in Update : TargetOf[u] = f /\ upc[u] = "delete"

Stale(f) == store[SlotOf(f)] # None /\ store[SlotOf(f)].val.ver < version[f]

\* Outside missed, a stale entry or an execution about to store one means that
\* the delete of the update that made it stale is still to come.
FreshInv == \A f \in Func \ missed : Stale(f) \/ Straddling(f) # {} => DeletePending(f)

LEMMA InitFresh == Init => FreshInv
  BY CachedCallAssumption DEF Init, FreshInv, Stale, Straddling, SlotOf

\* A step that only moves calls, and makes no call straddle that did not before.
LEMMA MoveKeepsFresh ==
  ASSUME TypeOK, FreshInv, UNCHANGED <<store, version, upc, missed>>,
         \A d \in Call : pc'[d] = "store" =>
            \/ pc[d] = "store" /\ result'[d] = result[d]
            \/ result'[d].ver = version[FuncOf[d]]
  PROVE  FreshInv'
  <1> SUFFICES ASSUME NEW f \in Func, f \notin missed, Stale(f)' \/ Straddling(f)' # {}
               PROVE  DeletePending(f)
    BY DEF FreshInv, DeletePending
  <1>1. Stale(f)' => Stale(f)
    BY DEF Stale, SlotOf
  <1>2. Straddling(f)' # {} => Straddling(f) # {}
    BY DEF Straddling, TypeOK
  <1> QED BY <1>1, <1>2 DEF FreshInv

\* Storing a result makes an entry stale only if the execution straddled a change.
LEMMA StoreKeepsFresh ==
  ASSUME FlightInv, FreshInv, NEW c \in Call, pc[c] = "store", store' \in {store, Written(c)},
         UNCHANGED <<result, version, upc, missed>>,
         \A d \in Call : pc'[d] = "store" => pc[d] = "store"
  PROVE  FreshInv'
  <1> SUFFICES ASSUME NEW f \in Func, f \notin missed, Stale(f)' \/ Straddling(f)' # {}
               PROVE  DeletePending(f)
    BY DEF FreshInv, DeletePending
  <1> USE CachedCallAssumption
  <1>1. Straddling(f)' # {} => Straddling(f) # {}
    BY DEF Straddling
  <1>2. CASE store' = store
    <2>1. Stale(f)' => Stale(f)
      BY <1>2 DEF Stale, SlotOf
    <2> QED BY <1>1, <2>1 DEF FreshInv
  <1>3. CASE store' = Written(c) /\ FuncOf[c] # f
    <2>1. Slot(c) # SlotOf(f) /\ SlotOf(f) \in Namespace \X Key
      BY <1>3, SlotsAreSeparate DEF Slot, SlotOf
    <2>2. store'[SlotOf(f)] = store[SlotOf(f)]
      BY <1>3, <2>1 DEF Written, FlightInv, TypeOK
    <2>3. Stale(f)' => Stale(f)
      BY <2>2 DEF Stale, SlotOf
    <2> QED BY <1>1, <2>3 DEF FreshInv
  <1>4. CASE store' = Written(c) /\ FuncOf[c] = f
    <2>1. Slot(c) = SlotOf(f) /\ SlotOf(f) \in Namespace \X Key
      BY <1>4 DEF Slot, SlotOf
    <2>2. store'[SlotOf(f)] = [val |-> Serialized(result[c]), expires |-> Ttl > 0]
      BY <1>4, <2>1 DEF Written, FlightInv, TypeOK
    <2>3. Stale(f)' => result[c].ver < version[f]
      BY <2>2, ConversionTypes DEF Stale, SlotOf, FlightInv, Results
    <2>4. Stale(f)' => c \in Straddling(f)
      BY <1>4, <2>3 DEF Straddling
    <2> QED BY <1>1, <2>4 DEF FreshInv
  <1> QED BY <1>2, <1>3, <1>4

LEMMA NextKeepsFresh == FlightInv /\ FreshInv /\ [Next]_vars => FreshInv'
  <1> SUFFICES ASSUME FlightInv, FreshInv, [Next]_vars PROVE FreshInv'
    OBVIOUS
  <1> USE CachedCallAssumption
  <1>0. TypeOK
    BY DEF FlightInv
  <1>1. ASSUME NEW c \in Call,
               \/ Begin(c) \/ Lookup(c) \/ LookupFails(c) \/ Claim(c)
               \/ Wake(c) \/ CancelLookup(c) \/ CancelWait(c)
        PROVE  FreshInv'
    <2>1. /\ UNCHANGED <<store, version, upc, missed, result>>
          /\ \E to \in {"get", "miss", "run", "wait", "done"} : pc' = [pc EXCEPT ![c] = to]
      BY <1>1 DEF Begin, Lookup, LookupFails, Claim, Wake, CancelLookup, CancelWait, End, Goto
    <2> QED BY <1>0, <2>1, MoveKeepsFresh DEF TypeOK
  <1>2. ASSUME NEW c \in Call, ExecuteNone(c) \/ ExecuteFails(c) \/ Settle(c) \/ SettleQuery(c)
        PROVE  FreshInv'
    <2>1. /\ UNCHANGED <<store, version, upc, missed, result>>
          /\ pc' = [pc EXCEPT ![c] = "done"]
      BY <1>2 DEF ExecuteNone, ExecuteFails, Settle, SettleQuery, Finish, FinishWith, End, Goto
    <2> QED BY <1>0, <2>1, MoveKeepsFresh DEF TypeOK
  <1>3. ASSUME NEW c \in Call, Execute(c) PROVE FreshInv'
    <2>1. /\ UNCHANGED <<store, version, upc, missed>>
          /\ pc' = [pc EXCEPT ![c] = "store"]
          /\ result' = [result EXCEPT ![c] = Computed(c)]
      BY <1>3 DEF Execute, Goto
    <2>2. result'[c].ver = version[FuncOf[c]]
      BY <1>0, <2>1 DEF TypeOK, Computed
    <2>3. \A d \in Call : d # c => pc'[d] = pc[d] /\ result'[d] = result[d]
      BY <1>0, <2>1 DEF TypeOK
    <2> QED BY <1>0, <2>1, <2>2, <2>3, MoveKeepsFresh
  <1>4. ASSUME NEW c \in Call, Store(c) \/ StoreFails(c) PROVE FreshInv'
    <2>1. /\ pc[c] = "store" /\ store' \in {store, Written(c)}
          /\ UNCHANGED <<result, version, upc, missed>>
          /\ pc' = [pc EXCEPT ![c] = "settle"]
      BY <1>4 DEF Store, StoreFails, Goto
    <2> QED BY <1>0, <2>1, StoreKeepsFresh DEF TypeOK
  <1>5. ASSUME NEW c \in Call, CancelExecution(c) PROVE FreshInv'
    <2>1. /\ UNCHANGED <<result, version, upc, missed>>
          /\ pc' = [pc EXCEPT ![c] = "done"]
      BY <1>5 DEF CancelExecution, Finish, FinishWith, End, Goto
    <2>2. CASE pc[c] = "store"
      BY <1>0, <1>5, <2>1, <2>2, StoreKeepsFresh DEF CancelExecution, TypeOK
    <2>3. CASE pc[c] # "store"
      BY <1>0, <1>5, <2>1, <2>3, MoveKeepsFresh DEF CancelExecution, TypeOK
    <2> QED BY <2>2, <2>3
  <1>6. ASSUME NEW u \in Update, Write(u) PROVE FreshInv'
    <2> SUFFICES ASSUME NEW f \in Func, f \notin missed, Stale(f)' \/ Straddling(f)' # {}
                 PROVE  DeletePending(f)'
      BY <1>6 DEF FreshInv, Write
    <2>1. CASE TargetOf[u] = f
      BY <1>0, <1>6, <2>1 DEF Write, DeletePending, TypeOK
    <2>2. CASE TargetOf[u] # f
      <3>1. version'[f] = version[f]
        BY <1>0, <1>6, <2>2 DEF Write, TypeOK
      <3>2. Stale(f) \/ Straddling(f) # {}
        BY <1>6, <3>1 DEF Write, Stale, Straddling, SlotOf
      <3>3. PICK w \in Update : TargetOf[w] = f /\ upc[w] = "delete"
        BY <3>2 DEF FreshInv, DeletePending
      <3> QED BY <1>0, <1>6, <3>3 DEF Write, DeletePending, TypeOK
    <2> QED BY <2>1, <2>2
  <1>7. ASSUME NEW u \in Update, Invalidate(u) \/ InvalidateFails(u) PROVE FreshInv'
    <2> SUFFICES ASSUME NEW f \in Func, f \notin missed', Stale(f)' \/ Straddling(f)' # {}
                 PROVE  DeletePending(f)'
      BY DEF FreshInv
    <2>1. /\ version' = version /\ Straddling(f)' = Straddling(f)
          /\ upc' = [upc EXCEPT ![u] = "done"]
          /\ store' \in {store, Deleted(TargetOf[u])}
      BY <1>7 DEF Invalidate, InvalidateFails, Straddling
    <2>2. TargetOf[u] # f
      <3> SUFFICES ASSUME TargetOf[u] = f PROVE FALSE
        OBVIOUS
      <3>1. Invalidate(u) /\ Straddling(f) = {}
        BY <1>7 DEF Invalidate, InvalidateFails, Effective
      <3>2. store'[SlotOf(f)] = None
        BY <1>0, <3>1 DEF Invalidate, Deleted, SlotOf, TypeOK
      <3> QED BY <2>1, <3>1, <3>2 DEF Stale, SlotOf
    <2>3. store'[SlotOf(f)] = store[SlotOf(f)]
      <3>1. SlotOf(TargetOf[u]) # SlotOf(f)
        BY <2>2, SlotsAreSeparate DEF SlotOf
      <3> QED BY <1>0, <2>1, <3>1 DEF Deleted, SlotOf, TypeOK
    <2>4. f \notin missed /\ (Stale(f) \/ Straddling(f) # {})
      BY <1>7, <2>1, <2>2, <2>3 DEF Invalidate, InvalidateFails, Stale, SlotOf
    <2>5. PICK w \in Update : TargetOf[w] = f /\ upc[w] = "delete"
      BY <2>1, <2>4 DEF FreshInv, DeletePending
    <2> QED BY <1>0, <2>1, <2>2, <2>5 DEF DeletePending, TypeOK
  <1>11. ASSUME NEW u \in Update, WriteFails(u) PROVE FreshInv'
    <2> SUFFICES ASSUME NEW f \in Func, f \notin missed', Stale(f)' \/ Straddling(f)' # {}
                 PROVE  DeletePending(f)'
      BY DEF FreshInv
    <2>1. f # TargetOf[u] /\ f \notin missed /\ version'[f] = version[f]
      BY <1>0, <1>11 DEF WriteFails, TypeOK
    <2>2. Stale(f) \/ Straddling(f) # {}
      BY <1>11, <2>1 DEF WriteFails, Stale, Straddling, SlotOf
    <2>3. PICK w \in Update : TargetOf[w] = f /\ upc[w] = "delete"
      BY <2>1, <2>2 DEF FreshInv, DeletePending
    <2> QED BY <1>0, <1>11, <2>1, <2>3 DEF WriteFails, DeletePending, TypeOK
  <1>8. ASSUME NEW s \in Namespace \X Key, Expire(s) PROVE FreshInv'
    <2> SUFFICES ASSUME NEW f \in Func, f \notin missed, Stale(f)' \/ Straddling(f)' # {}
                 PROVE  DeletePending(f)
      BY <1>8 DEF FreshInv, Expire, DeletePending
    <2>1. Straddling(f)' # {} => Straddling(f) # {}
      BY <1>8 DEF Expire, Straddling
    <2>2. Stale(f)' => Stale(f)
      BY <1>0, <1>8 DEF Expire, Stale, SlotOf, TypeOK
    <2> QED BY <2>1, <2>2 DEF FreshInv
  <1>10. ASSUME NEW g \in Func, InvalidateCall(g) \/ InvalidateQuery(g) PROVE FreshInv'
    <2>1. Purge(g)
      BY <1>10 DEF InvalidateCall, InvalidateQuery
    <2> SUFFICES ASSUME NEW f \in Func, f \notin missed', Stale(f)' \/ Straddling(f)' # {}
                 PROVE  DeletePending(f)
      BY <2>1 DEF FreshInv, Purge, DeletePending
    <2>2. Straddling(f)' = Straddling(f)
      BY <2>1 DEF Purge, Straddling
    <2>3. Stale(f)' => Stale(f) /\ f # g
      BY <1>0, <2>1 DEF Purge, Deleted, Stale, SlotOf, TypeOK
    <2>4. f \notin missed /\ (Stale(f) \/ Straddling(f) # {})
      BY <2>1, <2>2, <2>3 DEF Purge, Effective
    <2> QED BY <2>4 DEF FreshInv
  <1>9. CASE UNCHANGED vars
    BY <1>9 DEF vars, FreshInv, Stale, Straddling, SlotOf, DeletePending
  <1> QED
    BY <1>1, <1>2, <1>3, <1>4, <1>5, <1>6, <1>7, <1>8, <1>9, <1>10, <1>11
    DEF Next, CallStep, Cancel, UpdateStep

\* Whatever the interleaving of calls, updates, expiries, failures and cancellations,
\* an entry is older than its data only before the pending delete, or until the next
\* effective delete when an update ended without one.
THEOREM Freshness == Spec => []StaleOnlyIfMissed
  <1>1. FreshInv => StaleOnlyIfMissed
    BY DEF FreshInv, StaleOnlyIfMissed, Stale, DeletePending
  <1>2. Spec => []FreshInv
    BY InitFresh, NextKeepsFresh, FlightInvariant, PTL DEF Spec
  <1> QED BY <1>1, <1>2, PTL

-----------------------------------------------------------------------------
(* Ownership: whose value an entry holds.                                    *)

\* The value a call has computed and not yet settled is its own function's.
ResultsAreOwn == \A c \in Call : pc[c] \in {"store", "settle"} => result[c].of = FuncOf[c]

OwnInv == ResultsAreOwn /\ EntriesAreOwn

LEMMA InitOwn == Init => OwnInv
  BY CachedCallAssumption DEF Init, OwnInv, ResultsAreOwn, EntriesAreOwn, SlotOf

\* A store that only loses entries, or writes that of an executing call, keeps each
\* entry the function's it is stored under.
LEMMA StoreKeepsEntriesOwn ==
  ASSUME TypeOK, Results, OwnInv,
         \/ \A s \in Namespace \X Key : store'[s] \in {store[s], None}
         \/ \E c \in Call : pc[c] = "store" /\ store' = Written(c)
  PROVE  EntriesAreOwn'
  <1> USE CachedCallAssumption
  <1> SUFFICES ASSUME NEW f \in Func, store'[SlotOf(f)] # None
               PROVE  store'[SlotOf(f)].val.of = f
    BY DEF EntriesAreOwn, SlotOf
  <1>1. SlotOf(f) \in Namespace \X Key
    BY DEF SlotOf
  <1>2. CASE \A s \in Namespace \X Key : store'[s] \in {store[s], None}
    BY <1>1, <1>2 DEF OwnInv, EntriesAreOwn
  <1>3. ASSUME NEW c \in Call, pc[c] = "store", store' = Written(c)
        PROVE  store'[SlotOf(f)].val.of = f
    <2>1. CASE FuncOf[c] = f
      <3>1. store'[SlotOf(f)].val = Serialized(result[c])
        BY <1>1, <1>3, <2>1 DEF Written, Slot, TypeOK
      <3>2. Serialized(result[c]).of = result[c].of
        BY <1>3 DEF Serialized, Results, Values
      <3> QED BY <1>3, <2>1, <3>1, <3>2 DEF OwnInv, ResultsAreOwn
    <2>2. CASE FuncOf[c] # f
      <3>1. Slot(c) # SlotOf(f)
        BY <2>2, SlotsAreSeparate DEF Slot, SlotOf
      <3>2. store'[SlotOf(f)] = store[SlotOf(f)]
        BY <1>1, <1>3, <3>1 DEF Written, TypeOK
      <3> QED BY <3>2 DEF OwnInv, EntriesAreOwn
    <2> QED BY <2>1, <2>2
  <1> QED BY <1>2, <1>3

LEMMA NextKeepsOwn == FlightInv /\ OwnInv /\ [Next]_vars => OwnInv'
  <1> SUFFICES ASSUME FlightInv, OwnInv, [Next]_vars PROVE OwnInv'
    OBVIOUS
  <1> USE CachedCallAssumption
  <1>0. TypeOK /\ Results
    BY DEF FlightInv
  <1>1. ResultsAreOwn'
    <2>1. ASSUME NEW c \in Call,
                 \/ Begin(c) \/ Lookup(c) \/ LookupFails(c) \/ Claim(c) \/ Wake(c)
                 \/ Cancel(c) \/ ExecuteNone(c) \/ ExecuteFails(c) \/ Settle(c) \/ SettleQuery(c)
          PROVE  ResultsAreOwn'
      <3>1. /\ result' = result
            /\ \E to \in {"get", "miss", "run", "wait", "done"} : pc' = [pc EXCEPT ![c] = to]
        BY <2>1 DEF Begin, Lookup, LookupFails, Claim, Wake, Cancel, CancelLookup, CancelExecution,
             CancelWait, ExecuteNone, ExecuteFails, Settle, SettleQuery, Finish, FinishWith, End, Goto
      <3> QED BY <1>0, <3>1 DEF OwnInv, ResultsAreOwn, TypeOK
    <2>2. ASSUME NEW c \in Call, Execute(c) PROVE ResultsAreOwn'
      <3>1. pc' = [pc EXCEPT ![c] = "store"] /\ result' = [result EXCEPT ![c] = Computed(c)]
        BY <2>2 DEF Execute, Goto
      <3>2. result'[c].of = FuncOf[c]
        BY <1>0, <3>1 DEF TypeOK, Computed
      <3> QED BY <1>0, <3>1, <3>2 DEF OwnInv, ResultsAreOwn, TypeOK
    <2>3. ASSUME NEW c \in Call, Store(c) \/ StoreFails(c) PROVE ResultsAreOwn'
      <3>1. pc[c] = "store" /\ pc' = [pc EXCEPT ![c] = "settle"] /\ result' = result
        BY <2>3 DEF Store, StoreFails, Goto
      <3> QED BY <1>0, <3>1 DEF OwnInv, ResultsAreOwn, TypeOK
    <2>4. CASE UNCHANGED <<pc, result>>
      BY <2>4 DEF OwnInv, ResultsAreOwn
    <2> QED
      BY <2>1, <2>2, <2>3, <2>4
      DEF Next, CallStep, UpdateStep, Write, WriteFails, Invalidate, InvalidateFails, Purge, InvalidateCall,
          InvalidateQuery, Expire, vars
  <1>2. EntriesAreOwn'
    <2>1. \/ \E c \in Call : pc[c] = "store" /\ store' = Written(c)
          \/ \E f \in Func : store' = Deleted(f)
          \/ \E s \in Namespace \X Key : store' = [store EXCEPT ![s] = None]
          \/ store' = store
      <3>1. ASSUME NEW c \in Call, CallStep(c) \/ Cancel(c)
            PROVE  store' = store \/ (pc[c] = "store" /\ store' = Written(c))
        BY <3>1 DEF CallStep, Cancel, Begin, Lookup, LookupFails, Claim, Execute, ExecuteNone,
             ExecuteFails, Store, StoreFails, Settle, SettleQuery, Wake, CancelLookup,
             CancelExecution, CancelWait
      <3>2. ASSUME NEW u \in Update, UpdateStep(u)
            PROVE  store' = store \/ store' = Deleted(TargetOf[u])
        BY <3>2 DEF UpdateStep, Write, WriteFails, Invalidate, InvalidateFails
      <3>3. ASSUME NEW f \in Func, InvalidateCall(f) \/ InvalidateQuery(f)
            PROVE  store' = Deleted(f)
        BY <3>3 DEF InvalidateCall, InvalidateQuery, Purge
      <3> QED BY <3>1, <3>2, <3>3 DEF Next, Expire, vars
    <2>2. \A f \in Func : store' = Deleted(f) =>
             \A s \in Namespace \X Key : store'[s] \in {store[s], None}
      BY <1>0 DEF Deleted, TypeOK
    <2>3. \A t \in Namespace \X Key : store' = [store EXCEPT ![t] = None] =>
             \A s \in Namespace \X Key : store'[s] \in {store[s], None}
      BY <1>0 DEF TypeOK
    <2> QED BY <1>0, <2>1, <2>2, <2>3, StoreKeepsEntriesOwn
  <1> QED BY <1>1, <1>2 DEF OwnInv

\* Whatever the functions, namespaces and keys, as long as no two functions share both,
\* a hit never returns the value of another function.
THEOREM EntriesBelong == Spec => []EntriesAreOwn
  <1>1. Spec => []OwnInv
    BY InitOwn, NextKeepsOwn, FlightInvariant, PTL DEF Spec
  <1>2. OwnInv => EntriesAreOwn
    BY DEF OwnInv
  <1> QED BY <1>1, <1>2, PTL

-----------------------------------------------------------------------------
(* Sharing: what the calls that joined a flight end with.                    *)

\* A call that was a waiter of e was cancelled, and cancelled the future with it.
Cut(e) == \E d \in Call \cap Cancellable : awaits[d] = e /\ outcome[d].kind = "cancelled"

\* What the future of e holds is what e returned, serialized when it is a query.
Answers(e) ==
  outcome[e].kind = "value" =>
    \/ future[e] = outcome[e]
    \/ /\ FuncOf[e] \in Query
       /\ future[e].kind = "value"
       /\ future[e].val = Serialized(outcome[e].val)

\* Only a call that has ended has an outcome, and only one that joined a flight awaits.
EndsOnce ==
  \A c \in Call :
    /\ pc[c] # "done" => outcome[c] = Unsettled("none")
    /\ pc[c] \notin {"wait", "done"} => awaits[c] = NoCall
    /\ future[c] # Unsettled("none") => pc[c] \in Executing \cup {"done"}

\* What a call awaits, or awaited, is the future of an execution behind its own key.
Joined ==
  \A c \in Call : awaits[c] # NoCall =>
    future[awaits[c]] # Unsettled("none") /\ FlightOf(awaits[c]) = FlightOf(c)

\* A future is settled by its execution, or by the cancellation of a waiter.
SettledBy ==
  \A e \in Call : future[e] \notin {Unsettled("none"), Unsettled("pending")} =>
    (future[e].kind = "cancelled" /\ Cut(e)) \/ (pc[e] = "done" /\ Answers(e))

\* A waiter ends with what the future holds from then on, unless it is cancelled itself.
Served ==
  \A c \in Call : pc[c] = "done" /\ awaits[c] # NoCall =>
    \/ c \in Cancellable /\ outcome[c].kind = "cancelled"
    \/ outcome[c] = future[awaits[c]] /\ future[awaits[c]] # Unsettled("pending")

ShareInv == EndsOnce /\ Joined /\ SettledBy /\ Served

LEMMA InitShare == Init => ShareInv
  BY CachedCallAssumption
  DEF Init, ShareInv, EndsOnce, Joined, SettledBy, Served, Executing, Unsettled

\* The states of a future are told apart by their kinds.
LEMMA KindsDiffer ==
  /\ Unsettled("none").kind = "none" /\ Unsettled("pending").kind = "pending"
  /\ Raised("cancelled").kind = "cancelled"
  /\ \A s \in Settled : s # Unsettled("none") /\ s # Unsettled("pending")
  BY DEF Unsettled, Raised, Settled

\* A step that moves a call, which has not ended, without ending it.
LEMMA MoveKeepsShare ==
  ASSUME FlightInv, ShareInv, NEW c \in Call, pc[c] \notin {"wait", "done"},
         NEW to \in {"get", "miss"} \cup Executing, pc' = [pc EXCEPT ![c] = to],
         pc[c] \in Executing => to \in Executing, UNCHANGED <<awaits, outcome, future>>
  PROVE  ShareInv'
  <1> USE DEF ShareInv
  <1>1. EndsOnce'
    BY DEF EndsOnce, FlightInv, TypeOK, Executing
  <1>2. Joined'
    BY DEF Joined, FlightOf
  <1>3. SettledBy'
    BY DEF SettledBy, Cut, Answers, FlightInv, TypeOK
  <1>4. Served'
    BY DEF Served, FlightInv, TypeOK, Executing
  <1> QED BY <1>1, <1>2, <1>3, <1>4

\* A call that ends without having touched a flight: it created no future, and awaits none.
LEMMA EndKeepsShare ==
  ASSUME FlightInv, ShareInv, NEW c \in Call, pc[c] \in {"get", "miss"},
         NEW o, End(c, o), UNCHANGED <<awaits, future>>
  PROVE  ShareInv'
  <1> USE DEF ShareInv
  <1>0. /\ pc' = [pc EXCEPT ![c] = "done"] /\ outcome' = [outcome EXCEPT ![c] = o]
        /\ outcome[c] = Unsettled("none") /\ awaits[c] = NoCall /\ future[c] = Unsettled("none")
    BY DEF End, Goto, EndsOnce, Executing
  <1>1. EndsOnce'
    BY <1>0 DEF EndsOnce, FlightInv, TypeOK, Executing
  <1>2. Joined'
    BY DEF Joined, FlightOf
  <1>3. \A e \in Call : Cut(e) => Cut(e)'
    BY <1>0, KindsDiffer, CachedCallAssumption DEF Cut, FlightInv, TypeOK
  <1>4. SettledBy'
    BY <1>0, <1>3 DEF SettledBy, Answers, FlightInv, TypeOK
  <1>5. Served'
    BY <1>0 DEF Served, FlightInv, TypeOK
  <1> QED BY <1>1, <1>2, <1>4, <1>5

\* The tail of the wrapper answers the future with what it returns.
LEMMA FinishKeepsShare ==
  ASSUME FlightInv, ShareInv, NEW c \in Call, pc[c] \in Executing, NEW o \in Settled,
         NEW s \in Settled, FinishWith(c, o, s), UNCHANGED awaits,
         \/ s = o
         \/ FuncOf[c] \in Query /\ s.kind = "value" /\ s.val = Serialized(o.val)
  PROVE  ShareInv'
  <1> USE CachedCallAssumption DEF ShareInv
  <1>0. /\ pc' = [pc EXCEPT ![c] = "done"] /\ outcome' = [outcome EXCEPT ![c] = o]
        /\ outcome[c] = Unsettled("none") /\ awaits[c] = NoCall
    BY DEF FinishWith, End, Goto, EndsOnce, Executing
  <1>1. /\ future[c] # Unsettled("none")
        /\ future[c] = Unsettled("pending") => future'[c] = s
        /\ future[c] # Unsettled("pending") => future' = future
        /\ \A d \in Call : d # c => future'[d] = future[d]
    BY DEF FinishWith, FlightInv, TypeOK, Owners
  <1>2. EndsOnce'
    BY <1>0, <1>1 DEF EndsOnce, FlightInv, TypeOK
  <1>3. Joined'
    BY <1>1, KindsDiffer DEF Joined, FlightOf, FlightInv, TypeOK
  <1>4. \A e \in Call : Cut(e) => Cut(e)'
    BY <1>0, KindsDiffer DEF Cut, FlightInv, TypeOK
  <1>5. SettledBy'
    <2> SUFFICES ASSUME NEW e \in Call, future'[e] \notin {Unsettled("none"), Unsettled("pending")}
                 PROVE  (future'[e].kind = "cancelled" /\ Cut(e)') \/ (pc'[e] = "done" /\ Answers(e)')
      BY DEF SettledBy
    <2>1. CASE e # c
      BY <1>0, <1>1, <1>4, <2>1 DEF SettledBy, Answers, FlightInv, TypeOK
    <2>2. CASE e = c /\ future[c] = Unsettled("pending")
      BY <1>0, <1>1, <2>2 DEF Answers, FlightInv, TypeOK
    <2>3. CASE e = c /\ future[c] # Unsettled("pending")
      <3>1. future[c].kind = "cancelled" /\ Cut(c)
        BY <1>1, <2>3 DEF SettledBy, Executing
      <3> QED BY <1>1, <1>4, <2>3, <3>1
    <2> QED BY <2>1, <2>2, <2>3
  <1>6. Served'
    BY <1>0, <1>1 DEF Served, FlightInv, TypeOK
  <1> QED BY <1>2, <1>3, <1>5, <1>6

LEMMA ClaimKeepsShare ==
  ASSUME FlightInv, ShareInv, NEW c \in Call, Claim(c)
  PROVE  ShareInv'
  <1> USE CachedCallAssumption DEF ShareInv
  <1>0. /\ pc[c] = "miss" /\ UNCHANGED outcome
        /\ outcome[c] = Unsettled("none") /\ awaits[c] = NoCall /\ future[c] = Unsettled("none")
    BY DEF Claim, EndsOnce, Executing
  <1>1. CASE flight[FlightOf(c)] = NoCall
    <2>0. /\ pc' = [pc EXCEPT ![c] = "run"] /\ awaits' = awaits
          /\ future' = [future EXCEPT ![c] = Unsettled("pending")]
      BY <1>1 DEF Claim, Goto
    <2>1. EndsOnce'
      BY <1>0, <2>0 DEF EndsOnce, FlightInv, TypeOK, Executing
    <2>2. Joined'
      BY <1>0, <2>0 DEF Joined, FlightOf, FlightInv, TypeOK
    <2>3. SettledBy'
      BY <1>0, <2>0 DEF SettledBy, Cut, Answers, FlightInv, TypeOK
    <2>4. Served'
      BY <1>0, <2>0 DEF Served, Joined, FlightInv, TypeOK
    <2> QED BY <2>1, <2>2, <2>3, <2>4
  <1>2. CASE flight[FlightOf(c)] # NoCall
    <2> DEFINE e == flight[FlightOf(c)]
    <2>0. /\ pc' = [pc EXCEPT ![c] = "wait"] /\ future' = future
          /\ awaits' = [awaits EXCEPT ![c] = e]
      BY <1>2 DEF Claim, Goto
    <2>1. e \in Call /\ FlightOf(e) = FlightOf(c) /\ future[e] # Unsettled("none")
      BY <1>2, FlightType DEF FlightInv, TypeOK, ClaimedWhileExecuting, Owners
    <2> HIDE DEF e
    <2>2. EndsOnce'
      BY <1>0, <2>0 DEF EndsOnce, FlightInv, TypeOK
    <2>3. Joined'
      BY <1>0, <2>0, <2>1 DEF Joined, FlightOf, FlightInv, TypeOK
    <2>4. \A d \in Call : Cut(d) => Cut(d)'
      BY <1>0, <2>0, KindsDiffer DEF Cut, FlightInv, TypeOK
    <2>5. SettledBy'
      BY <1>0, <2>0, <2>4 DEF SettledBy, Answers, FlightInv, TypeOK
    <2>6. Served'
      BY <1>0, <2>0 DEF Served, FlightInv, TypeOK
    <2> QED BY <2>2, <2>3, <2>5, <2>6
  <1> QED BY <1>1, <1>2

\* A waiter ends, with what the future holds or, cancelled, together with the future.
LEMMA WaiterKeepsShare ==
  ASSUME FlightInv, ShareInv, NEW c \in Call, Wake(c) \/ CancelWait(c)
  PROVE  ShareInv'
  <1> USE CachedCallAssumption DEF ShareInv
  <1>0. /\ pc[c] = "wait" /\ pc' = [pc EXCEPT ![c] = "done"] /\ awaits' = awaits
        /\ outcome[c] = Unsettled("none") /\ future[c] = Unsettled("none")
        /\ awaits[c] \in Call
        /\ \E o : outcome' = [outcome EXCEPT ![c] = o]
    BY DEF Wake, CancelWait, End, Goto, EndsOnce, Executing, FlightInv, Waiters
  <1>1. \A e \in Call : Cut(e) => Cut(e)'
    BY <1>0, KindsDiffer DEF Cut, FlightInv, TypeOK
  <1>2. CASE Wake(c)
    <2>0. /\ future' = future /\ future[awaits[c]] # Unsettled("pending")
          /\ outcome' = [outcome EXCEPT ![c] = future[awaits[c]]]
      BY <1>2 DEF Wake, End
    <2>1. EndsOnce'
      BY <1>0, <2>0 DEF EndsOnce, FlightInv, TypeOK, Executing
    <2>2. Joined'
      BY <1>0, <2>0 DEF Joined, FlightOf
    <2>3. SettledBy'
      BY <1>0, <1>1, <2>0 DEF SettledBy, Answers, FlightInv, TypeOK
    <2>4. Served'
      BY <1>0, <2>0 DEF Served, FlightInv, TypeOK
    <2> QED BY <2>1, <2>2, <2>3, <2>4
  <1>3. CASE CancelWait(c)
    <2>0. /\ c \in Cancellable /\ outcome' = [outcome EXCEPT ![c] = Raised("cancelled")]
          /\ future' = IF future[awaits[c]] = Unsettled("pending")
                         THEN [future EXCEPT ![awaits[c]] = Raised("cancelled")] ELSE future
      BY <1>3 DEF CancelWait, End
    <2>1. \A e \in Call :
            \/ future'[e] = future[e]
            \/ /\ e = awaits[c] /\ future[e] = Unsettled("pending")
               /\ future'[e] = Raised("cancelled")
      BY <1>0, <2>0 DEF FlightInv, TypeOK
    <2>2. outcome'[c].kind = "cancelled" /\ \A d \in Call : d # c => outcome'[d] = outcome[d]
      BY <2>0, KindsDiffer DEF FlightInv, TypeOK
    <2>3. EndsOnce'
      <3>1. \A e \in Call : future'[e] # Unsettled("none") => future[e] # Unsettled("none")
        BY <2>1, KindsDiffer
      <3> QED BY <1>0, <2>2, <3>1 DEF EndsOnce, FlightInv, TypeOK, Executing
    <2>4. Joined'
      BY <1>0, <2>1, KindsDiffer DEF Joined, FlightOf, FlightInv, TypeOK
    <2>5. SettledBy'
      <3> SUFFICES ASSUME NEW e \in Call,
                          future'[e] \notin {Unsettled("none"), Unsettled("pending")}
                   PROVE  (future'[e].kind = "cancelled" /\ Cut(e)') \/ (pc'[e] = "done" /\ Answers(e)')
        BY DEF SettledBy
      <3>1. CASE future'[e] # future[e]
        BY <1>0, <2>0, <2>1, <2>2, <3>1, KindsDiffer DEF Cut
      <3>2. CASE future'[e] = future[e]
        <4>1. e # c
          BY <1>0, <3>2
        <4> QED BY <1>0, <1>1, <2>2, <3>2, <4>1 DEF SettledBy, Answers, FlightInv, TypeOK
      <3> QED BY <3>1, <3>2
    <2>6. Served'
      <3> SUFFICES ASSUME NEW d \in Call, pc'[d] = "done", awaits[d] # NoCall
                   PROVE  \/ d \in Cancellable /\ outcome'[d].kind = "cancelled"
                          \/ /\ outcome'[d] = future'[awaits[d]]
                             /\ future'[awaits[d]] # Unsettled("pending")
        BY <1>0 DEF Served
      <3>1. CASE d = c
        BY <2>0, <2>2, <3>1
      <3>2. CASE d # c
        <4>1. pc[d] = "done" /\ awaits[d] \in Call
          BY <1>0, <3>2 DEF FlightInv, TypeOK
        <4> QED BY <2>1, <2>2, <3>2, <4>1 DEF Served
      <3> QED BY <3>1, <3>2
    <2> QED BY <2>3, <2>4, <2>5, <2>6
  <1> QED BY <1>2, <1>3

LEMMA NextKeepsShare == FlightInv /\ ShareInv /\ [Next]_vars => ShareInv'
  <1> SUFFICES ASSUME FlightInv, ShareInv, [Next]_vars PROVE ShareInv'
    OBVIOUS
  <1>1. ASSUME NEW c \in Call, Begin(c) \/ LookupFails(c) \/ Execute(c) \/ Store(c) \/ StoreFails(c)
        PROVE  ShareInv'
    <2>1. /\ pc[c] \notin {"wait", "done"} /\ UNCHANGED <<awaits, outcome, future>>
          /\ \E to \in {"get", "miss"} \cup Executing :
               pc' = [pc EXCEPT ![c] = to] /\ (pc[c] \in Executing => to \in Executing)
      BY <1>1 DEF Begin, LookupFails, Execute, Store, StoreFails, Goto, Executing
    <2> QED BY <2>1, MoveKeepsShare
  <1>2. ASSUME NEW c \in Call, Lookup(c) \/ CancelLookup(c) PROVE ShareInv'
    <2>1. pc[c] \in {"get", "miss"} /\ UNCHANGED <<awaits, future>>
      BY <1>2 DEF Lookup, CancelLookup
    <2>2. CASE \E o : End(c, o)
      BY <2>1, <2>2, EndKeepsShare
    <2>3. CASE ~ \E o : End(c, o)
      <3>1. pc' = [pc EXCEPT ![c] = "miss"] /\ UNCHANGED outcome /\ pc[c] \notin Executing
        BY <1>2, <2>3 DEF Lookup, CancelLookup, Goto, Executing
      <3> QED BY <2>1, <3>1, MoveKeepsShare
    <2> QED BY <2>2, <2>3
  <1>3. ASSUME NEW c \in Call,
               \/ ExecuteNone(c) \/ ExecuteFails(c) \/ Settle(c) \/ SettleQuery(c)
               \/ CancelExecution(c)
        PROVE  ShareInv'
    <2>1. pc[c] \in Executing /\ UNCHANGED awaits
      BY <1>3 DEF ExecuteNone, ExecuteFails, Settle, SettleQuery, CancelExecution, Executing
    <2>2. CASE SettleQuery(c)
      <3>1. result[c] \in Values
        BY <2>2 DEF SettleQuery, FlightInv, Results
      <3>2. Returned(result[c]) \in Settled /\ Returned(Serialized(result[c])) \in Settled
        BY <3>1, ConversionTypes, SettledIsFinal
      <3>3. /\ Returned(Serialized(result[c])).kind = "value"
            /\ Returned(Serialized(result[c])).val = Serialized(Returned(result[c]).val)
        BY DEF Returned
      <3> QED BY <2>1, <2>2, <3>2, <3>3, FinishKeepsShare DEF SettleQuery
    <2>3. CASE ~ SettleQuery(c)
      <3>1. \E o \in Settled : Finish(c, o)
        BY <1>3, <2>3, SettledIsFinal
        DEF ExecuteNone, ExecuteFails, Settle, CancelExecution, FlightInv, Results
      <3> QED BY <2>1, <3>1, FinishKeepsShare DEF Finish
    <2> QED BY <2>2, <2>3
  <1>4. CASE UNCHANGED <<pc, awaits, outcome, future>>
    BY <1>4 DEF ShareInv, EndsOnce, Joined, SettledBy, Served, Cut, Answers, FlightOf
  <1> QED
    BY <1>1, <1>2, <1>3, <1>4, ClaimKeepsShare, WaiterKeepsShare
    DEF Next, CallStep, Cancel, UpdateStep, Write, WriteFails, Invalidate, InvalidateFails, Purge,
        InvalidateCall, InvalidateQuery, Expire, vars

\* However many calls join a flight, and whatever fails or is cancelled meanwhile, those
\* of its function all get what its one execution returned, unless one is cancelled first.
THEOREM SharedAlike == Spec => []WaitersShareTheExecution
  <1>1. ShareInv /\ FlightInv => WaitersShareTheExecution
    <2> SUFFICES ASSUME ShareInv, FlightInv, NEW c \in Call, pc[c] = "done", awaits[c] # NoCall,
                        FuncOf[awaits[c]] = FuncOf[c], outcome[awaits[c]].kind = "value"
                 PROVE  \/ /\ outcome[c].kind = "value"
                           /\ \/ outcome[c] = outcome[awaits[c]]
                              \/ /\ FuncOf[c] \in Query
                                 /\ outcome[c].val = Serialized(outcome[awaits[c]].val)
                        \/ outcome[c].kind = "cancelled" /\ Cut(awaits[c])
      BY DEF WaitersShareTheExecution, Cut
    <2> DEFINE e == awaits[c]
    <2>1. e \in Call /\ pc[e] = "done"
      BY KindsDiffer DEF FlightInv, TypeOK, ShareInv, EndsOnce
    <2>3. CASE c \in Cancellable /\ outcome[c].kind = "cancelled"
      BY <2>3 DEF Cut
    <2>4. CASE outcome[c] = future[e] /\ future[e] # Unsettled("pending")
      <3>1. (future[e].kind = "cancelled" /\ Cut(e)) \/ Answers(e)
        BY <2>1, <2>4 DEF ShareInv, Joined, SettledBy
      <3> QED BY <2>4, <3>1 DEF Answers
    <2> QED BY <2>3, <2>4 DEF ShareInv, Served
  <1>2. Spec => []ShareInv
    BY InitShare, NextKeepsShare, FlightInvariant, PTL DEF Spec
  <1> QED BY <1>1, <1>2, FlightInvariant, PTL
=============================================================================
