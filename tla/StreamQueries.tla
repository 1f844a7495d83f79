---------------------------- MODULE StreamQueries ----------------------------
(***************************************************************************)
(* The queries of BaseEventStreamModel (models/event_stream.py) over one   *)
(* stream table: in_range, latest_per_stream and time_series.  Each is one *)
(* statement over the snapshot of the table; rows that its ORDER BY does   *)
(* not tell apart come in any order.  Times and streams are integers; of   *)
(* the aggregates of time_series only the count is modelled.               *)
(***************************************************************************)
EXTENDS Integers, FiniteSets, Sequences

CONSTANTS
  Pk, Stream, Time,
  Bounds,    \* the start, end and after arguments considered
  Widths,    \* the bucket widths considered
  Limits,    \* the limits of latest_per_stream considered
  None       \* no stream_ids, after or limit

Event == [id : Pk, stream : Stream, time : Time]
StreamIds == SUBSET Stream \cup {None}

\* Streams, times and bounds are integers, widths are positive.
Considered ==
  /\ IsFiniteSet(Pk) /\ Stream \subseteq Int /\ Time \subseteq Int
  /\ Bounds \subseteq Int /\ Widths \subseteq Nat \ {0} /\ Limits \subseteq Nat

VARIABLES
  events,  \* the rows of the table
  call,    \* the query answered, or None
  answer   \* what it returned

vars == <<events, call, answer>>

Init ==
  /\ \E ids \in SUBSET Pk : \E of \in [ids -> [stream : Stream, time : Time]] :
       events = {[id |-> i, stream |-> of[i].stream, time |-> of[i].time] : i \in ids}
  /\ call = None
  /\ answer = <<>>

-----------------------------------------------------------------------------
(* Clauses                                                                   *)

Of(ids) == {e \in events : ids = None \/ e.stream \in ids}

\* Mutant: BETWEEN instead of >= and <.
WithinBetween(ids, start, end) == {e \in Of(ids) : start <= e.time /\ e.time <= end}

\* WHERE time >= start AND time < end
Within(ids, start, end) == {e \in Of(ids) : start <= e.time /\ e.time < end}

\* ORDER BY: the rows of S in an order that keeps those that precede others first.
Ordered(S, Precedes(_, _)) ==
  {s \in [1 .. Cardinality(S) -> S] :
     /\ \A r \in S : \E k \in DOMAIN s : s[k] = r
     /\ \A j, k \in DOMAIN s : Precedes(s[j], s[k]) => j < k}

\* DISTINCT ON (stream), in the order of time descending: one of the newest of each stream.
Distinct(S) ==
  {d \in SUBSET S :
     /\ \A e, f \in d : e.stream = f.stream => e = f
     /\ \A e \in S : \E f \in d : f.stream = e.stream /\ f.time >= e.time}

First(s, limit) == IF limit # None /\ limit < Len(s) THEN SubSeq(s, 1, limit) ELSE s

\* time_bucket truncates to the width, wherever the range starts.
time_bucket(width, t) == t - (t % width)

\* GROUP BY bucket, stream
Buckets(S, width) ==
  {[stream_id |-> e.stream, bucket |-> time_bucket(width, e.time),
    count |-> Cardinality({f \in S : /\ f.stream = e.stream
                                     /\ time_bucket(width, f.time) = time_bucket(width, e.time)})] :
     e \in S}

-----------------------------------------------------------------------------
(* Queries                                                                   *)

Newer(e, f) == e.time > f.time
ByStream(e, f) == e.stream < f.stream
ByStreamAndBucket(r, q) ==
  r.stream_id < q.stream_id \/ (r.stream_id = q.stream_id /\ r.bucket < q.bucket)

in_range(ids, start, end) ==
  /\ call' = [what |-> "in_range", ids |-> ids, start |-> start, end |-> end]
  /\ answer' \in Ordered(Within(ids, start, end), Newer)

Recent(ids, after) == {e \in Of(ids) : after = None \/ e.time >= after}

\* Mutant: the limit is taken before DISTINCT ON.
LatestOfLimited(ids, after, limit) ==
  UNION {UNION {Ordered(d, ByStream) : d \in Distinct({r[k] : k \in DOMAIN r})} :
           r \in {First(t, limit) : t \in Ordered(Recent(ids, after), Newer)}}

\* LIMIT comes after DISTINCT ON, whose rows are in the order of their streams.
Latest(ids, after, limit) ==
  {First(s, limit) : s \in UNION {Ordered(d, ByStream) : d \in Distinct(Recent(ids, after))}}

latest_per_stream(ids, after, limit) ==
  /\ call' = [what |-> "latest_per_stream", ids |-> ids, after |-> after, limit |-> limit]
  /\ answer' \in Latest(ids, after, limit)

time_series(ids, start, end, width) ==
  /\ call' = [what |-> "time_series", ids |-> ids, start |-> start, end |-> end, width |-> width]
  /\ answer' \in Ordered(Buckets(Within(ids, start, end), width), ByStreamAndBucket)

Next ==
  /\ call = None
  /\ \E ids \in StreamIds :
       \/ \E start, end \in Bounds : in_range(ids, start, end)
       \/ \E after \in Bounds \cup {None}, limit \in Limits \cup {None} :
            latest_per_stream(ids, after, limit)
       \/ \E start, end \in Bounds, width \in Widths : time_series(ids, start, end, width)
  /\ UNCHANGED events

Spec == Init /\ [][Next]_vars

-----------------------------------------------------------------------------
(* latest_per_stream answers rows that were asked for, one of each stream    *)
(* and none older than another row of its stream, asked for or not.  It      *)
(* leaves out a stream only if it has limit rows of others: the limit is     *)
(* taken of the streams, not of the rows.                                    *)
LatestIsNewest ==
  call # None /\ call.what = "latest_per_stream" =>
    LET asked == Recent(call.ids, call.after) IN
      /\ \A k \in DOMAIN answer : answer[k] \in asked
      /\ \A j, k \in DOMAIN answer : answer[j].stream = answer[k].stream => j = k
      /\ \A k \in DOMAIN answer, e \in events :
           e.stream = answer[k].stream => e.time <= answer[k].time
      /\ call.limit # None => Len(answer) <= call.limit
      /\ call.limit = None \/ Len(answer) < call.limit =>
           \A e \in asked : \E k \in DOMAIN answer : answer[k].stream = e.stream

(* "Model instances - one per stream, newest first."                         *)
NewestFirst ==
  call # None /\ call.what = "latest_per_stream" =>
    \A j, k \in DOMAIN answer : j < k => answer[j].time >= answer[k].time

(* Ranges that meet share no row and miss none, so a report can be made page *)
(* by page: in_range of [start, end) and of [end, next) make up that of      *)
(* [start, next), and, where the pages meet between two buckets, so do the   *)
(* series; the counts of a series are those of the rows of its range.        *)
PagesJoin ==
  call # None /\ call.what = "time_series" =>
    \A next \in {b \in Bounds : call.start <= call.end /\ call.end <= b} :
      LET page1 == Within(call.ids, call.start, call.end)
          page2 == Within(call.ids, call.end, next)
          both  == Within(call.ids, call.start, next)
          Count(S) == LET count[k \in 0 .. Len(S)] == IF k = 0 THEN 0 ELSE count[k - 1] + S[k].count
                      IN  count[Len(S)]
      IN  /\ page1 \cap page2 = {} /\ page1 \cup page2 = both
          /\ Count(answer) = Cardinality(page1)
          /\ call.end % call.width = 0 =>
               Buckets(both, call.width)
                 = {answer[k] : k \in DOMAIN answer} \cup Buckets(page2, call.width)
=============================================================================
