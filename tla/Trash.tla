-------------------------------- MODULE Trash --------------------------------
(***************************************************************************)
(* What a table with soft deletion promises, whatever its querysets are    *)
(* built from: a query asks for rows by filters and by a scope - the live  *)
(* rows, the deleted ones, or both - and an operation on it changes the    *)
(* rows asked for and no other.                                            *)
(***************************************************************************)

CONSTANTS
  Id,
  Value,   \* the columns of the user
  Filter,  \* conditions of filter() and exclude(): sets of rows
  Query,
  None

Row == [deleted : BOOLEAN, val : Value]
Live == {r \in Row : ~r.deleted}
Dead == {r \in Row : r.deleted}
Scopes == [live |-> Live, all |-> Row, deleted |-> Dead]
Asked == [filters : SUBSET Filter, scope : DOMAIN Scopes]

VARIABLES
  row,    \* the table
  asked   \* what each query asks for

Everything == [filters |-> {}, scope |-> "live"]

Init ==
  /\ row = [i \in Id |-> None]
  /\ asked = [q \in Query |-> Everything]

Stored == {i \in Id : row[i] # None}

Among(q, rows) == {i \in Stored : row[i] \in rows /\ \A f \in asked[q].filters : row[i] \in f}
Selected(q) == Among(q, Scopes[asked[q].scope])

-----------------------------------------------------------------------------
Ask(q, a) == asked' = [asked EXCEPT ![q] = a] /\ UNCHANGED row

Change(S, to) ==
  /\ row' = [i \in Id |-> IF i \in S THEN to[row[i]] ELSE row[i]]
  /\ UNCHANGED asked

Marked == [r \in Row |-> [r EXCEPT !.deleted = TRUE]]
Unmarked == [r \in Row |-> [r EXCEPT !.deleted = FALSE]]
Revalued(v) == [r \in Row |-> [r EXCEPT !.val = v]]
Gone == [r \in Row |-> None]

\* The rows of a live query are marked, those of any other are purged.
Delete(q) == Change(Selected(q), IF asked[q].scope = "live" THEN Marked ELSE Gone)

\* Whatever the scope is, restore() takes the deleted rows.
Restore(q) == Change(Among(q, Dead), Unmarked)

\* hard_delete() takes the rows asked for; those of a live query include the deleted ones.
HardDelete(q) ==
  Change(IF asked[q].scope = "live" THEN Among(q, Row) ELSE Selected(q), Gone)

Update(q, v) == Change(Selected(q), Revalued(v))

\* A row is inserted, or written by an instance.
Write(i, r) == row' = [row EXCEPT ![i] = r] /\ UNCHANGED asked

Next ==
  \/ \E q \in Query : \/ \E a \in Asked : Ask(q, a)
                      \/ Delete(q) \/ Restore(q) \/ HardDelete(q)
                      \/ \E v \in Value : Update(q, v)
  \/ \E i \in Id, r \in Row : Write(i, r)

Spec == Init /\ [][Next]_<<row, asked>>
=============================================================================
