----------------------------- MODULE SoftDelete -----------------------------
(***************************************************************************)
(* Soft deletion (models/soft_delete.py): querysets that carry their scope *)
(* as one condition among those of the user, and instances that mark and   *)
(* unmark their own row from what they remember of it.                     *)
(*                                                                         *)
(* A condition is the set of rows it holds for.  A step is one link of a   *)
(* chain of queryset calls, or one statement to the database.  The time in *)
(* deleted_at is left out: a row is marked or not.                         *)
(***************************************************************************)
EXTENDS SequencesExt

CONSTANTS
  Id,
  Value,       \* the columns of the user
  Filter,      \* conditions of filter() and exclude(): sets of rows
  Query,       \* querysets under construction
  Handle,      \* instances of the model
  MaxObjects,  \* the longest _q_objects a filter starts from
  Purging,     \* the modes of the querysets that hard_delete() is called on
  None

VARIABLES
  row,       \* the table
  asked,     \* history: what the calls of a chain have asked for, see Trash
  query,     \* the queryset at the end of each chain
  inst,      \* each instance: the row it was loaded from, as it is in memory
  outdated   \* history: instances whose deleted_at others changed in the table, or whose save failed

vars == <<row, asked, query, inst, outdated>>

Promise == INSTANCE Trash

Row == [deleted : BOOLEAN, val : Value]
Live == {r \in Row : ~r.deleted}
Dead == {r \in Row : r.deleted}

ASSUME SoftDeleteAssumption ==
  Filter \subseteq SUBSET Row /\ None \notin Row /\ Purging \subseteq {0, 1, 2}

QuerySet == [objects : Seq(SUBSET Row), index : Nat, mode : {0, 1, 2}]
Instance == [id : Id, deleted : BOOLEAN, val : Value, at : {"idle", "delete", "restore"}]

TypeOK ==
  /\ row \in [Id -> Row \cup {None}]
  /\ asked \in [Query -> Promise!Asked]
  /\ query \in [Query -> QuerySet]
  /\ inst \in [Handle -> Instance \cup {None}]
  /\ outdated \subseteq Handle

-----------------------------------------------------------------------------
(* Querysets: _q_objects, _sd_index (0 when it is None) and _sd_mode         *)

Fresh == [objects |-> <<Live>>, index |-> 1, mode |-> 0]

\* Mutant: the clone a filter returns starts from the default mode.
FilteredAfresh(qs, f) == [qs EXCEPT !.objects = Append(@, f), !.mode = 0]

Filtered(qs, f) == [qs EXCEPT !.objects = Append(@, f)]

WithDeleted(qs) ==
  [objects |-> IF qs.index = 0 THEN qs.objects ELSE RemoveAt(qs.objects, qs.index),
   index |-> 0, mode |-> 1]

OnlyDeleted(qs) ==
  IF qs.index = 0
  THEN [objects |-> Append(qs.objects, Dead), index |-> Len(qs.objects) + 1, mode |-> 2]
  ELSE [qs EXCEPT !.objects[qs.index] = Dead, !.mode = 2]

Stored == {i \in Id : row[i] # None}
Matched(qs) == {i \in Stored : \A n \in DOMAIN qs.objects : row[i] \in qs.objects[n]}

Init ==
  /\ row = [i \in Id |-> None]
  /\ asked = [q \in Query |-> Promise!Everything]
  /\ query = [q \in Query |-> Fresh]
  /\ inst = [h \in Handle |-> None]
  /\ outdated = {}

Chain(q, qs, a) ==
  /\ query' = [query EXCEPT ![q] = qs]
  /\ asked' = [asked EXCEPT ![q] = a]
  /\ UNCHANGED <<row, inst, outdated>>

\* Model.all(), and the start of Model.filter(), get(), with_deleted() and the others.
all(q) == Chain(q, Fresh, Promise!Everything)

filter(q) ==
  /\ Len(query[q].objects) <= MaxObjects
  /\ \E f \in Filter : Chain(q, Filtered(query[q], f), [asked[q] EXCEPT !.filters = @ \cup {f}])

with_deleted(q) == Chain(q, WithDeleted(query[q]), [asked[q] EXCEPT !.scope = "all"])
only_deleted(q) == Chain(q, OnlyDeleted(query[q]), [asked[q] EXCEPT !.scope = "deleted"])

\* A statement leaves the table as it says; who remembers another deleted_at is outdated by it.
Mark(r) == r # None /\ r.deleted
Outdated(h) == inst[h] # None /\ Mark(row'[inst[h].id]) # Mark(row[inst[h].id])

Change(S, to) ==
  /\ row' = [i \in Id |-> IF i \in S THEN to[row[i]] ELSE row[i]]
  /\ outdated' = outdated \cup {h \in Handle : Outdated(h)}
  /\ UNCHANGED <<asked, query, inst>>

update(q, v) == Change(Matched(query[q]), Promise!Revalued(v))

delete(q) ==
  IF query[q].mode = 0
  THEN Change(Matched(query[q]), Promise!Marked)
  ELSE Change(Matched(query[q]), Promise!Gone)

restore(q) == Change(Matched(OnlyDeleted(query[q])), Promise!Unmarked)

\* with_deleted() takes an only_deleted() back: the deletion takes live rows as well.
hard_delete(q) ==
  /\ query[q].mode \in Purging
  /\ Change(Matched(WithDeleted(query[q])), Promise!Gone)

-----------------------------------------------------------------------------
(* Instances                                                                 *)

Idle(h) == inst[h] # None => inst[h].at = "idle"

Hold(h, i, r) ==
  /\ inst' = [inst EXCEPT ![h] = [id |-> i, deleted |-> r.deleted, val |-> r.val, at |-> "idle"]]
  /\ outdated' = outdated \ {h}

\* A new row has a new key.
Create(h, i, v) ==
  /\ Idle(h)
  /\ row[i] = None /\ \A g \in Handle : inst[g] # None => inst[g].id # i
  /\ row' = [row EXCEPT ![i] = [deleted |-> FALSE, val |-> v]]
  /\ Hold(h, i, row'[i])
  /\ UNCHANGED <<asked, query>>

\* Mutant: only() leaves deleted_at out of the instance.
FetchWithoutMark(q, h) ==
  /\ Idle(h)
  /\ \E i \in Matched(query[q]) : Hold(h, i, [row[i] EXCEPT !.deleted = FALSE])
  /\ UNCHANGED <<row, asked, query>>

\* get() and get_or_none(), or one of the rows of a list.
Fetch(q, h) ==
  /\ Idle(h)
  /\ \E i \in Matched(query[q]) : Hold(h, i, row[i])
  /\ UNCHANGED <<row, asked, query>>

Assign(h, v) ==
  /\ inst[h] # None
  /\ inst' = [inst EXCEPT ![h].val = v]
  /\ UNCHANGED <<row, asked, query, outdated>>

\* delete() and restore() return at once when the instance is as they would leave it.
Remember(h, mark, label) ==
  /\ inst[h] # None /\ inst[h].at = "idle"
  /\ inst[h].deleted # mark
  /\ inst' = [inst EXCEPT ![h].deleted = mark, ![h].at = label]
  /\ UNCHANGED <<row, asked, query, outdated>>

Delete(h) == Remember(h, TRUE, "delete")
Restore(h) == Remember(h, FALSE, "restore")

\* An UPDATE of a row that is gone changes nothing.
Update(h, r) ==
  /\ row' = [row EXCEPT ![inst[h].id] = IF @ = None THEN None ELSE r]
  /\ outdated' = (outdated \cup {g \in Handle : Outdated(g)}) \ {h}
  /\ inst' = [inst EXCEPT ![h].at = "idle"]
  /\ UNCHANGED <<asked, query>>

\* Mutant: save(update_fields=[...]) names another column.
WriteMarkElsewhere(h) ==
  /\ inst[h] # None /\ inst[h].at \in {"delete", "restore"}
  /\ Update(h, [row[inst[h].id] EXCEPT !.val = inst[h].val])

\* save(update_fields=["deleted_at"])
WriteMark(h) ==
  /\ inst[h] # None /\ inst[h].at \in {"delete", "restore"}
  /\ Update(h, [row[inst[h].id] EXCEPT !.deleted = inst[h].deleted])

\* The statement or the task fails: the instance keeps the mark, the row need not have it.
WriteMarkFails(h) ==
  /\ inst[h] # None /\ inst[h].at \in {"delete", "restore"}
  /\ inst' = [inst EXCEPT ![h].at = "idle"]
  /\ outdated' = outdated \cup {h}
  /\ UNCHANGED <<row, asked, query>>

\* A plain save() writes every column as the instance remembers it.
Save(h) ==
  /\ inst[h] # None /\ inst[h].at = "idle"
  /\ Update(h, [deleted |-> inst[h].deleted, val |-> inst[h].val])

Next ==
  \/ \E q \in Query : \/ all(q) \/ filter(q) \/ with_deleted(q) \/ only_deleted(q)
                      \/ delete(q) \/ restore(q) \/ hard_delete(q)
                      \/ \E v \in Value : update(q, v)
                      \/ \E h \in Handle : Fetch(q, h)
  \/ \E h \in Handle : \/ Delete(h) \/ Restore(h) \/ WriteMark(h) \/ WriteMarkFails(h) \/ Save(h)
                       \/ \E v \in Value : Assign(h, v) \/ \E i \in Id : Create(h, i, v)

Spec == Init /\ [][Next]_vars

-----------------------------------------------------------------------------
(* Properties                                                                *)

(* Whatever chain of filters, with_deleted() and only_deleted() a queryset   *)
(* is the end of, delete(), restore(), hard_delete() and update() change the *)
(* rows the chain asked for and no other, and delete() purges exactly when   *)
(* the last opt-out is in force: the place of the scope in _q_objects is     *)
(* never that of a filter of the user.  It is so as long as hard_delete() is *)
(* not called after only_deleted().                                          *)
ImplementsTrash == Promise!Spec

(* delete() and restore() of an instance return without a statement when the *)
(* instance is marked already.  Then the row is, too - unless the mark was   *)
(* changed behind the back of the instance, or its own statement failed,     *)
(* after which calling again does not help.                                  *)
MemoryAgrees ==
  \A h \in Handle \ outdated :
    inst[h] # None /\ inst[h].at = "idle" /\ row[inst[h].id] # None
      => inst[h].deleted = row[inst[h].id].deleted

(* A deleted row comes back, and a live row is marked, only by a call that   *)
(* says so, or when an outdated instance of the row is saved as a whole.     *)
MarksChangeOnPurpose ==
  [][\A i \in Id : row[i] # None /\ row'[i] # None /\ row'[i].deleted # row[i].deleted =>
       \/ \E q \in Query : IF row[i].deleted THEN restore(q) ELSE delete(q)
       \/ \E h \in Handle :
            /\ inst[h] # None /\ inst[h].id = i
            /\ \/ inst[h].at = IF row[i].deleted THEN "restore" ELSE "delete"
               \/ h \in outdated]_vars
=============================================================================
