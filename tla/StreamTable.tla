----------------------------- MODULE StreamTable -----------------------------
(***************************************************************************)
(* The TimescaleDB table behind one BaseEventStreamModel: the setup() that *)
(* every application process calls when it starts, the migration           *)
(* operations of migrations/operations.py, the calls of the managers of    *)
(* timescale/ by an operator, the retention policy, and bulk_insert(), which *)
(* asks nobody whether setup() has returned.                               *)
(*                                                                         *)
(* No transaction spans two of the statements, and none of these actors    *)
(* knows of the others.  A step is one statement sent to the server.       *)
(***************************************************************************)
EXTENDS Naturals

CONSTANTS
  Process,      \* application processes that share the table
  Partitioned,  \* processes whose class has number_partitions
  Compressed,   \* processes whose class has compress_after
  Retained,     \* processes whose class has drop_after
  OwnInterval,  \* whether the migration asks for a chunk interval other than 7 days
  StartRows,    \* the rows the table may have when the first process starts
  Instance,     \* instances of the model, unsaved at first
  Pk,           \* values of the table's primary key, with its time and stream columns
  PkOf,         \* [Instance -> Pk \cup {NoPk}]
  Explicit,     \* instances that set the columns that have a db_default
  NoPk,
  MaxLost,      \* bound: statements whose answer is lost
  MaxManaged    \* bound: backward migrations and calls of a manager by an operator

ASSUME StreamTableAssumption ==
  /\ Partitioned \subseteq Process /\ Compressed \subseteq Process
  /\ Retained \subseteq Process
  /\ OwnInterval \in BOOLEAN
  /\ NoPk \notin Pk /\ StartRows \subseteq SUBSET Pk
  /\ PkOf \in [Instance -> Pk \cup {NoPk}]
  /\ Explicit \subseteq Instance
  /\ MaxLost \in Nat /\ MaxManaged \in Nat

VARIABLES
  has,        \* the catalog: what the table has
  rows,       \* the primary keys of its rows
  pc,         \* the next statement of each process's setup()
  error,      \* why the last setup() of each process raised
  races,      \* history: how often each process found its dimension added, 2 = more
  migration,  \* the next statement of the migration, or where it stands
  saved,      \* instances with _saved_in_db
  dropped,    \* history: of these, the ones whose row the retention policy has dropped
  disturbed,  \* history: whether something was taken away from the table
  lost, managed

marks == <<saved, dropped>>
bounds == <<lost, managed>>
vars == <<has, rows, pc, error, races, migration, marks, disturbed, bounds>>

Feature == {"table", "hypertable", "interval", "dimension", "index", "columnstore",
            "compression", "retention", "view", "refresh"}

\* What the server wants a table to have before a feature is added to it.
Needs(f) ==
  CASE f = "table" -> {}
    [] f \in {"hypertable", "index"} -> {"table"}
    [] f = "compression" -> {"table", "hypertable", "columnstore"}
    [] f = "refresh" -> {"table", "hypertable", "view"}
    [] OTHER -> {"table", "hypertable"}

\* What goes with a feature when it is removed.
Loses(f) == {f} \cup {g \in Feature : f \in Needs(g)}

Step == {"hypertable", "has_dimension", "dimension", "index", "is_compressed",
         "columnstore", "compression", "retention"}

TypeOK ==
  /\ has \subseteq Feature
  /\ rows \subseteq Pk
  /\ pc \in [Process -> Step \cup {"off", "failed", "up"}]
  /\ error \in [Process -> {"none", "lost", "missing", "not_empty", "duplicate", "raced"}]
  /\ races \in [Process -> 0..2]
  /\ migration \in {"off", "hypertable", "interval", "view", "refresh", "applied",
                    "drop_view", "drop_hypertable"}
  /\ saved \subseteq Instance
  /\ dropped \subseteq saved
  /\ disturbed \in BOOLEAN
  /\ lost \in 0..MaxLost
  /\ managed \in 0..MaxManaged

\* The schema has made the table, with the composite primary key.
Init ==
  /\ has = {"table"}
  /\ rows \in StartRows
  /\ pc = [p \in Process |-> "off"]
  /\ error = [p \in Process |-> "none"]
  /\ races = [p \in Process |-> 0]
  /\ migration = "off"
  /\ saved = {}
  /\ dropped = {}
  /\ disturbed = FALSE
  /\ lost = 0
  /\ managed = 0

-----------------------------------------------------------------------------
(* A statement that adds a feature: strict without if_not_exists, and moving   *)
(* when it may move the rows that are there (migrate_data).                    *)

Refusal(f, strict, moving) ==
  IF ~(Needs(f) \subseteq has) THEN "missing"
  ELSE IF f \in has THEN (IF strict THEN "duplicate" ELSE "none")
  ELSE IF f \in {"hypertable", "dimension"} /\ rows # {} /\ ~moving THEN "not_empty"
  ELSE "none"

LoseAnswer == lost < MaxLost /\ lost' = lost + 1

Manage == managed < MaxManaged /\ managed' = managed + 1

-----------------------------------------------------------------------------
(* setup(), one process at a time through its own statements.                  *)

Goto(p, label) == pc' = [pc EXCEPT ![p] = label]

AfterCompression(p) == IF p \in Retained THEN "retention" ELSE "up"

\* Mutant: the retention policy is nested under the compression settings.
AfterIndexNested(p) == IF p \in Compressed THEN "is_compressed" ELSE "up"

AfterIndex(p) == IF p \in Compressed THEN "is_compressed" ELSE AfterCompression(p)

\* What follows a statement of setup() that succeeded.
Following(p) ==
  [f \in {"hypertable", "dimension", "index", "columnstore", "compression", "retention"} |->
     IF f = "hypertable" THEN (IF p \in Partitioned THEN "has_dimension" ELSE "index")
     ELSE IF f = "dimension" THEN "index"
     ELSE IF f = "index" THEN AfterIndex(p)
     ELSE IF f = "columnstore" THEN "compression"
     ELSE IF f = "compression" THEN AfterCompression(p)
     ELSE "up"]

\* An application start, the first one or the next after one that failed.
Start(p) ==
  /\ pc[p] \in {"off", "failed"}
  /\ Goto(p, "hypertable")
  /\ UNCHANGED <<has, rows, error, races, migration, marks, disturbed, bounds>>

\* The statement is refused: TimescaleError ends setup(), and the start with it.
Refuse(p, why) ==
  /\ Goto(p, "failed")
  /\ error' = [error EXCEPT ![p] = why]
  /\ races' = IF why = "duplicate" /\ races[p] < 2
                THEN [races EXCEPT ![p] = @ + 1] ELSE races
  /\ UNCHANGED has

Succeed(p, f) ==
  /\ has' = has \cup {f}
  /\ Goto(p, Following(p)[f])
  /\ UNCHANGED <<error, races>>

\* add_dimension is the one statement without an if_not_exists.
Send(p, f) ==
  /\ pc[p] = f
  /\ LET why == Refusal(f, f = "dimension", FALSE)
     IN  IF why = "none" THEN Succeed(p, f) ELSE Refuse(p, why)
  /\ UNCHANGED <<rows, migration, marks, disturbed, bounds>>

\* Mutant: no check before add_dimension.
HasDimensionAssumed(p) ==
  /\ pc[p] = "has_dimension"
  /\ Goto(p, "dimension")
  /\ UNCHANGED <<has, rows, error, races, migration, marks, disturbed, bounds>>

\* _has_dimension: the answer holds for the moment at which it was given.
HasDimension(p) ==
  /\ pc[p] = "has_dimension"
  /\ Goto(p, IF "dimension" \in has THEN "index" ELSE "dimension")
  /\ UNCHANGED <<has, rows, error, races, migration, marks, disturbed, bounds>>

\* Mutant: the policy is added without the compression it needs.
IsCompressionEnabledAssumed(p) ==
  /\ pc[p] = "is_compressed"
  /\ Goto(p, "compression")
  /\ UNCHANGED <<has, rows, error, races, migration, marks, disturbed, bounds>>

\* _is_compression_enabled.
IsCompressionEnabled(p) ==
  /\ pc[p] = "is_compressed"
  /\ Goto(p, IF "columnstore" \in has THEN "compression" ELSE "columnstore")
  /\ UNCHANGED <<has, rows, error, races, migration, marks, disturbed, bounds>>

\* Two CREATE INDEX IF NOT EXISTS under way at once: the server checks for the name before
\* it takes the lock, so the one that comes second may be refused by the catalog.
IndexRace(p, q) ==
  /\ p # q
  /\ pc[p] = "index" /\ pc[q] = "index"
  /\ "index" \notin has /\ Needs("index") \subseteq has
  /\ has' = has \cup {"index"}
  /\ pc' = [pc EXCEPT ![p] = AfterIndex(p), ![q] = "failed"]
  /\ error' = [error EXCEPT ![q] = "raced"]
  /\ UNCHANGED <<rows, races, migration, marks, disturbed, bounds>>

SetupStep(p) ==
  \/ \E f \in Step \ {"has_dimension", "is_compressed"} : Send(p, f)
  \/ HasDimension(p)
  \/ IsCompressionEnabled(p)

\* The process or its connection is gone; the server may have done the statement.
SetupLost(p) ==
  /\ pc[p] \in Step
  /\ LoseAnswer
  /\ \/ UNCHANGED has
     \/ /\ pc[p] \notin {"has_dimension", "is_compressed"}
        /\ Refusal(pc[p], pc[p] = "dimension", FALSE) = "none"
        /\ has' = has \cup {pc[p]}
  /\ Goto(p, "failed")
  /\ error' = [error EXCEPT ![p] = "lost"]
  /\ UNCHANGED <<rows, races, migration, marks, disturbed, managed>>

-----------------------------------------------------------------------------
(* The migration: CreateHypertable, then CreateContinuousAggregate.            *)

AfterHypertable == IF OwnInterval THEN "interval" ELSE "view"

NextOf == [f \in {"hypertable", "interval", "view", "refresh"} |->
             IF f = "hypertable" THEN AfterHypertable
             ELSE IF f = "interval" THEN "view"
             ELSE IF f = "view" THEN "refresh" ELSE "applied"]

BeginMigration ==
  /\ migration = "off"
  /\ migration' = "hypertable"
  /\ UNCHANGED <<has, rows, pc, error, races, marks, disturbed, bounds>>

\* Mutant: the refresh policy without if_not_exists, as in set_refresh_policy.
MigrateStrictly(f) ==
  /\ migration = f
  /\ IF Refusal(f, f = "refresh", TRUE) = "none"
       THEN has' = has \cup {f} /\ migration' = NextOf[f]
       ELSE migration' = "off" /\ UNCHANGED has
  /\ UNCHANGED <<rows, pc, error, races, marks, disturbed, bounds>>

\* run: each statement may find its work done already; a failure ends the migration.
Migrate(f) ==
  /\ migration = f
  /\ IF Refusal(f, FALSE, TRUE) = "none"
       THEN has' = has \cup {f} /\ migration' = NextOf[f]
       ELSE migration' = "off" /\ UNCHANGED has
  /\ UNCHANGED <<rows, pc, error, races, marks, disturbed, bounds>>

MigrateLost ==
  /\ migration \in DOMAIN NextOf
  /\ LoseAnswer
  /\ \/ UNCHANGED has
     \/ Refusal(migration, FALSE, TRUE) = "none" /\ has' = has \cup {migration}
  /\ migration' = "off"
  /\ UNCHANGED <<rows, pc, error, races, marks, disturbed, managed>>

MigrationStep == BeginMigration \/ \E f \in DOMAIN NextOf : Migrate(f)

\* database_backward of both operations, in the opposite order.
BeginBackward ==
  /\ migration = "applied"
  /\ Manage
  /\ migration' = "drop_view"
  /\ UNCHANGED <<has, rows, pc, error, races, marks, disturbed, lost>>

Backward ==
  /\ \/ migration = "drop_view" /\ has' = has \ Loses("view")
        /\ migration' = "drop_hypertable"
     \/ migration = "drop_hypertable" /\ has' = has \ Loses("hypertable")
        /\ migration' = "off"
  /\ disturbed' = TRUE
  /\ UNCHANGED <<rows, pc, error, races, marks, bounds>>

-----------------------------------------------------------------------------
(* Calls of the managers by an operator, with their default arguments; one     *)
(* that raises changes nothing.                                                *)

Adds(f, strict) ==
  /\ Manage
  /\ Refusal(f, strict, FALSE) = "none"
  /\ has' = has \cup {f}
  /\ UNCHANGED <<rows, pc, error, races, migration, marks, disturbed, lost>>

Removes(f, gone) ==
  /\ f \in has
  /\ Manage
  /\ has' = has \ gone
  /\ rows' = IF f = "table" THEN {} ELSE rows
  /\ disturbed' = TRUE
  /\ UNCHANGED <<pc, error, races, migration, marks, lost>>

create_hypertable == Adds("hypertable", FALSE)
add_dimension == Adds("dimension", TRUE)
enable_compression == Adds("columnstore", FALSE)
add_compression_policy == Adds("compression", FALSE)
set_retention == Adds("retention", FALSE)
create == Adds("view", TRUE)
set_refresh_policy == Adds("refresh", TRUE)

drop_hypertable == Removes("table", Loses("table"))
\* Whether the policy goes with the columnstore is up to the server.
disable_compression ==
  \E gone \in {Loses("columnstore"), {"columnstore"}} : Removes("columnstore", gone)
remove_compression_policy == Removes("compression", Loses("compression"))
remove_retention == Removes("retention", Loses("retention"))
drop == Removes("view", Loses("view"))
remove_refresh_policy == Removes("refresh", Loses("refresh"))

ManagerAdds ==
  \/ create_hypertable \/ add_dimension \/ enable_compression
  \/ add_compression_policy \/ set_retention \/ create \/ set_refresh_policy

ManagerRemoves ==
  \/ drop_hypertable \/ disable_compression \/ remove_compression_policy
  \/ remove_retention \/ drop \/ remove_refresh_policy

-----------------------------------------------------------------------------
(* bulk_insert, before, during or after a setup(), and the retention policy.    *)

Copied(batch) == {PkOf[i] : i \in batch}

\* What passes _assert_pk_present and _omit_db_default_fields.
Insertable(batch) ==
  /\ batch # {}
  /\ NoPk \notin Copied(batch)
  /\ batch \subseteq Explicit \/ batch \cap Explicit = {}

\* COPY inserts all rows of the batch or none: a key that is there refuses them all.
Copies(batch) ==
  /\ Insertable(batch)
  /\ "table" \in has
  /\ \A i, j \in batch : PkOf[i] = PkOf[j] => i = j
  /\ Copied(batch) \cap rows = {}

\* Mutant: instances are marked before the COPY, which may raise.
BulkInsertMarksFirst(batch) ==
  /\ Insertable(batch)
  /\ rows' = IF Copies(batch) THEN rows \cup Copied(batch) ELSE rows
  /\ saved' = saved \cup batch
  /\ dropped' = dropped \ batch
  /\ UNCHANGED <<has, pc, error, races, migration, disturbed, bounds>>

BulkInsert(batch) ==
  /\ Copies(batch)
  /\ rows' = rows \cup Copied(batch)
  /\ saved' = saved \cup batch
  /\ dropped' = dropped \ batch
  /\ UNCHANGED <<has, pc, error, races, migration, disturbed, bounds>>

\* The answer to the COPY is lost: no instance is marked, whatever was inserted.
BulkInsertLost(batch) ==
  /\ Copies(batch)
  /\ LoseAnswer
  /\ rows' \in {rows, rows \cup Copied(batch)}
  /\ UNCHANGED <<has, pc, error, races, migration, marks, disturbed, managed>>

\* The job of the policy drops the chunks that are older than drop_after.
DropOld(gone) ==
  /\ {"hypertable", "retention"} \subseteq has
  /\ gone # {} /\ gone \subseteq rows
  /\ rows' = rows \ gone
  /\ dropped' = dropped \cup {i \in saved : PkOf[i] \in gone}
  /\ UNCHANGED <<has, pc, error, races, migration, saved, disturbed, bounds>>

-----------------------------------------------------------------------------
ProcessStep(p) ==
  \/ Start(p) \/ SetupStep(p) \/ SetupLost(p)
  \/ \E q \in Process : IndexRace(p, q)

RowStep ==
  \/ \E batch \in SUBSET Instance : BulkInsert(batch) \/ BulkInsertLost(batch)
  \/ \E gone \in SUBSET Pk : DropOld(gone)

Next ==
  \/ \E p \in Process : ProcessStep(p)
  \/ RowStep
  \/ MigrationStep \/ MigrateLost \/ BeginBackward \/ Backward
  \/ ManagerAdds \/ ManagerRemoves

Spec == Init /\ [][Next]_vars

\* A process that has been started is started again until its setup() returns; the
\* server answers; a migration that failed is run again until it is applied.
Fairness ==
  /\ \A p \in Process :
       WF_vars(SetupStep(p)) /\ WF_vars(pc[p] = "failed" /\ Start(p))
  /\ WF_vars(MigrationStep)

FairSpec == Spec /\ Fairness
-----------------------------------------------------------------------------
\* What the class of a process asks for.
Wanted(p) ==
  {"hypertable", "index"}
    \cup (IF p \in Partitioned THEN {"dimension"} ELSE {})
    \cup (IF p \in Compressed THEN {"columnstore", "compression"} ELSE {})
    \cup (IF p \in Retained THEN {"retention"} ELSE {})

\* setup() returns only when the table has everything the class asks for, whichever
\* statements other processes, the migration and operators put in between, and
\* whatever earlier starts left half done - until somebody takes something away.
UpMeansConfigured ==
  \A p \in Process : pc[p] = "up" /\ ~disturbed => Wanted(p) \subseteq has

\* No statement of setup() is ever sent before what it needs is there, and no earlier
\* failure or other actor makes it so: while nothing is taken away, no start fails for
\* want of something that setup() itself should have seen to.
SentInOrder == ~disturbed => \A p \in Process : error[p] # "missing"

\* The check before add_dimension leaves a race, but a process loses it once at most:
\* the start that follows finds the dimension.
RaceLostOnce == ~disturbed => \A p \in Process : races[p] < 2

\* "Safe to call on every application start": a start fails only for want of an answer.
SafeOnEveryStart == ~disturbed => \A p \in Process : error[p] \in {"none", "lost"}

\* An instance is marked as saved only when its row is in the table, and no other
\* instance is marked for the same row; only the retention policy leaves marks of rows
\* that are gone, or that other instances have inserted since.
SavedHaveRows ==
  "table" \in has =>
    \A i \in saved \ dropped :
      PkOf[i] \in rows /\ \A j \in saved \ dropped : PkOf[i] = PkOf[j] => i = j

\* Rows that got in before the table was converted or partitioned: create_hypertable and
\* add_dimension, called without migrate_data, are refused for as long as they stay.
RowsInTheWay(p) ==
  /\ rows # {}
  /\ "hypertable" \notin has \/ (p \in Partitioned /\ "dimension" \notin has)

\* A process that is started gets through setup() in the end, and the migration is
\* applied, through races, lost answers and half-done earlier attempts - unless rows get
\* in its way.
EventuallyConfigured ==
  /\ \A p \in Process : pc[p] = "hypertable" ~> pc[p] = "up" \/ disturbed \/ RowsInTheWay(p)
  /\ <>(migration = "applied" \/ disturbed)

\* "Safe to call on every application start": starts that are repeated succeed in the end.
StartsGetThrough ==
  \A p \in Process : pc[p] = "hypertable" ~> pc[p] = "up" \/ disturbed
=============================================================================
