-------------------------- MODULE StreamTableProofs --------------------------
(* Proofs about StreamTable, for any number of processes, whatever their     *)
(* classes ask for, and for every bound on losses and interventions.         *)
EXTENDS StreamTable, TLAPS

Statement == Step \ {"has_dimension", "is_compressed"}

\* What the steps that lie behind a label of setup() have left on the table.
DimensionOf(p) == IF p \in Partitioned THEN {"dimension"} ELSE {}

CompressionOf(p) == IF p \in Compressed THEN {"columnstore", "compression"} ELSE {}

Behind(p, label) ==
  CASE label \in {"has_dimension", "dimension"} -> {"hypertable"}
    [] label = "index" -> {"hypertable"} \cup DimensionOf(p)
    [] label \in {"is_compressed", "columnstore"} -> {"hypertable", "index"} \cup DimensionOf(p)
    [] label = "compression" -> {"hypertable", "index", "columnstore"} \cup DimensionOf(p)
    [] label = "retention" -> {"hypertable", "index"} \cup DimensionOf(p) \cup CompressionOf(p)
    [] label = "up" -> Wanted(p)
    [] OTHER -> {}

Stages ==
  ~disturbed => "table" \in has /\ \A p \in Process : Behind(p, pc[p]) \subseteq has

\* A process that has lost the race does not send add_dimension again.
Races ==
  ~disturbed =>
    \A p \in Process :
      races[p] # 0 => races[p] = 1 /\ "dimension" \in has /\ pc[p] # "dimension"

StageInv == TypeOK /\ Stages /\ Races

LEMMA InitStage == Init => StageInv
  <1> SUFFICES ASSUME Init PROVE StageInv
    OBVIOUS
  <1>1. TypeOK
    <2>1. 0 \in 0..2 /\ 0 \in 0..MaxLost /\ 0 \in 0..MaxManaged
      BY StreamTableAssumption DEF StreamTableAssumption
    <2>2. rows \subseteq Pk BY StreamTableAssumption DEF StreamTableAssumption, Init
    <2> QED BY <2>1, <2>2 DEF Init, TypeOK, Feature
  <1>2. Stages BY DEF Init, Stages, Behind
  <1>3. Races BY DEF Init, Races
  <1> QED BY <1>1, <1>2, <1>3 DEF StageInv

-----------------------------------------------------------------------------
(* The order of the statements.                                              *)

\* What a statement needs lies behind it.
LEMMA NeedsAreBehind ==
  ASSUME NEW p \in Process, NEW f \in Statement
  PROVE  Needs(f) \subseteq Behind(p, f) \cup {"table"}
  BY DEF Statement, Step, Needs, Behind, DimensionOf

\* A statement that succeeds leaves behind the label that follows what belongs there.
LEMMA FollowingStage ==
  ASSUME NEW p \in Process, NEW f \in Statement
  PROVE  /\ Following(p)[f] \in Step \cup {"up"}
         /\ Following(p)[f] # "dimension"
         /\ Behind(p, Following(p)[f]) \subseteq Behind(p, f) \cup {f}
  <1> DEFINE D == {"hypertable", "dimension", "index", "columnstore", "compression",
                   "retention"}
  <1>1. f \in D BY DEF Statement, Step
  <1>2. CASE f \in {"hypertable", "dimension"}
    BY <1>1, <1>2 DEF Following, Behind, DimensionOf, Step
  <1>3. CASE f = "index"
    BY <1>1, <1>3 DEF Following, AfterIndex, AfterCompression, Behind, DimensionOf,
                      CompressionOf, Wanted, Step
  <1>4. CASE f \in {"columnstore", "compression"}
    BY <1>1, <1>4 DEF Following, AfterCompression, Behind, DimensionOf, CompressionOf,
                      Wanted, Step
  <1>5. CASE f = "retention"
    BY <1>1, <1>5 DEF Following, Behind, DimensionOf, CompressionOf, Wanted, Step
  <1> QED BY <1>1, <1>2, <1>3, <1>4, <1>5

\* Labels of one process that move while the catalog only grows keep the stages.
LEMMA GrowingStages ==
  ASSUME TypeOK, Stages, NEW p \in Process, NEW label,
         has \subseteq has', disturbed' = disturbed,
         pc' = [pc EXCEPT ![p] = label],
         ~disturbed => Behind(p, label) \subseteq has'
  PROVE  Stages'
  BY DEF TypeOK, Stages, Behind, Wanted, DimensionOf, CompressionOf

LEMMA GrowingRaces ==
  ASSUME TypeOK, Races, NEW p \in Process, NEW label,
         has \subseteq has', disturbed' = disturbed, races' = races,
         pc' = [pc EXCEPT ![p] = label],
         label = "dimension" => "dimension" \notin has
  PROVE  Races'
  BY DEF TypeOK, Races

-----------------------------------------------------------------------------
LEMMA SendStage ==
  ASSUME StageInv, NEW p \in Process, NEW f \in Statement, Send(p, f)
  PROVE  StageInv'
  <1> USE DEF StageInv
  <1>0. pc[p] = f /\ f \in Feature /\ f \in Step
    BY DEF Send, Statement, Step, Feature
  <1>1. CASE Refusal(f, f = "dimension", FALSE) = "none"
    <2>1. Succeed(p, f) /\ UNCHANGED <<rows, migration, marks, disturbed, bounds>>
      BY <1>1 DEF Send
    <2>2. TypeOK'
      BY <1>0, <2>1, FollowingStage DEF TypeOK, Succeed, Goto, marks, bounds
    <2>3. Stages'
      <3>1. has \subseteq has' /\ disturbed' = disturbed
        BY <2>1 DEF Succeed
      <3>2. ~disturbed => Behind(p, Following(p)[f]) \subseteq has'
        BY <1>0, <2>1, FollowingStage DEF Succeed, Stages
      <3> QED BY <2>1, <3>1, <3>2, GrowingStages DEF Succeed, Goto
    <2>4. Races'
      BY <2>1, FollowingStage, GrowingRaces DEF Succeed, Goto
    <2> QED BY <2>2, <2>3, <2>4
  <1>2. CASE Refusal(f, f = "dimension", FALSE) # "none"
    <2> DEFINE why == Refusal(f, f = "dimension", FALSE)
    <2>1. Refuse(p, why) /\ UNCHANGED <<rows, migration, marks, disturbed, bounds>>
      BY <1>2 DEF Send
    <2>2. why \in {"missing", "duplicate", "not_empty"}
      BY <1>2 DEF Refusal
    <2>3. TypeOK'
      <3>1. races' \in [Process -> 0..2]
        <4>1. races \in [Process -> 0..2] BY DEF TypeOK
        <4>2. CASE why = "duplicate" /\ races[p] < 2
          <5>1. races[p] + 1 \in 0..2 BY <4>1, <4>2
          <5>2. races' = [races EXCEPT ![p] = races[p] + 1] BY <2>1, <4>2 DEF Refuse
          <5> QED BY <4>1, <5>1, <5>2
        <4>3. CASE ~(why = "duplicate" /\ races[p] < 2)
          <5>1. races' = races BY <2>1, <4>3 DEF Refuse
          <5> QED BY <4>1, <5>1
        <4> QED BY <4>2, <4>3
      <3>2. /\ pc' = [pc EXCEPT ![p] = "failed"] /\ error' = [error EXCEPT ![p] = why]
            /\ UNCHANGED <<has, rows, migration, saved, dropped, disturbed, lost, managed>>
        BY <2>1 DEF Refuse, Goto, marks, bounds
      <3> QED BY <2>2, <3>1, <3>2 DEF TypeOK
    <2>4. Stages'
      BY <2>1, GrowingStages DEF Refuse, Goto, Behind
    <2>5. why = "duplicate" => f = "dimension" /\ "dimension" \in has
      BY DEF Refusal
    <2>6. Races'
      <3> SUFFICES ASSUME ~disturbed, NEW q \in Process, races'[q] # 0
                   PROVE  races'[q] = 1 /\ "dimension" \in has' /\ pc'[q] # "dimension"
        BY <2>1 DEF Races
      <3>1. has' = has /\ pc' = [pc EXCEPT ![p] = "failed"]
        BY <2>1 DEF Refuse, Goto
      <3>2. pc \in [Process -> Step \cup {"off", "failed", "up"}] /\ races \in [Process -> 0..2]
        BY DEF TypeOK
      <3>3. CASE q = p /\ why = "duplicate"
        <4>1. races[p] = 0 BY <1>0, <2>5, <3>3 DEF Races
        <4>2. races' = [races EXCEPT ![p] = races[p] + 1] BY <2>1, <3>3, <4>1 DEF Refuse
        <4>3. races'[q] = 1 BY <3>2, <3>3, <4>1, <4>2
        <4> QED BY <2>5, <3>1, <3>2, <3>3, <4>3
      <3>4. CASE ~(q = p /\ why = "duplicate")
        <4>1. races'[q] = races[q] BY <2>1, <3>2, <3>4 DEF Refuse
        <4>2. races[q] = 1 /\ "dimension" \in has /\ pc[q] # "dimension"
          BY <4>1 DEF Races
        <4> QED BY <3>1, <3>2, <4>1, <4>2
      <3> QED BY <3>3, <3>4
    <2> QED BY <2>3, <2>4, <2>6
  <1> QED BY <1>1, <1>2

LEMMA AskStage ==
  ASSUME StageInv, NEW p \in Process, HasDimension(p) \/ IsCompressionEnabled(p) \/ Start(p)
  PROVE  StageInv'
  <1> USE DEF StageInv
  <1>1. CASE HasDimension(p)
    <2>1. TypeOK' BY <1>1 DEF TypeOK, HasDimension, Goto, marks, bounds, Step
    <2>2. Stages'
      BY <1>1, GrowingStages DEF HasDimension, Goto, Stages, Behind, DimensionOf
    <2>3. Races' BY <1>1, GrowingRaces DEF HasDimension, Goto
    <2> QED BY <2>1, <2>2, <2>3
  <1>2. CASE IsCompressionEnabled(p)
    <2>1. TypeOK' BY <1>2 DEF TypeOK, IsCompressionEnabled, Goto, marks, bounds, Step
    <2>2. Stages'
      BY <1>2, GrowingStages DEF IsCompressionEnabled, Goto, Stages, Behind, DimensionOf
    <2>3. Races' BY <1>2, GrowingRaces DEF IsCompressionEnabled, Goto
    <2> QED BY <2>1, <2>2, <2>3
  <1>3. CASE Start(p)
    <2>1. TypeOK' BY <1>3 DEF TypeOK, Start, Goto, marks, bounds, Step
    <2>2. Stages' BY <1>3, GrowingStages DEF Start, Goto, Behind
    <2>3. Races' BY <1>3, GrowingRaces DEF Start, Goto
    <2> QED BY <2>1, <2>2, <2>3
  <1> QED BY <1>1, <1>2, <1>3

LEMMA LostStage ==
  ASSUME StageInv, NEW p \in Process, SetupLost(p)
  PROVE  StageInv'
  <1> USE DEF StageInv
  <1>1. has \subseteq has' /\ has' \subseteq Feature
    BY DEF SetupLost, TypeOK, Step, Feature
  <1>2. TypeOK'
    BY <1>1, StreamTableAssumption DEF TypeOK, SetupLost, Goto, LoseAnswer, marks, Step
  <1>3. Stages' BY <1>1, GrowingStages DEF SetupLost, Goto, Behind
  <1>4. Races' BY <1>1, GrowingRaces DEF SetupLost, Goto
  <1> QED BY <1>2, <1>3, <1>4

LEMMA IndexRaceStage ==
  ASSUME StageInv, NEW p \in Process, NEW q \in Process, IndexRace(p, q)
  PROVE  StageInv'
  <1> USE DEF StageInv
  <1>1. /\ pc' = [pc EXCEPT ![p] = AfterIndex(p), ![q] = "failed"]
        /\ has' = has \cup {"index"} /\ p # q /\ pc[p] = "index"
        /\ UNCHANGED <<races, disturbed>>
    BY DEF IndexRace
  <1>2. /\ AfterIndex(p) \in Step \cup {"up"} /\ AfterIndex(p) # "dimension"
        /\ Behind(p, AfterIndex(p)) \subseteq Behind(p, "index") \cup {"index"}
    <2>1. Following(p)["index"] = AfterIndex(p) /\ "index" \in Statement
      BY DEF Following, Statement, Step
    <2> QED BY <2>1, FollowingStage
  <1>3. TypeOK'
    <2>1. pc' \in [Process -> Step \cup {"off", "failed", "up"}]
      BY <1>1, <1>2 DEF TypeOK
    <2>2. error' \in [Process -> {"none", "lost", "missing", "not_empty", "duplicate", "raced"}]
      BY DEF TypeOK, IndexRace
    <2> QED BY <1>1, <2>1, <2>2 DEF TypeOK, IndexRace, marks, bounds, Feature
  <1>4. Stages'
    <2> SUFFICES ASSUME ~disturbed
                 PROVE  "table" \in has' /\ \A r \in Process : Behind(r, pc'[r]) \subseteq has'
      BY <1>1 DEF Stages, Behind, Wanted, DimensionOf, CompressionOf
    <2>1. "table" \in has' BY <1>1 DEF Stages
    <2>2. ASSUME NEW r \in Process PROVE Behind(r, pc'[r]) \subseteq has'
      <3>1. CASE r = p
        <4>1. pc'[r] = AfterIndex(p) BY <1>1, <3>1 DEF TypeOK
        <4>2. Behind(p, "index") \subseteq has BY <1>1 DEF Stages
        <4> QED BY <1>1, <1>2, <3>1, <4>1, <4>2
      <3>2. CASE r = q
        <4>1. pc'[r] = "failed" BY <1>1, <3>2 DEF TypeOK
        <4> QED BY <4>1 DEF Behind
      <3>3. CASE r # p /\ r # q
        <4>1. pc'[r] = pc[r] BY <1>1, <3>3 DEF TypeOK
        <4> QED BY <1>1, <4>1 DEF Stages
      <3> QED BY <3>1, <3>2, <3>3
    <2> QED BY <2>1, <2>2
  <1>5. Races'
    BY <1>1, <1>2 DEF TypeOK, Races
  <1> QED BY <1>3, <1>4, <1>5

-----------------------------------------------------------------------------
(* The steps of the others leave every setup() where it is.                  *)

LEMMA OthersStage ==
  ASSUME StageInv, TypeOK', UNCHANGED <<pc, races>>,
         disturbed' \/ (disturbed' = disturbed /\ has \subseteq has')
  PROVE  StageInv'
  <1>1. Stages'
    BY DEF StageInv, Stages, Behind, Wanted, DimensionOf, CompressionOf
  <1>2. Races'
    BY DEF StageInv, Races
  <1> QED BY <1>1, <1>2 DEF StageInv

LEMMA MigrationStage ==
  ASSUME StageInv, MigrationStep \/ MigrateLost \/ BeginBackward \/ Backward
  PROVE  StageInv'
  <1> USE DEF StageInv
  <1>1. CASE BeginMigration
    <2>1. TypeOK' BY <1>1 DEF TypeOK, BeginMigration, marks, bounds
    <2> QED BY <1>1, <2>1, OthersStage DEF BeginMigration
  <1>2. ASSUME NEW f \in DOMAIN NextOf, Migrate(f) PROVE StageInv'
    <2>1. NextOf[f] \in {"interval", "view", "refresh", "applied"} /\ f \in Feature
      BY <1>2 DEF NextOf, AfterHypertable, Feature
    <2>2. TypeOK' BY <1>2, <2>1 DEF TypeOK, Migrate, marks, bounds
    <2> QED BY <1>2, <2>2, OthersStage DEF Migrate
  <1>3. CASE MigrateLost
    <2>1. has \subseteq has' /\ has' \subseteq Feature
      BY <1>3 DEF TypeOK, MigrateLost, NextOf, Feature
    <2>2. lost' \in 0..MaxLost
      BY <1>3, StreamTableAssumption DEF TypeOK, MigrateLost, LoseAnswer
    <2>3. TypeOK'
      BY <1>3, <2>1, <2>2 DEF TypeOK, MigrateLost, marks
    <2> QED BY <1>3, <2>1, <2>3, OthersStage DEF MigrateLost
  <1>4. CASE BeginBackward
    <2>1. TypeOK' BY <1>4, StreamTableAssumption DEF TypeOK, BeginBackward, Manage, marks
    <2> QED BY <1>4, <2>1, OthersStage DEF BeginBackward
  <1>5. CASE Backward
    <2>1. TypeOK' BY <1>5 DEF TypeOK, Backward, marks, bounds
    <2> QED BY <1>5, <2>1, OthersStage DEF Backward
  <1> QED BY <1>1, <1>2, <1>3, <1>4, <1>5 DEF MigrationStep

\* Every call of a manager adds one feature, or removes one and what goes with it.
LEMMA ManagerCalls ==
  /\ ManagerAdds => \E f \in Feature \ {"table"}, strict \in BOOLEAN : Adds(f, strict)
  /\ ManagerRemoves => \E f \in Feature, gone \in SUBSET Feature : f \in gone /\ Removes(f, gone)
  <1>1. ManagerAdds => \E f \in Feature \ {"table"}, strict \in BOOLEAN : Adds(f, strict)
    BY DEF ManagerAdds, create_hypertable, add_dimension, enable_compression,
           add_compression_policy, set_retention, create, set_refresh_policy, Feature
  <1>2. ManagerRemoves => \E f \in Feature, gone \in SUBSET Feature : f \in gone /\ Removes(f, gone)
    <2>1. \A f \in Feature : f \in Loses(f) /\ Loses(f) \in SUBSET Feature
      BY DEF Loses
    <2>2. /\ {"table", "columnstore", "compression", "retention", "view", "refresh"} \subseteq Feature
          /\ {"columnstore"} \in SUBSET Feature
      BY DEF Feature
    <2> QED
      BY <2>1, <2>2
      DEF ManagerRemoves, drop_hypertable, disable_compression, remove_compression_policy,
          remove_retention, drop, remove_refresh_policy
  <1> QED BY <1>1, <1>2

LEMMA ManagerStage ==
  ASSUME StageInv, ManagerAdds \/ ManagerRemoves
  PROVE  StageInv'
  <1> USE DEF StageInv
  <1>1. ASSUME NEW f \in Feature, NEW strict \in BOOLEAN, Adds(f, strict) PROVE StageInv'
    <2>1. TypeOK' BY <1>1, StreamTableAssumption DEF TypeOK, Adds, Manage, marks
    <2> QED BY <1>1, <2>1, OthersStage DEF Adds
  <1>2. ASSUME NEW f \in Feature, NEW gone \in SUBSET Feature, Removes(f, gone) PROVE StageInv'
    <2>1. has' \subseteq has /\ rows' \subseteq Pk
      BY <1>2 DEF TypeOK, Removes
    <2>2. managed' \in 0..MaxManaged
      BY <1>2, StreamTableAssumption DEF TypeOK, Removes, Manage
    <2>3. TypeOK'
      BY <1>2, <2>1, <2>2 DEF TypeOK, Removes, marks
    <2> QED BY <1>2, <2>3, OthersStage DEF Removes
  <1> QED BY <1>1, <1>2, ManagerCalls

LEMMA RowStage ==
  ASSUME StageInv, RowStep
  PROVE  StageInv'
  <1> USE DEF StageInv
  <1>1. ASSUME NEW batch \in SUBSET Instance, BulkInsert(batch) \/ BulkInsertLost(batch)
        PROVE  StageInv'
    <2>1. Copied(batch) \subseteq Pk
      BY <1>1, StreamTableAssumption
      DEF StreamTableAssumption, BulkInsert, BulkInsertLost, Copies, Insertable, Copied
    <2>2. TypeOK'
      BY <1>1, <2>1, StreamTableAssumption
      DEF TypeOK, BulkInsert, BulkInsertLost, LoseAnswer, marks, bounds
    <2> QED BY <1>1, <2>2, OthersStage DEF BulkInsert, BulkInsertLost
  <1>2. ASSUME NEW gone \in SUBSET Pk, DropOld(gone) PROVE StageInv'
    <2>1. TypeOK' BY <1>2 DEF TypeOK, DropOld, bounds
    <2> QED BY <1>2, <2>1, OthersStage DEF DropOld
  <1> QED BY <1>1, <1>2 DEF RowStep

LEMMA NextStage ==
  ASSUME StageInv, [Next]_vars
  PROVE  StageInv'
  <1>1. CASE UNCHANGED vars
    <2>1. TypeOK' BY <1>1 DEF StageInv, TypeOK, vars, marks, bounds
    <2> QED BY <1>1, <2>1, OthersStage DEF vars
  <1>2. CASE Next
    <2>1. ASSUME NEW p \in Process, ProcessStep(p) PROVE StageInv'
      BY <2>1, SendStage, AskStage, LostStage, IndexRaceStage
      DEF ProcessStep, SetupStep, Statement
    <2> QED BY <1>2, <2>1, MigrationStage, ManagerStage, RowStage DEF Next
  <1> QED BY <1>1, <1>2

LEMMA StageInvariant == Spec => []StageInv
  BY InitStage, NextStage, PTL DEF Spec

-----------------------------------------------------------------------------
(* The errors that a start reports.                                          *)

\* A statement that is sent finds what it needs.
LEMMA NothingIsMissing ==
  ASSUME StageInv, ~disturbed, NEW p \in Process, NEW f \in Statement, pc[p] = f
  PROVE  Needs(f) \subseteq has
  BY NeedsAreBehind DEF StageInv, Stages

\* Steps that report no error.
LEMMA QuietErrors ==
  ASSUME SentInOrder, error' = error, disturbed' = disturbed \/ disturbed'
  PROVE  SentInOrder'
  BY DEF SentInOrder

LEMMA NextErrors ==
  ASSUME StageInv, SentInOrder, [Next]_vars
  PROVE  SentInOrder'
  <1>1. ASSUME NEW p \in Process, NEW f \in Statement, Send(p, f)
        PROVE  SentInOrder'
    <2> DEFINE why == Refusal(f, f = "dimension", FALSE)
    <2>1. CASE why = "none"
      <3>1. Succeed(p, f) /\ UNCHANGED disturbed BY <1>1, <2>1 DEF Send
      <3> QED BY <3>1, QuietErrors DEF Succeed
    <2>2. CASE why # "none"
      <3>1. Refuse(p, why) /\ UNCHANGED disturbed BY <1>1, <2>2 DEF Send
      <3>2. ~disturbed => why # "missing"
        <4>1. pc[p] = f BY <1>1 DEF Send
        <4>2. ~disturbed => Needs(f) \subseteq has BY <4>1, NothingIsMissing
        <4> QED BY <4>2 DEF Refusal
      <3>3. error' = [error EXCEPT ![p] = why] /\ error \in [Process ->
              {"none", "lost", "missing", "not_empty", "duplicate", "raced"}]
        BY <3>1 DEF Refuse, StageInv, TypeOK
      <3> QED BY <3>1, <3>2, <3>3 DEF SentInOrder
    <2> QED BY <2>1, <2>2
  <1>2. ASSUME NEW p \in Process, SetupLost(p)
        PROVE  SentInOrder'
    BY <1>2 DEF SetupLost, SentInOrder, StageInv, TypeOK
  <1>3. ASSUME NEW p \in Process, NEW q \in Process, IndexRace(p, q)
        PROVE  SentInOrder'
    BY <1>3 DEF IndexRace, SentInOrder, StageInv, TypeOK
  <1>4. ASSUME NEW p \in Process, HasDimension(p) \/ IsCompressionEnabled(p) \/ Start(p)
        PROVE  SentInOrder'
    BY <1>4, QuietErrors DEF HasDimension, IsCompressionEnabled, Start
  <1>5. ASSUME RowStep PROVE SentInOrder'
    BY <1>5, QuietErrors DEF RowStep, BulkInsert, BulkInsertLost, DropOld
  <1>6. ASSUME MigrationStep \/ MigrateLost \/ BeginBackward \/ Backward
        PROVE  SentInOrder'
    BY <1>6, QuietErrors
    DEF MigrationStep, BeginMigration, Migrate, MigrateLost, BeginBackward, Backward
  <1>7. ASSUME ManagerAdds PROVE SentInOrder'
    <2>1. PICK f \in Feature \ {"table"}, strict \in BOOLEAN : Adds(f, strict)
      BY <1>7, ManagerCalls
    <2> QED BY <2>1, QuietErrors DEF Adds
  <1>8. ASSUME ManagerRemoves PROVE SentInOrder'
    <2>1. PICK f \in Feature, gone \in SUBSET Feature : Removes(f, gone)
      BY <1>8, ManagerCalls
    <2> QED BY <2>1, QuietErrors DEF Removes
  <1>9. ASSUME UNCHANGED vars PROVE SentInOrder'
    BY <1>9, QuietErrors DEF vars
  <1>10. ASSUME NEW p \in Process, ProcessStep(p) PROVE SentInOrder'
    BY <1>1, <1>2, <1>3, <1>4, <1>10 DEF ProcessStep, SetupStep, Statement
  <1> QED BY <1>5, <1>6, <1>7, <1>8, <1>9, <1>10 DEF Next

-----------------------------------------------------------------------------
(* The marks of bulk_insert.                                                 *)

LEMMA QuietMarks ==
  ASSUME SavedHaveRows, UNCHANGED marks, rows \subseteq rows',
         "table" \in has' => "table" \in has
  PROVE  SavedHaveRows'
  BY DEF SavedHaveRows, marks

LEMMA NextMarks ==
  ASSUME SavedHaveRows, [Next]_vars
  PROVE  SavedHaveRows'
  <1>1. ASSUME NEW batch \in SUBSET Instance, BulkInsert(batch)
        PROVE  SavedHaveRows'
    <2>1. has' = has /\ rows' = rows \cup Copied(batch)
      BY <1>1 DEF BulkInsert
    <2>2. saved' \ dropped' \subseteq (saved \ dropped) \cup batch
      BY <1>1 DEF BulkInsert
    <2>3. \A i, j \in batch : PkOf[i] = PkOf[j] => i = j
      BY <1>1 DEF BulkInsert, Copies
    <2>4. \A i \in batch : PkOf[i] \in Copied(batch) /\ PkOf[i] \notin rows
      BY <1>1 DEF BulkInsert, Copies, Copied
    <2> QED BY <2>1, <2>2, <2>3, <2>4 DEF SavedHaveRows
  <1>2. ASSUME NEW batch \in SUBSET Instance, BulkInsertLost(batch)
        PROVE  SavedHaveRows'
    BY <1>2, QuietMarks DEF BulkInsertLost
  <1>3. ASSUME NEW gone \in SUBSET Pk, DropOld(gone)
        PROVE  SavedHaveRows'
    <2>1. /\ UNCHANGED <<has, saved>> /\ rows' = rows \ gone
          /\ dropped' = dropped \cup {i \in saved : PkOf[i] \in gone}
      BY <1>3 DEF DropOld
    <2>2. \A i \in saved' \ dropped' : i \in saved \ dropped /\ PkOf[i] \notin gone
      BY <2>1
    <2> QED BY <2>1, <2>2 DEF SavedHaveRows
  <1>4. ASSUME NEW p \in Process, ProcessStep(p)
        PROVE  SavedHaveRows'
    <2>1. UNCHANGED <<rows, marks>>
      BY <1>4 DEF ProcessStep, Start, SetupStep, SetupLost, Send, HasDimension,
                  IsCompressionEnabled, IndexRace
    <2>2. "table" \in has' => "table" \in has
      <3>1. ASSUME NEW f \in Step, Send(p, f) PROVE has' = has \/ has' = has \cup {f}
        BY <3>1 DEF Send, Succeed, Refuse
      <3>2. "table" \notin Step BY DEF Step
      <3>3. CASE SetupStep(p)
        BY <3>1, <3>2, <3>3 DEF SetupStep, HasDimension, IsCompressionEnabled
      <3>4. CASE SetupLost(p)
        BY <3>2, <3>4 DEF SetupLost
      <3>5. CASE Start(p) \/ \E q \in Process : IndexRace(p, q)
        BY <3>5 DEF Start, IndexRace
      <3> QED BY <1>4, <3>3, <3>4, <3>5 DEF ProcessStep
    <2> QED BY <2>1, <2>2, QuietMarks
  <1>5. CASE MigrationStep \/ MigrateLost \/ BeginBackward \/ Backward
    <2>1. UNCHANGED <<rows, marks>>
      BY <1>5 DEF MigrationStep, BeginMigration, Migrate, MigrateLost, BeginBackward, Backward
    <2>2. "table" \in has' => "table" \in has
      <3>1. "table" \notin DOMAIN NextOf BY DEF NextOf
      <3>2. ASSUME NEW f \in DOMAIN NextOf, Migrate(f) PROVE has' = has \/ has' = has \cup {f}
        BY <3>2 DEF Migrate
      <3> QED
        BY <1>5, <3>1, <3>2 DEF MigrationStep, BeginMigration, MigrateLost, BeginBackward,
                                Backward
    <2> QED BY <2>1, <2>2, QuietMarks
  <1>6. CASE ManagerAdds
    <2>1. PICK f \in Feature \ {"table"}, strict \in BOOLEAN : Adds(f, strict)
      BY <1>6, ManagerCalls
    <2> QED BY <2>1, QuietMarks DEF Adds
  <1>7. CASE ManagerRemoves
    <2>1. PICK f \in Feature, gone \in SUBSET Feature : f \in gone /\ Removes(f, gone)
      BY <1>7, ManagerCalls
    <2>2. f = "table" => "table" \notin has'
      BY <2>1 DEF Removes
    <2> QED BY <2>1, <2>2 DEF Removes, SavedHaveRows, marks
  <1>8. CASE UNCHANGED vars
    BY <1>8, QuietMarks DEF vars
  <1> QED
    BY <1>1, <1>2, <1>3, <1>4, <1>5, <1>6, <1>7, <1>8 DEF Next, RowStep

-----------------------------------------------------------------------------
\* The catalog, the rows and every setup() and migration stay what they are declared
\* to be, whoever sends which statement.
THEOREM TypeCorrect == Spec => []TypeOK
  BY StageInvariant, PTL DEF StageInv

\* A setup() that has returned has left the table as its class wants it, for any number
\* of processes of any versions, while nothing is taken away.
THEOREM UpIsConfigured == Spec => []UpMeansConfigured
  <1>1. StageInv => UpMeansConfigured
    BY DEF StageInv, Stages, UpMeansConfigured, Behind
  <1> QED BY <1>1, StageInvariant, PTL

\* No process loses the race for the dimension twice.
THEOREM RaceIsLostOnce == Spec => []RaceLostOnce
  <1>1. ASSUME StageInv PROVE RaceLostOnce
    <2> SUFFICES ASSUME ~disturbed, NEW p \in Process PROVE races[p] < 2
      BY DEF RaceLostOnce
    <2>1. races[p] \in 0..2 BY <1>1 DEF StageInv, TypeOK
    <2>2. races[p] # 0 => races[p] = 1 BY <1>1 DEF StageInv, Races
    <2> QED BY <2>1, <2>2
  <1> QED BY <1>1, StageInvariant, PTL

\* Every statement of setup() finds what it needs: however many processes of whatever
\* versions start at once, over rows or none, and whatever they left half done, no start
\* fails for want of a feature that an earlier statement should have added.
THEOREM StatementsInOrder == Spec => []SentInOrder
  <1>1. Init => SentInOrder
    BY DEF Init, SentInOrder
  <1>2. StageInv /\ SentInOrder /\ [Next]_vars => SentInOrder'
    BY NextErrors
  <1> QED BY <1>1, <1>2, StageInvariant, PTL DEF Spec

\* What bulk_insert marks as saved is in the table, one instance to a row, until the
\* retention policy drops the row or somebody drops the table.
THEOREM SavedInstancesHaveRows == Spec => []SavedHaveRows
  <1>1. Init => SavedHaveRows
    BY DEF Init, SavedHaveRows
  <1> QED BY <1>1, NextMarks, PTL DEF Spec
=============================================================================
