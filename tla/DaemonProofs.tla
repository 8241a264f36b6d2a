------------------------------ MODULE DaemonProofs ------------------------------
(***************************************************************************)
(* The daemon's database and its start-up, for any set of scripts, any of  *)
(* which may fail, any number of lives, kills and packages.                *)
(***************************************************************************)
EXTENDS Daemon, WellFoundedInduction, TLAPS

\* The first script of those to do.
LEMMA Smallest ==
  ASSUME NEW todo0, todo0 \subseteq Nat, todo0 # {}
  PROVE  \E v \in todo0 : \A w \in todo0 : v <= w
<1> DEFINE less == {ss \in Nat \X Nat : ss[1] < ss[2]}
<1>1. IsWellFoundedOn(less, Nat)
  BY NatLessThanWellFounded DEF OpToRel
<1> HIDE DEF less
<1>2. PICK v \in todo0 : \A w \in todo0 : <<w, v>> \notin less
  BY <1>1, WFMin
<1>3. \A w \in todo0 : ~ (w < v)
  BY <1>2 DEF less
<1> QED
  BY <1>3

-------------------------------------------------------------------------------
(* The invariant *)

\* What the scripts of a package can be about.
ScriptTypes ==
  /\ dir \subseteq Version
  /\ package \in Schema!Packages
  /\ record \subseteq Version
  /\ effects \in [Version -> Nat]
  /\ schemaPc \in {"down", "loaded", "script", "recorded", "up", "failed"}
  /\ todo \subseteq Version
  /\ current \in Version \cup {Schema!None}

\* How far main has got says how far migrate has got.
PhaseInv ==
  /\ phase \in {"off", "config", "opening"} => schemaPc = "down"
  /\ phase \in {"validating", "reconciling", "collecting"} => schemaPc = "up"

\* What the open transaction holds, between its statements.
TxInv ==
  /\ schemaPc \notin {"script", "recorded"} => current = Schema!None /\ inTx = Schema!NoTx
  /\ schemaPc = "script" =>
       /\ current \in Version \ record
       /\ inTx = Schema!NoTx \/ inTx = [done |-> {current}, recorded |-> {}]
  /\ schemaPc = "recorded" =>
       /\ current \in Version \ record
       /\ inTx = [done |-> {current}, recorded |-> {current}]

\* What is left to do is what the package has and the table has not, and comes
\* after the script in hand.
TodoInv ==
  /\ schemaPc \in {"loaded", "up"} => dir \ record = todo
  /\ schemaPc \in {"script", "recorded"} =>
       /\ dir \ record = todo \cup {current}
       /\ \A w \in todo : current < w
  /\ schemaPc = "up" => todo = {}

SchemaInv == ScriptTypes /\ PhaseInv /\ TxInv /\ TodoInv /\ RecordIsTrue

USE DEF Schema!None, Schema!NoTx

LEMMA InitSchema == Init => SchemaInv
BY DaemonAssumption
   DEF Init, Schema!Init, SchemaInv, ScriptTypes, PhaseInv, TxInv, TodoInv,
       RecordIsTrue, Schema!RecordIsTrue

\* Steps that leave scripts and tables alone.
LEMMA CalmKeeps ==
  ASSUME SchemaInv, UNCHANGED schema, PhaseInv'
  PROVE  SchemaInv'
BY DEF SchemaInv, schema, ScriptTypes, TxInv, TodoInv, RecordIsTrue, Schema!RecordIsTrue

\* The end of the process, at whatever point.
LEMMA GoneKeeps ==
  ASSUME SchemaInv, Gone
  PROVE  SchemaInv'
BY DEF SchemaInv, Gone, Schema!Stop, Schema!Forget, Schema!scripts, Schema!schema,
       ScriptTypes, PhaseInv, TxInv, TodoInv, RecordIsTrue, Schema!RecordIsTrue

LEMMA RepackageKeeps ==
  ASSUME SchemaInv, Repackage
  PROVE  SchemaInv'
BY DEF SchemaInv, Repackage, loop, ScriptTypes, PhaseInv, TxInv, TodoInv,
       RecordIsTrue, Schema!RecordIsTrue

\* From one part of main to the next, which does not skip the migration.
LEMMA EnterKeeps ==
  ASSUME SchemaInv, NEW from, NEW to, NEW holds \in BOOLEAN, Enter(from, to, holds),
         \/ <<from, to>> \in {<<"config", "opening">>, <<"opening", "migrating">>,
                              <<"validating", "reconciling">>, <<"reconciling", "collecting">>}
         \/ from = "migrating" /\ to = "validating" /\ (holds => schemaPc = "up")
  PROVE  SchemaInv'
<1>1. CASE holds
  BY <1>1, CalmKeeps DEF Enter, schema, SchemaInv, PhaseInv
<1>2. CASE ~holds
  BY <1>2, GoneKeeps DEF Enter
<1> QED
  BY <1>1, <1>2

-------------------------------------------------------------------------------
(* migrate *)

\* One statement of migrate.
LEMMA MigrateKeeps ==
  ASSUME SchemaInv, Migrate
  PROVE  SchemaInv'
<1> USE DEF Schema!scripts, Schema!schema, Schema!memory
<1>1. phase' = phase /\ phase = "migrating"
  BY DEF Migrate
<1>2. PhaseInv'
  BY <1>1 DEF PhaseInv
<1>3. CASE Schema!Load
  BY <1>2, <1>3 DEF Schema!Load, SchemaInv, ScriptTypes, TxInv, TodoInv,
     RecordIsTrue, Schema!RecordIsTrue
<1>4. CASE Schema!LoadFails
  BY <1>2, <1>4 DEF Schema!LoadFails, SchemaInv, ScriptTypes, TxInv, TodoInv,
     RecordIsTrue, Schema!RecordIsTrue
<1>5. CASE Schema!Begin
  <2>1. \E v \in todo : \A w \in todo : v <= w
    BY <1>5, Smallest, DaemonAssumption DEF Schema!Begin, SchemaInv, ScriptTypes
  <2>2. current' \in todo /\ \A w \in todo : current' <= w
    BY <1>5, <2>1 DEF Schema!Begin
  <2>3. todo \subseteq Nat
    BY DaemonAssumption DEF SchemaInv, ScriptTypes
  <2>4. \A w \in todo' : current' < w
    <3>1. todo' = todo \ {current'}
      BY <1>5 DEF Schema!Begin
    <3> QED
      BY <2>2, <2>3, <3>1
  <2>5. ScriptTypes'
    BY <1>5, <2>2 DEF Schema!Begin, SchemaInv, ScriptTypes
  <2>6. TxInv' /\ TodoInv'
    BY <1>5, <2>2, <2>4 DEF Schema!Begin, SchemaInv, ScriptTypes, TxInv, TodoInv
  <2> QED
    BY <1>2, <1>5, <2>5, <2>6 DEF Schema!Begin, SchemaInv, RecordIsTrue, Schema!RecordIsTrue
<1>6. CASE Schema!RunScript
  BY <1>2, <1>6 DEF Schema!RunScript, SchemaInv, ScriptTypes, TxInv, TodoInv,
     RecordIsTrue, Schema!RecordIsTrue
<1>7. CASE Schema!InsertRecord
  BY <1>2, <1>7 DEF Schema!InsertRecord, SchemaInv, ScriptTypes, TxInv, TodoInv,
     RecordIsTrue, Schema!RecordIsTrue
<1>8. CASE Schema!Commit
  <2>1. /\ current \in Version \ record
        /\ inTx = [done |-> {current}, recorded |-> {current}]
    BY <1>8 DEF Schema!Commit, SchemaInv, TxInv
  <2>2. /\ record' = record \cup {current}
        /\ effects' = [v \in Version |-> IF v = current THEN effects[v] + 1 ELSE effects[v]]
    BY <1>8, <2>1 DEF Schema!Commit
  <2>3. ScriptTypes'
    BY <1>8, <2>1, <2>2 DEF Schema!Commit, SchemaInv, ScriptTypes
  <2>4. TxInv'
    BY <1>8 DEF Schema!Commit, TxInv
  <2>5. TodoInv'
    <3>1. current \notin todo
      BY <1>8, DaemonAssumption, <2>1 DEF Schema!Commit, SchemaInv, TodoInv
    <3> QED
      BY <1>8, <2>2, <3>1 DEF Schema!Commit, SchemaInv, TodoInv
  <2>6. RecordIsTrue'
    BY <2>1, <2>2 DEF SchemaInv, RecordIsTrue, Schema!RecordIsTrue
  <2> QED
    BY <1>2, <2>3, <2>4, <2>5, <2>6 DEF SchemaInv
<1>9. CASE Schema!Migrated
  BY <1>2, <1>9 DEF Schema!Migrated, SchemaInv, ScriptTypes, TxInv, TodoInv,
     RecordIsTrue, Schema!RecordIsTrue
<1>10. CASE Schema!ScriptFails
  BY <1>2, <1>10 DEF Schema!ScriptFails, Schema!Forget, SchemaInv, ScriptTypes, TxInv,
     TodoInv, RecordIsTrue, Schema!RecordIsTrue
<1> QED
  BY <1>3, <1>4, <1>5, <1>6, <1>7, <1>8, <1>9, <1>10 DEF Migrate, Schema!Step

LEMMA NextSchema == SchemaInv /\ [Next]_vars => SchemaInv'
<1> SUFFICES ASSUME SchemaInv, [Next]_vars
             PROVE  SchemaInv'
  OBVIOUS
<1>1. CASE UNCHANGED vars
  BY <1>1, CalmKeeps DEF vars, schema, SchemaInv, PhaseInv
<1>2. CASE Interfere
  BY <1>2, CalmKeeps DEF Interfere, schema, SchemaInv, PhaseInv
<1>3. CASE Repackage
  BY <1>3, RepackageKeeps
<1>4. CASE StopAsked
  <2>1. CASE phase = "collecting"
    BY <1>4, <2>1, CalmKeeps DEF StopAsked, schema, SchemaInv, PhaseInv
  <2>2. CASE phase # "collecting"
    BY <1>4, <2>2, GoneKeeps DEF StopAsked
  <2> QED
    BY <2>1, <2>2
<1>5. CASE Kill \/ StopTimeout \/ LoopEnds
  BY <1>5, GoneKeeps DEF Kill, StopTimeout, LoopEnds
<1>6. CASE Launch
  BY <1>6, CalmKeeps DEF Launch, schema, SchemaInv, PhaseInv
<1>7. CASE LoadConfig
  BY <1>7, EnterKeeps DEF LoadConfig
<1>8. CASE OpenDatabase
  <2>1. Enter("opening", "migrating", disk)
    BY <1>8 DEF OpenDatabase
  <2>2. CASE disk
    BY <2>1, <2>2, CalmKeeps DEF Enter, schema, SchemaInv, PhaseInv
  <2>3. CASE ~disk
    BY <2>1, <2>3, GoneKeeps DEF Enter
  <2> QED
    BY <2>2, <2>3
<1>9. CASE Migrate
  BY <1>9, MigrateKeeps
<1>10. CASE Initialized
  BY <1>10, EnterKeeps DEF Initialized
<1>11. CASE ValidateEnvironment
  BY <1>11, CalmKeeps, GoneKeeps DEF ValidateEnvironment, Enter, schema, SchemaInv, PhaseInv
<1>12. CASE Reconcile
  BY <1>12, EnterKeeps DEF Reconcile
<1>13. CASE InLoop(Loop!Step)
  BY <1>13, CalmKeeps DEF InLoop, schema, SchemaInv, PhaseInv
<1> QED
  BY <1>1, <1>2, <1>3, <1>4, <1>5, <1>6, <1>7, <1>8, <1>9, <1>10, <1>11, <1>12, <1>13
     DEF Next

-------------------------------------------------------------------------------
(* The counters of the loop *)

\* A round of logs takes at least one tick.
LEMMA LogEveryPositive == LogEvery \in Nat \ {0}
<1>1. SampleInterval \in Nat \ {0}
  BY DaemonAssumption
<1>2. CASE SampleInterval > 30
  BY <1>2 DEF LogEvery
<1>3. CASE SampleInterval <= 30
  <2>1. 30 \div SampleInterval \in Nat \ {0}
    BY <1>1, <1>3
  <2> QED
    BY <1>3, <1>1, <2>1 DEF LogEvery
<1> QED
  BY <1>1, <1>2, <1>3

LEMMA PruneEveryPositive == PruneEvery \in Nat \ {0}
BY DaemonAssumption DEF DaemonAssumption

\* What main and its loop are about.
LoopTypes == /\ phase \in {"off", "collecting"} \cup Startup
             /\ config \in Configs
             /\ disk \in BOOLEAN /\ wanted \in BOOLEAN /\ steady \in BOOLEAN
             /\ Loop!TypeOK

LEMMA LoopStepTypes ==
  ASSUME Loop!TypeOK, Loop!Step \/ Loop!Terminate \/ Loop!Restart \/ UNCHANGED loop
  PROVE  Loop!TypeOK'
<1> USE DEF Loop!TypeOK, Loop!Working, Loop!signalVars
<1>0. LogEvery' = LogEvery
  BY DEF LogEvery
<1>1. CASE Loop!TakeTick
  <2>1. ticks' \in 0 .. PruneEvery - 1 /\ rounds' \in 0 .. LogEvery - 1
    BY <1>1, PruneEveryPositive DEF Loop!TakeTick
  <2> QED
    BY <1>0, <1>1, <2>1, Zenon DEF Loop!TakeTick
<1>2. CASE Loop!Collected
  BY <1>0, <1>2, LogEveryPositive DEF Loop!Collected, Loop!AfterTick
<1>3. CASE Loop!CollectFails \/ Loop!LogsScanned \/ Loop!Pruned
  BY <1>0, <1>3 DEF Loop!CollectFails, Loop!LogsScanned, Loop!Pruned, Loop!AfterTick
<1>4. CASE Loop!Broadcast \/ Loop!TimerFires \/ Loop!Listen \/ Loop!Exit \/ Loop!Terminate
  BY <1>0, <1>4 DEF Loop!Broadcast, Loop!TimerFires, Loop!Listen, Loop!Exit, Loop!Terminate,
     Loop!Stopped
<1>5. CASE Loop!Restart
  <2>1. ticks' \in 0 .. PruneEvery - 1 /\ rounds' \in 0 .. LogEvery - 1
    BY <1>5, PruneEveryPositive, LogEveryPositive DEF Loop!Restart
  <2> QED
    BY <1>0, <1>5, <2>1, Zenon DEF Loop!Restart
<1>6. CASE UNCHANGED loop
  BY <1>0, <1>6 DEF loop
<1> QED
  BY <1>1, <1>2, <1>3, <1>4, <1>5, <1>6 DEF Loop!Step, Loop!Turn

LEMMA InitLoop == Init => LoopTypes
<1> SUFFICES ASSUME Init PROVE LoopTypes
  OBVIOUS
<1>1. ticks \in 0 .. PruneEvery - 1 /\ rounds \in 0 .. LogEvery - 1
  BY PruneEveryPositive, LogEveryPositive DEF Init, Loop!Init
<1> QED
  BY <1>1, Zenon DEF Init, LoopTypes, Loop!Init, Loop!TypeOK

LEMMA NextLoop == LoopTypes /\ [Next]_vars => LoopTypes'
<1> SUFFICES ASSUME LoopTypes, [Next]_vars
             PROVE  LoopTypes'
  OBVIOUS
<1>1. Loop!Step \/ Loop!Terminate \/ Loop!Restart \/ UNCHANGED loop
  BY DEF vars, Next, Interfere, Repackage, StopAsked, Kill, StopTimeout, Launch, LoadConfig,
     OpenDatabase, Migrate, Initialized, ValidateEnvironment, Reconcile, InLoop, LoopEnds,
     Enter, Gone
<1>2. Loop!TypeOK'
  BY <1>1, LoopStepTypes DEF LoopTypes
<1>3. UNCHANGED world \/ Interfere \/ Repackage \/ StopAsked
  BY DEF vars, Next, Kill, StopTimeout, Launch, LoadConfig, OpenDatabase, Migrate,
     Initialized, ValidateEnvironment, Reconcile, InLoop, LoopEnds, Enter
<1>4. config' \in Configs /\ disk' \in BOOLEAN /\ wanted' \in BOOLEAN /\ steady' \in BOOLEAN
  BY <1>3 DEF LoopTypes, world, Interfere, Repackage, StopAsked
<1>5. phase' \in {"off", "collecting"} \cup Startup
  BY DEF LoopTypes, Startup, vars, Next, Interfere, Repackage, StopAsked, Kill, StopTimeout,
     Launch, LoadConfig, OpenDatabase, Migrate, Initialized, ValidateEnvironment, Reconcile,
     InLoop, LoopEnds, Enter, Gone
<1> QED
  BY <1>2, <1>4, <1>5 DEF LoopTypes

-------------------------------------------------------------------------------
(* Theorems *)

\* At every statement of migrate, in every life of the daemon, the recorded
\* versions are those whose scripts have taken effect, or are about to.
THEOREM SchemaHolds == Spec => []SchemaInv
BY InitSchema, NextSchema, PTL DEF Spec

\* Over all lives of the daemon, whatever kills it wherever, a script has had its
\* effect exactly when schema_migrations has it, and once.
THEOREM RecordAlwaysTrue == Spec => []RecordIsTrue
BY SchemaHolds, PTL DEF SchemaInv

\* Past Daemon::new every script of the package is applied and no transaction open.
THEOREM UpAlwaysMigrated == Spec => []UpMeansMigrated
<1>1. SchemaInv => UpMeansMigrated
  BY DEF SchemaInv, PhaseInv, TxInv, TodoInv, UpMeansMigrated
<1> QED
  BY <1>1, SchemaHolds, PTL

\* No script is ever recorded before an earlier one of the same package.
THEOREM AlwaysInOrder == Spec => InOrder
<1>1. SchemaInv /\ [Next]_vars =>
        [\A v \in record' \ record : \A w \in dir : w < v => w \in record]_vars
  <2> SUFFICES ASSUME SchemaInv, Next,
                      NEW v \in record' \ record, NEW w \in dir, w < v
               PROVE  w \in record
    OBVIOUS
  <2>1. CASE Migrate /\ Schema!Commit
    <3>1. v = current /\ dir \ record = todo \cup {current} /\ \A u \in todo : current < u
      BY <2>1 DEF Schema!Commit, SchemaInv, TxInv, TodoInv
    <3>2. w \in Nat /\ v \in Nat
      BY <3>1, DaemonAssumption, <2>1 DEF SchemaInv, ScriptTypes, TxInv, Schema!Commit
    <3> QED
      BY <3>1, <3>2
  <2>2. CASE record' = record
    BY <2>2
  <2>3. ~(Migrate /\ Schema!Commit) => record' = record
    BY DEF Next, Interfere, Repackage, StopAsked, Kill, StopTimeout, Launch, LoadConfig,
       OpenDatabase, Migrate, Initialized, ValidateEnvironment, Reconcile, InLoop, LoopEnds,
       Enter, Gone, schema, Schema!Stop, Schema!Step, Schema!Load, Schema!LoadFails,
       Schema!Begin, Schema!RunScript, Schema!InsertRecord, Schema!Migrated,
       Schema!ScriptFails, Schema!scripts, Schema!schema
  <2> QED
    BY <2>1, <2>2, <2>3
<1> QED
  BY <1>1, SchemaHolds, PTL DEF Spec, InOrder

\* Every reachable state of the daemon and its two components is well typed.
THEOREM TypeCorrect == Spec => []TypeOK
<1>1. Spec => []LoopTypes
  BY InitLoop, NextLoop, PTL DEF Spec
<1>2. SchemaInv /\ LoopTypes => TypeOK
  BY DEF SchemaInv, ScriptTypes, TxInv, LoopTypes, TypeOK, Schema!TypeOK
<1> QED
  BY <1>1, <1>2, SchemaHolds, PTL
================================================================================
