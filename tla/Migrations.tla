------------------------------ MODULE Migrations ------------------------------
(***************************************************************************)
(* Database::migrate (robot-system-daemon/src/db.rs): at every start the   *)
(* daemon applies the scripts of its migrations directory it has no record *)
(* of, each in a transaction that also writes the record.  Daemon.tla      *)
(* starts it, kills it and changes the directory between two starts.       *)
(***************************************************************************)
EXTENDS Integers, FiniteSets

CONSTANTS
  Version,  \* migration versions
  Initial,  \* the one whose script creates the tables, schema_migrations with them
  Broken    \* versions whose script may fail half way through

VARIABLES
  dir,      \* the scripts in the directory
  package,  \* the directory: "absent", "misnamed" (one script has no version), "fine"
  record,   \* schema_migrations: the versions recorded
  effects,  \* how often each script took effect on the schema, half counting
  pc,       \* "down", "loaded", "script", "recorded", "up", "failed"
  todo,     \* loaded scripts not recorded when the start began
  current,  \* the script of the open transaction, or none
  inTx      \* what the open transaction has done: effects, record

scripts == <<dir, package>>
schema  == <<record, effects>>
memory  == <<pc, todo, current, inTx>>

None == -1
NoTx == [done |-> {}, recorded |-> {}]
Packages == {"absent", "misnamed", "fine"}

TypeOK ==
  /\ dir \subseteq Version
  /\ package \in Packages
  /\ record \subseteq Version
  /\ effects \in [Version -> Nat]
  /\ pc \in {"down", "loaded", "script", "recorded", "up", "failed"}
  /\ todo \subseteq Version
  /\ current \in Version \cup {None}
  /\ inTx \in [done : SUBSET Version, recorded : SUBSET Version]

\* SQLite rolls the open transaction back.
Forget ==
  /\ todo' = {}
  /\ current' = None
  /\ inTx' = NoTx

Init ==
  /\ dir \in SUBSET Version
  /\ package \in Packages
  /\ record = {}
  /\ effects = [v \in Version |-> 0]
  /\ pc = "down"
  /\ todo = {}
  /\ current = None
  /\ inTx = NoTx

-------------------------------------------------------------------------------
(* One start *)

\* Mutant of Load: only scripts newer than all recorded ones are taken.
LoadNewer ==
  /\ pc = "down"
  /\ package = "fine"
  /\ pc' = "loaded"
  /\ todo' = {v \in dir : \A w \in record : v > w}
  /\ UNCHANGED <<scripts, schema, current, inTx>>

\* Mutant of Load: a database without schema_migrations is an error.
LoadRecorded ==
  /\ pc = "down"
  /\ package = "fine"
  /\ Initial \in record
  /\ pc' = "loaded"
  /\ todo' = dir \ record
  /\ UNCHANGED <<scripts, schema, current, inTx>>

\* load_migrations and applied_versions, which reads a missing table as empty.
Load ==
  /\ pc = "down"
  /\ package = "fine"
  /\ pc' = "loaded"
  /\ todo' = dir \ record
  /\ UNCHANGED <<scripts, schema, current, inTx>>

LoadFails ==
  /\ pc = "down"
  /\ package # "fine"
  /\ pc' = "failed"
  /\ UNCHANGED <<scripts, schema, todo, current, inTx>>

\* Mutant of Begin: the scripts run in the order read_dir lists them.
BeginAny ==
  /\ pc = "loaded"
  /\ todo # {}
  /\ current' \in todo
  /\ todo' = todo \ {current'}
  /\ pc' = "script"
  /\ UNCHANGED <<scripts, schema, inTx>>

\* The scripts are sorted by version; each gets its transaction.
Begin ==
  /\ pc = "loaded"
  /\ todo # {}
  /\ current' = CHOOSE v \in todo : \A w \in todo : v <= w
  /\ todo' = todo \ {current'}
  /\ pc' = "script"
  /\ UNCHANGED <<scripts, schema, inTx>>

\* Mutant of RunScript: the script runs outside the transaction.
RunScriptAutocommit ==
  /\ pc = "script"
  /\ inTx.done = {}
  /\ inTx' = [inTx EXCEPT !.done = {current}]
  /\ effects' = [effects EXCEPT ![current] = @ + 1]
  /\ UNCHANGED <<scripts, record, pc, todo, current>>

\* execute_batch.
RunScript ==
  /\ pc = "script"
  /\ inTx.done = {}
  /\ inTx' = [inTx EXCEPT !.done = {current}]
  /\ UNCHANGED <<scripts, schema, pc, todo, current>>

InsertRecord ==
  /\ pc = "script"
  /\ inTx.done # {}
  /\ Initial \in record \cup inTx.done
  /\ inTx' = [inTx EXCEPT !.recorded = {current}]
  /\ pc' = "recorded"
  /\ UNCHANGED <<scripts, schema, todo, current>>

Commit ==
  /\ pc = "recorded"
  /\ effects' = [v \in Version |-> IF v \in inTx.done THEN effects[v] + 1 ELSE effects[v]]
  /\ record' = record \cup inTx.recorded
  /\ inTx' = NoTx
  /\ current' = None
  /\ pc' = "loaded"
  /\ UNCHANGED <<scripts, todo>>

Migrated ==
  /\ pc = "loaded"
  /\ todo = {}
  /\ pc' = "up"
  /\ UNCHANGED <<scripts, schema, todo, current, inTx>>

\* A broken script, or no table to record it in: the transaction is dropped.
ScriptFails ==
  /\ pc = "script"
  /\ \/ current \in Broken
     \/ inTx.done # {} /\ Initial \notin record \cup inTx.done
  /\ pc' = "failed"
  /\ Forget
  /\ UNCHANGED <<scripts, schema>>

Step ==
  \/ Load \/ LoadFails \/ Begin \/ RunScript \/ InsertRecord \/ Commit \/ Migrated
  \/ ScriptFails

\* The process is gone.
Stop ==
  /\ pc' = "down"
  /\ Forget
  /\ UNCHANGED <<scripts, schema>>

\* "不会出现“结构改了一半”的中间态" (db.rs:79): after any crash a script has had its
\* effect exactly when it is recorded, and once, whatever versions came and went.
RecordIsTrue ==
  \A v \in Version : effects[v] = IF v \in record THEN 1 ELSE 0
===============================================================================
