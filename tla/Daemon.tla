-------------------------------- MODULE Daemon --------------------------------
(***************************************************************************)
(* One life after the other of robot-system-daemon: main (main.rs) loads   *)
(* the configuration, opens and migrates the database, looks at its        *)
(* directories, reconciles and enters the collection loop; any of these    *)
(* may end the process, and robot-system-daemon.service starts it again.   *)
(* Composes Migrations and CollectionLoop with systemd, dpkg, the disk.    *)
(***************************************************************************)
EXTENDS Integers, FiniteSets

CONSTANTS
  Version, Initial, Broken,  \* as in Migrations
  SampleInterval,            \* sample_interval_secs of a usable configuration
  PruneEvery,                \* PRUNE_INTERVAL_TICKS
  TickErrors                 \* whether monitor.tick may fail

ASSUME DaemonAssumption ==
  /\ Version \subseteq Nat
  /\ Initial \in Version \ Broken
  /\ Broken \subseteq Version
  /\ SampleInterval \in Nat \ {0}
  /\ PruneEvery \in Nat \ {0}
  /\ TickErrors \in BOOLEAN

VARIABLES
  phase,   \* where main is; "off" while there is no process
  config,  \* robot-system.conf: "absent", "usable", "wrong" (malformed, or a bad value)
  disk,    \* /var/lib/robot-system can be written
  wanted,  \* systemd is to keep the unit running
  steady,  \* nobody interferes any more
  dir, package, record, effects, schemaPc, todo, current, inTx,
  loopPc, due, ticks, rounds, handler, receiver, delivered, pending, asked

\* log_every_ticks: LOG_SCAN_INTERVAL_SECS in intervals, at least one.
LogEvery == IF SampleInterval > 30 THEN 1 ELSE 30 \div SampleInterval

Schema == INSTANCE Migrations WITH pc <- schemaPc
Loop   == INSTANCE CollectionLoop WITH pc <- loopPc

world  == <<config, disk, wanted, steady>>
schema == <<dir, package, record, effects, schemaPc, todo, current, inTx>>
loop   == <<loopPc, due, ticks, rounds, handler, receiver, delivered, pending, asked>>
vars   == <<phase, world, schema, loop>>

Startup == {"config", "opening", "migrating", "validating", "reconciling"}
Configs == {"absent", "usable", "wrong"}

TypeOK ==
  /\ phase \in {"off", "collecting"} \cup Startup
  /\ config \in Configs
  /\ disk \in BOOLEAN /\ wanted \in BOOLEAN /\ steady \in BOOLEAN
  /\ Schema!TypeOK
  /\ Loop!TypeOK

Init ==
  /\ phase = "off"
  /\ config \in Configs
  /\ disk \in BOOLEAN
  /\ wanted = TRUE
  /\ steady = FALSE
  /\ Schema!Init
  /\ Loop!Init

-------------------------------------------------------------------------------
(* systemd, dpkg, the operator and the disk, external, until they are steady *)

\* The process is gone with everything it had in memory.
Gone ==
  /\ phase' = "off"
  /\ Schema!Stop
  /\ Loop!Restart

Interfere ==
  /\ ~steady
  /\ \/ steady' = TRUE /\ UNCHANGED <<config, disk, wanted>>
     \/ config' \in Configs /\ UNCHANGED <<disk, wanted, steady>>
     \/ disk' = ~disk /\ UNCHANGED <<config, wanted, steady>>
     \/ wanted' = TRUE /\ UNCHANGED <<config, disk, steady>>
  /\ UNCHANGED <<phase, schema, loop>>

\* prerm stops the daemon before its package is replaced; postinst starts it.
Repackage ==
  /\ ~steady
  /\ phase = "off"
  /\ dir' \in SUBSET Version
  /\ package' \in Schema!Packages
  /\ wanted' = TRUE
  /\ UNCHANGED <<phase, config, disk, steady, record, effects, schemaPc, todo, current, inTx, loop>>

\* systemctl stop: nothing handles SIGTERM before the loop is entered.
StopAsked ==
  /\ ~steady
  /\ wanted' = FALSE
  /\ IF phase = "collecting"
       THEN Loop!Terminate /\ UNCHANGED <<phase, schema>>
       ELSE Gone
  /\ UNCHANGED <<config, disk, steady>>

Kill ==
  /\ ~steady
  /\ phase # "off"
  /\ Gone
  /\ UNCHANGED world

\* TimeoutStopSec.
StopTimeout ==
  /\ phase = "collecting"
  /\ asked
  /\ Gone
  /\ UNCHANGED world

\* Restart=on-failure, RestartSec, and the start an operator asks for.
Launch ==
  /\ phase = "off"
  /\ wanted
  /\ phase' = "config"
  /\ UNCHANGED <<world, schema, loop>>

-------------------------------------------------------------------------------
(* main *)

\* From one part of main to the next, or to the end with ExitCode::FAILURE.
Enter(from, to, holds) ==
  /\ phase = from
  /\ IF holds THEN phase' = to /\ UNCHANGED <<schema, loop>> ELSE Gone
  /\ UNCHANGED world

\* Mutant of LoadConfig: the file has to be there.
LoadConfigFile == Enter("config", "opening", config = "usable")

\* Config::load and validate: no file stands for the defaults.
LoadConfig == Enter("config", "opening", config # "wrong")

\* Database::open creates the directory and the file, and sets WAL.
OpenDatabase == Enter("opening", "migrating", disk)

\* Database::migrate.
Migrate ==
  /\ phase = "migrating"
  /\ Schema!Step
  /\ UNCHANGED <<phase, world, loop>>

\* Mutant of Initialized: a migration that fails is logged, and main goes on.
InitializedAnyway ==
  /\ schemaPc \in {"up", "failed"}
  /\ Enter("migrating", "validating", TRUE)

\* Daemon::new returns what migrate did.
Initialized ==
  /\ schemaPc \in {"up", "failed"}
  /\ Enter("migrating", "validating", schemaPc = "up")

ValidateEnvironment == Enter("validating", "reconciling", disk)

\* Reads and writes the tables; the HTTP placeholder is spawned on the way and
\* shares nothing with the rest.
Reconcile == Enter("reconciling", "collecting", disk /\ Initial \in record)

\* run_collection_loop.
InLoop(Action) ==
  /\ phase = "collecting"
  /\ Action
  /\ UNCHANGED <<phase, world, schema>>

\* ExitCode::SUCCESS, or SIGTERM before its handler: systemd starts it again only
\* when asked to.
LoopEnds ==
  /\ phase = "collecting"
  /\ Loop!Stopped
  /\ Gone
  /\ UNCHANGED world

Next ==
  \/ Interfere \/ Repackage \/ StopAsked \/ Kill \/ StopTimeout \/ Launch
  \/ LoadConfig \/ OpenDatabase \/ Migrate \/ Initialized \/ ValidateEnvironment
  \/ Reconcile \/ InLoop(Loop!Step) \/ LoopEnds

Spec == Init /\ [][Next]_vars

\* systemd does what the unit file says; the process, its timer and its runtime
\* are scheduled.  Interference need never stop.
FairSpec ==
  /\ Spec
  /\ WF_vars(Launch) /\ WF_vars(StopTimeout)
  /\ WF_vars(LoadConfig \/ OpenDatabase \/ Migrate \/ Initialized \/ ValidateEnvironment
               \/ Reconcile \/ LoopEnds)
  /\ WF_vars(InLoop(Loop!TimerFires)) /\ WF_vars(InLoop(Loop!Turn))

-------------------------------------------------------------------------------
(* Properties *)

\* "不会出现“结构改了一半”的中间态" (db.rs:79): after any kill, at any point of any
\* start, a script has had its effect exactly when it is recorded, and once.
RecordIsTrue == Schema!RecordIsTrue

\* A script takes effect only after every earlier one shipped with it, over all
\* starts and packages.
InOrder ==
  [][\A v \in record' \ record : \A w \in dir : w < v => w \in record]_vars

\* What the loop and the reconciliation before it run on is a database with every
\* script of the package applied, and no open transaction.
UpMeansMigrated ==
  phase \in {"validating", "reconciling", "collecting"} =>
    dir \subseteq record /\ current = Schema!None

\* What a start needs from its surroundings, whatever happened before.
Startable ==
  /\ wanted /\ disk
  /\ config # "wrong"
  /\ package = "fine"
  /\ (dir \ record) \cap Broken = {}
  /\ Initial \in dir \cup record

\* A daemon whose surroundings are in order comes up in the end, whatever its
\* earlier lives left in the database: on a fresh machine without a configuration
\* or a database (config.rs:49, db.rs:106), after failed migrations, kills, stops.
ComesUp == steady /\ Startable ~> phase = "collecting" /\ ~asked

\* Once up and left alone it prunes, even if every single tick fails.
PruneGoesOn == steady /\ Startable ~> loopPc = "pruning"
===============================================================================
