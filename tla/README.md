# A verification model of robot-system

robot-system manages business packages on a robot.  `rsctl`, a command run by
an operator, installs, upgrades and removes packages and controls their
services; `robot-system-daemon` watches the services and keeps a database of
their runs, metrics and events.  `rsctl` reads that database and never writes
it; the daemon never changes a service or a package.  For the rest the two
share nothing but systemd and the machine.

This directory holds TLA+ modules translated from the Rust source, TLC
configurations that check them on small instances, and proofs that TLAPS
checks.  `PROJECT.json` says for every definition which lines it stands for,
and for every run, mutant, finding, hazard and theorem what it is about.

Run from this directory, for example:

    tlc -workers 2 -config MCDeployment_upgrade.cfg MCDeployment.tla
    tlapm JournalProofs.tla

## 1. Inventory

### rsctl

| Component | State | Operations | Interacts with |
|---|---|---|---|
| deployment manager `deployment/mod.rs`, `state.rs`, `store.rs` | one task file (JSON) per change, backup debs, a task in memory | install, upgrade, remove; on failure recovery (roll back to a backup, or reinstall); pruning of backups | takes the lock; runs dpkg-query, apt-get, systemctl |
| change lock `lock.rs` | an flock on `/run/robot-system/lock` | acquire by polling until a deadline; dropped by the kernel with the process | every change, every service command |
| service control `service.rs`, `commands/service.rs` | none of its own | start, stop, restart, enable, disable; list, status | lock; systemctl |
| package queries `package/`, `system/dpkg.rs` | none: dpkg's database and the manifests on disk | installed version, declared services, other owners of a service, dependents; list, info | dpkg-query, files |
| read-only queries `state.rs`, `db.rs`, `commands/` | none | runs, metrics, events, logs, task files, system status | the daemon's database, systemctl, journalctl, files |
| dispatch `app.rs`, `cli.rs` | none | which command does what | all of the above |
| configuration, paths, output | none | parsing and printing | |

Hard here: several `rsctl` processes race for one flock; a process may be killed
between any two statements, and its `apt-get` outlives it while its flock does
not; apt may fail having done anything; a save may fail; the deb is named by
path and may be rebuilt meanwhile; what was checked while validating (shared
units, dependents) is used several states later, and comes from manifests that
may be unreadable and are then passed over.  The commands that only look
take no lock: they put one answer together from many queries, of files, dpkg,
systemd and SQLite, while all of that moves.

Correct means: at most one change is open at a time; the task file never lags
behind the work it announces; a task file moves along the state machine only;
`committed` and `recovered` are true when they are written; no change touches a
unit another package declares, nor strands a dependent, as far as the manifests
can be read; the backup of a running change is not pruned; every command returns
and, while saves work, every task reaches a terminal state.  An answer shows nothing that was not so at some moment
of the command, leaves out nothing that was so all along, and a command fails
only over something that was so.

### robot-system-daemon

| Component | State | Operations | Interacts with |
|---|---|---|---|
| start-up `main.rs`, `daemon.rs`, `config.rs` | none; the unit file's restart policy | configuration, database, migration, validation, reconciliation, then the loop | systemd, disk, all of the below |
| collection loop `main.rs`, `daemon.rs` | tick and round counters, signal handler and receiver | tick, log round, prune, exit on a signal | tokio, all of the below |
| process monitor `monitor.rs` | `last_active_state`, `cpu_samples` (memory); `process_runs`, `process_metrics` (SQLite) | reconcile at startup, tick | systemctl show, `/proc/PID/stat`, database |
| event records `event.rs` | `error_events` | record | monitor, log scan |
| log scan `logs.rs` | none of its own (cursor sought in `error_events`) | scan one service | journalctl, database |
| history `db.rs` | the tables | open and close a run, insert, prune in batches | SQLite |
| schema migrations `db.rs`, `migrations/` | `schema_migrations` | migrate at startup | the package's directory |
| service discovery `target.rs`, `system/systemd.rs` | none | direct services of the target, read off a drawn tree | systemctl list-dependencies |
| HTTP placeholder `http_task.rs` | none | a fixed answer | |

Hard here: systemd goes on between two queries of one tick; pids are given away
again, start ticks begin anew with a boot; every statement commits by itself and
the daemon may die between two; one `?` ends a tick; whole seconds are compared;
scans overlap; `select!` drops a future, with the signal it was told; any step of
a start may end the process, and systemd starts it again over what it left.

Correct means: one open run per service, one run per process and service, ended when the
process has; metrics belong to the run's process; ended runs are history; the
table catches up with what systemd settles on; failures are reported, once;
pruning removes what is old and nothing else, cascades, never hits a running
run, and goes on when ticks fail; the schema is that of the recorded scripts; a
daemon whose surroundings are in order comes up, whatever its earlier lives left.

## 2. Modules

| Module | Models | How |
|---|---|---|
| `TaskStates` | `TaskState`, `TaskKind`, `is_terminal` | the states and the code's successor relation, per kind |
| `TaskLifecycle` | what the task files promise | abstract: files begin, advance, are settled |
| `Deployment` | every statement of install, upgrade, remove and recovery that changes state; the lock; service commands; apt, dpkg and the operator as environment | extends `TaskStates`, instantiates `TaskLifecycle` |
| `DeploymentProofs`, `JournalProofs`, `ChangeProofs` | theorems about `Deployment` | each extends the one before |
| `Monitor` | reconcile and every branch of a tick | against systemd and the kernel; instantiates `RunTable` |
| `RunTable` | what `process_runs` promises | abstract: runs open, end, are forgotten |
| `LogScan` | `LogManager::scan` and the two queries it relies on | against journald and the clock |
| `Retention` | `prune`, `delete_batched`, the cascade | against the rows the monitor adds; instantiates `RunTable` |
| `CollectionLoop` | `run_collection_loop`, `shutdown_signal`, the rounds of `Daemon::tick` | against signals and the timer |
| `Migrations` | `migrate`, `load_migrations`, `applied_versions` | one start; its environment is `Daemon` |
| `Daemon` | `main`, `Daemon::new`, `Config::load`, the unit file | composes `Migrations` and `CollectionLoop` |
| `DependencyTree` | `service_dependencies` of both programs | pure; against the tree systemctl draws |
| `Reports` | the commands that only look | extends `DependencyTree`; against everybody who changes what they look at |
| `DaemonProofs`, `RetentionProofs`, `LogScanProofs`, `MonitorProofs`, `ReportsProofs` | theorems about the module each is named for | extend it |
| `MC*` | instances | constants for the configurations |

`MC<Module>_<question>.cfg` is one question asked of an instance.

### Deployment

A process is a label (`pc`) and a record (`job`) of its arguments, locals and
`Tx`.  The label says which statement comes next:

| `pc` | in the code |
|---|---|
| `waiting` | `ManagedLock::acquire` polling |
| `checking`, `reading`, `creating` | `check_incomplete`; `describe_deb` and `installed_version`; `Tx::new` |
| `entering` | `Tx::enter` with the state changed in memory and not on disk yet |
| `working` | the body of the state `job.phase` in `run_install` or `run_remove`, or of the recovery while `job.phase = "recovering"` |
| `copying` | inside `fs::copy` of a backup |
| `apt` | waiting for the `apt-get` it started |
| `failing` | `Tx::fail` |
| `restarting`, `judging` | after a recovery's apt: starting services; looking at what a failed one left |
| `finishing`, `pruning` | `Tx::finish`, `prune_backups` |
| `service` | a service command that has the lock |

A task file is its kind, package and state; messages, times and the recorded
digest are left out (a release stands for a version *and* a content, so a digest
is the release).  A save is one step since the code writes a temporary file and
renames it.  `apt` is a variable of its own: an apt run ends by itself, in
success or failure, whether or not the process that started it still waits.  An
apt that fails leaves any of the states dpkg can (`Interrupted`).  The starting
states are packages settled earlier, with or without a backup.

Faults are a constant: `save` (a task file cannot be written), `crash` (SIGKILL
of an rsctl), `reboot`, `rebuild` (the deb is overwritten by another build of its
version), `silent` (apt exits 0 over a package it left as it was), `manifest` (the
manifest of an installed package is damaged, and mended by hand).

What a change knows of declarations and dependencies it knows through
`PackageManifest::load_all`, which passes over a manifest that it cannot read or
parse: to `DeclaredBy`, `OtherOwners` and `Dependents` such a package (`broken`)
declares nothing and needs nothing.  An apt that puts a package's files in place
puts its manifest in place.  `wasBroken` is a history variable, the packages for
which this was so at some moment since the last task began; the properties are
stated with what is really on disk (`OwnersOnDisk`, `DependentsOnDisk`) and
except these packages, no others.  The manifests a validation loads, once for
the dependents and once for each unit, are loaded in one step.

### Monitor

systemd's side is a record per unit and the list of all processes ever started;
the daemon's side is `pc`, the units still to visit (`todo`), what the tick
holds about the current one (`view`), and the two maps of `ProcessMonitor`.  The
query of `systemctl show` and the decision it leads to are one step, since
everything decided there comes from one snapshot and from `process_runs`, which
only the daemon writes; `read_stat`, `close_run`, `open_run`, `record_metric`
and the event's insert are steps of their own.  Rows carry what the properties
speak of: the number of the process a run is for and of the one its result is
about; the daemon never reads these.  Left out: `reloading`, which the code
treats like the other transitional states, and values of metrics.  A query or
statement that fails (`error`), a killed daemon (`crash`), `reboot`, and a pid
given away again between `systemctl show` and `read_stat` (`reuse`) are faults.
Processes carry, for the properties, the service that started them and the one a
tick was asking about when their pid was handed to them (`unit`, `asked`): only
for the second can a process get a run beside that of its own service, and it does.
A process may end by a signal, SIGTERM among them, which `exit_details` takes for
a failure even where systemd does not.
Units are numbers in the order of their names, in which `units()` returns them.

### RunTable

Runs are open or ended, an ended one keeps the row it ended with, and only ended
ones are forgotten.  `Monitor` implements it with the rows it writes (kills,
reboots and failing statements included) and `Retention` with the rows it
deletes, so that neither may touch what the other relies on: pruning never takes
a run under way, and no statement of a tick changes a run that has ended.

### Daemon

`main` is a chain of steps (`phase`), each of which goes on or ends the process
with everything it has in memory.  The state of `Migrations` and of
`CollectionLoop` is state of `Daemon`; their steps are its steps while `phase` is
`migrating` and `collecting`.  Around it are systemd (`Launch`, `StopTimeout`),
dpkg (whose prerm stops the daemon before its package, with its directory of
scripts, is replaced), the operator, SIGKILL and the disk.  A start fails over a
wrong configuration, a disk that cannot be written, a missing directory of
scripts, a badly named script, or a script that fails.  `Migrations` counts how
often a script took effect, inside or outside of its transaction;
`CollectionLoop` models tokio's two-stage signals: the handler is installed once
and stays, the runtime later tells whichever receivers exist, and a receiver
lives from being polled in `select!` to the end of the turn.  Reconciliation is
one step here, since `Monitor` has its statements.

### Reports and DependencyTree

A command is a row of queries (`pc` names the next one); `world` is what can be
asked about, and `past` the worlds since the command began.  Between any two
queries anybody may change the world in the ways the rest of the system does:
units are enabled, disabled, installed, start, end and fail; manifests come, go
and are broken; task files move on; the daemon creates its file, migrates, adds
rows, closes runs, prunes; journald adds and vacuums.  A line is a key, what is
said of it, and the owners shown with it; the other columns are left out.  Ids
are in the order of their times.

`DependencyTree` draws what `systemctl list-dependencies` draws from a graph of
units and targets that may share services and want each other back: a line for
every way down through the graph, with a cell for every unit on it.  It reads
the lines as the code does.  `rsctl` and the daemon have
the same parser (`systemd.rs` of both).  In ASCII, which is what `LANG=C` makes
systemctl draw (`command.rs:54`), an ancestor's bar and a branch are the same
character; `SYSTEMD_UTF8` brings the other drawing.  Where all units are on one
level, systemctl may leave out branches and markers and only indent, as the test
`parses_flat_dependency_list` (`systemd.rs:360`) and ARCHITECTURE:211-212 have it
of systemd 255; the code then reads the level off the indentation (`Indent`).  The
three ways to draw (`Drawing`) are all modelled, and a command meets any of them.

External programs succeed in `Reports`, except where their failure is an answer
(dpkg-query and a package it does not know).

### LogScan and Retention

`LogScan` keeps one service (scans of two touch different rows) and whole
seconds, as the code does; journal entries are their index, which is their
cursor.  `Retention` counts days; the daemon is the only writer and prunes
between two ticks, so rows arrive only while no pruning runs.

## 3. Runs

Bounds are in the configurations; the guards that cap a counter say "Bound" or
name the constant.

| Run | Asks | Instance |
|---|---|---|
| `upgrade` | journal, one task at a time, truth of `recovered`, refinement of `TaskLifecycle`, backups under pruning | 2 processes, 2 tasks, 2 versions, the second with a second unit; save, crash, reboot |
| `neighbours` | shared units; dependents | 2 processes, 2 tasks, 2 packages, one depending on the other, that share a unit; manifest |
| `settles` | every task settles, every command returns; truth of `committed` | 3 processes, 1 task, 3 releases, one for another architecture, fair; rebuild, silent |
| `monitor_watch` | runs against processes; shape of the table; memory; refinement of `RunTable` | an ordinary and a oneshot unit, 2 pids, 3 runs, 2 processes, every fault |
| `monitor_catches_up` | liveness of the table and of the events | 1 unit that may leave the target or lose its file, fair, no fault |
| `logscan_scans` | no entry twice, no burst lost altogether | 3 entries, 5 seconds, window of 2, 2 lines a scan |
| `retention_keeps` | what pruning removes; refinement of `RunTable` | 2 runs, 4 days, batches of 1 |
| `daemon_lives` | the schema over all starts; the daemon comes up; pruning goes on | 3 scripts, the middle one may fail, any directory in each package; prune every 2nd turn, logs every 2nd round, ticks may fail |
| `reports_are_true` | truth and completeness of every answer, reasons of every failure | 2 services, 2 more targets that want each other, 3 drawings, 2 packages, 2 tasks, rows of ids 1 and 2, limit 1, two changes a command |
| `removal_restores` | a comment the code does not keep | 1 process, 1 task, 1 unit |
| `monitor_exit_attribution` | the same | 1 unit, 2 processes |
| `collectionloop_sigterm` | the same | prune every 3rd turn, logs every 2nd round |

Why the bounds are enough.  The flock and `check_incomplete` concern pairs of
processes and pairs of tasks, so two of each show every order; a task beyond the
first only matters for what the first left behind, so `settles`, which starts in
every settled state of its package, has one; `neighbours` starts in every settled
state of two packages and has two changes, of either.  Two versions give upgrade,
reinstall and roll back; two units let a loop stop in the middle.  Kills in
`neighbours` make it too large for a run of five minutes; that they change nothing
is part of the theorems below, which are for every set of faults.  A row is
compared with one process at a time: two processes, of one unit or of two, with
one pid or two, give every relation between a row and what `/proc` says; three
runs are one more than there are processes, so that one may get two.
Batches of one row over two rows make several deletes per table.  Three entries
allow one read before, one with and one after an event.  Three scripts are one
recorded, one that fails and one that must wait for it.  Two changes during a
command are needed for an answer that no moment of it would give: of `process
list` without a database, the service that leaves the target after the tree was
read and becomes active before it is shown.  Two targets besides the managed one
give every shape of a drawn line: below a branch, below a last branch, and below
both.  A limit of 1 over two rows cuts a page.

Every property of a passing run has a mutant in `PROJECT.json`: an operator of
the module, marked `Mutant of`, that changes one definition the way a slip in
the code would, and that makes TLC find the property violated.

### Where the code and its documentation part

Three sentences of the repository are checked and found violated:

| Run | The sentence | What happens |
|---|---|---|
| `removal_restores` | `deployment/mod.rs:443`, a failed removal restores the services | units the removal disabled stay disabled after its recovery |
| `monitor_exit_attribution` | `monitor.rs:7`, only results that can be confirmed | a unit that restarts and ends again between two ticks gives the first run the exit of the second process |
| `collectionloop_sigterm` | `docs/ARCHITECTURE.md:614`, SIGTERM ends the daemon | one that arrives during a tick is forgotten (systemd kills the daemon after `TimeoutStopSec`) |

Others were read off the code while modelling and have no run; the hazards in
`PROJECT.json` that they concern say so in a note:

- a manifest that cannot be read or parsed is passed over by the questions a
  removal asks (`package/manifest.rs:66`), so that the removal stops and disables a
  unit another package declares, against README.md:181, and takes away a package
  another one depends on, against `package/manifest.rs:28` and ARCHITECTURE:521-522;
  `SharedUnitsUntouched` and `NoDependentStranded` do not hold without their
  exception for such packages;
- the sha256 a task records is compared with nothing (`deployment/mod.rs:396-409`);
- a removal goes from `configuring_services` to `verifying_package`, which the
  diagram of ARCHITECTURE 4.5 does not draw;
- service commands do not call `check_incomplete`, so the orphaned apt of a killed
  `rsctl` does not keep them out (ARCHITECTURE:333);
- a rollback is judged by apt's exit status (`deployment/mod.rs:429`,
  ARCHITECTURE:337-338);
- the run of a unit that leaves the target stays `running` until the daemon
  restarts (`monitor.rs:120`, `db.rs:264`);
- a restarted daemon reports a start failure again (`monitor.rs:209`), and a stop
  somebody asked for counts as unexpected (`event.rs:166`);
- a run closed as failed loses its event to a kill between the two commits
  (`monitor.rs:195-201`);
- pid and start ticks do not tell processes of two boots apart (`db.rs:23`);
- a log scan records one event however many warnings it read (`logs.rs:67`), and no
  cursor is ever stored (`event.rs:119-131`);
- ended runs are pruned by the time they started (`db.rs:268`);
- a process that ends by SIGTERM's default action in an ordinary stop counts as
  failed (`system/systemd.rs:83`, `monitor.rs:199`);
- of two scripts with one version number the second fails the first start, on the
  primary key, and is passed over from then on (`db.rs:85-99`); `Migrations` takes
  the directory for a set of versions and does not have it;
- the two numbers of `system status` come from two reads (`commands/system.rs:48`)
  and need not fit when the target changes in between; `CountsFit` speaks of a
  target left alone;
- a database file whose first migration has not run or has failed makes `rsctl`'s
  queries fail; ARCHITECTURE:421-422 has it answer without history, which it does
  only where there is no file (`rsctl` `db.rs:99`);
- `--limit` of `process list` cuts the live list as well (`process.rs:104`), against
  `cli.rs:163`;
- the daemon's own unit is wanted by the managed target
  (`robot-system-daemon.service`, `WantedBy`), so the daemon keeps runs of itself;
- without its migrations directory the daemon fails, as the test at `db.rs:549`
  wants and the comment at `db.rs:304` denies.

Deadlock is checked except in `CollectionLoop`, whose process ends, and in
`Daemon`, where one that was stopped stays so once nobody interferes.  In
`Reports` a command that has answered stutters (`Ended`).

### Fairness

- `Deployment`: each process is scheduled (weak fairness of its steps), and an
  apt-get ends one way or the other.  Nothing else is promised: no new command,
  no operator, no fault.  A waiter needs no strong fairness, since it has a
  deadline; `TasksSettle` is asked without kills and failing saves because the
  code leaves those tasks to the operator by design (`error.rs:96`).
- `Monitor`: the daemon's steps as a whole are weakly fair, by the interval timer
  and `Restart=on-failure`; systemd's are not.  `TableCatchesUp` therefore speaks
  of units that settle.
- `Daemon`: systemd starts the unit again (`Restart=on-failure`; two seconds apart,
  so that its limit of starts in ten seconds is never reached) and kills one that
  does not stop in time; `main`'s steps, the timer and a turn of the loop are
  scheduled.  Whoever interferes may do so for ever; `ComesUp` and `PruneGoesOn`
  speak of surroundings that are left alone from some moment on (`steady`).
- `CollectionLoop` (in `collectionloop_sigterm`): timer, runtime and the tasks of `spawn_blocking` run.

## 4. Proofs

All from named assumptions on the constants.  Those of `Deployment` say that
releases have versions, units and dependencies of the right kind, that `None` is
nothing else and that at least one backup is kept; every run evaluates them.

`DeploymentProofs`:

- `ControlHolds`: `Spec => []ControlOK`.  Types alone are not inductive: a step
  that saves `file[job[p].task].state` needs the task to be there, one that acts
  on a package needs it in `job`.  `ControlOK` adds that who is past `waiting`
  has the lock (`LockInv`), which parts of a job are set at which label and that
  a removal has no deb (`JobInv`), that the task of a change has its file (`TaskInv`), and that an apt
  that is waited for is waited for at label `apt` (`WaiterInv`).
- `TypeCorrect`: `Spec => []TypeOK`.

`JournalProofs`, on top of it:

- `JournalHolds`: `Spec => []Journal`.  `OneOpenTask` is not inductive: `Tx::new`
  would break it if a task were open.  `QuietInv` carries the outcome of
  `check_incomplete` to `Tx::new`, which it can because the lock keeps others
  out; `OwnerInv` says that the task a process works on is open and about its
  package, so the open task is *its* task; `AptOwner` that a running apt belongs
  to whoever is at work, so that one whose owner died keeps everybody out;
  `EnterInv` that `Tx::enter` never saves a terminal state, which would let go of
  the task too early.
- `OneTaskAtATime`, `WorkAlwaysJournaled`, `AptAlwaysJournaled`: the three
  invariants the run `upgrade` checks, for any number of processes and tasks.

- `StagesHold`: `Spec => []StageInv`, which ties the state of a change in memory to
  the one on disk: they are the same while its work is done, and one is a
  successor of the other between `Tx::enter`'s assignment and its save.  A save
  that fails and the recovery that follows keep this, which is what
  `LifecycleImplemented` needs: `Deployment` implements `TaskLifecycle`, each save
  a step of it and everything else none.  Which actions write which variables
  (`Footprints`) is stated once, and decides most cases.

The proof of a step has one case per action; actions that leave the files alone,
or save one, or hand the task over share the lemmas `CalmKeeps`, `Recording` and
`HandingOver`.

`ChangeProofs`, on top of both, about packages, units and backups:

- `ChangeHolds`: `Spec => []ChangeInv`, which says of every label what the change
  found out before and is still so.  Two things keep it true while others act.
  While a change has the lock nobody else is under way; and an apt whose rsctl
  died keeps everybody else from getting under way (`AptOwner`, `QuietInv`), so
  what it is about to do was checked against the packages it does it to (`AptOK`).
  Sets of packages are spelled out package by package (`Unneeded`, `Unshared`): a
  step that touches one package disturbs one instance.
- `CommitAlwaysTrue`: what `verify_install` saw, and the removal of a package, are
  still so when `committed` is saved, whatever debs are rebuilt and apts lie.
- `RecoveryAlwaysTrue`, under the hypothesis `"silent" \notin Faults`.  It is the
  fault set of the run that checks it, and it is needed: the code judges a
  rollback by apt's exit status and does not look (see above).
- `NoneStranded`, `SharedAlwaysUntouched`: what a removal saw while validating is
  good several states later, when it acts, and what it did not see is what the
  manifests did not say: `ManifestInv` has the history know of every manifest that
  cannot be read, and it only grows while a change lasts.
- `SourceAlwaysStays`: neither a new backup, complete or not, nor pruning costs a
  change the backup of the version it found.

`MonitorProofs`, from the assumptions of `Monitor` (services are numbers, `None` is
neither a run nor a row nor an event):

- `OneRunIsOpen`, `ClosedRunsAreGone`, `RunsAreUnique`, `BaselinesAreOfOpenRuns`,
  `MetricsGoToTheirRun`, `TypeCorrect`: every invariant of the run `monitor_watch`,
  with every fault.  None is inductive, since a tick acts on what `systemctl show`
  said some steps ago.  `ViewInv` says for every point of a tick what of that is
  still so: the run to be closed is not the main process's *any more* and never
  will be again (`CloseInv`); what `read_stat` found under the pid is the process
  systemd named or one so young that no run knows it (`StatInv`); a run to be
  opened is for a process no run of the service is for (`OpeningInv`), and one that
  this service started or whose pid it was handed while being asked about
  (`StatInv`, `ProcInv`), which is `OneRunPerProcess`.  That processes are
  numbered in the order they start makes "never again" a fact about numbers
  (`ProcInv`), and it is why a pid given away again does no harm here.
- `MonitorImplements`: every statement is a step of `RunTable` or none.

`ReportsProofs`, from the assumptions of `DependencyTree` (services and targets are
finite sets of numbers, services before targets, the managed target none of them)
and `Reports`:

- `DirectServices`: whatever the graph, in each of the drawings, the parser reads the
  services the target wants itself and no others.  The depth it computes is the
  length of the way down (`DepthOfWay`), also in ASCII, where bars count as
  branches: the last branch is the unit's own.  Without branches it is the
  indentation, which is one (`DepthOfBareLine`) since that drawing is used on a
  single level only.
- `ReportsHold`, with `LinesAlwaysTrue`, `NothingIsMissed`, `FailuresHaveReasons`,
  `CountsAlwaysFit` and `TypeCorrect` from it.  Half way a command has true lines
  (`LineInv`), and has a line, or still has to ask, for whatever was there all
  along (`LoopInv`).  A page that leaves rows out has to be full: each row has a
  place, the number of later ones, and places have no gaps (`FullPage`).
  `MaxChanges` bounds the worlds TLC looks at, and the theorems hold for any.

Only model-checked is liveness: `TasksSettle`, `EveryCommandReturns`,
`TableCatchesUp`, `FailedRunsAreReported`, `ComesUp` and `PruneGoesOn` rest on
fairness, hence on ENABLED, which is beyond the prover here.  The three sentences
the code does not keep are refuted by a run each.  Every other property of every
run is a theorem.

`DaemonProofs`, from the assumptions of `Daemon` (versions are natural numbers,
the interval and the pruning period are positive):

- `SchemaHolds`: `Spec => []SchemaInv`.  `RecordIsTrue` is not inductive, because a
  commit adds one to the effect of whatever the transaction holds: `TxInv` says
  what that is between any two statements, and that the script in hand has no
  record yet.  `TodoInv` says that what is left to do is what the package has and
  the table has not, and comes after the script in hand; `PhaseInv`, that the
  package changes only while no migration is under way.
- `RecordAlwaysTrue`, `UpAlwaysMigrated`, `AlwaysInOrder` follow; the last one needs
  that a set of versions has a smallest one, which well-foundedness gives.
- `TypeCorrect`, with the counters of the loop (`log_every_ticks` is at least one,
  although its division may give zero).

`RetentionProofs`, from the assumptions of `Retention` (periods are natural
numbers, a batch has room for a row, `None` is neither a day nor a row):

- `MetricsKeepTheirRun` and `NothingOldStays`; the latter by `PruneInv`: a table that
  is done stays done, because nothing is added meanwhile and ages are those of the
  moment the pruning began.
- `RetentionImplements`: every statement is a step of `RunTable` or none, in three
  lemmas, one for each kind of step (`OpenRunOpens`, `CloseRunEnds`,
  `PruneRunsForgets`).

`LogScanProofs`, from the assumptions of `LogScan`:

- `ScanHolds`: an event is no older than its entry (`ScanInv`), so the entry's own
  event is what `has_recent_event` finds when the entry is read again; every entry
  read is still to be considered or has an event at or after it (`TraceInv`).
- `NeverTwice` and `AlwaysATrace` follow.

## 5. Not modelled

Parsing of command lines, of dpkg's, systemctl's (but for the drawn tree) and
journalctl's text, of `/proc`; CPU arithmetic; configuration values, paths,
output; the HTTP placeholder; the build script.  What these return is
nondeterministic here, and they have no state.  A lost directory entry after a
power failure, task files edited by hand, archives cut where dpkg does not notice
and two migration scripts of one number are named among the hazards.

## 6. Plan

Done, in this order: the deployment manager with lock and recovery; its abstract
lifecycle; control and journal proofs; the daemon's monitor; log scan, retention,
loop and migrations; the run table that monitor and retention both implement; the
daemon's lives; the commands that only look; the proofs about the daemon's
database, its pruning and its log scan; the proofs about changes, the refinement
of `TaskLifecycle`, the monitor and the commands that only look.

Next:

1. `Deployment` with `Monitor`: what the daemon records about a unit during an
   upgrade.
2. The hazards without a property: between the two commits of a run that failed
   (`monitor.rs:199`), and `last_active_state` ahead of the database
   (`monitor.rs:130`).
3. A theorem that without reboots a metric comes from the process its run was
   opened for, which start ticks that begin anew keep from holding in general.
