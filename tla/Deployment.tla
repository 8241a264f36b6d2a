------------------------------ MODULE Deployment ------------------------------
(***************************************************************************)
(* rsctl's managed changes: any number of rsctl processes install, upgrade *)
(* and remove packages (crates/rsctl/src/deployment/mod.rs) or control     *)
(* services (commands/service.rs), serialised by one flock, journaled in   *)
(* task files, and carried out by apt/dpkg and systemctl.                  *)
(*                                                                         *)
(* One rsctl process is a program counter and a job record.  A change      *)
(* walks through the states of TaskStates: "entering" saves the next state *)
(* to the task file, "working" does that state's work.  Every save, every  *)
(* command and every query may fail; a process may be killed between any   *)
(* two steps, in which case an apt it started runs on without it.          *)
(***************************************************************************)
EXTENDS TaskStates, Integers, Sequences, FiniteSets

CONSTANTS
  Proc,          \* rsctl processes
  Task,          \* task ids (UUIDs); bounds the number of changes ever begun
  Unit,          \* systemd units
  Release,       \* deb files: a package at a version, with one content
  PackageOf,     \* Release -> package name
  VersionOf,     \* Release -> version, ordered as dpkg --compare-versions does
  ServicesOf,    \* Release -> units its manifest declares
  UnitFilesOf,   \* Release -> units it ships a unit file for
  DependsOn,     \* Release -> packages its manifest depends on
  NativeArch,    \* the releases built for this host's architecture, or "all"
  BackupKeep,    \* BACKUP_KEEP
  Faults,        \* which of FaultKinds may happen
  None           \* no file, no release, no version, no process

Package == {PackageOf[r] : r \in Release}

ASSUME ReleaseAssumption ==
  /\ VersionOf \in [Release -> Nat]
  /\ ServicesOf \in [Release -> SUBSET Unit]
  /\ UnitFilesOf \in [Release -> SUBSET Unit]
  /\ DependsOn \in [Release -> SUBSET Package]
  /\ NativeArch \subseteq Release

ASSUME KeepAssumption == BackupKeep \in Nat \ {0}

\* A task file cannot be written; a process is killed; the machine restarts; a
\* deb is overwritten while it is being installed; apt exits 0 over a package
\* it left, or somebody else put, as it was; a manifest cannot be read or parsed.
FaultKinds == {"save", "crash", "reboot", "rebuild", "silent", "manifest"}

ASSUME FaultAssumption == Faults \subseteq FaultKinds

ASSUME NoneAssumption ==
  /\ None \notin Proc
  /\ None \notin Task
  /\ None \notin Release
  /\ None \notin Package
  /\ None \notin Nat

VARIABLES
  lock,         \* holder of the flock on /run/robot-system/lock
  pc,           \* where each process is
  job,          \* each process's arguments, locals and in-memory task
  file,         \* the task files on disk
  apt,          \* the apt-get/dpkg run in progress, if any
  unpacked,     \* package -> the release whose files are on disk
  configured,   \* packages dpkg reports as installed
  broken,       \* packages whose manifest cannot be read or parsed
  wasBroken,    \* history: those of which that was so since the last task began
  active,       \* running units
  enabled,      \* enabled units
  backups       \* package -> its backup debs, oldest first

procVars == <<pc, job>>
pkgVars  == <<unpacked, configured, broken, wasBroken>>
unitVars == <<active, enabled>>
sysVars  == <<apt, unpacked, configured, broken, wasBroken, active, enabled,
              backups>>
vars     == <<lock, pc, job, file, apt, unpacked, configured, broken, wasBroken,
              active, enabled, backups>>

-------------------------------------------------------------------------------
(* Types *)

PcType == {"idle", "waiting", "checking", "reading", "creating", "entering",
           "working", "copying", "apt", "failing", "restarting", "judging",
           "finishing", "pruning", "service"}

\* deb is the file the command names, info what describe_deb read from it;
\* phase is the state of the task in memory (Tx::task.state).
Job == [kind  : Kind \cup {"service"},
        pkg   : Package \cup {None},
        deb   : Release \cup {None},
        info  : Release \cup {None},
        from  : Nat \cup {None},
        task  : Task \cup {None},
        phase : TaskState,
        decl  : SUBSET Unit,     \* units the change is about
        todo  : SUBSET Unit,     \* those its current loop has not reached
        disabled : SUBSET Unit]  \* those its steps record as disabled

NoJob == [kind |-> "service", pkg |-> None, deb |-> None, info |-> None,
          from |-> None, task |-> None, phase |-> "created", decl |-> {},
          todo |-> {}, disabled |-> {}]

TaskFile == [kind : Kind, pkg : Package, state : TaskState]

Apt == [pkg : Package, target : Release \cup {None}, task : Task,
        by : Proc \cup {None}]

Backup == [rel : Release, whole : BOOLEAN]

ASSUME NoRecordAssumption ==
  /\ None \notin TaskFile
  /\ None \notin Apt
  /\ None \notin [kind : Kind, state : TaskState]

TypeOK ==
  /\ lock \in Proc \cup {None}
  /\ pc \in [Proc -> PcType]
  /\ job \in [Proc -> Job]
  /\ file \in [Task -> TaskFile \cup {None}]
  /\ apt \in Apt \cup {None}
  /\ unpacked \in [Package -> Release \cup {None}]
  /\ configured \subseteq Package
  /\ broken \subseteq Package
  /\ wasBroken \subseteq Package
  /\ active \subseteq Unit
  /\ enabled \subseteq Unit
  /\ backups \in [Package -> Seq(Backup)]

-------------------------------------------------------------------------------
(* Queries *)

\* installed_version: what dpkg-query reports, None unless fully installed.
InstalledVersion(p) ==
  IF p \in configured /\ unpacked[p] # None THEN VersionOf[unpacked[p]] ELSE None

\* services_of: the manifest is one of the package's files.  load_all passes over
\* those it cannot load, as if the package had none.
DeclaredBy(r, readable) == IF r # None /\ readable THEN ServicesOf[r] ELSE {}
Declared(p) == DeclaredBy(unpacked[p], p \notin broken)

\* other_owners_of_service.
OtherOwners(u, p) == {q \in Package \ {p} : u \in Declared(q)}

\* dependents_of.
Dependents(p) ==
  {q \in Package \ ({p} \cup broken) : unpacked[q] # None /\ p \in DependsOn[unpacked[q]]}

\* UnitStatus::exists: some package on disk ships the unit file.
Exists(u) == \E p \in Package : unpacked[p] # None /\ u \in UnitFilesOf[unpacked[p]]

\* TaskStore::incomplete.
OpenTasks == {t \in Task : file[t] # None /\ Incomplete(file[t].state)}

\* Mutant of BackupsFor: any backup of the package will do.
BackupsOfAnyVersion(p, v) == DOMAIN backups[p]

\* find_backup: the backup file's name carries the package and the version.
BackupsFor(p, v) ==
  {i \in DOMAIN backups[p] : VersionOf[backups[p][i].rel] = v}

-------------------------------------------------------------------------------
(* Initial states: packages settled by earlier commands or by hand, with   *)
(* or without a backup of what is installed.                               *)

Settled ==
  {f \in [Package -> Release \cup {None}] :
     \A p \in Package : f[p] # None => PackageOf[f[p]] = p /\ f[p] \in NativeArch}

Init ==
  /\ lock = None
  /\ pc = [p \in Proc |-> "idle"]
  /\ job = [p \in Proc |-> NoJob]
  /\ file = [t \in Task |-> None]
  /\ apt = None
  /\ unpacked \in Settled
  /\ configured = {p \in Package : unpacked[p] # None}
  /\ broken = {}
  /\ wasBroken = {}
  /\ active = {u \in Unit : Exists(u) /\ \E p \in Package : u \in Declared(p)}
  /\ enabled = active
  /\ backups \in [Package -> {<<>>} \cup {<<[rel |-> r, whole |-> TRUE]>> : r \in Release}]
  /\ \A p \in Package :
       backups[p] # <<>> => backups[p] = <<[rel |-> unpacked[p], whole |-> TRUE]>>

-------------------------------------------------------------------------------
(* Steps shared by the commands *)

Goto(p, label) == pc' = [pc EXCEPT ![p] = label]

\* The command ends, in success or error: its flock is dropped.
Return(p) ==
  /\ Goto(p, "idle")
  /\ job' = [job EXCEPT ![p] = NoJob]
  /\ lock' = IF lock = p THEN None ELSE lock

\* Tx::enter up to the save: the state changes in memory first.
Proceed(p, s) ==
  /\ pc' = [pc EXCEPT ![p] = "entering"]
  /\ job' = [job EXCEPT ![p].phase = s]

\* Tx::finish up to the save.
Conclude(p, s) ==
  /\ pc' = [pc EXCEPT ![p] = "finishing"]
  /\ job' = [job EXCEPT ![p].phase = s]

\* TaskStore::save replaces the file in one rename.
Save(t, s) == file' = [file EXCEPT ![t].state = s]

At(p, label, s) == pc[p] = label /\ job[p].phase = s

Removing(p) == job[p].kind = "remove"

-------------------------------------------------------------------------------
(* Starting a command and taking the lock *)

\* Bound: a change starts only while a task id is left for it.
Begun == {p \in Proc : pc[p] \in {"waiting", "checking", "reading", "creating"}
                       /\ job[p].kind # "service"}

MoreTasks == Cardinality({t \in Task : file[t] = None}) > Cardinality(Begun)

Start(p, j) ==
  /\ pc[p] = "idle"
  /\ Goto(p, "waiting")
  /\ job' = [job EXCEPT ![p] = j]
  /\ UNCHANGED <<lock, file, sysVars>>

\* rsctl package install | upgrade FILE
StartInstall(p, k, r) ==
  /\ MoreTasks
  /\ Start(p, [NoJob EXCEPT !.kind = k, !.pkg = PackageOf[r], !.deb = r])

\* rsctl package remove NAME
StartRemove(p, q) ==
  /\ MoreTasks
  /\ Start(p, [NoJob EXCEPT !.kind = "remove", !.pkg = q])

\* rsctl service start | stop | restart | enable | disable UNIT
StartServiceCommand(p) == Start(p, NoJob)

\* ManagedLock::acquire, a successful try; a service command goes straight to
\* its operation, a change looks for an unfinished one first.
TakeLock(p) ==
  /\ pc[p] = "waiting"
  /\ lock = None
  /\ lock' = p
  /\ Goto(p, IF job[p].kind = "service" THEN "service" ELSE "checking")
  /\ UNCHANGED <<job, file, sysVars>>

\* Mutant of LockTimeout: a waiter has no deadline.
LockForever(p) == FALSE

\* The deadline passes on a failed try: LockBusy.
LockTimeout(p) ==
  /\ pc[p] = "waiting"
  /\ lock # None
  /\ Return(p)
  /\ UNCHANGED <<file, sysVars>>

-------------------------------------------------------------------------------
(* The beginning of install and remove *)

\* Mutant of CheckIncomplete: the store is not consulted.
CheckNothing(p) ==
  /\ pc[p] = "checking"
  /\ Goto(p, "reading")
  /\ UNCHANGED <<lock, job, file, sysVars>>

CheckIncomplete(p) ==
  /\ pc[p] = "checking"
  /\ IF OpenTasks = {}
       THEN Goto(p, "reading") /\ UNCHANGED <<lock, job>>
       ELSE Return(p)
  /\ UNCHANGED <<file, sysVars>>

\* Mutant of ReadInstalled: reinstalling a version is given a kind of its own.
ReadInstalledReinstall(p) ==
  LET from == InstalledVersion(job[p].pkg) IN
  /\ pc[p] = "reading"
  /\ Removing(p) => from # None
  /\ job' = [job EXCEPT ![p].from = from,
                        ![p].info = job[p].deb,
                        ![p].kind = IF @ = "install" /\ from # None
                                      THEN "reinstall" ELSE @]
  /\ Goto(p, "creating")
  /\ UNCHANGED <<lock, file, sysVars>>

\* describe_deb and installed_version; an install of an installed package
\* becomes an upgrade, a removal of an absent one is an error.
ReadInstalled(p) ==
  LET from == InstalledVersion(job[p].pkg) IN
  /\ pc[p] = "reading"
  /\ Removing(p) => from # None
  /\ job' = [job EXCEPT ![p].from = from,
                        ![p].info = job[p].deb,
                        ![p].kind = IF @ = "install" /\ from # None
                                      THEN "upgrade" ELSE @]
  /\ Goto(p, "creating")
  /\ UNCHANGED <<lock, file, sysVars>>

\* Tx::new: the task file appears in state created.
CreateTask(p) ==
  /\ pc[p] = "creating"
  /\ \E t \in Task :
       /\ file[t] = None
       /\ file' = [file EXCEPT ![t] = [kind |-> job[p].kind, pkg |-> job[p].pkg,
                                       state |-> "created"]]
       /\ job' = [job EXCEPT ![p].task = t, ![p].phase = "validating"]
  /\ Goto(p, "entering")
  /\ wasBroken' = broken
  /\ UNCHANGED <<lock, apt, unpacked, configured, broken, unitVars, backups>>

\* A bad deb, an absent package, a query or the first save failing: the
\* command ends in an error and no task was recorded.
GiveUpEarly(p) ==
  /\ pc[p] \in {"checking", "reading"} \/ (pc[p] = "creating" /\ "save" \in Faults)
  /\ Return(p)
  /\ UNCHANGED <<file, sysVars>>

-------------------------------------------------------------------------------
(* run_install and run_remove, one state at a time *)

\* Tx::enter: the state reaches the disk before its work begins.  The units
\* to stop or to start are read from the manifest on the way in.
Enter(p) ==
  /\ pc[p] = "entering"
  /\ Save(job[p].task, job[p].phase)
  /\ Goto(p, "working")
  /\ LET here == Declared(job[p].pkg) IN
     job' = CASE job[p].phase = "stopping_services" ->
                   [job EXCEPT ![p].todo = IF Removing(p) THEN job[p].decl ELSE here]
              [] job[p].phase = "starting_services" ->
                   [job EXCEPT ![p].decl = here, ![p].todo = here]
              [] OTHER -> job
  /\ UNCHANGED <<lock, sysVars>>

\* Mutant of EnterFails: a failed save is logged and the work goes on.
EnterRegardless(p) ==
  /\ pc[p] = "entering"
  /\ "save" \in Faults
  /\ Goto(p, "working")
  /\ UNCHANGED <<lock, job, file, sysVars>>

\* The save fails: a working state turns into a failure, while Recovering is
\* entered outside the guarded region and ends the command.
EnterFails(p) ==
  /\ pc[p] = "entering"
  /\ "save" \in Faults
  /\ IF job[p].phase = "recovering"
       THEN Return(p)
       ELSE Goto(p, "failing") /\ UNCHANGED <<lock, job>>
  /\ UNCHANGED <<file, sysVars>>

\* Architecture and downgrade checks; a reinstall of the same version passes.
ValidateInstall(p) ==
  /\ At(p, "working", "validating")
  /\ ~Removing(p)
  /\ job[p].info \in NativeArch
  /\ job[p].from # None => VersionOf[job[p].info] >= job[p].from
  /\ Proceed(p, "prepared")
  /\ UNCHANGED <<lock, file, sysVars>>

\* Mutant of ValidateRemove: dependents are not looked up.
ValidateRemoveAlone(p) ==
  /\ At(p, "working", "validating")
  /\ Removing(p)
  /\ pc' = [pc EXCEPT ![p] = "entering"]
  /\ job' = [job EXCEPT ![p].phase = "prepared",
                        ![p].decl = {u \in Declared(job[p].pkg) :
                                       OtherOwners(u, job[p].pkg) = {}}]
  /\ UNCHANGED <<lock, file, sysVars>>

\* No managed package may depend on the one to remove; only units no other
\* package declares will be touched.
ValidateRemove(p) ==
  /\ At(p, "working", "validating")
  /\ Removing(p)
  /\ Dependents(job[p].pkg) = {}
  /\ pc' = [pc EXCEPT ![p] = "entering"]
  /\ job' = [job EXCEPT ![p].phase = "prepared",
                        ![p].decl = {u \in Declared(job[p].pkg) :
                                       OtherOwners(u, job[p].pkg) = {}}]
  /\ UNCHANGED <<lock, file, sysVars>>

\* backup_deb: an existing file of that name is taken as it is.
PrepareWithBackup(p) ==
  /\ At(p, "working", "prepared")
  /\ ~Removing(p) => BackupsFor(job[p].pkg, VersionOf[job[p].info]) # {}
  /\ Proceed(p, "stopping_services")
  /\ UNCHANGED <<lock, file, sysVars>>

\* backup_deb: otherwise the deb is copied, first as an incomplete file.
BeginBackup(p) ==
  /\ At(p, "working", "prepared")
  /\ ~Removing(p)
  /\ BackupsFor(job[p].pkg, VersionOf[job[p].info]) = {}
  /\ backups' = [backups EXCEPT ![job[p].pkg] =
                   Append(@, [rel |-> job[p].info, whole |-> FALSE])]
  /\ Goto(p, "copying")
  /\ UNCHANGED <<lock, job, file, apt, pkgVars, unitVars>>

EndBackup(p) ==
  LET mine == backups[job[p].pkg] IN
  /\ pc[p] = "copying"
  /\ backups' = [backups EXCEPT ![job[p].pkg] =
                   [mine EXCEPT ![Len(mine)] = [rel |-> job[p].deb, whole |-> TRUE]]]
  /\ Proceed(p, "stopping_services")
  /\ UNCHANGED <<lock, file, apt, pkgVars, unitVars>>

\* Mutant of MayStop: shared units are not spared.
MayStopShared(p, u) == Exists(u)

\* What a change may stop: its own units that exist and are not shared.  The
\* removal settled this while validating, the others look again at each unit.
MayStop(p, u) ==
  /\ Exists(u)
  /\ Removing(p) \/ OtherOwners(u, job[p].pkg) = {}

StopUnit(p, u) ==
  /\ At(p, "working", "stopping_services")
  /\ u \in job[p].todo
  /\ MayStop(p, u)
  /\ u \in active
  /\ active' = active \ {u}
  /\ job' = [job EXCEPT ![p].todo = IF Removing(p) /\ u \in enabled
                                      THEN @ ELSE @ \ {u}]
  /\ UNCHANGED <<lock, pc, file, apt, pkgVars, enabled, backups>>

\* A removal also disables the unit.
DisableUnit(p, u) ==
  /\ At(p, "working", "stopping_services")
  /\ Removing(p)
  /\ u \in job[p].todo
  /\ MayStop(p, u)
  /\ u \notin active
  /\ u \in enabled
  /\ enabled' = enabled \ {u}
  /\ job' = [job EXCEPT ![p].todo = @ \ {u}, ![p].disabled = @ \cup {u}]
  /\ UNCHANGED <<lock, pc, file, apt, pkgVars, active, backups>>

\* A shared or missing unit, or one with nothing to stop, is passed over.
PassUnit(p, u) ==
  /\ At(p, "working", "stopping_services")
  /\ u \in job[p].todo
  /\ MayStop(p, u) => u \notin active /\ (Removing(p) => u \notin enabled)
  /\ job' = [job EXCEPT ![p].todo = @ \ {u}]
  /\ UNCHANGED <<lock, pc, file, sysVars>>

ServicesStopped(p) ==
  /\ At(p, "working", "stopping_services")
  /\ job[p].todo = {}
  /\ Proceed(p, "applying_package")
  /\ UNCHANGED <<lock, file, sysVars>>

\* install_deb(deb) or remove(name): apt-get is started and waited for.
RunApt(p) ==
  /\ At(p, "working", "applying_package")
  /\ apt = None
  /\ apt' = [pkg |-> job[p].pkg, target |-> job[p].deb, task |-> job[p].task,
             by |-> p]
  /\ Goto(p, "apt")
  /\ UNCHANGED <<lock, job, file, pkgVars, unitVars, backups>>

DaemonReload(p) ==
  /\ At(p, "working", "configuring_services")
  /\ Proceed(p, NextState(job[p].kind, "configuring_services"))
  /\ UNCHANGED <<lock, file, sysVars>>

\* Enabling is best effort, starting is not.
StartUnit(p, u) ==
  /\ At(p, "working", "starting_services")
  /\ u \in job[p].todo
  /\ Exists(u)
  /\ enabled' \in {enabled, enabled \cup {u}}
  /\ active' = active \cup {u}
  /\ job' = [job EXCEPT ![p].todo = @ \ {u}]
  /\ UNCHANGED <<lock, pc, file, apt, pkgVars, backups>>

StartUnitFails(p, u) ==
  /\ At(p, "working", "starting_services")
  /\ u \in job[p].todo
  /\ enabled' \in {enabled, IF Exists(u) THEN enabled \cup {u} ELSE enabled}
  /\ Goto(p, "failing")
  /\ UNCHANGED <<lock, job, file, apt, pkgVars, active, backups>>

ServicesStarted(p) ==
  /\ At(p, "working", "starting_services")
  /\ job[p].todo = {}
  /\ Proceed(p, "verifying_package")
  /\ UNCHANGED <<lock, file, sysVars>>

\* Mutant of Verified: apt's exit status is taken for the installed version.
VerifiedUnits(p) == \A u \in job[p].decl : Exists(u)

\* verify_install and the check that each declared unit is loaded; for a
\* removal, that dpkg no longer reports the package.
Verified(p) ==
  IF Removing(p)
    THEN InstalledVersion(job[p].pkg) = None
    ELSE /\ InstalledVersion(job[p].pkg) = VersionOf[job[p].info]
         /\ \A u \in job[p].decl : Exists(u)

Verify(p) ==
  /\ At(p, "working", "verifying_package")
  /\ Verified(p)
  /\ Conclude(p, "committed")
  /\ UNCHANGED <<lock, file, sysVars>>

\* Any check, query, command or step record of the main flow fails.
StepFails(p) ==
  /\ pc[p] \in {"working", "copying"}
  /\ job[p].phase # "recovering"
  /\ Goto(p, "failing")
  /\ UNCHANGED <<lock, job, file, sysVars>>

-------------------------------------------------------------------------------
(* Failure and recovery *)

\* Mutant of Fail: the failure itself is not written down.
FailUnrecorded(p) ==
  /\ pc[p] = "failing"
  /\ Proceed(p, "recovering")
  /\ UNCHANGED <<lock, file, sysVars>>

\* Tx::fail, then Tx::enter(Recovering) is next.
Fail(p) ==
  /\ pc[p] = "failing"
  /\ Save(job[p].task, "failed")
  /\ Proceed(p, "recovering")
  /\ UNCHANGED <<lock, sysVars>>

FailFails(p) ==
  /\ pc[p] = "failing"
  /\ "save" \in Faults
  /\ Return(p)
  /\ UNCHANGED <<file, sysVars>>

OldBackups(p) == IF job[p].from = None THEN {} ELSE BackupsFor(job[p].pkg, job[p].from)

\* recover_after_install and recover_after_remove: reinstall the old version
\* from its backup, if there is one.
RunRollback(p) ==
  /\ At(p, "working", "recovering")
  /\ apt = None
  /\ \E i \in OldBackups(p) :
       LET backup == backups[job[p].pkg][i] IN
       /\ backup.whole
       /\ apt' = [pkg |-> job[p].pkg, target |-> backup.rel, task |-> job[p].task,
                  by |-> p]
  /\ Goto(p, "apt")
  /\ UNCHANGED <<lock, job, file, pkgVars, unitVars, backups>>

\* Where a recovery goes that could not reinstall: a removal may still find
\* its package installed, anything else is left to the operator.
NoRollback(p) ==
  IF Removing(p) THEN Goto(p, "judging") /\ UNCHANGED job
                 ELSE Conclude(p, "recovery_required")

\* There is no old version, no backup of it, or a backup that cannot be used.
RollbackImpossible(p) ==
  /\ At(p, "working", "recovering")
  /\ OldBackups(p) = {} \/ \E i \in OldBackups(p) : ~backups[job[p].pkg][i].whole
  /\ NoRollback(p)
  /\ UNCHANGED <<lock, file, sysVars>>

\* restart_declared_services: each start is tried once, whatever comes of it.
RestartUnit(p, u) ==
  /\ pc[p] = "restarting"
  /\ u \in job[p].todo
  /\ active' \in {active, IF Exists(u) THEN active \cup {u} ELSE active}
  /\ job' = [job EXCEPT ![p].todo = @ \ {u}]
  /\ UNCHANGED <<lock, pc, file, apt, pkgVars, enabled, backups>>

ServicesRestarted(p) ==
  /\ pc[p] = "restarting"
  /\ job[p].todo = {}
  /\ Conclude(p, "recovered")
  /\ UNCHANGED <<lock, file, sysVars>>

\* recover_after_remove: a package that is still installed counts as recovered.
JudgeRemoval(p) ==
  /\ pc[p] = "judging"
  /\ Conclude(p, IF InstalledVersion(job[p].pkg) # None THEN "recovered"
                                                        ELSE "recovery_required")
  /\ UNCHANGED <<lock, file, sysVars>>

\* A query or a step record of the recovery fails: RecoveryRequired.
RecoveryFails(p) ==
  /\ pc[p] = "judging" \/ At(p, "working", "recovering")
  /\ Conclude(p, "recovery_required")
  /\ UNCHANGED <<lock, file, sysVars>>

\* Mutant of Finish: the lock is given up before the backups are tidied.
FinishUnlocked(p) ==
  /\ pc[p] = "finishing"
  /\ Save(job[p].task, job[p].phase)
  /\ IF Removing(p) THEN Return(p)
                    ELSE Goto(p, "pruning") /\ lock' = None /\ UNCHANGED job
  /\ UNCHANGED sysVars

\* Mutant of Finish: only a success is written down.
FinishSuccess(p) ==
  /\ pc[p] = "finishing"
  /\ IF job[p].phase = "recovery_required" THEN UNCHANGED file
                                           ELSE Save(job[p].task, job[p].phase)
  /\ Return(p)
  /\ UNCHANGED sysVars

\* Tx::finish.  An install tidies its backups before it returns.
Finish(p) ==
  /\ pc[p] = "finishing"
  /\ Save(job[p].task, job[p].phase)
  /\ IF Removing(p) THEN Return(p)
                    ELSE Goto(p, "pruning") /\ UNCHANGED <<lock, job>>
  /\ UNCHANGED sysVars

FinishFails(p) ==
  /\ pc[p] = "finishing"
  /\ "save" \in Faults
  /\ Return(p)
  /\ UNCHANGED <<file, sysVars>>

\* prune_backups keeps the newest BackupKeep; it deletes the excess from its
\* newest on and stops, unnoticed, at the first file it cannot delete.
PruneBackups(p) ==
  LET mine   == backups[job[p].pkg]
      excess == Len(mine) - BackupKeep
  IN
  /\ pc[p] = "pruning"
  /\ \E left \in 0 .. (IF excess > 0 THEN excess ELSE 0) :
       backups' = [backups EXCEPT ![job[p].pkg] =
                     IF excess > 0
                       THEN SubSeq(mine, 1, left) \o SubSeq(mine, excess + 1, Len(mine))
                       ELSE mine]
  /\ Return(p)
  /\ UNCHANGED <<file, apt, pkgVars, unitVars>>

-------------------------------------------------------------------------------
(* apt-get and dpkg, external: what a run may do to its package *)

InstallAs(q, r) ==
  /\ unpacked' = [unpacked EXCEPT ![q] = r]
  /\ configured' = IF r = None THEN configured \ {q} ELSE configured \cup {q}
  /\ broken' = broken \ {q}
  /\ UNCHANGED wasBroken

\* What the waiting process does with apt's success.
AfterApt(p) ==
  IF job[p].phase = "recovering"
    THEN \/ /\ pc' = [pc EXCEPT ![p] = "restarting"]
            /\ job' = [job EXCEPT ![p].todo =
                          DeclaredBy(unpacked'[apt.pkg], apt.pkg \notin broken')]
         \/ Conclude(p, "recovery_required")
    ELSE Proceed(p, "configuring_services")

\* What the waiting process does with apt's failure.
AfterAptError(p) ==
  IF job[p].phase = "recovering"
    THEN NoRollback(p)
    ELSE Goto(p, "failing") /\ UNCHANGED job

\* Exit status 0.  dpkg refuses a deb for another architecture.
AptSucceeds ==
  /\ apt # None
  /\ apt.target \in NativeArch \cup {None}
  /\ \/ InstallAs(apt.pkg, apt.target)
     \/ "silent" \in Faults /\ UNCHANGED pkgVars
  /\ apt' = None
  /\ IF apt.by = None THEN UNCHANGED procVars ELSE AfterApt(apt.by)
  /\ UNCHANGED <<lock, file, unitVars, backups>>

\* It fails having done all, some or none of its work: the package's files
\* are the old or the new ones, configured or not; the manifest is one of them.
Interrupted(q, r) ==
  /\ \/ UNCHANGED <<unpacked, broken>>
     \/ unpacked' = [unpacked EXCEPT ![q] = r] /\ broken' = broken \ {q}
  /\ configured' \in {configured, configured \ {q},
                      IF unpacked'[q] = None THEN configured \ {q}
                                             ELSE configured \cup {q}}
  /\ q \in configured' => unpacked'[q] # None
  /\ UNCHANGED wasBroken

AptFails ==
  /\ apt # None
  /\ Interrupted(apt.pkg, apt.target)
  /\ apt' = None
  /\ IF apt.by = None THEN UNCHANGED procVars ELSE AfterAptError(apt.by)
  /\ UNCHANGED <<lock, file, unitVars, backups>>

-------------------------------------------------------------------------------
(* rsctl service ...: one systemctl operation under the lock *)

ServiceCommand(p, u) ==
  /\ pc[p] = "service"
  /\ Exists(u)
  /\ \/ active' \in {active \cup {u}, active \ {u}} /\ UNCHANGED enabled
     \/ enabled' \in {enabled \cup {u}, enabled \ {u}} /\ UNCHANGED active
  /\ Return(p)
  /\ UNCHANGED <<file, apt, pkgVars, backups>>

ServiceCommandFails(p) ==
  /\ pc[p] = "service"
  /\ Return(p)
  /\ UNCHANGED <<file, sysVars>>

-------------------------------------------------------------------------------
(* The environment *)

\* A process is killed; the kernel drops its flock, its apt-get runs on.
Crash(p) ==
  /\ "crash" \in Faults
  /\ pc[p] # "idle"
  /\ Return(p)
  /\ apt' = IF apt # None /\ apt.by = p THEN [apt EXCEPT !.by = None] ELSE apt
  /\ UNCHANGED <<file, pkgVars, unitVars, backups>>

\* The machine restarts: nothing runs but what is enabled.
Reboot ==
  /\ "reboot" \in Faults
  /\ pc' = [p \in Proc |-> "idle"]
  /\ job' = [p \in Proc |-> NoJob]
  /\ lock' = None
  /\ apt' = None
  /\ IF apt = None THEN UNCHANGED pkgVars ELSE Interrupted(apt.pkg, apt.target)
  /\ active' = {u \in enabled : Exists(u)'}
  /\ UNCHANGED <<file, enabled, backups>>

\* The operator deals with an unfinished task ("请先处理", error.rs:96) that no
\* process is working on any more, by marking its file.
Settle(t) ==
  /\ t \in OpenTasks
  /\ \A p \in Proc : job[p].task # t
  /\ apt # None => apt.task # t
  /\ Save(t, "recovery_required")
  /\ UNCHANGED <<lock, procVars, sysVars>>

\* The deb a command names is overwritten by another build of its version.
Rebuild(p, r) ==
  /\ "rebuild" \in Faults
  /\ pc[p] \notin {"idle", "service"}
  /\ job[p].deb # None
  /\ r # job[p].deb
  /\ PackageOf[r] = PackageOf[job[p].deb]
  /\ VersionOf[r] = VersionOf[job[p].deb]
  /\ job' = [job EXCEPT ![p].deb = r]
  /\ UNCHANGED <<lock, pc, file, sysVars>>

\* A manifest on disk is damaged or badly edited, and put right again by hand.
Damage(q) ==
  /\ "manifest" \in Faults
  /\ unpacked[q] # None
  /\ q \notin broken
  /\ broken' = broken \cup {q}
  /\ wasBroken' = wasBroken \cup {q}
  /\ UNCHANGED <<lock, procVars, file, apt, unpacked, configured, unitVars, backups>>

Mend(q) ==
  /\ q \in broken
  /\ broken' = broken \ {q}
  /\ UNCHANGED <<lock, procVars, file, apt, unpacked, configured, wasBroken, unitVars,
                 backups>>

-------------------------------------------------------------------------------
(* The specification *)

Command(p) ==
  \/ \E r \in Release, k \in {"install", "upgrade"} : StartInstall(p, k, r)
  \/ \E q \in Package : StartRemove(p, q)
  \/ StartServiceCommand(p)

UnitStep(p, u) ==
  \/ StopUnit(p, u) \/ DisableUnit(p, u) \/ PassUnit(p, u)
  \/ StartUnit(p, u) \/ StartUnitFails(p, u) \/ RestartUnit(p, u)
  \/ ServiceCommand(p, u)

Step(p) ==
  \/ TakeLock(p) \/ LockTimeout(p)
  \/ CheckIncomplete(p) \/ ReadInstalled(p) \/ CreateTask(p) \/ GiveUpEarly(p)
  \/ Enter(p) \/ EnterFails(p)
  \/ ValidateInstall(p) \/ ValidateRemove(p)
  \/ PrepareWithBackup(p) \/ BeginBackup(p) \/ EndBackup(p)
  \/ ServicesStopped(p) \/ RunApt(p) \/ DaemonReload(p) \/ ServicesStarted(p)
  \/ Verify(p) \/ StepFails(p)
  \/ Fail(p) \/ FailFails(p)
  \/ RunRollback(p) \/ RollbackImpossible(p) \/ ServicesRestarted(p)
  \/ JudgeRemoval(p) \/ RecoveryFails(p)
  \/ Finish(p) \/ FinishFails(p) \/ PruneBackups(p)
  \/ ServiceCommandFails(p)
  \/ \E u \in Unit : UnitStep(p, u)

Environment ==
  \/ AptSucceeds \/ AptFails \/ Reboot
  \/ \E t \in Task : Settle(t)
  \/ \E q \in Package : Damage(q) \/ Mend(q)
  \/ \E p \in Proc : Crash(p) \/ \E r \in Release : Rebuild(p, r)

Next == (\E p \in Proc : Command(p) \/ Step(p)) \/ Environment

Spec == Init /\ [][Next]_vars

(***************************************************************************)
(* Fairness: a process the scheduler runs, and an apt-get that ends; the   *)
(* operator, new commands and faults are under no obligation.  A lock      *)
(* waiter polls every 200 ms until its deadline, so it takes a free lock   *)
(* or times out.                                                           *)
(***************************************************************************)
Fairness ==
  /\ \A p \in Proc : WF_vars(Step(p))
  /\ WF_vars(AptSucceeds \/ AptFails)

FairSpec == Spec /\ Fairness

-------------------------------------------------------------------------------
(* Safety *)

\* At most one task file is unfinished, whatever crashes and failed saves
\* leave behind: check_incomplete and Tx::new happen under one lock.
OneOpenTask == \A s, t \in OpenTasks : s = t

\* Whatever a change does to services, packages or backups, the state that
\* announces it is already on disk (Tx::enter saves before the work begins).
WorkIsJournaled ==
  \A p \in Proc :
    pc[p] \in {"working", "copying", "apt", "restarting", "judging"} =>
      /\ job[p].task # None
      /\ file[job[p].task] # None
      /\ file[job[p].task].state = job[p].phase

\* While an apt run may touch a package, an unfinished task file says so and
\* keeps every other change out, even when the rsctl that started it is dead.
AptIsJournaled ==
  apt # None =>
    /\ file[apt.task] # None
    /\ file[apt.task].pkg = apt.pkg
    /\ file[apt.task].state \in {"applying_package", "recovering"}

\* When "committed" is about to be written the change has really happened: nobody
\* undid between verifying and finishing what was verified.  Where the manifest
\* could not be read all along, units may have been left out.
CommitIsTrue ==
  \A p \in Proc :
    At(p, "finishing", "committed") =>
      IF Removing(p)
        THEN job[p].pkg \notin configured
        ELSE /\ job[p].pkg \in configured
             /\ VersionOf[unpacked[job[p].pkg]] = VersionOf[job[p].info]
             /\ \A u \in IF job[p].pkg \in wasBroken
                          THEN job[p].decl ELSE ServicesOf[unpacked[job[p].pkg]] :
                  Exists(u)

\* "recovered" is never a false report of a rollback (ARCHITECTURE.md 4.5,
\* lines 323-324): the version from before the change is installed.
RecoveryIsTrue ==
  \A p \in Proc :
    pc[p] = "restarting" \/ At(p, "finishing", "recovered") =>
      /\ job[p].from # None
      /\ InstalledVersion(job[p].pkg) = job[p].from

-------------------------------------------------------------------------------
(* What a step may never do *)

Changing == lock # None /\ lock' = lock /\ job[lock].kind # "service"

\* Who else declares the unit, and who depends on the package, to whoever can read
\* every manifest.
OwnersOnDisk(u, p) ==
  {q \in Package \ {p} : unpacked[q] # None /\ u \in ServicesOf[unpacked[q]]}

DependentsOnDisk(p) ==
  {q \in Package \ {p} : unpacked[q] # None /\ p \in DependsOn[unpacked[q]]}

\* No change stops or disables a unit that another package declares, even though a
\* removal decides on its units long before it reaches them; but for packages
\* whose manifest was not readable all through the change.
SharedUnitsUntouched ==
  [][Changing =>
       \A u \in (active \ active') \cup (enabled \ enabled') :
         OwnersOnDisk(u, job[lock].pkg) \subseteq wasBroken]_vars

\* No package goes away under another that depends on it, even though the look at
\* the dependents is long past when apt acts, and rsctl may be dead; but for
\* dependents whose manifest was not readable all through the change.
NoDependentStranded ==
  [][\A q \in Package : unpacked[q] # None /\ unpacked'[q] = None =>
       DependentsOnDisk(q) \subseteq wasBroken]_vars

\* The backup a running change would roll back to does not vanish under it.
RollbackSourceStays ==
  [][\A p \in Proc :
       /\ pc[p] \notin {"idle", "waiting", "checking", "reading", "pruning"}
       /\ pc'[p] # "idle"
       /\ OldBackups(p) # {}
       => OldBackups(p)' # {}]_vars

\* The task files are those of TaskLifecycle.
Lifecycle ==
  INSTANCE TaskLifecycle WITH
    NoTask <- None,
    files <- [t \in Task |-> IF file[t] = None THEN None
                             ELSE [kind |-> file[t].kind, state |-> file[t].state]]

ImplementsLifecycle == Lifecycle!Spec

-------------------------------------------------------------------------------
(* Liveness *)

\* Every command ends: no process waits for the lock, for another process or
\* for a loop over units for ever.
EveryCommandReturns == \A p \in Proc : pc[p] # "idle" ~> pc[p] = "idle"

\* As long as saves work and nobody is killed, every task reaches a terminal
\* state, so that later changes are not locked out.
TasksSettle ==
  \A t \in Task : t \in OpenTasks ~> (file[t] # None /\ t \notin OpenTasks)

-------------------------------------------------------------------------------
(* What a comment says and the code does not keep *)

\* "卸载失败后的恢复：尝试重新安装并恢复服务" (deployment/mod.rs:443): after a
\* recovered removal the units it disabled are enabled again.
RemovalRecoveryRestoresServices ==
  \A p \in Proc :
    Removing(p) /\ At(p, "finishing", "recovered") => job[p].disabled \subseteq enabled
===============================================================================
