--------------------------- MODULE DeploymentProofs ---------------------------
(***************************************************************************)
(* Deployment's safety for any number of processes, tasks, packages and    *)
(* units, and whatever faults occur.                                       *)
(***************************************************************************)
EXTENDS Deployment, SequenceTheorems, TLAPS

-------------------------------------------------------------------------------
(* Where a process stands determines what it holds *)

\* The process has recorded its task.
Tasked == {"entering", "working", "copying", "apt", "failing", "restarting",
           "judging", "finishing"}

LockInv == \A p \in Proc : lock = p <=> pc[p] \notin {"idle", "waiting"}

JobInv ==
  \A p \in Proc :
    /\ pc[p] \notin {"idle", "waiting", "service"} => job[p].kind \in Kind
    /\ job[p].kind \in Kind => job[p].pkg \in Package
    /\ job[p].kind \in {"install", "upgrade"} => job[p].deb \in Release
    /\ job[p].kind = "remove" => job[p].deb = None
    /\ pc[p] \in {"creating"} \cup Tasked /\ job[p].kind # "remove" =>
         job[p].info \in Release
    /\ pc[p] = "copying" => job[p].kind # "remove"

TaskInv ==
  \A p \in Proc : pc[p] \in Tasked =>
    /\ job[p].task \in Task
    /\ file[job[p].task] # None

WaiterInv == apt # None /\ apt.by # None => pc[apt.by] = "apt"

ControlOK == TypeOK /\ LockInv /\ JobInv /\ TaskInv /\ WaiterInv

-------------------------------------------------------------------------------
(* Type correctness *)

\* Deleting a middle stretch of a package's backups leaves a sequence of them.
LEMMA CutType ==
  ASSUME NEW s \in Seq(Backup), NEW i \in 0 .. Len(s), NEW j \in 1 .. Len(s) + 1
  PROVE  SubSeq(s, 1, i) \o SubSeq(s, j, Len(s)) \in Seq(Backup)
<1>1. SubSeq(s, 1, i) \in Seq(Backup)
  BY SubSeqProperties
<1>2. SubSeq(s, j, Len(s)) \in Seq(Backup)
  BY SubSeqProperties
<1> QED BY <1>1, <1>2, ConcatProperties

\* Completing the newest backup leaves a sequence of backups.
LEMMA LastType ==
  ASSUME NEW s \in Seq(Backup), NEW e \in Backup
  PROVE  [s EXCEPT ![Len(s)] = e] \in Seq(Backup)
<1>1. CASE Len(s) = 0
  <2>1. [s EXCEPT ![Len(s)] = e] = s
    BY <1>1
  <2> QED BY <2>1
<1>2. CASE Len(s) # 0
  <2>1. Len(s) \in 1 .. Len(s)
    BY <1>2, LenProperties
  <2> QED BY <2>1, ExceptSeq
<1> QED BY <1>1, <1>2

LEMMA NoJobType == NoJob \in Job
  BY DEF NoJob, Job, Kind, TaskState, Working, Terminal

LEMMA TypeInit == Init => TypeOK
<1> SUFFICES ASSUME Init PROVE TypeOK
  OBVIOUS
<1>1. /\ lock \in Proc \cup {None}
      /\ pc \in [Proc -> PcType]
      /\ job \in [Proc -> Job]
      /\ file \in [Task -> TaskFile \cup {None}]
      /\ apt \in Apt \cup {None}
  BY NoJobType DEF Init, PcType
<1>2. /\ unpacked \in [Package -> Release \cup {None}]
      /\ configured \subseteq Package
      /\ broken \subseteq Package
      /\ wasBroken \subseteq Package
      /\ active \subseteq Unit
      /\ enabled \subseteq Unit
  BY DEF Init, Settled
<1>3. backups \in [Package -> Seq(Backup)]
  <2>1. \A r \in Release : <<[rel |-> r, whole |-> TRUE]>> \in Seq(Backup)
    BY DEF Backup
  <2>2. <<>> \in Seq(Backup)
    OBVIOUS
  <2> QED BY <2>1, <2>2 DEF Init
<1> QED BY <1>1, <1>2, <1>3 DEF TypeOK

LEMMA ControlInit == Init => ControlOK
<1> SUFFICES ASSUME Init PROVE ControlOK
  OBVIOUS
<1>1. TypeOK
  BY TypeInit
<1>2. LockInv
  BY NoneAssumption DEF Init, LockInv
<1>3. JobInv
  BY DEF Init, JobInv, NoJob, Kind, Tasked
<1>4. TaskInv /\ WaiterInv
  BY DEF Init, TaskInv, WaiterInv, Tasked
<1> QED BY <1>1, <1>2, <1>3, <1>4 DEF ControlOK

-------------------------------------------------------------------------------
(* The building blocks of the actions keep the types *)

LEMMA StateNames ==
  /\ {"created", "validating", "prepared", "stopping_services", "applying_package",
      "configuring_services", "starting_services", "verifying_package",
      "committed", "failed", "recovering", "recovered", "recovery_required"}
       \subseteq TaskState
  /\ \A k \in Kind :
       NextState(k, "configuring_services") \in {"starting_services", "verifying_package"}
  BY DEF TaskState, Working, Terminal, NextState

LEMMA GotoType ==
  ASSUME TypeOK, NEW p \in Proc, NEW l \in PcType, Goto(p, l)
  PROVE  pc' \in [Proc -> PcType]
  BY DEF TypeOK, Goto

\* Every change of one process's job that keeps it a job.
LEMMA JobType ==
  ASSUME TypeOK, NEW p \in Proc, NEW j \in Job, job' = [job EXCEPT ![p] = j]
  PROVE  job' \in [Proc -> Job]
  BY DEF TypeOK

LEMMA PhaseType ==
  ASSUME TypeOK, NEW p \in Proc, NEW s \in TaskState
  PROVE  [job EXCEPT ![p].phase = s] \in [Proc -> Job]
<1>1. job[p] \in Job
  BY DEF TypeOK
<1>2. [job[p] EXCEPT !.phase = s] \in Job
  BY <1>1 DEF Job
<1> QED BY <1>2 DEF TypeOK

LEMMA TodoType ==
  ASSUME TypeOK, NEW p \in Proc, NEW U \in SUBSET Unit
  PROVE  [job EXCEPT ![p].todo = U] \in [Proc -> Job]
<1>1. job[p] \in Job
  BY DEF TypeOK
<1>2. [job[p] EXCEPT !.todo = U] \in Job
  BY <1>1 DEF Job
<1> QED BY <1>2 DEF TypeOK

LEMMA ProceedType ==
  ASSUME TypeOK, NEW p \in Proc, NEW s \in TaskState, Proceed(p, s)
  PROVE  pc' \in [Proc -> PcType] /\ job' \in [Proc -> Job]
  BY PhaseType DEF TypeOK, Proceed, PcType

LEMMA ConcludeType ==
  ASSUME TypeOK, NEW p \in Proc, NEW s \in TaskState, Conclude(p, s)
  PROVE  pc' \in [Proc -> PcType] /\ job' \in [Proc -> Job]
  BY PhaseType DEF TypeOK, Conclude, PcType

LEMMA ReturnType ==
  ASSUME TypeOK, NEW p \in Proc, Return(p)
  PROVE  /\ pc' \in [Proc -> PcType]
         /\ job' \in [Proc -> Job]
         /\ lock' \in Proc \cup {None}
  BY NoJobType DEF TypeOK, Return, Goto, PcType

\* A save changes the state of one file that is already there.
LEMMA SaveType ==
  ASSUME TypeOK, NEW t \in Task, file[t] # None, NEW s \in TaskState, Save(t, s)
  PROVE  /\ file' \in [Task -> TaskFile \cup {None}]
         /\ file'[t] \in TaskFile
         /\ file'[t].state = s
         /\ file'[t].kind = file[t].kind
         /\ file'[t].pkg = file[t].pkg
         /\ \A x \in Task \ {t} : file'[x] = file[x]
         /\ \A x \in Task : file'[x] = None <=> file[x] = None
<1>1. file[t] \in TaskFile
  BY DEF TypeOK
<1>2. file'[t] = [file[t] EXCEPT !.state = s]
  BY DEF TypeOK, Save
<1>3. /\ file'[t] \in TaskFile
      /\ file'[t].state = s
      /\ file'[t].kind = file[t].kind
      /\ file'[t].pkg = file[t].pkg
  BY <1>1, <1>2 DEF TaskFile
<1>4. \A x \in Task \ {t} : file'[x] = file[x]
  BY DEF TypeOK, Save
<1>5. file' \in [Task -> TaskFile \cup {None}]
  BY <1>3, <1>4 DEF TypeOK, Save
<1> QED BY <1>1, <1>3, <1>4, <1>5, NoRecordAssumption

LEMMA PackagesType ==
  ASSUME TypeOK, NEW q \in Package, NEW r \in Release \cup {None},
         InstallAs(q, r) \/ Interrupted(q, r) \/ UNCHANGED pkgVars
  PROVE  /\ unpacked' \in [Package -> Release \cup {None}]
         /\ configured' \subseteq Package
         /\ broken' \subseteq Package
         /\ wasBroken' \subseteq Package
  BY DEF TypeOK, InstallAs, Interrupted, pkgVars

\* However apt ends, its waiter alone moves on, still at work on its task.
LEMMA Resumed ==
  ASSUME ControlOK, apt # None, apt.by # None,
         AfterApt(apt.by) \/ AfterAptError(apt.by),
         unpacked' \in [Package -> Release \cup {None}]
  PROVE  /\ apt.by \in Proc
         /\ pc' \in [Proc -> PcType]
         /\ job' \in [Proc -> Job]
         /\ pc'[apt.by] \in Tasked \ {"apt", "copying"}
         /\ job'[apt.by].kind = job[apt.by].kind
         /\ job'[apt.by].pkg = job[apt.by].pkg
         /\ job'[apt.by].deb = job[apt.by].deb
         /\ job'[apt.by].info = job[apt.by].info
         /\ job'[apt.by].task = job[apt.by].task
         /\ pc'[apt.by] \in {"working", "restarting", "judging"} =>
              job'[apt.by].phase = job[apt.by].phase
         /\ pc'[apt.by] = "entering" => job'[apt.by].phase = "configuring_services"
         /\ \A q \in Proc \ {apt.by} : pc'[q] = pc[q] /\ job'[q] = job[q]
<1>1. PICK p \in Proc : p = apt.by
  BY DEF ControlOK, TypeOK, Apt
<1>2. apt.pkg \in Package /\ job[p] \in Job
  BY DEF ControlOK, TypeOK, Apt
<1>3. DeclaredBy(unpacked'[apt.pkg], apt.pkg \notin broken') \in SUBSET Unit
  BY <1>2, ReleaseAssumption DEF DeclaredBy
<1>4. \/ \E l \in {"failing", "judging"} : Goto(p, l) /\ job' = job
      \/ \E s \in {"recovery_required"} : Conclude(p, s)
      \/ Proceed(p, "configuring_services")
      \/ /\ pc' = [pc EXCEPT ![p] = "restarting"]
         /\ job' = [job EXCEPT ![p].todo = DeclaredBy(unpacked'[apt.pkg], apt.pkg \notin broken')]
  BY <1>1 DEF AfterApt, AfterAptError, NoRollback
<1>5. /\ pc' \in [Proc -> PcType]
      /\ pc'[p] \in Tasked \ {"apt", "copying"}
      /\ \A q \in Proc \ {p} : pc'[q] = pc[q]
  BY <1>4 DEF ControlOK, TypeOK, Goto, Conclude, Proceed, PcType, Tasked
<1>6. job' \in [Proc -> Job]
  <2>1. ASSUME NEW s \in TaskState, Conclude(p, s) \/ Proceed(p, s)
        PROVE  job' \in [Proc -> Job]
    BY <2>1, PhaseType DEF ControlOK, Conclude, Proceed
  <2>2. CASE job' = [job EXCEPT ![p].todo = DeclaredBy(unpacked'[apt.pkg], apt.pkg \notin broken')]
    BY <1>3, <2>2, TodoType DEF ControlOK
  <2>3. CASE job' = job
    BY <2>3 DEF ControlOK, TypeOK
  <2> QED BY <1>4, <2>1, <2>2, <2>3, StateNames
<1>7. /\ job'[p].kind = job[p].kind
      /\ job'[p].pkg = job[p].pkg
      /\ job'[p].deb = job[p].deb
      /\ job'[p].info = job[p].info
      /\ job'[p].task = job[p].task
      /\ \A q \in Proc \ {p} : job'[q] = job[q]
  BY <1>2, <1>4 DEF ControlOK, TypeOK, Conclude, Proceed, Job
<1>8. /\ pc'[p] \in {"working", "restarting", "judging"} => job'[p].phase = job[p].phase
      /\ pc'[p] = "entering" => job'[p].phase = "configuring_services"
  BY <1>2, <1>4 DEF ControlOK, TypeOK, Goto, Conclude, Proceed, Job
<1> QED BY <1>1, <1>5, <1>6, <1>7, <1>8

LEMMA AptRunType ==
  ASSUME ControlOK, NEW p \in Proc, pc[p] = "working", NEW r \in Release \cup {None},
         apt' = [pkg |-> job[p].pkg, target |-> r, task |-> job[p].task, by |-> p]
  PROVE  apt' \in Apt /\ apt' # None
<1>1. job[p].pkg \in Package /\ job[p].task \in Task
  BY DEF ControlOK, JobInv, TaskInv, Tasked
<1>2. apt' \in Apt
  BY <1>1 DEF Apt
<1> QED BY <1>2, NoRecordAssumption

\* What a rollback would install is a release.
LEMMA RollbackTarget ==
  ASSUME ControlOK, NEW p \in Proc, pc[p] = "working", NEW i \in OldBackups(p)
  PROVE  backups[job[p].pkg][i].rel \in Release
<1>1. job[p].pkg \in Package
  BY DEF ControlOK, JobInv
<1>2. backups[job[p].pkg] \in Seq(Backup) /\ i \in DOMAIN backups[job[p].pkg]
  BY <1>1 DEF ControlOK, TypeOK, OldBackups, BackupsFor
<1>3. backups[job[p].pkg][i] \in Backup
  BY <1>2, ElementOfSeq, LenProperties
<1> QED BY <1>3 DEF Backup

-------------------------------------------------------------------------------
(* The shapes of steps: one process goes on with its change, turns to a    *)
(* failure, passes a unit, or ends its command                             *)

\* p goes on with the task it has recorded; nobody else moves.
GoesOn(p) ==
  /\ lock' = lock
  /\ pc[p] \in Tasked \ {"apt"}
  /\ pc'[p] \in Tasked
  /\ pc'[p] = "copying" => job[p].kind # "remove"
  /\ job'[p].kind = job[p].kind
  /\ job'[p].pkg = job[p].pkg
  /\ job'[p].deb = job[p].deb
  /\ job'[p].info = job[p].info
  /\ job'[p].task = job[p].task
  /\ \A q \in Proc \ {p} : pc'[q] = pc[q] /\ job'[q] = job[q]
  /\ \A t \in Task : file[t] # None => file'[t] # None
  /\ apt' = apt \/ (apt'.by = p /\ pc'[p] = "apt")

LEMMA GoingOn ==
  ASSUME ControlOK, NEW p \in Proc, GoesOn(p)
  PROVE  LockInv' /\ JobInv' /\ TaskInv' /\ WaiterInv'
<1> USE DEF ControlOK, GoesOn
<1>1. LockInv'
  BY DEF LockInv, Tasked
<1>2. JobInv'
  BY DEF JobInv, Tasked
<1>3. TaskInv'
  BY DEF TaskInv
<1>4. WaiterInv'
  BY DEF TypeOK, WaiterInv, Apt
<1> QED BY <1>1, <1>2, <1>3, <1>4

\* Tx::enter and Tx::finish up to their save.
LEMMA MovingOn ==
  ASSUME ControlOK, NEW p \in Proc, NEW s \in TaskState,
         pc[p] \in Tasked \ {"apt"},
         Proceed(p, s) \/ Conclude(p, s),
         UNCHANGED <<lock, file, sysVars>>
  PROVE  ControlOK'
<1>1. pc' \in [Proc -> PcType] /\ job' \in [Proc -> Job]
  BY ProceedType, ConcludeType DEF ControlOK
<1>2. TypeOK'
  BY <1>1 DEF ControlOK, TypeOK, sysVars
<1>3. GoesOn(p)
  BY DEF ControlOK, TypeOK, Job, GoesOn, Proceed, Conclude, Tasked, sysVars
<1> QED BY <1>2, <1>3, GoingOn DEF ControlOK

LEMMA Turning ==
  ASSUME ControlOK, NEW p \in Proc, NEW l \in Tasked \ {"copying"},
         pc[p] \in Tasked \ {"apt"},
         Goto(p, l),
         UNCHANGED <<lock, job, file, apt>>
  PROVE  /\ pc' \in [Proc -> PcType]
         /\ LockInv' /\ JobInv' /\ TaskInv' /\ WaiterInv'
<1>1. pc' \in [Proc -> PcType]
  BY DEF ControlOK, TypeOK, Goto, Tasked, PcType
<1>2. GoesOn(p)
  BY DEF ControlOK, TypeOK, Goto, GoesOn
<1> QED BY <1>1, <1>2, GoingOn

\* One round of a loop over units.
LEMMA PassingUnit ==
  ASSUME ControlOK, NEW p \in Proc, NEW T \in SUBSET Unit, NEW D \in SUBSET Unit,
         pc[p] \in Tasked \ {"apt", "copying"},
         job' = [job EXCEPT ![p].todo = T, ![p].disabled = D],
         active' \subseteq Unit,
         enabled' \subseteq Unit,
         UNCHANGED <<lock, pc, file, apt, pkgVars, backups>>
  PROVE  ControlOK'
<1>1. job[p] \in Job
  BY DEF ControlOK, TypeOK
<1>2. job'[p] = [job[p] EXCEPT !.todo = T, !.disabled = D]
  BY DEF ControlOK, TypeOK
<1>3. job'[p] \in Job /\ job' = [job EXCEPT ![p] = job'[p]]
  <2>1. [job[p] EXCEPT !.todo = T, !.disabled = D] \in Job
    BY <1>1 DEF Job
  <2>2. job' = [job EXCEPT ![p] = job'[p]]
    BY <1>2 DEF ControlOK, TypeOK
  <2> QED BY <1>2, <2>1, <2>2
<1>4. TypeOK'
  BY <1>3, JobType DEF ControlOK, TypeOK, pkgVars
<1>5. GoesOn(p)
  BY <1>1, <1>2 DEF ControlOK, TypeOK, Job, GoesOn
<1> QED BY <1>4, <1>5, GoingOn DEF ControlOK

LEMMA Returning ==
  ASSUME ControlOK, NEW p \in Proc, Return(p),
         \A t \in Task : file[t] # None => file'[t] # None,
         \/ apt' = apt /\ (pc[p] = "apt" => apt.by # p)
         \/ apt' = None
         \/ apt'.by = None
  PROVE  /\ pc' \in [Proc -> PcType]
         /\ job' \in [Proc -> Job]
         /\ lock' \in Proc \cup {None}
         /\ LockInv' /\ JobInv' /\ TaskInv' /\ WaiterInv'
<1> USE DEF ControlOK
<1>1. /\ pc'[p] = "idle"
      /\ job'[p] = NoJob
      /\ \A q \in Proc \ {p} : pc'[q] = pc[q] /\ job'[q] = job[q]
  BY DEF TypeOK, Return, Goto
<1>2. LockInv'
  BY <1>1, NoneAssumption DEF LockInv, Return
<1>3. JobInv'
  BY <1>1 DEF JobInv, NoJob, Kind, Tasked
<1>4. TaskInv'
  BY <1>1 DEF TaskInv, Tasked
<1>5. apt' # None /\ apt'.by # None => apt' = apt /\ apt.by \in Proc \ {p}
  BY DEF TypeOK, Apt, WaiterInv
<1>6. WaiterInv'
  BY <1>1, <1>5 DEF WaiterInv
<1> QED BY <1>2, <1>3, <1>4, <1>6, ReturnType

\* A command that ends and leaves everything as it is.
LEMMA Ending ==
  ASSUME ControlOK, NEW p \in Proc, pc[p] # "apt", Return(p),
         UNCHANGED <<file, sysVars>>
  PROVE  ControlOK'
<1>1. /\ pc' \in [Proc -> PcType]
      /\ job' \in [Proc -> Job]
      /\ lock' \in Proc \cup {None}
      /\ LockInv' /\ JobInv' /\ TaskInv' /\ WaiterInv'
  BY Returning DEF sysVars
<1> QED BY <1>1 DEF ControlOK, TypeOK, sysVars

\* A command that starts waits for the lock with its arguments.
LEMMA Starting ==
  ASSUME ControlOK, NEW p \in Proc, NEW j \in Job, Start(p, j),
         j.kind \in Kind => j.pkg \in Package,
         j.kind \in {"install", "upgrade"} => j.deb \in Release,
         j.kind = "remove" => j.deb = None
  PROVE  ControlOK'
<1> USE DEF ControlOK
<1>1. TypeOK'
  BY DEF TypeOK, Start, Goto, PcType, sysVars
<1>2. /\ pc[p] = "idle" /\ pc'[p] = "waiting" /\ job'[p] = j
      /\ \A q \in Proc \ {p} : pc'[q] = pc[q] /\ job'[q] = job[q]
      /\ lock' = lock /\ file' = file /\ apt' = apt
  BY DEF TypeOK, Start, Goto, sysVars
<1>3. LockInv'
  BY <1>2 DEF LockInv
<1>4. JobInv'
  BY <1>2 DEF JobInv, Tasked
<1>5. TaskInv' /\ WaiterInv'
  BY <1>2 DEF TypeOK, TaskInv, WaiterInv, Tasked, Apt
<1> QED BY <1>1, <1>3, <1>4, <1>5

-------------------------------------------------------------------------------
(* Every step keeps the invariant *)

LEMMA ControlStep == ControlOK /\ [Next]_vars => ControlOK'
<1> SUFFICES ASSUME ControlOK, [Next]_vars PROVE ControlOK'
  OBVIOUS
<1> USE DEF ControlOK
<1>1. ASSUME NEW p \in Proc, NEW r \in Release,
            NEW k \in {"install", "upgrade"}, StartInstall(p, k, r)
     PROVE  ControlOK'
  <2> DEFINE j == [NoJob EXCEPT !.kind = k, !.pkg = PackageOf[r], !.deb = r]
  <2>1. j \in Job /\ j.kind = k /\ j.pkg \in Package /\ j.deb \in Release
    BY NoJobType DEF Job, Kind, NoJob, Package
  <2> QED BY <1>1, <2>1, Starting DEF StartInstall
<1>2. ASSUME NEW p \in Proc, NEW q \in Package, StartRemove(p, q)
     PROVE  ControlOK'
  <2> DEFINE j == [NoJob EXCEPT !.kind = "remove", !.pkg = q]
  <2>1. j \in Job /\ j.kind = "remove" /\ j.pkg \in Package /\ j.deb = None
    BY NoJobType DEF Job, Kind, NoJob
  <2> QED BY <1>2, <2>1, Starting DEF StartRemove
<1>3. ASSUME NEW p \in Proc, StartServiceCommand(p) PROVE ControlOK'
  BY <1>3, NoJobType, Starting DEF StartServiceCommand, NoJob, Kind
<1>4. ASSUME NEW p \in Proc, TakeLock(p) PROVE ControlOK'
  <2>1. /\ pc[p] = "waiting" /\ lock = None /\ lock' = p
        /\ pc'[p] = (IF job[p].kind = "service" THEN "service" ELSE "checking")
        /\ \A q \in Proc \ {p} : pc'[q] = pc[q]
        /\ job' = job /\ file' = file /\ apt' = apt
    BY <1>4 DEF TypeOK, TakeLock, Goto, sysVars
  <2>2. job[p] \in Job
    BY DEF TypeOK
  <2>3. TypeOK'
    BY <1>4 DEF TypeOK, TakeLock, Goto, PcType, sysVars
  <2>4. LockInv'
    BY <2>1, NoneAssumption DEF LockInv
  <2>5. JobInv'
    BY <2>1, <2>2 DEF JobInv, Job, Kind, Tasked
  <2>6. TaskInv' /\ WaiterInv'
    BY <2>1 DEF TypeOK, TaskInv, WaiterInv, Tasked, Apt
  <2> QED BY <2>3, <2>4, <2>5, <2>6
<1>5. ASSUME NEW p \in Proc, LockTimeout(p) PROVE ControlOK'
  BY <1>5, Ending DEF LockTimeout
<1>6. ASSUME NEW p \in Proc, CheckIncomplete(p) PROVE ControlOK'
  <2>1. CASE OpenTasks # {}
    BY <1>6, <2>1, Ending DEF CheckIncomplete
  <2>2. CASE OpenTasks = {}
    <3>1. /\ pc[p] = "checking" /\ pc'[p] = "reading"
          /\ \A q \in Proc \ {p} : pc'[q] = pc[q]
          /\ lock' = lock /\ job' = job /\ file' = file /\ apt' = apt
      BY <1>6, <2>2 DEF TypeOK, CheckIncomplete, Goto, sysVars
    <3>2. TypeOK'
      BY <1>6, <2>2, GotoType DEF TypeOK, CheckIncomplete, PcType, sysVars
    <3>3. LockInv' /\ JobInv'
      BY <3>1 DEF LockInv, JobInv, Tasked
    <3>4. TaskInv' /\ WaiterInv'
      BY <3>1 DEF TypeOK, TaskInv, WaiterInv, Tasked, Apt
    <3> QED BY <3>2, <3>3, <3>4
  <2> QED BY <2>1, <2>2
<1>7. ASSUME NEW p \in Proc, ReadInstalled(p) PROVE ControlOK'
  <2>1. TypeOK'
    <3>1. InstalledVersion(job[p].pkg) \in Nat \cup {None}
      <4>1. CASE job[p].pkg \in configured
        BY <4>1, ReleaseAssumption DEF TypeOK, InstalledVersion
      <4>2. CASE job[p].pkg \notin configured
        BY <4>2 DEF InstalledVersion
      <4> QED BY <4>1, <4>2
    <3>2. job[p] \in Job
      BY DEF TypeOK
    <3>3. job'[p] \in Job /\ job' = [job EXCEPT ![p] = job'[p]]
      <4> DEFINE from == InstalledVersion(job[p].pkg)
                 kind == IF job[p].kind = "install" /\ from # None
                           THEN "upgrade" ELSE job[p].kind
      <4>1. job'[p] = [job[p] EXCEPT !.from = from, !.info = job[p].deb, !.kind = kind]
        BY <1>7 DEF TypeOK, ReadInstalled
      <4>2. kind \in Kind \cup {"service"}
        BY <3>2 DEF Job, Kind
      <4> HIDE DEF from, kind
      <4>3. job'[p] \in Job
        BY <3>1, <3>2, <4>1, <4>2 DEF Job, from
      <4>4. job' = [job EXCEPT ![p] = job'[p]]
        BY <1>7, <4>1 DEF TypeOK, ReadInstalled
      <4> QED BY <4>3, <4>4
    <3>4. job' \in [Proc -> Job] /\ pc' \in [Proc -> PcType]
      BY <1>7, <3>3, JobType, GotoType DEF ReadInstalled, PcType
    <3> QED BY <1>7, <3>4 DEF TypeOK, ReadInstalled, sysVars
  <2>2. JobInv'
    <3>1. job[p].kind \in Kind /\ job[p] \in Job
      BY <1>7 DEF TypeOK, JobInv, ReadInstalled
    <3>2. \/ job'[p].kind = job[p].kind
          \/ job[p].kind = "install" /\ job'[p].kind = "upgrade"
      <4> DEFINE from == InstalledVersion(job[p].pkg)
      <4>1. job' = [job EXCEPT ![p].from = from,
                               ![p].info = job[p].deb,
                               ![p].kind = IF @ = "install" /\ from # None
                                             THEN "upgrade" ELSE @]
        BY <1>7 DEF ReadInstalled
      <4> HIDE DEF from
      <4>2. job'[p].kind = IF job[p].kind = "install" /\ from # None
                             THEN "upgrade" ELSE job[p].kind
        BY <3>1, <4>1 DEF TypeOK, Job
      <4> QED BY <4>2
    <3>3. /\ pc'[p] = "creating"
          /\ job'[p].pkg = job[p].pkg
          /\ job'[p].deb = job[p].deb
          /\ job'[p].info = job[p].deb
          /\ \A q \in Proc \ {p} : job'[q] = job[q] /\ pc'[q] = pc[q]
      BY <1>7, <3>1 DEF TypeOK, ReadInstalled, Goto, Job
    <3>4. job'[p].kind \in Kind
      BY <3>1, <3>2 DEF Kind
    <3>5. job[p].kind # "remove" <=> job[p].kind \in {"install", "upgrade"}
      BY <3>1 DEF Kind
    <3> QED BY <3>1, <3>2, <3>3, <3>4, <3>5 DEF JobInv, Tasked
  <2>3. /\ pc[p] = "reading" /\ pc'[p] = "creating"
        /\ \A q \in Proc \ {p} : pc'[q] = pc[q] /\ job'[q] = job[q]
        /\ lock' = lock /\ file' = file /\ apt' = apt
    BY <1>7 DEF TypeOK, ReadInstalled, Goto, sysVars
  <2>4. LockInv' /\ TaskInv' /\ WaiterInv'
    BY <2>3 DEF TypeOK, LockInv, TaskInv, WaiterInv, Tasked, Apt
  <2> QED BY <2>1, <2>2, <2>4
<1>8. ASSUME NEW p \in Proc, CreateTask(p) PROVE ControlOK'
  <2>1. TypeOK'
    <3>1. PICK t \in Task :
            /\ file[t] = None
            /\ file' = [file EXCEPT ![t] = [kind |-> job[p].kind, pkg |-> job[p].pkg,
                                            state |-> "created"]]
            /\ job' = [job EXCEPT ![p].task = t, ![p].phase = "validating"]
      BY <1>8 DEF CreateTask
    <3>2. job[p] \in Job /\ job[p].kind \in Kind /\ job[p].pkg \in Package
      BY <1>8 DEF TypeOK, JobInv, CreateTask
    <3>3. [kind |-> job[p].kind, pkg |-> job[p].pkg, state |-> "created"] \in TaskFile
      BY <3>2, StateNames DEF TaskFile
    <3>4. [job[p] EXCEPT !.task = t, !.phase = "validating"] \in Job
      BY <3>2, StateNames DEF Job
    <3>5. job' \in [Proc -> Job] /\ pc' \in [Proc -> PcType]
      BY <1>8, <3>1, <3>4, GotoType DEF TypeOK, CreateTask, PcType
    <3> QED BY <1>8, <3>1, <3>3, <3>5 DEF TypeOK, CreateTask, unitVars
  <2>2. TaskInv'
    <3>1. PICK t \in Task :
            /\ file[t] = None
            /\ file' = [file EXCEPT ![t] = [kind |-> job[p].kind, pkg |-> job[p].pkg,
                                            state |-> "created"]]
            /\ job' = [job EXCEPT ![p].task = t, ![p].phase = "validating"]
      BY <1>8 DEF CreateTask
    <3>2. file'[t] # None /\ \A x \in Task : file[x] # None => file'[x] # None
      <4>1. file'[t] \in TaskFile
        BY <1>8, <3>1, StateNames DEF TypeOK, JobInv, CreateTask, TaskFile
      <4> QED BY <3>1, <4>1, NoRecordAssumption DEF TypeOK
    <3>3. job'[p].task = t /\ \A q \in Proc \ {p} : job'[q] = job[q] /\ pc'[q] = pc[q]
      BY <1>8, <3>1 DEF TypeOK, CreateTask, Goto, Job
    <3> QED BY <3>2, <3>3 DEF TaskInv
  <2>3. /\ pc[p] = "creating" /\ pc'[p] = "entering"
        /\ job'[p].kind = job[p].kind /\ job'[p].pkg = job[p].pkg
        /\ job'[p].deb = job[p].deb /\ job'[p].info = job[p].info
        /\ \A q \in Proc \ {p} : pc'[q] = pc[q] /\ job'[q] = job[q]
        /\ lock' = lock /\ apt' = apt
    BY <1>8 DEF TypeOK, CreateTask, Goto, unitVars, Job
  <2>4. JobInv'
    BY <2>3 DEF JobInv, Tasked
  <2>5. LockInv' /\ WaiterInv'
    BY <2>3 DEF TypeOK, LockInv, WaiterInv, Apt
  <2> QED BY <2>1, <2>2, <2>4, <2>5
<1>9. ASSUME NEW p \in Proc, GiveUpEarly(p) PROVE ControlOK'
  BY <1>9, Ending DEF GiveUpEarly
<1>10. ASSUME NEW p \in Proc, FailFails(p) PROVE ControlOK'
  BY <1>10, Ending DEF FailFails
<1>11. ASSUME NEW p \in Proc, FinishFails(p) PROVE ControlOK'
  BY <1>11, Ending DEF FinishFails
<1>12. ASSUME NEW p \in Proc, ServiceCommandFails(p) PROVE ControlOK'
  BY <1>12, Ending DEF ServiceCommandFails
<1>13. ASSUME NEW p \in Proc, Enter(p) PROVE ControlOK'
  <2>1. TypeOK'
    <3>1. job[p] \in Job /\ job[p].task \in Task /\ file[job[p].task] # None
      BY <1>13 DEF TypeOK, TaskInv, Enter, Tasked
    <3>2. job[p].phase \in TaskState
      BY <3>1 DEF Job
    <3>3. file' \in [Task -> TaskFile \cup {None}]
      BY <1>13, <3>1, <3>2, SaveType DEF Enter
    <3>4. pc' \in [Proc -> PcType]
      BY <1>13, GotoType DEF Enter, PcType
    <3>5. Declared(job[p].pkg) \in SUBSET Unit
      BY <1>13, ReleaseAssumption DEF TypeOK, JobInv, Enter, Declared, DeclaredBy
    <3>6. job' \in [Proc -> Job]
      <4>1. job'[p] \in Job /\ job' = [job EXCEPT ![p] = job'[p]]
        BY <1>13, <3>1, <3>5 DEF TypeOK, Enter, Job
      <4> QED BY <4>1, JobType
    <3> QED BY <1>13, <3>3, <3>4, <3>6 DEF TypeOK, Enter, sysVars
  <2>2. \A t \in Task : file[t] # None => file'[t] # None
    BY <1>13, <2>1, SaveType, StateNames DEF TypeOK, TaskInv, Enter, Job, Tasked
  <2>3. GoesOn(p)
    BY <1>13, <2>2 DEF TypeOK, Job, GoesOn, Enter, Tasked, Goto, sysVars
  <2> QED BY <2>1, <2>3, GoingOn
<1>14. ASSUME NEW p \in Proc, EnterFails(p) PROVE ControlOK'
  <2>1. CASE job[p].phase = "recovering"
    BY <1>14, <2>1, Ending DEF EnterFails
  <2>2. CASE job[p].phase # "recovering"
    <3>1. pc' \in [Proc -> PcType] /\ LockInv' /\ JobInv' /\ TaskInv' /\ WaiterInv'
      BY <1>14, <2>2, Turning DEF EnterFails, Tasked, sysVars
    <3> QED BY <1>14, <2>2, <3>1 DEF TypeOK, EnterFails, sysVars
  <2> QED BY <2>1, <2>2
<1>15. ASSUME NEW p \in Proc, ValidateInstall(p) PROVE ControlOK'
  BY <1>15, MovingOn, StateNames DEF ValidateInstall, At, Tasked
<1>16. ASSUME NEW p \in Proc, ValidateRemove(p) PROVE ControlOK'
  <2>1. TypeOK'
    <3>1. job[p] \in Job
      BY DEF TypeOK
    <3>2. Declared(job[p].pkg) \in SUBSET Unit
      BY <1>16, ReleaseAssumption DEF TypeOK, JobInv, ValidateRemove, At, Declared,
              DeclaredBy
    <3>3. job'[p] \in Job /\ job' = [job EXCEPT ![p] = job'[p]]
      BY <1>16, <3>1, <3>2, StateNames DEF TypeOK, ValidateRemove, Job
    <3>4. job' \in [Proc -> Job] /\ pc' \in [Proc -> PcType]
      BY <1>16, <3>3, JobType DEF TypeOK, ValidateRemove, PcType
    <3> QED BY <1>16, <3>4 DEF TypeOK, ValidateRemove, sysVars
  <2>2. GoesOn(p)
    BY <1>16 DEF TypeOK, Job, GoesOn, ValidateRemove, Tasked, At, sysVars
  <2> QED BY <2>1, <2>2, GoingOn
<1>17. ASSUME NEW p \in Proc, PrepareWithBackup(p) PROVE ControlOK'
  BY <1>17, MovingOn, StateNames DEF PrepareWithBackup, At, Tasked
<1>18. ASSUME NEW p \in Proc, BeginBackup(p) PROVE ControlOK'
  <2>1. TypeOK'
    <3>1. job[p] \in Job /\ job[p].info \in Release
      BY <1>18 DEF TypeOK, JobInv, BeginBackup, At, Removing, Tasked
    <3>2. [rel |-> job[p].info, whole |-> FALSE] \in Backup
      BY <3>1 DEF Backup
    <3>3. \A s \in Seq(Backup) : Append(s, [rel |-> job[p].info, whole |-> FALSE]) \in Seq(Backup)
      BY <3>2, AppendProperties
    <3>4. backups' \in [Package -> Seq(Backup)]
      BY <1>18, <3>3 DEF TypeOK, BeginBackup
    <3>5. pc' \in [Proc -> PcType]
      BY <1>18, GotoType DEF BeginBackup, PcType
    <3> QED BY <1>18, <3>4, <3>5 DEF TypeOK, BeginBackup, pkgVars, unitVars
  <2>2. GoesOn(p)
    BY <1>18 DEF TypeOK, Job, GoesOn, BeginBackup, Tasked, At, Goto, Removing,
            pkgVars, unitVars
  <2> QED BY <2>1, <2>2, GoingOn
<1>19. ASSUME NEW p \in Proc, EndBackup(p) PROVE ControlOK'
  <2>1. TypeOK'
    <3>1. job[p] \in Job /\ job[p].deb \in Release
      BY <1>19 DEF TypeOK, JobInv, EndBackup, Kind
    <3>2. [rel |-> job[p].deb, whole |-> TRUE] \in Backup
      BY <3>1 DEF Backup
    <3>3. \A s \in Seq(Backup) :
            [s EXCEPT ![Len(s)] = [rel |-> job[p].deb, whole |-> TRUE]] \in Seq(Backup)
      BY <3>2, LastType
    <3>4. backups' \in [Package -> Seq(Backup)]
      BY <1>19, <3>3 DEF TypeOK, EndBackup
    <3>5. pc' \in [Proc -> PcType] /\ job' \in [Proc -> Job]
      BY <1>19, ProceedType, StateNames DEF EndBackup
    <3> QED BY <1>19, <3>4, <3>5 DEF TypeOK, EndBackup, pkgVars, unitVars
  <2>2. GoesOn(p)
    BY <1>19 DEF TypeOK, Job, GoesOn, EndBackup, Tasked, Proceed, pkgVars, unitVars
  <2> QED BY <2>1, <2>2, GoingOn
<1>20. ASSUME NEW p \in Proc, ServicesStopped(p) PROVE ControlOK'
  BY <1>20, MovingOn, StateNames DEF ServicesStopped, At, Tasked
<1>21. ASSUME NEW p \in Proc, RunApt(p) PROVE ControlOK'
  <2>1. TypeOK'
    <3>1. job[p].deb \in Release \cup {None}
      BY DEF TypeOK, Job
    <3>2. apt' \in Apt
      BY <1>21, <3>1, AptRunType DEF RunApt, At
    <3>3. pc' \in [Proc -> PcType]
      BY <1>21, GotoType DEF RunApt, PcType
    <3> QED BY <1>21, <3>2, <3>3 DEF TypeOK, RunApt, pkgVars, unitVars
  <2>2. GoesOn(p)
    BY <1>21 DEF TypeOK, Job, GoesOn, RunApt, Tasked, At, Goto, pkgVars, unitVars
  <2> QED BY <2>1, <2>2, GoingOn
<1>22. ASSUME NEW p \in Proc, DaemonReload(p) PROVE ControlOK'
  <2>1. NextState(job[p].kind, "configuring_services") \in TaskState
    BY <1>22, StateNames DEF JobInv, DaemonReload, At
  <2> QED BY <1>22, <2>1, MovingOn DEF DaemonReload, At, Tasked
<1>23. ASSUME NEW p \in Proc, ServicesStarted(p) PROVE ControlOK'
  BY <1>23, MovingOn, StateNames DEF ServicesStarted, At, Tasked
<1>24. ASSUME NEW p \in Proc, Verify(p) PROVE ControlOK'
  BY <1>24, MovingOn, StateNames DEF Verify, At, Tasked
<1>25. ASSUME NEW p \in Proc, StepFails(p) PROVE ControlOK'
  <2>1. pc' \in [Proc -> PcType] /\ LockInv' /\ JobInv' /\ TaskInv' /\ WaiterInv'
    BY <1>25, Turning DEF StepFails, Tasked, sysVars
  <2> QED BY <1>25, <2>1 DEF TypeOK, StepFails, sysVars
<1>26. ASSUME NEW p \in Proc, Fail(p) PROVE ControlOK'
  <2>1. TypeOK'
    <3>1. job[p] \in Job /\ job[p].task \in Task /\ file[job[p].task] # None
      BY <1>26 DEF TypeOK, TaskInv, Fail, Tasked
    <3>2. job[p].phase \in TaskState
      BY <3>1 DEF Job
    <3>3. /\ file' \in [Task -> TaskFile \cup {None}]
          /\ \A x \in Task : file'[x] = None <=> file[x] = None
      BY <1>26, <3>1, <3>2, SaveType, StateNames DEF Fail
    <3>4. pc' \in [Proc -> PcType] /\ job' \in [Proc -> Job]
      BY <1>26, ProceedType, StateNames DEF Fail
    <3> QED BY <1>26, <3>3, <3>4 DEF TypeOK, Fail, sysVars
  <2>2. \A t \in Task : file[t] # None => file'[t] # None
    BY <1>26, <2>1, SaveType, StateNames DEF TypeOK, TaskInv, Fail, Job, Tasked
  <2>3. GoesOn(p)
    BY <1>26, <2>2 DEF TypeOK, Job, GoesOn, Fail, Tasked, Proceed, sysVars
  <2> QED BY <2>1, <2>3, GoingOn
<1>27. ASSUME NEW p \in Proc, RunRollback(p) PROVE ControlOK'
  <2>1. TypeOK'
    <3>1. PICK i \in OldBackups(p) :
            apt' = [pkg |-> job[p].pkg, target |-> backups[job[p].pkg][i].rel,
                    task |-> job[p].task, by |-> p]
      BY <1>27 DEF RunRollback
    <3>2. apt' \in Apt
      BY <1>27, <3>1, RollbackTarget, AptRunType DEF RunRollback, At
    <3>3. pc' \in [Proc -> PcType]
      BY <1>27, GotoType DEF RunRollback, PcType
    <3> QED BY <1>27, <3>2, <3>3 DEF TypeOK, RunRollback, pkgVars, unitVars
  <2>2. GoesOn(p)
    BY <1>27 DEF TypeOK, Job, GoesOn, RunRollback, Tasked, At, Goto, pkgVars, unitVars
  <2> QED BY <2>1, <2>2, GoingOn
<1>28. ASSUME NEW p \in Proc, RollbackImpossible(p) PROVE ControlOK'
  <2>1. CASE Removing(p)
    <3>1. pc' \in [Proc -> PcType] /\ LockInv' /\ JobInv' /\ TaskInv' /\ WaiterInv'
      BY <1>28, <2>1, Turning DEF RollbackImpossible, NoRollback, At, Tasked, sysVars
    <3> QED BY <1>28, <2>1, <3>1 DEF TypeOK, RollbackImpossible, NoRollback, sysVars
  <2>2. CASE ~Removing(p)
    BY <1>28, <2>2, MovingOn, StateNames DEF RollbackImpossible, NoRollback, At, Tasked
  <2> QED BY <2>1, <2>2
<1>29. ASSUME NEW p \in Proc, ServicesRestarted(p) PROVE ControlOK'
  BY <1>29, MovingOn, StateNames DEF ServicesRestarted, At, Tasked
<1>30. ASSUME NEW p \in Proc, JudgeRemoval(p) PROVE ControlOK'
  BY <1>30, MovingOn, StateNames DEF JudgeRemoval, Tasked
<1>31. ASSUME NEW p \in Proc, RecoveryFails(p) PROVE ControlOK'
  BY <1>31, MovingOn, StateNames DEF RecoveryFails, At, Tasked
<1>32. ASSUME NEW p \in Proc, Finish(p) PROVE ControlOK'
  <2>1. /\ file' \in [Task -> TaskFile \cup {None}]
        /\ \A t \in Task : file[t] # None => file'[t] # None
    BY <1>32, SaveType DEF TypeOK, TaskInv, Finish, Job, Tasked
  <2>2. CASE Removing(p)
    <3>1. /\ pc' \in [Proc -> PcType]
          /\ job' \in [Proc -> Job]
          /\ lock' \in Proc \cup {None}
          /\ LockInv' /\ JobInv' /\ TaskInv' /\ WaiterInv'
      BY <1>32, <2>1, <2>2, Returning DEF Finish, sysVars
    <3> QED BY <1>32, <2>1, <3>1 DEF TypeOK, Finish, sysVars
  <2>3. CASE ~Removing(p)
    <3>1. /\ pc[p] = "finishing" /\ pc'[p] = "pruning"
          /\ \A q \in Proc \ {p} : pc'[q] = pc[q]
          /\ lock' = lock /\ job' = job /\ apt' = apt
      BY <1>32, <2>3 DEF TypeOK, Finish, Goto, sysVars
    <3>2. TypeOK'
      BY <1>32, <2>1, <2>3, GotoType DEF TypeOK, Finish, PcType, sysVars
    <3>3. LockInv' /\ JobInv' /\ TaskInv' /\ WaiterInv'
      BY <2>1, <3>1 DEF TypeOK, LockInv, JobInv, TaskInv, WaiterInv, Tasked, Apt
    <3> QED BY <3>2, <3>3
  <2> QED BY <2>2, <2>3
<1>33. ASSUME NEW p \in Proc, PruneBackups(p) PROVE ControlOK'
  <2>1. job[p].pkg \in Package
    BY <1>33 DEF JobInv, PruneBackups
  <2> DEFINE mine == backups[job[p].pkg]
             excess == Len(mine) - BackupKeep
  <2>2. mine \in Seq(Backup) /\ Len(mine) \in Nat
    BY <2>1, LenProperties DEF TypeOK
  <2>3. PICK left \in 0 .. (IF excess > 0 THEN excess ELSE 0) :
          backups' = [backups EXCEPT ![job[p].pkg] =
                        IF excess > 0
                          THEN SubSeq(mine, 1, left) \o SubSeq(mine, excess + 1, Len(mine))
                          ELSE mine]
    BY <1>33 DEF PruneBackups
  <2>4. backups' \in [Package -> Seq(Backup)]
    <3>1. CASE excess > 0
      <4>1. left \in 0 .. Len(mine) /\ excess + 1 \in 1 .. Len(mine) + 1
        BY <2>2, <3>1, KeepAssumption
      <4>2. SubSeq(mine, 1, left) \o SubSeq(mine, excess + 1, Len(mine)) \in Seq(Backup)
        BY <2>2, <4>1, CutType
      <4> HIDE DEF mine, excess
      <4> QED BY <2>3, <3>1, <4>2 DEF TypeOK
    <3>2. CASE ~(excess > 0)
      <4> HIDE DEF excess
      <4> QED BY <2>2, <2>3, <3>2 DEF TypeOK
    <3> QED BY <3>1, <3>2
  <2>5. /\ pc' \in [Proc -> PcType]
        /\ job' \in [Proc -> Job]
        /\ lock' \in Proc \cup {None}
        /\ LockInv' /\ JobInv' /\ TaskInv' /\ WaiterInv'
    BY <1>33, Returning DEF PruneBackups
  <2> QED BY <1>33, <2>4, <2>5 DEF TypeOK, PruneBackups, pkgVars, unitVars
<1>34. ASSUME NEW p \in Proc, Crash(p) PROVE ControlOK'
  <2>1. /\ apt' \in Apt \cup {None}
        /\ \/ apt' = apt /\ (pc[p] = "apt" => apt.by # p)
           \/ apt' = None
           \/ apt'.by = None
    BY <1>34 DEF TypeOK, Crash, Apt
  <2>2. /\ pc' \in [Proc -> PcType]
        /\ job' \in [Proc -> Job]
        /\ lock' \in Proc \cup {None}
        /\ LockInv' /\ JobInv' /\ TaskInv' /\ WaiterInv'
    BY <1>34, <2>1, Returning DEF Crash
  <2> QED BY <1>34, <2>1, <2>2 DEF TypeOK, Crash, pkgVars, unitVars
<1>35. ASSUME NEW p \in Proc, NEW u \in Unit, StopUnit(p, u) PROVE ControlOK'
  <2>1. job[p] \in Job
    BY DEF TypeOK
  <2>2. job' = [job EXCEPT ![p].todo = job'[p].todo, ![p].disabled = job'[p].disabled]
    BY <1>35, <2>1 DEF TypeOK, Job, StopUnit
  <2>3. job'[p].todo \in SUBSET Unit /\ job'[p].disabled \in SUBSET Unit
    BY <1>35, <2>1 DEF TypeOK, Job, StopUnit
  <2>4. /\ active' \subseteq Unit /\ enabled' \subseteq Unit
        /\ UNCHANGED <<lock, pc, file, apt, pkgVars, backups>>
        /\ pc[p] \in Tasked \ {"apt", "copying"}
    BY <1>35 DEF TypeOK, StopUnit, At, Tasked, sysVars, pkgVars, unitVars
  <2> QED BY <2>2, <2>3, <2>4, PassingUnit
<1>36. ASSUME NEW p \in Proc, NEW u \in Unit, DisableUnit(p, u)
     PROVE  ControlOK'
  <2>1. job[p] \in Job
    BY DEF TypeOK
  <2>2. job' = [job EXCEPT ![p].todo = job'[p].todo, ![p].disabled = job'[p].disabled]
    BY <1>36, <2>1 DEF TypeOK, Job, DisableUnit
  <2>3. job'[p].todo \in SUBSET Unit /\ job'[p].disabled \in SUBSET Unit
    BY <1>36, <2>1 DEF TypeOK, Job, DisableUnit
  <2>4. /\ active' \subseteq Unit /\ enabled' \subseteq Unit
        /\ UNCHANGED <<lock, pc, file, apt, pkgVars, backups>>
        /\ pc[p] \in Tasked \ {"apt", "copying"}
    BY <1>36 DEF TypeOK, DisableUnit, At, Tasked, sysVars, pkgVars, unitVars
  <2> QED BY <2>2, <2>3, <2>4, PassingUnit
<1>37. ASSUME NEW p \in Proc, NEW u \in Unit, PassUnit(p, u) PROVE ControlOK'
  <2>1. job[p] \in Job
    BY DEF TypeOK
  <2>2. job' = [job EXCEPT ![p].todo = job'[p].todo, ![p].disabled = job'[p].disabled]
    BY <1>37, <2>1 DEF TypeOK, Job, PassUnit
  <2>3. job'[p].todo \in SUBSET Unit /\ job'[p].disabled \in SUBSET Unit
    BY <1>37, <2>1 DEF TypeOK, Job, PassUnit
  <2>4. /\ active' \subseteq Unit /\ enabled' \subseteq Unit
        /\ UNCHANGED <<lock, pc, file, apt, pkgVars, backups>>
        /\ pc[p] \in Tasked \ {"apt", "copying"}
    BY <1>37 DEF TypeOK, PassUnit, At, Tasked, sysVars, pkgVars, unitVars
  <2> QED BY <2>2, <2>3, <2>4, PassingUnit
<1>38. ASSUME NEW p \in Proc, NEW u \in Unit, StartUnit(p, u) PROVE ControlOK'
  <2>1. job[p] \in Job
    BY DEF TypeOK
  <2>2. job' = [job EXCEPT ![p].todo = job'[p].todo, ![p].disabled = job'[p].disabled]
    BY <1>38, <2>1 DEF TypeOK, Job, StartUnit
  <2>3. job'[p].todo \in SUBSET Unit /\ job'[p].disabled \in SUBSET Unit
    BY <1>38, <2>1 DEF TypeOK, Job, StartUnit
  <2>4. /\ active' \subseteq Unit /\ enabled' \subseteq Unit
        /\ UNCHANGED <<lock, pc, file, apt, pkgVars, backups>>
        /\ pc[p] \in Tasked \ {"apt", "copying"}
    BY <1>38 DEF TypeOK, StartUnit, At, Tasked, sysVars, pkgVars, unitVars
  <2> QED BY <2>2, <2>3, <2>4, PassingUnit
<1>39. ASSUME NEW p \in Proc, NEW u \in Unit, RestartUnit(p, u)
     PROVE  ControlOK'
  <2>1. job[p] \in Job
    BY DEF TypeOK
  <2>2. job' = [job EXCEPT ![p].todo = job'[p].todo, ![p].disabled = job'[p].disabled]
    BY <1>39, <2>1 DEF TypeOK, Job, RestartUnit
  <2>3. job'[p].todo \in SUBSET Unit /\ job'[p].disabled \in SUBSET Unit
    BY <1>39, <2>1 DEF TypeOK, Job, RestartUnit
  <2>4. /\ active' \subseteq Unit /\ enabled' \subseteq Unit
        /\ UNCHANGED <<lock, pc, file, apt, pkgVars, backups>>
        /\ pc[p] \in Tasked \ {"apt", "copying"}
    BY <1>39 DEF TypeOK, RestartUnit, At, Tasked, sysVars, pkgVars, unitVars
  <2> QED BY <2>2, <2>3, <2>4, PassingUnit
<1>40. ASSUME NEW p \in Proc, NEW u \in Unit, StartUnitFails(p, u)
     PROVE  ControlOK'
  <2>1. pc' \in [Proc -> PcType] /\ LockInv' /\ JobInv' /\ TaskInv' /\ WaiterInv'
    BY <1>40, Turning DEF StartUnitFails, At, Tasked
  <2> QED BY <1>40, <2>1 DEF TypeOK, StartUnitFails, pkgVars
<1>41. ASSUME NEW p \in Proc, NEW u \in Unit, ServiceCommand(p, u)
     PROVE  ControlOK'
  <2>1. /\ pc' \in [Proc -> PcType]
        /\ job' \in [Proc -> Job]
        /\ lock' \in Proc \cup {None}
        /\ LockInv' /\ JobInv' /\ TaskInv' /\ WaiterInv'
    BY <1>41, Returning DEF ServiceCommand
  <2> QED BY <1>41, <2>1 DEF TypeOK, ServiceCommand, pkgVars
<1>42. ASSUME NEW p \in Proc, NEW r \in Release, Rebuild(p, r) PROVE ControlOK'
  <2>1. TypeOK'
    <3>1. job' \in [Proc -> Job]
      <4>1. job[p] \in Job
        BY DEF TypeOK
      <4>2. [job[p] EXCEPT !.deb = r] \in Job
        BY <4>1 DEF Job
      <4> QED BY <1>42, <4>2 DEF TypeOK, Rebuild
    <3> QED BY <1>42, <3>1 DEF TypeOK, Rebuild, sysVars
  <2>2. /\ job'[p].kind = job[p].kind /\ job'[p].pkg = job[p].pkg
        /\ job'[p].deb \in Release /\ job'[p].info = job[p].info
        /\ job[p].deb # None
        /\ job'[p].task = job[p].task
        /\ \A q \in Proc \ {p} : job'[q] = job[q]
        /\ lock' = lock /\ pc' = pc /\ file' = file /\ apt' = apt
    BY <1>42 DEF TypeOK, Job, Rebuild, sysVars
  <2>3. LockInv' /\ JobInv' /\ TaskInv' /\ WaiterInv'
    BY <2>2 DEF LockInv, JobInv, TaskInv, WaiterInv
  <2> QED BY <2>1, <2>3
<1>43. ASSUME NEW t \in Task, Settle(t) PROVE ControlOK'
  <2>1. /\ file' \in [Task -> TaskFile \cup {None}]
        /\ \A x \in Task : file[x] # None => file'[x] # None
    BY <1>43, SaveType, StateNames DEF Settle, OpenTasks
  <2>2. TypeOK' /\ LockInv' /\ JobInv' /\ TaskInv' /\ WaiterInv'
    BY <1>43, <2>1 DEF TypeOK, LockInv, JobInv, TaskInv, WaiterInv, Settle, sysVars,
            procVars
  <2> QED BY <2>2
<1>44. ASSUME AptSucceeds PROVE ControlOK'
  <2>1. apt.pkg \in Package /\ apt.target \in Release \cup {None}
    BY <1>44 DEF TypeOK, AptSucceeds, Apt
  <2>2. /\ unpacked' \in [Package -> Release \cup {None}]
        /\ configured' \subseteq Package
        /\ broken' \subseteq Package
        /\ wasBroken' \subseteq Package
    BY <1>44, <2>1, PackagesType DEF AptSucceeds
  <2>3. CASE apt.by = None
    BY <1>44, <2>2, <2>3 DEF TypeOK, LockInv, JobInv, TaskInv, WaiterInv, AptSucceeds, procVars,
            unitVars
  <2>4. CASE apt.by # None
    <3>1. /\ apt.by \in Proc
          /\ pc[apt.by] = "apt"
          /\ pc' \in [Proc -> PcType]
          /\ job' \in [Proc -> Job]
          /\ pc'[apt.by] \in Tasked \ {"apt", "copying"}
          /\ job'[apt.by].kind = job[apt.by].kind
          /\ job'[apt.by].pkg = job[apt.by].pkg
          /\ job'[apt.by].deb = job[apt.by].deb
          /\ job'[apt.by].info = job[apt.by].info
          /\ job'[apt.by].task = job[apt.by].task
          /\ \A q \in Proc \ {apt.by} : pc'[q] = pc[q] /\ job'[q] = job[q]
          /\ apt' = None /\ lock' = lock /\ file' = file
      BY <1>44, <2>2, <2>4, Resumed DEF WaiterInv, AptSucceeds
    <3>2. TypeOK'
      BY <1>44, <2>2, <3>1 DEF TypeOK, AptSucceeds, unitVars
    <3>3. LockInv' /\ JobInv' /\ TaskInv' /\ WaiterInv'
      BY <3>1 DEF LockInv, JobInv, TaskInv, WaiterInv, Tasked
    <3> QED BY <3>2, <3>3
  <2> QED BY <2>3, <2>4
<1>45. ASSUME AptFails PROVE ControlOK'
  <2>1. apt.pkg \in Package /\ apt.target \in Release \cup {None}
    BY <1>45 DEF TypeOK, AptFails, Apt
  <2>2. /\ unpacked' \in [Package -> Release \cup {None}]
        /\ configured' \subseteq Package
        /\ broken' \subseteq Package
        /\ wasBroken' \subseteq Package
    BY <1>45, <2>1, PackagesType DEF AptFails
  <2>3. CASE apt.by = None
    BY <1>45, <2>2, <2>3 DEF TypeOK, LockInv, JobInv, TaskInv, WaiterInv, AptFails, procVars,
            unitVars
  <2>4. CASE apt.by # None
    <3>1. /\ apt.by \in Proc
          /\ pc[apt.by] = "apt"
          /\ pc' \in [Proc -> PcType]
          /\ job' \in [Proc -> Job]
          /\ pc'[apt.by] \in Tasked \ {"apt", "copying"}
          /\ job'[apt.by].kind = job[apt.by].kind
          /\ job'[apt.by].pkg = job[apt.by].pkg
          /\ job'[apt.by].deb = job[apt.by].deb
          /\ job'[apt.by].info = job[apt.by].info
          /\ job'[apt.by].task = job[apt.by].task
          /\ \A q \in Proc \ {apt.by} : pc'[q] = pc[q] /\ job'[q] = job[q]
          /\ apt' = None /\ lock' = lock /\ file' = file
      BY <1>45, <2>2, <2>4, Resumed DEF WaiterInv, AptFails
    <3>2. TypeOK'
      BY <1>45, <2>2, <3>1 DEF TypeOK, AptFails, unitVars
    <3>3. LockInv' /\ JobInv' /\ TaskInv' /\ WaiterInv'
      BY <3>1 DEF LockInv, JobInv, TaskInv, WaiterInv, Tasked
    <3> QED BY <3>2, <3>3
  <2> QED BY <2>3, <2>4
<1>46. ASSUME Reboot PROVE ControlOK'
  <2>1. TypeOK'
    <3>1. /\ unpacked' \in [Package -> Release \cup {None}]
          /\ configured' \subseteq Package
          /\ broken' \subseteq Package
          /\ wasBroken' \subseteq Package
      <4>1. CASE apt = None
        BY <1>46, <4>1 DEF TypeOK, Reboot, pkgVars
      <4>2. CASE apt # None
        <5>1. apt.pkg \in Package /\ apt.target \in Release \cup {None}
          BY <4>2 DEF TypeOK, Apt
        <5> QED BY <1>46, <4>2, <5>1, PackagesType DEF Reboot
      <4> QED BY <4>1, <4>2
    <3>2. pc' \in [Proc -> PcType] /\ job' \in [Proc -> Job]
      BY <1>46, NoJobType DEF Reboot, PcType
    <3>3. active' \subseteq Unit
      BY <1>46 DEF TypeOK, Reboot
    <3> QED BY <1>46, <3>1, <3>2, <3>3 DEF TypeOK, Reboot
  <2>2. LockInv' /\ JobInv' /\ TaskInv' /\ WaiterInv'
    BY <1>46, NoneAssumption DEF Reboot, LockInv, JobInv, TaskInv, WaiterInv, NoJob, Kind,
            Tasked
  <2> QED BY <2>1, <2>2
<1>47. ASSUME NEW q \in Package, Damage(q) \/ Mend(q) PROVE ControlOK'
  <2>1. TypeOK'
    BY <1>47 DEF TypeOK, Damage, Mend, procVars, unitVars
  <2>2. LockInv' /\ JobInv' /\ TaskInv' /\ WaiterInv'
    BY <1>47 DEF LockInv, JobInv, TaskInv, WaiterInv, Damage, Mend, procVars
  <2> QED BY <2>1, <2>2
<1>48. CASE UNCHANGED vars
  BY <1>48 DEF vars, TypeOK, LockInv, JobInv, TaskInv, WaiterInv
<1> QED
  BY <1>1, <1>2, <1>3, <1>4, <1>5, <1>6, <1>7, <1>8, <1>9, <1>10, <1>11,
     <1>12, <1>13, <1>14, <1>15, <1>16, <1>17, <1>18, <1>19, <1>20, <1>21,
     <1>22, <1>23, <1>24, <1>25, <1>26, <1>27, <1>28, <1>29, <1>30, <1>31,
     <1>32, <1>33, <1>34, <1>35, <1>36, <1>37, <1>38, <1>39, <1>40, <1>41,
     <1>42, <1>43, <1>44, <1>45, <1>46, <1>47, <1>48 DEF Next, Command, Step,
     UnitStep, Environment
-------------------------------------------------------------------------------
(* Every reachable state has its type, and every process that is past the  *)
(* lock holds it, a job of its own and the task it recorded.               *)
THEOREM ControlHolds == Spec => []ControlOK
<1>1. Init => ControlOK
  BY ControlInit
<1>2. ControlOK /\ [Next]_vars => ControlOK'
  BY ControlStep
<1> QED BY <1>1, <1>2, PTL DEF Spec

\* Type correctness of Deployment, in particular that no chain of failures
\* leaves a process without the task, package or deb its next step needs.
THEOREM TypeCorrect == Spec => []TypeOK
<1>1. ControlOK => TypeOK
  BY DEF ControlOK
<1> QED BY <1>1, ControlHolds, PTL
===============================================================================
