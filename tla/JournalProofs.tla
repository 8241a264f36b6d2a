----------------------------- MODULE JournalProofs -----------------------------
(***************************************************************************)
(* What the task files promise, for any number of processes and tasks and  *)
(* whatever crashes, failed saves and orphaned apt runs there are: one     *)
(* task is open at a time, its file announces the work in progress, an apt *)
(* run never outlives its journal entry, and the files follow the state    *)
(* machine of TaskLifecycle.                                               *)
(***************************************************************************)
EXTENDS DeploymentProofs

\* Where a change acts on packages, units or backups.
AtWork == {"working", "copying", "apt", "restarting", "judging"}

\* The task a process works on is open, and is about its package.
OwnerInv ==
  \A p \in Proc : pc[p] \in Tasked =>
    /\ Incomplete(file[job[p].task].state)
    /\ file[job[p].task].pkg = job[p].pkg

\* Tx::enter is for the states a change passes through.
EnterInv == \A p \in Proc : pc[p] = "entering" => job[p].phase \notin Terminal

\* Between check_incomplete and Tx::new no task is open.
QuietInv == \A p \in Proc : pc[p] \in {"reading", "creating"} => OpenTasks = {}

\* An orphaned apt run keeps every change from getting as far as a task.
AptOwner == apt # None => \A p \in Proc : pc[p] \in Tasked => apt.by = p

Journal ==
  /\ OneOpenTask
  /\ WorkIsJournaled
  /\ AptIsJournaled
  /\ OwnerInv
  /\ EnterInv
  /\ QuietInv
  /\ AptOwner

LEMMA JournalInit == Init => Journal
<1> SUFFICES ASSUME Init PROVE Journal
  OBVIOUS
<1>1. OpenTasks = {}
  BY DEF Init, OpenTasks
<1> QED
  BY <1>1 DEF Init, Journal, OneOpenTask, WorkIsJournaled, AptIsJournaled, OwnerInv,
        EnterInv, QuietInv, AptOwner, Tasked

-------------------------------------------------------------------------------
(* Steps that leave the task files alone *)

Calm ==
  /\ file' = file
  /\ apt' \in {apt, None}
  /\ \A q \in Proc :
       /\ pc'[q] \in Tasked =>
            /\ pc[q] \in Tasked
            /\ job'[q].task = job[q].task
            /\ job'[q].pkg = job[q].pkg
       /\ pc'[q] \in AtWork => pc[q] \in AtWork /\ job'[q].phase = job[q].phase
       /\ pc'[q] = "entering" =>
            \/ pc[q] = "entering" /\ job'[q].phase = job[q].phase
            \/ job'[q].phase \notin Terminal
       /\ pc'[q] \in {"reading", "creating"} =>
            pc[q] \in {"reading", "creating"} \/ OpenTasks = {}

LEMMA CalmKeeps == ControlOK /\ Journal /\ Calm => Journal'
<1> SUFFICES ASSUME ControlOK, Journal, Calm PROVE Journal'
  OBVIOUS
<1> USE DEF Journal, Calm
<1>1. OpenTasks' = OpenTasks
  BY DEF OpenTasks
<1>2. OneOpenTask' /\ QuietInv'
  BY <1>1 DEF OneOpenTask, QuietInv
<1>3. WorkIsJournaled'
  BY DEF WorkIsJournaled, AtWork, Tasked
<1>4. OwnerInv' /\ EnterInv'
  BY DEF OwnerInv, EnterInv
<1>5. AptIsJournaled' /\ AptOwner'
  BY DEF AptIsJournaled, AptOwner
<1> QED BY <1>2, <1>3, <1>4, <1>5

\* A process that has recorded its task and is not waiting for apt is alone:
\* everybody else is before the lock, and no apt runs.
LEMMA Alone ==
  ASSUME ControlOK, Journal, NEW p \in Proc, pc[p] \in Tasked \ {"apt"}
  PROVE  apt = None /\ \A q \in Proc \ {p} : pc[q] \in {"idle", "waiting"}
<1>1. apt = None
  BY NoneAssumption DEF ControlOK, WaiterInv, Journal, AptOwner
<1>2. lock = p
  BY DEF ControlOK, LockInv, Tasked
<1> QED BY <1>1, <1>2 DEF ControlOK, LockInv

-------------------------------------------------------------------------------
(* Steps that write a task file *)

\* The running change records a state of its own task.
LEMMA Recording ==
  ASSUME ControlOK, Journal, NEW p \in Proc, pc[p] \in Tasked \ {"apt"},
         NEW s \in TaskState, Save(job[p].task, s), UNCHANGED apt,
         \A q \in Proc \ {p} : pc'[q] = pc[q] /\ job'[q] = job[q],
         pc'[p] \in Tasked =>
           /\ Incomplete(s)
           /\ job'[p].task = job[p].task
           /\ job'[p].pkg = job[p].pkg,
         pc'[p] \in AtWork => job'[p].phase = s /\ pc'[p] \in Tasked,
         pc'[p] = "entering" => job'[p].phase \notin Terminal,
         pc'[p] \notin {"reading", "creating"}
  PROVE  Journal'
<1> DEFINE t == job[p].task
<1>1. t \in Task /\ file[t] # None /\ t \in OpenTasks
  BY DEF ControlOK, TaskInv, Journal, OwnerInv, OpenTasks
<1>2. /\ file'[t] # None
      /\ file'[t].state = s
      /\ file'[t].pkg = file[t].pkg
      /\ \A x \in Task \ {t} : file'[x] = file[x]
  BY <1>1, SaveType, NoRecordAssumption DEF ControlOK
<1> HIDE DEF t
<1>3. apt' = None /\ \A q \in Proc \ {p} : pc'[q] \in {"idle", "waiting"}
  BY Alone
<1>4. OneOpenTask'
  BY <1>1, <1>2 DEF Journal, OneOpenTask, OpenTasks
<1>5. WorkIsJournaled'
  <2>1. pc'[p] \in AtWork =>
          job'[p].task = t /\ job'[p].phase = s /\ file'[t] # None /\ t # None
    BY <1>1, <1>2, NoneAssumption DEF t
  <2> QED BY <1>2, <1>3, <2>1 DEF WorkIsJournaled, AtWork
<1>6. OwnerInv'
  BY <1>2, <1>3 DEF Journal, OwnerInv, Tasked, t
<1>7. QuietInv' /\ EnterInv'
  BY <1>3 DEF QuietInv, EnterInv
<1>8. AptIsJournaled' /\ AptOwner'
  BY <1>3 DEF AptIsJournaled, AptOwner
<1> QED BY <1>4, <1>5, <1>6, <1>7, <1>8 DEF Journal

\* The running change hands over to apt.
LEMMA HandingOver ==
  ASSUME ControlOK, Journal, NEW p \in Proc,
         pc[p] = "working", job[p].phase \in {"applying_package", "recovering"},
         Goto(p, "apt"), UNCHANGED <<job, file>>,
         apt' # None, apt'.by = p, apt'.task = job[p].task, apt'.pkg = job[p].pkg
  PROVE  Journal'
<1>1. /\ pc'[p] = "apt"
      /\ \A q \in Proc \ {p} : pc'[q] = pc[q] /\ pc'[q] \in {"idle", "waiting"}
  BY Alone DEF ControlOK, TypeOK, Goto, Tasked
<1>2. OneOpenTask'
  BY DEF Journal, OneOpenTask, OpenTasks
<1>3. WorkIsJournaled'
  BY <1>1 DEF Journal, WorkIsJournaled
<1>4. OwnerInv' /\ EnterInv' /\ QuietInv'
  BY <1>1 DEF Journal, OwnerInv, EnterInv, QuietInv, Tasked
<1>5. AptIsJournaled' /\ AptOwner'
  BY <1>1 DEF Journal, WorkIsJournaled, OwnerInv, AptIsJournaled, AptOwner, Tasked
<1> QED BY <1>2, <1>3, <1>4, <1>5 DEF Journal

-------------------------------------------------------------------------------
(* Every step keeps the journal *)

LEMMA JournalStep == ControlOK /\ Journal /\ [Next]_vars => Journal'
<1> SUFFICES ASSUME ControlOK, Journal, [Next]_vars PROVE Journal'
  OBVIOUS
<1> USE DEF ControlOK
<1>1. ASSUME NEW p \in Proc, NEW r \in Release,
            NEW k \in {"install", "upgrade"}, StartInstall(p, k, r)
     PROVE  Journal'
  <2>1. Calm
    BY <1>1 DEF Calm, StartInstall, Start, Goto, sysVars, TypeOK, Tasked,
       AtWork
  <2> QED BY <2>1, CalmKeeps
<1>2. ASSUME NEW p \in Proc, NEW q \in Package, StartRemove(p, q)
     PROVE  Journal'
  <2>1. Calm
    BY <1>2 DEF Calm, StartRemove, Start, Goto, sysVars, TypeOK, Tasked,
       AtWork
  <2> QED BY <2>1, CalmKeeps
<1>3. ASSUME NEW p \in Proc, StartServiceCommand(p) PROVE Journal'
  <2>1. Calm
    BY <1>3 DEF Calm, StartServiceCommand, Start, Goto, sysVars, TypeOK,
       Tasked, AtWork
  <2> QED BY <2>1, CalmKeeps
<1>4. ASSUME NEW p \in Proc, TakeLock(p) PROVE Journal'
  <2>1. Calm
    BY <1>4 DEF Calm, TakeLock, Goto, sysVars, TypeOK, Tasked, AtWork
  <2> QED BY <2>1, CalmKeeps
<1>5. ASSUME NEW p \in Proc, LockTimeout(p) PROVE Journal'
  <2>1. Calm
    BY <1>5 DEF Calm, LockTimeout, Return, Goto, sysVars, TypeOK, Tasked,
       AtWork
  <2> QED BY <2>1, CalmKeeps
<1>6. ASSUME NEW p \in Proc, GiveUpEarly(p) PROVE Journal'
  <2>1. Calm
    BY <1>6 DEF Calm, GiveUpEarly, Return, Goto, sysVars, TypeOK, Tasked,
       AtWork
  <2> QED BY <2>1, CalmKeeps
<1>7. ASSUME NEW p \in Proc, FailFails(p) PROVE Journal'
  <2>1. Calm
    BY <1>7 DEF Calm, FailFails, Return, Goto, sysVars, TypeOK, Tasked,
       AtWork
  <2> QED BY <2>1, CalmKeeps
<1>8. ASSUME NEW p \in Proc, FinishFails(p) PROVE Journal'
  <2>1. Calm
    BY <1>8 DEF Calm, FinishFails, Return, Goto, sysVars, TypeOK, Tasked,
       AtWork
  <2> QED BY <2>1, CalmKeeps
<1>9. ASSUME NEW p \in Proc, ServiceCommandFails(p) PROVE Journal'
  <2>1. Calm
    BY <1>9 DEF Calm, ServiceCommandFails, Return, Goto, sysVars, TypeOK,
       Tasked, AtWork
  <2> QED BY <2>1, CalmKeeps
<1>10. ASSUME NEW p \in Proc, PruneBackups(p) PROVE Journal'
  <2>1. Calm
    BY <1>10 DEF Calm, PruneBackups, Return, Goto, TypeOK, Tasked, AtWork
  <2> QED BY <2>1, CalmKeeps
<1>11. ASSUME NEW p \in Proc, CheckIncomplete(p) PROVE Journal'
  <2>1. Calm
    BY <1>11 DEF Calm, CheckIncomplete, Return, Goto, sysVars, TypeOK, Tasked,
       AtWork
  <2> QED BY <2>1, CalmKeeps
<1>12. ASSUME NEW p \in Proc, ReadInstalled(p) PROVE Journal'
  <2>1. Calm
    BY <1>12 DEF Calm, ReadInstalled, Goto, sysVars, TypeOK, Tasked, AtWork
  <2> QED BY <2>1, CalmKeeps
<1>13. ASSUME NEW p \in Proc, CreateTask(p) PROVE Journal'
  <2>1. PICK t \in Task :
          /\ file[t] = None
          /\ file' = [file EXCEPT ![t] = [kind |-> job[p].kind, pkg |-> job[p].pkg,
                                          state |-> "created"]]
          /\ job' = [job EXCEPT ![p].task = t, ![p].phase = "validating"]
    BY <1>13 DEF CreateTask
  <2>2. OpenTasks = {} /\ pc[p] = "creating" /\ pc'[p] = "entering" /\ apt' = apt
    BY <1>13 DEF Journal, QuietInv, TypeOK, CreateTask, Goto, sysVars
  <2>3. \A q \in Proc \ {p} : pc'[q] = pc[q] /\ pc'[q] \in {"idle", "waiting"}
    BY <1>13, <2>2 DEF TypeOK, LockInv, CreateTask, Goto
  <2>4. apt = None
    BY <2>2 DEF TypeOK, Journal, AptIsJournaled, OpenTasks, Apt, Incomplete,
            TaskState, Working, Terminal
  <2>5. /\ file'[t].state = "created" /\ file'[t].pkg = job[p].pkg
        /\ \A x \in Task \ {t} : file'[x] = file[x]
        /\ job'[p].task = t /\ job'[p].pkg = job[p].pkg
        /\ job'[p].phase = "validating"
    BY <2>1 DEF TypeOK, Job
  <2>6. OneOpenTask'
    BY <2>2, <2>5 DEF OneOpenTask, OpenTasks
  <2>7. OwnerInv'
    BY <2>2, <2>3, <2>5 DEF OwnerInv, Tasked, Incomplete, TaskState, Working,
       Terminal
  <2>8. WorkIsJournaled' /\ EnterInv' /\ QuietInv'
    BY <2>2, <2>3, <2>5 DEF WorkIsJournaled, EnterInv, QuietInv, Terminal
  <2>9. AptIsJournaled' /\ AptOwner'
    BY <2>2, <2>4 DEF AptIsJournaled, AptOwner
  <2> QED BY <2>6, <2>7, <2>8, <2>9 DEF Journal
<1>14. ASSUME NEW p \in Proc, Enter(p) PROVE Journal'
  <2> DEFINE s == job[p].phase
  <2>1. job[p] \in Job /\ s \in TaskState
    BY DEF TypeOK, Job
  <2>2. /\ pc[p] = "entering" /\ pc'[p] = "working"
        /\ job'[p].phase = s /\ job'[p].task = job[p].task /\ job'[p].pkg = job[p].pkg
        /\ \A q \in Proc \ {p} : pc'[q] = pc[q] /\ job'[q] = job[q]
        /\ Save(job[p].task, s) /\ UNCHANGED apt
    BY <1>14, <2>1 DEF TypeOK, Job, Enter, Goto, sysVars
  <2>3. Incomplete(s)
    BY <1>14, <2>1 DEF Journal, EnterInv, Enter, Incomplete
  <2> QED BY <2>1, <2>2, <2>3, Recording DEF Tasked, AtWork
<1>15. ASSUME NEW p \in Proc, Fail(p) PROVE Journal'
  <2>1. /\ pc[p] = "failing" /\ pc'[p] = "entering"
        /\ job'[p].task = job[p].task /\ job'[p].pkg = job[p].pkg
        /\ \A q \in Proc \ {p} : pc'[q] = pc[q] /\ job'[q] = job[q]
        /\ Save(job[p].task, "failed") /\ UNCHANGED apt
    BY <1>15 DEF TypeOK, Job, Fail, Proceed, sysVars
  <2>2. Incomplete("failed")
    BY DEF Incomplete, TaskState, Terminal
  <2>3. job'[p].phase = "recovering"
    BY <1>15 DEF TypeOK, Job, Fail, Proceed
  <2> QED BY <2>1, <2>2, <2>3, Recording, StateNames DEF Tasked, AtWork, Terminal
<1>16. ASSUME NEW p \in Proc, Finish(p) PROVE Journal'
  <2>1. /\ pc[p] = "finishing" /\ pc'[p] \in {"idle", "pruning"}
        /\ \A q \in Proc \ {p} : pc'[q] = pc[q] /\ job'[q] = job[q]
        /\ Save(job[p].task, job[p].phase) /\ UNCHANGED apt
    BY <1>16 DEF TypeOK, Finish, Return, Goto, sysVars
  <2>2. job[p].phase \in TaskState
    BY DEF TypeOK, Job
  <2> QED BY <2>1, <2>2, Recording DEF Tasked, AtWork
<1>17. ASSUME NEW p \in Proc, EnterFails(p) PROVE Journal'
  <2>1. Calm
    BY <1>17 DEF Calm, EnterFails, Return, Goto, sysVars, TypeOK, Tasked,
       AtWork
  <2> QED BY <2>1, CalmKeeps
<1>18. ASSUME NEW p \in Proc, ValidateInstall(p) PROVE Journal'
  <2>1. Calm
    BY <1>18 DEF Calm, ValidateInstall, At, Proceed, sysVars, TypeOK, Job,
       Terminal, Tasked, AtWork
  <2> QED BY <2>1, CalmKeeps
<1>19. ASSUME NEW p \in Proc, PrepareWithBackup(p) PROVE Journal'
  <2>1. Calm
    BY <1>19 DEF Calm, PrepareWithBackup, At, Proceed, sysVars, TypeOK, Job,
       Terminal, Tasked, AtWork
  <2> QED BY <2>1, CalmKeeps
<1>20. ASSUME NEW p \in Proc, ServicesStopped(p) PROVE Journal'
  <2>1. Calm
    BY <1>20 DEF Calm, ServicesStopped, At, Proceed, sysVars, TypeOK, Job,
       Terminal, Tasked, AtWork
  <2> QED BY <2>1, CalmKeeps
<1>21. ASSUME NEW p \in Proc, ServicesStarted(p) PROVE Journal'
  <2>1. Calm
    BY <1>21 DEF Calm, ServicesStarted, At, Proceed, sysVars, TypeOK, Job,
       Terminal, Tasked, AtWork
  <2> QED BY <2>1, CalmKeeps
<1>22. ASSUME NEW p \in Proc, DaemonReload(p) PROVE Journal'
  <2>1. NextState(job[p].kind, "configuring_services") \notin Terminal
    BY <1>22, StateNames DEF JobInv, DaemonReload, At, Terminal
  <2>2. Calm
    BY <1>22, <2>1 DEF Calm, DaemonReload, At, Proceed, sysVars, TypeOK, Job,
       Tasked, AtWork
  <2> QED BY <2>2, CalmKeeps
<1>23. ASSUME NEW p \in Proc, ValidateRemove(p) PROVE Journal'
  <2>1. Calm
    BY <1>23 DEF Calm, ValidateRemove, At, sysVars, TypeOK, Job, Terminal,
       Tasked, AtWork
  <2> QED BY <2>1, CalmKeeps
<1>24. ASSUME NEW p \in Proc, BeginBackup(p) PROVE Journal'
  <2>1. Calm
    BY <1>24 DEF Calm, BeginBackup, At, Goto, TypeOK, Tasked, AtWork
  <2> QED BY <2>1, CalmKeeps
<1>25. ASSUME NEW p \in Proc, EndBackup(p) PROVE Journal'
  <2>1. Calm
    BY <1>25 DEF Calm, EndBackup, Proceed, TypeOK, Job, Terminal, Tasked,
       AtWork
  <2> QED BY <2>1, CalmKeeps
<1>26. ASSUME NEW p \in Proc, RunApt(p) PROVE Journal'
  <2>1. apt' = [pkg |-> job[p].pkg, target |-> job[p].deb, task |-> job[p].task, by |-> p]
    BY <1>26 DEF RunApt
  <2>2. job[p].deb \in Release \cup {None}
    BY DEF TypeOK, Job
  <2>3. apt' # None
    BY <1>26, <2>1, <2>2, AptRunType DEF RunApt, At
  <2> QED BY <1>26, <2>1, <2>3, HandingOver DEF RunApt, At
<1>27. ASSUME NEW p \in Proc, RunRollback(p) PROVE Journal'
  <2>1. PICK i \in OldBackups(p) :
          apt' = [pkg |-> job[p].pkg, target |-> backups[job[p].pkg][i].rel,
                  task |-> job[p].task, by |-> p]
    BY <1>27 DEF RunRollback
  <2>2. backups[job[p].pkg][i].rel \in Release
    BY <1>27, RollbackTarget DEF RunRollback, At
  <2>3. apt' # None
    BY <1>27, <2>1, <2>2, AptRunType DEF RunRollback, At
  <2> QED BY <1>27, <2>1, <2>3, HandingOver DEF RunRollback, At
<1>28. ASSUME NEW p \in Proc, StepFails(p) PROVE Journal'
  <2>1. Calm
    BY <1>28 DEF Calm, StepFails, Goto, sysVars, TypeOK, Tasked, AtWork
  <2> QED BY <2>1, CalmKeeps
<1>29. ASSUME NEW p \in Proc, RollbackImpossible(p) PROVE Journal'
  <2>1. Calm
    BY <1>29 DEF Calm, RollbackImpossible, At, NoRollback, Conclude, Goto,
       sysVars, TypeOK, Job, Tasked, AtWork
  <2> QED BY <2>1, CalmKeeps
<1>30. ASSUME NEW p \in Proc, Verify(p) PROVE Journal'
  <2>1. Calm
    BY <1>30 DEF Calm, Verify, At, Conclude, sysVars, TypeOK, Job, Tasked,
       AtWork
  <2> QED BY <2>1, CalmKeeps
<1>31. ASSUME NEW p \in Proc, ServicesRestarted(p) PROVE Journal'
  <2>1. Calm
    BY <1>31 DEF Calm, ServicesRestarted, At, Conclude, sysVars, TypeOK, Job,
       Tasked, AtWork
  <2> QED BY <2>1, CalmKeeps
<1>32. ASSUME NEW p \in Proc, JudgeRemoval(p) PROVE Journal'
  <2>1. Calm
    BY <1>32 DEF Calm, JudgeRemoval, At, Conclude, sysVars, TypeOK, Job,
       Tasked, AtWork
  <2> QED BY <2>1, CalmKeeps
<1>33. ASSUME NEW p \in Proc, RecoveryFails(p) PROVE Journal'
  <2>1. Calm
    BY <1>33 DEF Calm, RecoveryFails, At, Conclude, sysVars, TypeOK, Job,
       Tasked, AtWork
  <2> QED BY <2>1, CalmKeeps
<1>34. ASSUME NEW p \in Proc, NEW u \in Unit, StopUnit(p, u) PROVE Journal'
  <2>1. Calm
    BY <1>34 DEF Calm, StopUnit, sysVars, TypeOK, Job, Tasked, AtWork
  <2> QED BY <2>1, CalmKeeps
<1>35. ASSUME NEW p \in Proc, NEW u \in Unit, DisableUnit(p, u) PROVE Journal'
  <2>1. Calm
    BY <1>35 DEF Calm, DisableUnit, sysVars, TypeOK, Job, Tasked, AtWork
  <2> QED BY <2>1, CalmKeeps
<1>36. ASSUME NEW p \in Proc, NEW u \in Unit, PassUnit(p, u) PROVE Journal'
  <2>1. Calm
    BY <1>36 DEF Calm, PassUnit, sysVars, TypeOK, Job, Tasked, AtWork
  <2> QED BY <2>1, CalmKeeps
<1>37. ASSUME NEW p \in Proc, NEW u \in Unit, StartUnit(p, u) PROVE Journal'
  <2>1. Calm
    BY <1>37 DEF Calm, StartUnit, sysVars, TypeOK, Job, Tasked, AtWork
  <2> QED BY <2>1, CalmKeeps
<1>38. ASSUME NEW p \in Proc, NEW u \in Unit, RestartUnit(p, u) PROVE Journal'
  <2>1. Calm
    BY <1>38 DEF Calm, RestartUnit, sysVars, TypeOK, Job, Tasked, AtWork
  <2> QED BY <2>1, CalmKeeps
<1>39. ASSUME NEW p \in Proc, NEW u \in Unit, StartUnitFails(p, u)
     PROVE  Journal'
  <2>1. Calm
    BY <1>39 DEF Calm, StartUnitFails, At, Goto, TypeOK, Tasked, AtWork
  <2> QED BY <2>1, CalmKeeps
<1>40. ASSUME NEW p \in Proc, NEW u \in Unit, ServiceCommand(p, u)
     PROVE  Journal'
  <2>1. Calm
    BY <1>40 DEF Calm, ServiceCommand, Return, Goto, TypeOK, Tasked, AtWork
  <2> QED BY <2>1, CalmKeeps
<1>41. ASSUME AptSucceeds PROVE Journal'
  <2>1. CASE apt.by = None
    <3>1. Calm
      BY <1>41, <2>1 DEF Calm, AptSucceeds, procVars
    <3> QED BY <3>1, CalmKeeps
  <2>2. CASE apt.by # None
    <3>1. apt.pkg \in Package /\ apt.target \in Release \cup {None}
      BY <1>41 DEF TypeOK, AptSucceeds, Apt
    <3>2. unpacked' \in [Package -> Release \cup {None}]
      BY <1>41, <3>1, PackagesType DEF AptSucceeds
    <3>3. /\ apt.by \in Proc
          /\ pc[apt.by] = "apt"
          /\ job'[apt.by].pkg = job[apt.by].pkg
          /\ job'[apt.by].task = job[apt.by].task
          /\ pc'[apt.by] \in AtWork => job'[apt.by].phase = job[apt.by].phase
          /\ pc'[apt.by] \in Tasked \ {"apt", "copying"}
          /\ pc'[apt.by] = "entering" => job'[apt.by].phase \notin Terminal
          /\ \A q \in Proc \ {apt.by} : pc'[q] = pc[q] /\ job'[q] = job[q]
      BY <1>41, <2>2, <3>2, Resumed DEF WaiterInv, AptSucceeds, AtWork, Terminal
    <3>4. Calm
      BY <1>41, <3>3 DEF Calm, AptSucceeds, Tasked, AtWork
    <3> QED BY <3>4, CalmKeeps
  <2> QED BY <2>1, <2>2
<1>42. ASSUME AptFails PROVE Journal'
  <2>1. CASE apt.by = None
    <3>1. Calm
      BY <1>42, <2>1 DEF Calm, AptFails, procVars
    <3> QED BY <3>1, CalmKeeps
  <2>2. CASE apt.by # None
    <3>1. apt.pkg \in Package /\ apt.target \in Release \cup {None}
      BY <1>42 DEF TypeOK, AptFails, Apt
    <3>2. unpacked' \in [Package -> Release \cup {None}]
      BY <1>42, <3>1, PackagesType DEF AptFails
    <3>3. /\ apt.by \in Proc
          /\ pc[apt.by] = "apt"
          /\ job'[apt.by].pkg = job[apt.by].pkg
          /\ job'[apt.by].task = job[apt.by].task
          /\ pc'[apt.by] \in AtWork => job'[apt.by].phase = job[apt.by].phase
          /\ pc'[apt.by] \in Tasked \ {"apt", "copying"}
          /\ pc'[apt.by] = "entering" => job'[apt.by].phase \notin Terminal
          /\ \A q \in Proc \ {apt.by} : pc'[q] = pc[q] /\ job'[q] = job[q]
      BY <1>42, <2>2, <3>2, Resumed DEF WaiterInv, AptFails, AtWork, Terminal
    <3>4. Calm
      BY <1>42, <3>3 DEF Calm, AptFails, Tasked, AtWork
    <3> QED BY <3>4, CalmKeeps
  <2> QED BY <2>1, <2>2
<1>43. ASSUME Reboot PROVE Journal'
  <2>1. Calm
    BY <1>43 DEF Calm, Reboot, Tasked, AtWork
  <2> QED BY <2>1, CalmKeeps
<1>44. ASSUME NEW p \in Proc, Crash(p) PROVE Journal'
  <2>1. /\ pc'[p] = "idle" /\ file' = file
        /\ \A q \in Proc \ {p} : pc'[q] = pc[q] /\ job'[q] = job[q]
    BY <1>44 DEF TypeOK, Crash, Return, Goto
  <2>2. OpenTasks' = OpenTasks
    BY <2>1 DEF OpenTasks
  <2>3. OneOpenTask' /\ WorkIsJournaled' /\ OwnerInv' /\ EnterInv' /\ QuietInv'
    BY <2>1, <2>2 DEF Journal, OneOpenTask, WorkIsJournaled, OwnerInv, EnterInv,
            QuietInv, Tasked
  <2>4. apt' # None =>
          apt # None /\ apt'.task = apt.task /\ apt'.pkg = apt.pkg
    BY <1>44 DEF TypeOK, Apt, Crash
  <2>5. AptIsJournaled'
    BY <2>1, <2>4 DEF Journal, AptIsJournaled
  <2>6. AptOwner'
    <3> SUFFICES ASSUME apt' # None, NEW q \in Proc, pc'[q] \in Tasked
                 PROVE  apt'.by = q
      BY DEF AptOwner
    <3>1. q # p /\ pc[q] \in Tasked
      BY <2>1 DEF Tasked
    <3>2. apt.by = q
      BY <2>4, <3>1 DEF Journal, AptOwner
    <3> QED BY <1>44, <3>1, <3>2 DEF Crash
  <2> QED BY <2>3, <2>5, <2>6 DEF Journal
<1>45. ASSUME NEW t \in Task, Settle(t) PROVE Journal'
  <2>1. /\ file[t] # None
        /\ \A p \in Proc : job[p].task # t
        /\ apt # None => apt.task # t
        /\ pc' = pc /\ job' = job /\ apt' = apt
    BY <1>45 DEF Settle, OpenTasks, sysVars, procVars
  <2>2. /\ file'[t] # None
        /\ file'[t].state = "recovery_required"
        /\ \A x \in Task \ {t} : file'[x] = file[x]
    BY <1>45, <2>1, SaveType, StateNames, NoRecordAssumption DEF Settle
  <2>3. OpenTasks' \subseteq OpenTasks
    BY <2>2 DEF OpenTasks, Incomplete, Terminal
  <2>4. OneOpenTask' /\ EnterInv' /\ QuietInv'
    BY <2>1, <2>3 DEF Journal, OneOpenTask, EnterInv, QuietInv
  <2>5. OwnerInv'
    BY <2>1, <2>2 DEF TaskInv, Journal, OwnerInv
  <2>6. WorkIsJournaled'
    BY <2>1, <2>2 DEF TaskInv, Tasked, Journal, WorkIsJournaled
  <2>7. AptIsJournaled' /\ AptOwner'
    BY <2>1, <2>2 DEF TypeOK, Apt, Journal, AptIsJournaled, AptOwner
  <2> QED BY <2>4, <2>5, <2>6, <2>7 DEF Journal
<1>46. ASSUME NEW p \in Proc, NEW r \in Release, Rebuild(p, r) PROVE Journal'
  <2>1. Calm
    BY <1>46 DEF Calm, Rebuild, sysVars, TypeOK, Job
  <2> QED BY <2>1, CalmKeeps
<1>47. ASSUME NEW q \in Package, Damage(q) \/ Mend(q) PROVE Journal'
  <2>1. Calm
    BY <1>47 DEF Calm, Damage, Mend, procVars
  <2> QED BY <2>1, CalmKeeps
<1>48. CASE UNCHANGED vars
  <2>1. Calm
    BY <1>48 DEF Calm, vars
  <2> QED BY <2>1, CalmKeeps
<1> QED
  BY <1>1, <1>2, <1>3, <1>4, <1>5, <1>6, <1>7, <1>8, <1>9, <1>10, <1>11,
     <1>12, <1>13, <1>14, <1>15, <1>16, <1>17, <1>18, <1>19, <1>20, <1>21,
     <1>22, <1>23, <1>24, <1>25, <1>26, <1>27, <1>28, <1>29, <1>30, <1>31,
     <1>32, <1>33, <1>34, <1>35, <1>36, <1>37, <1>38, <1>39, <1>40, <1>41,
     <1>42, <1>43, <1>44, <1>45, <1>46, <1>47, <1>48 DEF Next, Command, Step,
     UnitStep, Environment

-------------------------------------------------------------------------------
(* The state machine: where a process stands, what its task file says and  *)
(* what it will save next                                                  *)

StageOK(p) ==
  LET on == file[job[p].task] IN
  pc[p] \in Tasked =>
    /\ on.kind = job[p].kind
    /\ pc[p] \in {"entering", "finishing"} => job[p].phase \in Successors(on.kind, on.state)
    /\ pc[p] = "entering" => job[p].phase # "failed"
    /\ pc[p] = "working" => job[p].phase \in (Working \ {"created"}) \cup {"recovering"}
    /\ pc[p] = "copying" => job[p].phase = "prepared"
    /\ pc[p] = "apt" => job[p].phase \in {"applying_package", "recovering"}
    /\ pc[p] \in {"restarting", "judging"} => job[p].phase = "recovering"
    /\ pc[p] = "failing" => on.state \in Working

StageInv == \A p \in Proc : StageOK(p)

\* Successors, spelled out.
LEMMA NextStates ==
  /\ \A k \in Kind :
       /\ "validating" \in Successors(k, "created")
       /\ "prepared" \in Successors(k, "validating")
       /\ "stopping_services" \in Successors(k, "prepared")
       /\ "applying_package" \in Successors(k, "stopping_services")
       /\ "configuring_services" \in Successors(k, "applying_package")
       /\ NextState(k, "configuring_services") \in Successors(k, "configuring_services")
       /\ "verifying_package" \in Successors(k, "starting_services")
       /\ "committed" \in Successors(k, "verifying_package")
       /\ \A s \in Working : "failed" \in Successors(k, s)
       /\ Successors(k, "failed") = {"recovering"}
       /\ Successors(k, "recovering") = {"recovered", "recovery_required"}
       /\ \A s \in Terminal : Successors(k, s) = {}
  BY DEF Successors, NextState, Working, Terminal

\* The next state is reached from where the machine stands, on disk and in memory.
LEMMA WorkingSuccessors ==
  ASSUME NEW k \in Kind, NEW s \in TaskState, NEW n \in Successors(k, s),
         n # "recovering", n \notin Terminal
  PROVE  s \in Working
  BY NextStates DEF TaskState, Terminal

\* The steps of p that write no task file.
Moves(p) ==
  /\ file' = file
  /\ \A q \in Proc \ {p} : pc'[q] = pc[q] /\ job'[q] = job[q]
  /\ pc'[p] \in Tasked =>
       /\ pc[p] \in Tasked
       /\ job'[p].task = job[p].task
       /\ job'[p].kind = job[p].kind
       /\ \/ pc'[p] = pc[p] /\ job'[p].phase = job[p].phase
          \/ /\ pc[p] \in AtWork
             /\ pc'[p] \in {"entering", "finishing"}
             /\ job'[p].phase \in Successors(job[p].kind, job[p].phase) \ {"failed"}
          \/ /\ pc[p] \in {"entering", "working", "copying", "apt"}
             /\ job[p].phase # "recovering"
             /\ pc'[p] = "failing"
          \/ /\ pc[p] = "working"
             /\ job'[p].phase = job[p].phase
             /\ \/ job[p].phase = "prepared" /\ pc'[p] = "copying"
                \/ job[p].phase \in {"applying_package", "recovering"} /\ pc'[p] = "apt"
          \/ /\ pc[p] \in {"working", "apt"}
             /\ job[p].phase = "recovering"
             /\ job'[p].phase = job[p].phase
             /\ pc'[p] \in {"restarting", "judging"}

LEMMA Moving ==
  ASSUME ControlOK, Journal, StageInv, NEW p \in Proc, Moves(p)
  PROVE  StageInv'
<1> DEFINE on == file[job[p].task]
<1>1. \A q \in Proc \ {p} : StageOK(q)'
  BY DEF StageInv, StageOK, Moves
<1>2. StageOK(p)'
  <2> SUFFICES ASSUME pc'[p] \in Tasked PROVE StageOK(p)'
    BY DEF StageOK
  <2>1. /\ job'[p].task = job[p].task /\ file' = file /\ job'[p].kind = job[p].kind
        /\ StageOK(p) /\ pc[p] \in Tasked
    BY DEF Moves, StageInv
  <2>2. on.kind = job[p].kind /\ on.kind \in Kind
    BY <2>1 DEF StageOK, ControlOK, JobInv, Tasked
  <2>3. on.state \in TaskState /\ Incomplete(on.state)
    BY <2>1 DEF Journal, OwnerInv, Incomplete
  <2>4. pc[p] \in AtWork => on.state = job[p].phase
    BY DEF Journal, WorkIsJournaled, AtWork
  <2> HIDE DEF on
  <2>5. CASE pc'[p] = pc[p] /\ job'[p].phase = job[p].phase
    BY <2>1, <2>5 DEF StageOK
  <2>6. CASE /\ pc[p] \in AtWork
             /\ pc'[p] \in {"entering", "finishing"}
             /\ job'[p].phase \in Successors(job[p].kind, job[p].phase) \ {"failed"}
    BY <2>1, <2>2, <2>4, <2>6 DEF StageOK, on
  <2>7. CASE /\ pc[p] \in {"entering", "working", "copying", "apt"}
             /\ job[p].phase # "recovering"
             /\ pc'[p] = "failing"
    <3>1. CASE pc[p] = "entering"
      <4>1. job[p].phase \in Successors(on.kind, on.state) /\ job[p].phase \notin Terminal
        BY <2>1, <3>1 DEF StageOK, Journal, EnterInv, on
      <4>2. on.state \in Working
        BY <2>2, <2>3, <2>7, <4>1, WorkingSuccessors
      <4> QED BY <2>1, <2>2, <2>7, <4>2 DEF StageOK, on
    <3>2. CASE pc[p] # "entering"
      <4>1. on.state = job[p].phase /\ job[p].phase \in Working
        BY <2>1, <2>4, <2>7, <3>2 DEF StageOK, AtWork, Working
      <4> QED BY <2>1, <2>2, <2>7, <4>1 DEF StageOK, on
    <3> QED BY <3>1, <3>2
  <2>8. CASE /\ pc[p] = "working"
             /\ job'[p].phase = job[p].phase
             /\ \/ job[p].phase = "prepared" /\ pc'[p] = "copying"
                \/ job[p].phase \in {"applying_package", "recovering"} /\ pc'[p] = "apt"
    BY <2>1, <2>2, <2>8 DEF StageOK, on
  <2>9. CASE /\ pc[p] \in {"working", "apt"}
             /\ job[p].phase = "recovering"
             /\ job'[p].phase = job[p].phase
             /\ pc'[p] \in {"restarting", "judging"}
    BY <2>1, <2>2, <2>9 DEF StageOK, on
  <2> QED BY <2>5, <2>6, <2>7, <2>8, <2>9 DEF Moves
<1> QED BY <1>1, <1>2 DEF StageInv

\* The running change writes its file: nobody else has a task.
LEMMA Writing ==
  ASSUME ControlOK, Journal, StageInv, NEW p \in Proc,
         pc[p] \in Tasked \ {"apt"} \/ pc[p] = "creating",
         \A q \in Proc \ {p} : pc'[q] = pc[q],
         StageOK(p)'
  PROVE  StageInv'
<1>1. \A q \in Proc \ {p} : pc'[q] \notin Tasked
  <2>1. lock = p
    BY DEF ControlOK, LockInv, Tasked
  <2> QED BY <2>1 DEF ControlOK, LockInv, Tasked
<1> QED BY <1>1 DEF StageInv, StageOK

LEMMA StageStep == ControlOK /\ Journal /\ StageInv /\ [Next]_vars => StageInv'
<1> SUFFICES ASSUME ControlOK, Journal, StageInv, [Next]_vars PROVE StageInv'
  OBVIOUS
<1> USE DEF ControlOK
<1>1. ASSUME NEW p \in Proc, NEW r \in Release,
            NEW k \in {"install", "upgrade"}, StartInstall(p, k, r)
     PROVE  StageInv'
  <2>1. Moves(p)
    BY <1>1 DEF StartInstall, Start, Goto, sysVars, TypeOK, Job, Moves, Tasked,
       AtWork
  <2> QED BY <2>1, Moving
<1>2. ASSUME NEW p \in Proc, NEW q \in Package, StartRemove(p, q)
     PROVE  StageInv'
  <2>1. Moves(p)
    BY <1>2 DEF StartRemove, Start, Goto, sysVars, TypeOK, Job, Moves, Tasked,
       AtWork
  <2> QED BY <2>1, Moving
<1>3. ASSUME NEW p \in Proc, StartServiceCommand(p) PROVE StageInv'
  <2>1. Moves(p)
    BY <1>3 DEF StartServiceCommand, Start, Goto, sysVars, TypeOK, Job, Moves,
       Tasked, AtWork
  <2> QED BY <2>1, Moving
<1>4. ASSUME NEW p \in Proc, TakeLock(p) PROVE StageInv'
  <2>1. Moves(p)
    BY <1>4 DEF TakeLock, Goto, sysVars, TypeOK, Job, Moves, Tasked, AtWork
  <2> QED BY <2>1, Moving
<1>5. ASSUME NEW p \in Proc, LockTimeout(p) PROVE StageInv'
  <2>1. Moves(p)
    BY <1>5 DEF LockTimeout, Return, Goto, sysVars, TypeOK, Job, Moves, Tasked,
       AtWork
  <2> QED BY <2>1, Moving
<1>6. ASSUME NEW p \in Proc, GiveUpEarly(p) PROVE StageInv'
  <2>1. Moves(p)
    BY <1>6 DEF GiveUpEarly, Return, Goto, sysVars, TypeOK, Job, Moves, Tasked,
       AtWork
  <2> QED BY <2>1, Moving
<1>7. ASSUME NEW p \in Proc, FailFails(p) PROVE StageInv'
  <2>1. Moves(p)
    BY <1>7 DEF FailFails, Return, Goto, sysVars, TypeOK, Job, Moves, Tasked, AtWork
  <2> QED BY <2>1, Moving
<1>8. ASSUME NEW p \in Proc, FinishFails(p) PROVE StageInv'
  <2>1. Moves(p)
    BY <1>8 DEF FinishFails, Return, Goto, sysVars, TypeOK, Job, Moves, Tasked,
       AtWork
  <2> QED BY <2>1, Moving
<1>9. ASSUME NEW p \in Proc, ServiceCommandFails(p) PROVE StageInv'
  <2>1. Moves(p)
    BY <1>9 DEF ServiceCommandFails, Return, Goto, sysVars, TypeOK, Job, Moves,
       Tasked, AtWork
  <2> QED BY <2>1, Moving
<1>10. ASSUME NEW p \in Proc, PruneBackups(p) PROVE StageInv'
  <2>1. Moves(p)
    BY <1>10 DEF PruneBackups, Return, Goto, TypeOK, Job, Moves, Tasked, AtWork
  <2> QED BY <2>1, Moving
<1>11. ASSUME NEW p \in Proc, CheckIncomplete(p) PROVE StageInv'
  <2>1. Moves(p)
    BY <1>11 DEF CheckIncomplete, Return, Goto, sysVars, TypeOK, Job, Moves,
       Tasked, AtWork
  <2> QED BY <2>1, Moving
<1>12. ASSUME NEW p \in Proc, ReadInstalled(p) PROVE StageInv'
  <2>1. Moves(p)
    BY <1>12 DEF ReadInstalled, Goto, sysVars, TypeOK, Job, Moves, Tasked, AtWork
  <2> QED BY <2>1, Moving
<1>13. ASSUME NEW p \in Proc, CreateTask(p) PROVE StageInv'
  <2>1. PICK t \in Task :
          /\ file[t] = None
          /\ file' = [file EXCEPT ![t] = [kind |-> job[p].kind, pkg |-> job[p].pkg,
                                          state |-> "created"]]
          /\ job' = [job EXCEPT ![p].task = t, ![p].phase = "validating"]
    BY <1>13 DEF CreateTask
  <2>2. /\ pc[p] = "creating" /\ pc'[p] = "entering" /\ job[p].kind \in Kind
        /\ \A q \in Proc \ {p} : pc'[q] = pc[q]
    BY <1>13 DEF CreateTask, Goto, TypeOK, JobInv
  <2>3. /\ job'[p].task = t /\ job'[p].kind = job[p].kind
        /\ job'[p].phase = "validating"
        /\ file'[t].kind = job[p].kind /\ file'[t].state = "created"
    BY <2>1 DEF TypeOK, Job
  <2>4. StageOK(p)'
    BY <2>2, <2>3, NextStates DEF StageOK
  <2> QED BY <2>2, <2>4, Writing
<1>14. ASSUME NEW p \in Proc, Enter(p) PROVE StageInv'
  <2> DEFINE s == job[p].phase
             t == job[p].task
  <2>1. /\ pc[p] = "entering" /\ pc'[p] = "working" /\ s \in TaskState
        /\ job'[p].phase = s /\ job'[p].task = t /\ job'[p].kind = job[p].kind
        /\ \A q \in Proc \ {p} : pc'[q] = pc[q]
        /\ Save(t, s)
    BY <1>14 DEF TypeOK, Job, Enter, Goto
  <2>2. t \in Task /\ file[t] # None /\ file[t].kind = job[p].kind /\ job[p].kind \in Kind
    BY <2>1 DEF TaskInv, StageInv, StageOK, JobInv, Tasked
  <2>3. file'[t].kind = job[p].kind
    BY <2>1, <2>2, SaveType
  <2>4. s \in Successors(file[t].kind, file[t].state) /\ s \notin Terminal \cup {"failed"}
    BY <2>1 DEF StageInv, StageOK, Journal, EnterInv, Tasked
  <2>5. s \in (Working \ {"created"}) \cup {"recovering"}
    BY <2>1, <2>2, <2>4 DEF Successors, NextState, TaskState, Working, Terminal
  <2>6. StageOK(p)'
    BY <2>1, <2>3, <2>5 DEF StageOK
  <2> QED BY <2>1, <2>6, Writing DEF Tasked
<1>15. ASSUME NEW p \in Proc, Fail(p) PROVE StageInv'
  <2> DEFINE t == job[p].task
  <2>1. /\ pc[p] = "failing" /\ pc'[p] = "entering"
        /\ job'[p].phase = "recovering" /\ job'[p].task = t /\ job'[p].kind = job[p].kind
        /\ \A q \in Proc \ {p} : pc'[q] = pc[q]
        /\ Save(t, "failed")
    BY <1>15 DEF TypeOK, Job, Fail, Proceed
  <2>2. t \in Task /\ file[t] # None /\ file[t].kind = job[p].kind /\ job[p].kind \in Kind
    BY <2>1 DEF TaskInv, StageInv, StageOK, JobInv, Tasked
  <2>3. file'[t].kind = job[p].kind /\ file'[t].state = "failed"
    BY <2>1, <2>2, SaveType, StateNames
  <2>4. StageOK(p)'
    BY <2>1, <2>2, <2>3, NextStates DEF StageOK
  <2> QED BY <2>1, <2>4, Writing DEF Tasked
<1>16. ASSUME NEW p \in Proc, Finish(p) PROVE StageInv'
  <2>1. /\ pc[p] = "finishing" /\ pc'[p] \in {"idle", "pruning"}
        /\ \A q \in Proc \ {p} : pc'[q] = pc[q]
    BY <1>16 DEF TypeOK, Finish, Return, Goto
  <2>2. StageOK(p)'
    BY <2>1 DEF StageOK, Tasked
  <2> QED BY <2>1, <2>2, Writing DEF Tasked
<1>17. ASSUME NEW p \in Proc, EnterFails(p) PROVE StageInv'
  <2>1. Moves(p)
    BY <1>17 DEF EnterFails, Return, Goto, sysVars, TypeOK, Job, Moves, Tasked,
       AtWork
  <2> QED BY <2>1, Moving
<1>18. ASSUME NEW p \in Proc, ValidateInstall(p) PROVE StageInv'
  <2>1. job[p].kind \in Kind /\ StageOK(p)
    BY <1>18 DEF ValidateInstall, At, JobInv, StageInv
  <2>2. Moves(p)
    BY <1>18, <2>1, NextStates, StateNames DEF ValidateInstall, At, Proceed,
       sysVars, TypeOK, Job, Moves, StageOK, Tasked, AtWork
  <2> QED BY <2>2, Moving
<1>19. ASSUME NEW p \in Proc, PrepareWithBackup(p) PROVE StageInv'
  <2>1. job[p].kind \in Kind /\ StageOK(p)
    BY <1>19 DEF PrepareWithBackup, At, JobInv, StageInv
  <2>2. Moves(p)
    BY <1>19, <2>1, NextStates, StateNames DEF PrepareWithBackup, At, Proceed,
       sysVars, TypeOK, Job, Moves, StageOK, Tasked, AtWork
  <2> QED BY <2>2, Moving
<1>20. ASSUME NEW p \in Proc, ServicesStopped(p) PROVE StageInv'
  <2>1. job[p].kind \in Kind /\ StageOK(p)
    BY <1>20 DEF ServicesStopped, At, JobInv, StageInv
  <2>2. Moves(p)
    BY <1>20, <2>1, NextStates, StateNames DEF ServicesStopped, At, Proceed,
       sysVars, TypeOK, Job, Moves, StageOK, Tasked, AtWork
  <2> QED BY <2>2, Moving
<1>21. ASSUME NEW p \in Proc, ServicesStarted(p) PROVE StageInv'
  <2>1. job[p].kind \in Kind /\ StageOK(p)
    BY <1>21 DEF ServicesStarted, At, JobInv, StageInv
  <2>2. Moves(p)
    BY <1>21, <2>1, NextStates, StateNames DEF ServicesStarted, At, Proceed,
       sysVars, TypeOK, Job, Moves, StageOK, Tasked, AtWork
  <2> QED BY <2>2, Moving
<1>22. ASSUME NEW p \in Proc, DaemonReload(p) PROVE StageInv'
  <2>1. job[p].kind \in Kind /\ StageOK(p)
    BY <1>22 DEF DaemonReload, At, JobInv, StageInv
  <2>2. Moves(p)
    BY <1>22, <2>1, NextStates, StateNames, SMTT(30)
    DEF DaemonReload, At, Proceed, sysVars,
       TypeOK, Job, Moves, StageOK, Tasked, AtWork
  <2> QED BY <2>2, Moving
<1>23. ASSUME NEW p \in Proc, ValidateRemove(p) PROVE StageInv'
  <2>1. job[p].kind \in Kind /\ StageOK(p)
    BY <1>23 DEF ValidateRemove, At, JobInv, StageInv
  <2>2. Moves(p)
    BY <1>23, <2>1, NextStates, StateNames
       DEF ValidateRemove, At, sysVars, TypeOK, Job, Moves, StageOK, Tasked, AtWork
  <2> QED BY <2>2, Moving
<1>24. ASSUME NEW p \in Proc, BeginBackup(p) PROVE StageInv'
  <2>1. Moves(p)
    BY <1>24 DEF BeginBackup, At, Goto, TypeOK, Job, Moves, Tasked, AtWork
  <2> QED BY <2>1, Moving
<1>25. ASSUME NEW p \in Proc, EndBackup(p) PROVE StageInv'
  <2>1. job[p].kind \in Kind /\ StageOK(p)
    BY <1>25 DEF EndBackup, At, JobInv, StageInv
  <2>2. Moves(p)
    BY <1>25, <2>1, NextStates, StateNames DEF EndBackup, At, Proceed, sysVars,
       TypeOK, Job, Moves, StageOK, Tasked, AtWork
  <2> QED BY <2>2, Moving
<1>26. ASSUME NEW p \in Proc, RunApt(p) PROVE StageInv'
  <2>1. Moves(p)
    BY <1>26 DEF RunApt, At, Goto, TypeOK, Job, Moves, Tasked, AtWork
  <2> QED BY <2>1, Moving
<1>27. ASSUME NEW p \in Proc, RunRollback(p) PROVE StageInv'
  <2>1. Moves(p)
    BY <1>27 DEF RunRollback, At, Goto, TypeOK, Job, Moves, Tasked, AtWork
  <2> QED BY <2>1, Moving
<1>28. ASSUME NEW p \in Proc, StepFails(p) PROVE StageInv'
  <2>1. Moves(p)
    BY <1>28 DEF StepFails, Goto, sysVars, TypeOK, Job, Moves, Tasked, AtWork
  <2> QED BY <2>1, Moving
<1>29. ASSUME NEW p \in Proc, RollbackImpossible(p) PROVE StageInv'
  <2>1. job[p].kind \in Kind
    BY <1>29 DEF RollbackImpossible, At, JobInv
  <2>2. Moves(p)
    BY <1>29, <2>1, NextStates DEF RollbackImpossible, At, NoRollback, Conclude,
       Goto, sysVars, TypeOK, Job, Moves, Tasked, AtWork
  <2> QED BY <2>2, Moving
<1>30. ASSUME NEW p \in Proc, Verify(p) PROVE StageInv'
  <2>1. job[p].kind \in Kind /\ StageOK(p)
    BY <1>30 DEF Verify, At, JobInv, StageInv
  <2>2. Moves(p)
    BY <1>30, <2>1, NextStates, StateNames DEF Verify, At, Conclude, sysVars,
       TypeOK, Job, Moves, StageOK, Tasked, AtWork
  <2> QED BY <2>2, Moving
<1>31. ASSUME NEW p \in Proc, ServicesRestarted(p) PROVE StageInv'
  <2>1. job[p].kind \in Kind /\ StageOK(p)
    BY <1>31 DEF ServicesRestarted, At, JobInv, StageInv
  <2>2. Moves(p)
    BY <1>31, <2>1, NextStates, StateNames DEF ServicesRestarted, At, Conclude,
       sysVars, TypeOK, Job, Moves, StageOK, Tasked, AtWork
  <2> QED BY <2>2, Moving
<1>32. ASSUME NEW p \in Proc, JudgeRemoval(p) PROVE StageInv'
  <2>1. job[p].kind \in Kind /\ StageOK(p)
    BY <1>32 DEF JudgeRemoval, At, JobInv, StageInv
  <2>2. Moves(p)
    BY <1>32, <2>1, NextStates, StateNames DEF JudgeRemoval, At, Conclude,
       sysVars, TypeOK, Job, Moves, StageOK, Tasked, AtWork
  <2> QED BY <2>2, Moving
<1>33. ASSUME NEW p \in Proc, RecoveryFails(p) PROVE StageInv'
  <2>1. job[p].kind \in Kind /\ StageOK(p)
    BY <1>33 DEF RecoveryFails, At, JobInv, StageInv
  <2>2. Moves(p)
    BY <1>33, <2>1, NextStates, StateNames DEF RecoveryFails, At, Conclude,
       sysVars, TypeOK, Job, Moves, StageOK, Tasked, AtWork
  <2> QED BY <2>2, Moving
<1>34. ASSUME NEW p \in Proc, NEW u \in Unit, StopUnit(p, u) PROVE StageInv'
  <2>1. Moves(p)
    BY <1>34 DEF StopUnit, At, sysVars, TypeOK, Job, Moves, Tasked, AtWork
  <2> QED BY <2>1, Moving
<1>35. ASSUME NEW p \in Proc, NEW u \in Unit, DisableUnit(p, u) PROVE StageInv'
  <2>1. Moves(p)
    BY <1>35 DEF DisableUnit, At, sysVars, TypeOK, Job, Moves, Tasked, AtWork
  <2> QED BY <2>1, Moving
<1>36. ASSUME NEW p \in Proc, NEW u \in Unit, PassUnit(p, u) PROVE StageInv'
  <2>1. Moves(p)
    BY <1>36 DEF PassUnit, At, sysVars, TypeOK, Job, Moves, Tasked, AtWork
  <2> QED BY <2>1, Moving
<1>37. ASSUME NEW p \in Proc, NEW u \in Unit, StartUnit(p, u) PROVE StageInv'
  <2>1. Moves(p)
    BY <1>37 DEF StartUnit, At, sysVars, TypeOK, Job, Moves, Tasked, AtWork
  <2> QED BY <2>1, Moving
<1>38. ASSUME NEW p \in Proc, NEW u \in Unit, RestartUnit(p, u) PROVE StageInv'
  <2>1. Moves(p)
    BY <1>38 DEF RestartUnit, At, sysVars, TypeOK, Job, Moves, Tasked, AtWork
  <2> QED BY <2>1, Moving
<1>39. ASSUME NEW p \in Proc, NEW u \in Unit, StartUnitFails(p, u)
     PROVE  StageInv'
  <2>1. Moves(p)
    BY <1>39 DEF StartUnitFails, At, Goto, TypeOK, Job, Moves, Tasked, AtWork
  <2> QED BY <2>1, Moving
<1>40. ASSUME NEW p \in Proc, NEW u \in Unit, ServiceCommand(p, u)
     PROVE  StageInv'
  <2>1. Moves(p)
    BY <1>40 DEF ServiceCommand, Return, Goto, TypeOK, Job, Moves, Tasked, AtWork
  <2> QED BY <2>1, Moving
<1>41. ASSUME AptSucceeds PROVE StageInv'
  <2>1. CASE apt.by = None
    BY <1>41, <2>1 DEF AptSucceeds, procVars, StageInv, StageOK
  <2>2. CASE apt.by # None
    <3>1. PICK p \in Proc : apt.by = p /\ pc[p] = "apt"
      BY <1>41, <2>2 DEF AptSucceeds, TypeOK, Apt, WaiterInv
    <3>2. job[p].kind \in Kind /\ job[p] \in Job /\ StageOK(p)
      BY <3>1 DEF JobInv, TypeOK, StageInv
    <3>3. Moves(p)
      BY <1>41, <3>1, <3>2, NextStates, NoneAssumption
         DEF AptSucceeds, AfterApt, Proceed, Conclude, Goto, TypeOK, Job, Moves,
             StageOK, Tasked, AtWork
    <3> QED BY <3>3, Moving
  <2> QED BY <2>1, <2>2
<1>42. ASSUME AptFails PROVE StageInv'
  <2>1. CASE apt.by = None
    BY <1>42, <2>1 DEF AptFails, procVars, StageInv, StageOK
  <2>2. CASE apt.by # None
    <3>1. PICK p \in Proc : apt.by = p /\ pc[p] = "apt"
      BY <1>42, <2>2 DEF AptFails, TypeOK, Apt, WaiterInv
    <3>2. job[p].kind \in Kind /\ job[p] \in Job /\ StageOK(p)
      BY <3>1 DEF JobInv, TypeOK, StageInv
    <3>3. Moves(p)
      BY <1>42, <3>1, <3>2, NextStates, NoneAssumption DEF AptFails,
         AfterAptError, NoRollback, Proceed, Conclude, Goto, TypeOK, Job, Moves,
         StageOK, Tasked, AtWork
    <3> QED BY <3>3, Moving
  <2> QED BY <2>1, <2>2
<1>43. ASSUME Reboot PROVE StageInv'
  BY <1>43 DEF Reboot, StageInv, StageOK, Tasked
<1>44. ASSUME NEW p \in Proc, Crash(p) PROVE StageInv'
  <2>1. Moves(p)
    BY <1>44 DEF Crash, Return, Goto, TypeOK, Job, Moves, Tasked, AtWork
  <2> QED BY <2>1, Moving
<1>45. ASSUME NEW t \in Task, Settle(t) PROVE StageInv'
  <2>1. /\ \A p \in Proc : job[p].task # t
        /\ pc' = pc /\ job' = job
        /\ \A x \in Task \ {t} : file'[x] = file[x]
    BY <1>45, SaveType, StateNames DEF Settle, OpenTasks, procVars
  <2> QED BY <2>1 DEF TaskInv, StageInv, StageOK
<1>46. ASSUME NEW p \in Proc, NEW r \in Release, Rebuild(p, r) PROVE StageInv'
  <2>1. Moves(p)
    BY <1>46 DEF Rebuild, sysVars, TypeOK, Job, Moves, Tasked, AtWork
  <2> QED BY <2>1, Moving
<1>47. ASSUME NEW q \in Package, Damage(q) \/ Mend(q) PROVE StageInv'
  BY <1>47 DEF Damage, Mend, procVars, StageInv, StageOK
<1>48. CASE UNCHANGED vars
  BY <1>48 DEF vars, StageInv, StageOK
<1> QED
  BY <1>1, <1>2, <1>3, <1>4, <1>5, <1>6, <1>7, <1>8, <1>9, <1>10, <1>11,
     <1>12, <1>13, <1>14, <1>15, <1>16, <1>17, <1>18, <1>19, <1>20, <1>21,
     <1>22, <1>23, <1>24, <1>25, <1>26, <1>27, <1>28, <1>29, <1>30, <1>31,
     <1>32, <1>33, <1>34, <1>35, <1>36, <1>37, <1>38, <1>39, <1>40, <1>41,
     <1>42, <1>43, <1>44, <1>45, <1>46, <1>47, <1>48 DEF Next, Command, Step,
     UnitStep, Environment

-------------------------------------------------------------------------------
(* Which steps write what *)

\* Each group of variables has its writers, and a change keeps its package and
\* the version it found until it returns.
Footprint ==
  /\ \/ file' = file
     \/ \E p \in Proc : CreateTask(p) \/ Enter(p) \/ Fail(p) \/ Finish(p)
     \/ \E t \in Task : Settle(t)
  /\ \/ UNCHANGED <<unpacked, configured>>
     \/ AptSucceeds \/ AptFails \/ Reboot
  /\ \/ broken' = broken
     \/ AptSucceeds \/ AptFails \/ Reboot
     \/ \E q \in Package : Damage(q) \/ Mend(q)
  /\ \/ wasBroken' = wasBroken
     \/ \E p \in Proc : CreateTask(p)
     \/ \E q \in Package : Damage(q)
  /\ \/ backups' = backups
     \/ \E p \in Proc : BeginBackup(p) \/ EndBackup(p) \/ PruneBackups(p)
  /\ \/ UNCHANGED unitVars
     \/ \E p \in Proc, u \in Unit : UnitStep(p, u)
     \/ Reboot
  /\ \A p \in Proc :
       pc[p] \notin {"idle", "waiting", "checking", "reading"} /\ pc'[p] # "idle" =>
         job'[p].pkg = job[p].pkg /\ job'[p].from = job[p].from

LEMMA Footprints == TypeOK /\ [Next]_vars => Footprint
<1> SUFFICES ASSUME TypeOK, [Next]_vars PROVE Footprint
  OBVIOUS
<1> USE DEF TypeOK, Job, sysVars, pkgVars, unitVars, Footprint
<1>1. ASSUME NEW p \in Proc, Command(p) PROVE Footprint
  BY <1>1 DEF Command, StartInstall, StartRemove, StartServiceCommand, Start, Goto
<1>2. ASSUME NEW p \in Proc, TakeLock(p) PROVE Footprint
  BY <1>2 DEF TakeLock, Goto
<1>3. ASSUME NEW p \in Proc, LockTimeout(p) PROVE Footprint
  BY <1>3 DEF LockTimeout, Return, Goto
<1>4. ASSUME NEW p \in Proc, CheckIncomplete(p) PROVE Footprint
  BY <1>4 DEF CheckIncomplete, Return, Goto
<1>5. ASSUME NEW p \in Proc, ReadInstalled(p) PROVE Footprint
  BY <1>5 DEF ReadInstalled, Goto
<1>6. ASSUME NEW p \in Proc, CreateTask(p) PROVE Footprint
  <2>1. /\ UNCHANGED <<unpacked, configured, broken, unitVars, backups>>
        /\ \A q \in Proc : job'[q].pkg = job[q].pkg /\ job'[q].from = job[q].from
    BY <1>6 DEF CreateTask
  <2> QED BY <1>6, <2>1
<1>7. ASSUME NEW p \in Proc, GiveUpEarly(p) PROVE Footprint
  BY <1>7 DEF GiveUpEarly, Return, Goto
<1>8. ASSUME NEW p \in Proc, Enter(p) PROVE Footprint
  BY <1>8 DEF Enter, Goto
<1>9. ASSUME NEW p \in Proc, EnterFails(p) PROVE Footprint
  BY <1>9 DEF EnterFails, Return, Goto
<1>10. ASSUME NEW p \in Proc, ValidateInstall(p) PROVE Footprint
  BY <1>10 DEF ValidateInstall, At, Proceed
<1>11. ASSUME NEW p \in Proc, ValidateRemove(p) PROVE Footprint
  BY <1>11 DEF ValidateRemove, At
<1>12. ASSUME NEW p \in Proc, PrepareWithBackup(p) PROVE Footprint
  BY <1>12 DEF PrepareWithBackup, At, Proceed
<1>13. ASSUME NEW p \in Proc, BeginBackup(p) PROVE Footprint
  BY <1>13 DEF BeginBackup, At, Goto
<1>14. ASSUME NEW p \in Proc, EndBackup(p) PROVE Footprint
  BY <1>14 DEF EndBackup, Proceed
<1>15. ASSUME NEW p \in Proc, ServicesStopped(p) PROVE Footprint
  BY <1>15 DEF ServicesStopped, At, Proceed
<1>16. ASSUME NEW p \in Proc, RunApt(p) PROVE Footprint
  BY <1>16 DEF RunApt, At, Goto
<1>17. ASSUME NEW p \in Proc, DaemonReload(p) PROVE Footprint
  BY <1>17 DEF DaemonReload, At, Proceed
<1>18. ASSUME NEW p \in Proc, ServicesStarted(p) PROVE Footprint
  BY <1>18 DEF ServicesStarted, At, Proceed
<1>19. ASSUME NEW p \in Proc, Verify(p) PROVE Footprint
  BY <1>19 DEF Verify, At, Conclude
<1>20. ASSUME NEW p \in Proc, StepFails(p) PROVE Footprint
  BY <1>20 DEF StepFails, Goto
<1>21. ASSUME NEW p \in Proc, Fail(p) PROVE Footprint
  BY <1>21 DEF Fail, Proceed
<1>22. ASSUME NEW p \in Proc, FailFails(p) PROVE Footprint
  BY <1>22 DEF FailFails, Return, Goto
<1>23. ASSUME NEW p \in Proc, RunRollback(p) PROVE Footprint
  BY <1>23 DEF RunRollback, At, Goto
<1>24. ASSUME NEW p \in Proc, RollbackImpossible(p) PROVE Footprint
  BY <1>24 DEF RollbackImpossible, At, NoRollback, Conclude, Goto
<1>25. ASSUME NEW p \in Proc, ServicesRestarted(p) PROVE Footprint
  BY <1>25 DEF ServicesRestarted, At, Conclude
<1>26. ASSUME NEW p \in Proc, JudgeRemoval(p) PROVE Footprint
  BY <1>26 DEF JudgeRemoval, Conclude
<1>27. ASSUME NEW p \in Proc, RecoveryFails(p) PROVE Footprint
  BY <1>27 DEF RecoveryFails, At, Conclude
<1>28. ASSUME NEW p \in Proc, Finish(p) PROVE Footprint
  BY <1>28 DEF Finish, Return, Goto
<1>29. ASSUME NEW p \in Proc, FinishFails(p) PROVE Footprint
  BY <1>29 DEF FinishFails, Return, Goto
<1>30. ASSUME NEW p \in Proc, PruneBackups(p) PROVE Footprint
  BY <1>30 DEF PruneBackups, Return, Goto
<1>31. ASSUME NEW p \in Proc, ServiceCommandFails(p) PROVE Footprint
  BY <1>31 DEF ServiceCommandFails, Return, Goto
<1>32. ASSUME NEW p \in Proc, NEW u \in Unit, StopUnit(p, u) PROVE Footprint
  BY <1>32 DEF UnitStep, StopUnit, At
<1>33. ASSUME NEW p \in Proc, NEW u \in Unit, DisableUnit(p, u) PROVE Footprint
  <2>1. UnitStep(p, u)
    BY <1>33, Zenon DEF UnitStep
  <2>2. UNCHANGED <<file, pkgVars, backups>>
    BY <1>33 DEF DisableUnit
  <2>3. \A q \in Proc : job'[q].pkg = job[q].pkg /\ job'[q].from = job[q].from
    BY <1>33 DEF DisableUnit
  <2> QED BY <2>1, <2>2, <2>3
<1>34. ASSUME NEW p \in Proc, NEW u \in Unit, PassUnit(p, u) PROVE Footprint
  BY <1>34 DEF UnitStep, PassUnit, At
<1>35. ASSUME NEW p \in Proc, NEW u \in Unit, StartUnit(p, u) PROVE Footprint
  <2>1. UnitStep(p, u)
    BY <1>35, Zenon DEF UnitStep
  <2>2. UNCHANGED <<file, pkgVars, backups>>
    BY <1>35 DEF StartUnit
  <2>3. \A q \in Proc : job'[q].pkg = job[q].pkg /\ job'[q].from = job[q].from
    BY <1>35 DEF StartUnit
  <2> QED BY <2>1, <2>2, <2>3
<1>36. ASSUME NEW p \in Proc, NEW u \in Unit, StartUnitFails(p, u) PROVE Footprint
  BY <1>36 DEF UnitStep, StartUnitFails, At, Goto
<1>37. ASSUME NEW p \in Proc, NEW u \in Unit, RestartUnit(p, u) PROVE Footprint
  BY <1>37 DEF UnitStep, RestartUnit
<1>38. ASSUME NEW p \in Proc, NEW u \in Unit, ServiceCommand(p, u) PROVE Footprint
  BY <1>38 DEF UnitStep, ServiceCommand, Return, Goto
<1>39. ASSUME AptSucceeds PROVE Footprint
  <2>1. \/ job' = job
        \/ \E s \in TaskState : job' = [job EXCEPT ![apt.by].phase = s]
        \/ \E U \in {DeclaredBy(unpacked'[apt.pkg], apt.pkg \notin broken')} : job' = [job EXCEPT ![apt.by].todo = U]
    BY <1>39, StateNames DEF AptSucceeds, procVars, AfterApt, Proceed, Conclude,
       Goto
  <2>2. \A p \in Proc : job'[p].pkg = job[p].pkg /\ job'[p].from = job[p].from
    <3>1. CASE job' = job
      BY <3>1
    <3>2. ASSUME NEW s \in TaskState, job' = [job EXCEPT ![apt.by].phase = s]
          PROVE  \A p \in Proc : job'[p].pkg = job[p].pkg /\ job'[p].from = job[p].from
      BY <3>2
    <3>3. ASSUME NEW U, job' = [job EXCEPT ![apt.by].todo = U]
          PROVE  \A p \in Proc : job'[p].pkg = job[p].pkg /\ job'[p].from = job[p].from
      BY <3>3
    <3> QED BY <2>1, <3>1, <3>2, <3>3
  <2> QED BY <1>39, <2>2 DEF AptSucceeds, InstallAs
<1>40. ASSUME AptFails PROVE Footprint
  <2>1. \/ job' = job
        \/ \E s \in TaskState : job' = [job EXCEPT ![apt.by].phase = s]
        \/ \E U \in {DeclaredBy(unpacked'[apt.pkg], apt.pkg \notin broken')} : job' = [job EXCEPT ![apt.by].todo = U]
    BY <1>40, StateNames DEF AptFails, procVars, AfterAptError, NoRollback,
       Conclude, Goto
  <2>2. \A p \in Proc : job'[p].pkg = job[p].pkg /\ job'[p].from = job[p].from
    <3>1. CASE job' = job
      BY <3>1
    <3>2. ASSUME NEW s \in TaskState, job' = [job EXCEPT ![apt.by].phase = s]
          PROVE  \A p \in Proc : job'[p].pkg = job[p].pkg /\ job'[p].from = job[p].from
      BY <3>2
    <3>3. ASSUME NEW U, job' = [job EXCEPT ![apt.by].todo = U]
          PROVE  \A p \in Proc : job'[p].pkg = job[p].pkg /\ job'[p].from = job[p].from
      BY <3>3
    <3> QED BY <2>1, <3>1, <3>2, <3>3
  <2> QED BY <1>40, <2>2 DEF AptFails, Interrupted
<1>41. ASSUME Reboot PROVE Footprint
  BY <1>41 DEF Reboot, Interrupted
<1>42. ASSUME NEW p \in Proc, Crash(p) PROVE Footprint
  BY <1>42 DEF Crash, Return, Goto
<1>43. ASSUME NEW t \in Task, Settle(t) PROVE Footprint
  BY <1>43 DEF Settle, procVars
<1>44. ASSUME NEW p \in Proc, NEW r \in Release, Rebuild(p, r) PROVE Footprint
  BY <1>44 DEF Rebuild
<1>45. ASSUME NEW q \in Package, Damage(q) PROVE Footprint
  BY <1>45 DEF Damage, procVars
<1>46. ASSUME NEW q \in Package, Mend(q) PROVE Footprint
  BY <1>46 DEF Mend, procVars
<1>47. CASE UNCHANGED vars
  BY <1>47 DEF vars
<1> HIDE DEF Footprint
<1> QED
  BY <1>1, <1>2, <1>3, <1>4, <1>5, <1>6, <1>7, <1>8, <1>9, <1>10, <1>11,
     <1>12, <1>13, <1>14, <1>15, <1>16, <1>17, <1>18, <1>19, <1>20, <1>21,
     <1>22, <1>23, <1>24, <1>25, <1>26, <1>27, <1>28, <1>29, <1>30, <1>31,
     <1>32, <1>33, <1>34, <1>35, <1>36, <1>37, <1>38, <1>39, <1>40, <1>41,
     <1>42, <1>43, <1>44, <1>45, <1>46, <1>47 DEF Next, Step, UnitStep, Environment

-------------------------------------------------------------------------------
(* The task files are those of TaskLifecycle *)

\* What TaskLifecycle sees of the task files.
Files == [t \in Task |-> IF file[t] = None THEN None
                         ELSE [kind |-> file[t].kind, state |-> file[t].state]]

LEMMA FilesSeen ==
  TypeOK => /\ \A t \in Task : Files[t] = None <=> file[t] = None
            /\ Lifecycle!Open = OpenTasks
<1> SUFFICES ASSUME TypeOK
             PROVE  /\ \A t \in Task : Files[t] = None <=> file[t] = None
                    /\ Lifecycle!Open = OpenTasks
  OBVIOUS
<1>1. ASSUME NEW t \in Task, file[t] # None
      PROVE  Files[t] # None /\ Files[t].state = file[t].state
  <2>1. file[t].kind \in Kind /\ file[t].state \in TaskState
    BY <1>1 DEF TypeOK, TaskFile
  <2>2. Files[t] = [kind |-> file[t].kind, state |-> file[t].state]
    BY <1>1 DEF Files
  <2>3. Files[t] \in [kind : Kind, state : TaskState]
    BY <2>1, <2>2
  <2> QED BY <2>2, <2>3, NoRecordAssumption
<1>2. \A t \in Task : file[t] = None => Files[t] = None
  BY DEF Files
<1>3. Lifecycle!Open = {t \in Task : Files[t] # None /\ Lifecycle!Incomplete(Files[t].state)}
  BY DEF Lifecycle!Open, Lifecycle!Written, Files
<1>4. Lifecycle!Open = OpenTasks
  BY <1>1, <1>2, <1>3 DEF OpenTasks, Lifecycle!Incomplete, Incomplete,
     Lifecycle!TaskState, TaskState, Lifecycle!Working, Working,
     Lifecycle!Terminal, Terminal
<1> QED BY <1>1, <1>2, <1>4

\* A save by the running change is a step of TaskLifecycle.
LEMMA Advancing ==
  ASSUME ControlOK, Journal, NEW p \in Proc, pc[p] \in Tasked,
         NEW s \in TaskState, Save(job[p].task, s),
         s \in Successors(file[job[p].task].kind, file[job[p].task].state)
  PROVE  Lifecycle!Next
<1>1. PICK t \in Task : t = job[p].task
  BY DEF ControlOK, TaskInv
<1>2. file[t] # None /\ t \in OpenTasks
  BY <1>1 DEF ControlOK, TaskInv, Journal, OwnerInv, OpenTasks
<1>3. t \in Lifecycle!Open
  BY <1>2, FilesSeen DEF ControlOK
<1>4. /\ file'[t] # None /\ file'[t].state = s /\ file'[t].kind = file[t].kind
      /\ \A x \in Task \ {t} : file'[x] = file[x]
  BY <1>1, <1>2, SaveType, NoRecordAssumption DEF ControlOK
<1>5. Files' = [Files EXCEPT ![t].state = s]
  BY <1>2, <1>4 DEF Files
<1>6. s \in Lifecycle!Successors(Files[t].kind, Files[t].state)
  BY <1>1, <1>2 DEF Files, Lifecycle!Successors, Successors, Lifecycle!NextState,
     NextState, Lifecycle!Working, Working
<1>7. Lifecycle!Advance(t)
  BY <1>3, <1>5, <1>6 DEF Lifecycle!Advance, Files
<1> QED BY <1>7 DEF Lifecycle!Next

LEMMA LifecycleStep ==
  ControlOK /\ Journal /\ StageInv /\ [Next]_vars => [Lifecycle!Next]_Files
<1> SUFFICES ASSUME ControlOK, Journal, StageInv, [Next]_vars,
                    file' # file
             PROVE  Lifecycle!Next
  BY DEF Files
<1> USE DEF ControlOK
<1>1. ASSUME NEW p \in Proc, CreateTask(p) PROVE Lifecycle!Next
  <2>1. PICK t \in Task :
          /\ file[t] = None
          /\ file' = [file EXCEPT ![t] = [kind |-> job[p].kind, pkg |-> job[p].pkg,
                                          state |-> "created"]]
    BY <1>1 DEF CreateTask
  <2>2. OpenTasks = {} /\ job[p].kind \in Kind /\ job[p].pkg \in Package
    BY <1>1 DEF Journal, QuietInv, CreateTask, JobInv
  <2>3. file'[t] \in TaskFile
    BY <2>1, <2>2, StateNames DEF TypeOK, TaskFile
  <2>4. Files' = [Files EXCEPT ![t] = [kind |-> job[p].kind, state |-> "created"]]
    BY <2>1, <2>3, NoRecordAssumption DEF Files, TypeOK
  <2>5. Files[t] = None /\ Lifecycle!Open = {}
    BY <2>1, <2>2, FilesSeen
  <2>6. Lifecycle!Begin(t)
    BY <2>2, <2>4, <2>5 DEF Lifecycle!Begin, Files, Lifecycle!Kind, Kind
  <2> QED BY <2>6 DEF Lifecycle!Next
<1>2. ASSUME NEW p \in Proc, Enter(p) \/ Finish(p) PROVE Lifecycle!Next
  <2>1. pc[p] \in {"entering", "finishing"} /\ Save(job[p].task, job[p].phase)
    BY <1>2 DEF Enter, Finish
  <2>2. /\ job[p].phase \in TaskState
        /\ job[p].phase \in Successors(file[job[p].task].kind, file[job[p].task].state)
    BY <2>1 DEF TypeOK, Job, StageInv, StageOK, Tasked
  <2> QED BY <2>1, <2>2, Advancing DEF Tasked
<1>3. ASSUME NEW p \in Proc, Fail(p) PROVE Lifecycle!Next
  <2>1. pc[p] = "failing" /\ Save(job[p].task, "failed")
    BY <1>3 DEF Fail
  <2>2. /\ file[job[p].task].state \in Working
        /\ file[job[p].task].kind \in Kind
    BY <2>1 DEF StageInv, StageOK, JobInv, Tasked
  <2>3. "failed" \in Successors(file[job[p].task].kind, file[job[p].task].state)
    BY <2>2, NextStates
  <2> QED BY <2>1, <2>3, Advancing, StateNames DEF Tasked
<1>4. ASSUME NEW t \in Task, Settle(t) PROVE Lifecycle!Next
  <2>1. t \in OpenTasks /\ file[t] # None /\ Save(t, "recovery_required")
    BY <1>4 DEF Settle, OpenTasks
  <2>2. /\ file'[t] # None /\ file'[t].state = "recovery_required"
        /\ file'[t].kind = file[t].kind
        /\ \A x \in Task \ {t} : file'[x] = file[x]
    BY <2>1, SaveType, NoRecordAssumption, StateNames
  <2>3. Files' = [Files EXCEPT ![t].state = "recovery_required"]
    BY <2>1, <2>2 DEF Files
  <2>4. Lifecycle!Settle(t)
    BY <2>1, <2>3, FilesSeen DEF Lifecycle!Settle, Files
  <2> QED BY <2>4 DEF Lifecycle!Next
<1> QED BY <1>1, <1>2, <1>3, <1>4, Footprints DEF Footprint

-------------------------------------------------------------------------------
(* Theorems *)

\* One task is open at most, it is the task of whoever is at work or of an apt that
\* outlived its rsctl, and its file names the work that is done.
THEOREM JournalHolds == Spec => []Journal
<1>1. Init => ControlOK /\ Journal
  BY ControlInit, JournalInit
<1>2. (ControlOK /\ Journal) /\ [Next]_vars => (ControlOK /\ Journal)'
  BY ControlStep, JournalStep
<1> QED BY <1>1, <1>2, PTL DEF Spec

\* check_incomplete and Tx::new under one lock keep a second task from being
\* begun while one is unfinished, after any number of crashes.
THEOREM OneTaskAtATime == Spec => []OneOpenTask
<1>1. Journal => OneOpenTask
  BY DEF Journal
<1> QED BY <1>1, JournalHolds, PTL

\* Tx::enter: the disk names the state whose work is being done.
THEOREM WorkAlwaysJournaled == Spec => []WorkIsJournaled
<1>1. Journal => WorkIsJournaled
  BY DEF Journal
<1> QED BY <1>1, JournalHolds, PTL

\* An apt run, orphaned or not, is covered by an unfinished task file.
THEOREM AptAlwaysJournaled == Spec => []AptIsJournaled
<1>1. Journal => AptIsJournaled
  BY DEF Journal
<1> QED BY <1>1, JournalHolds, PTL

\* The state of a change in memory and on disk follow the state machine, whichever
\* saves fail and wherever processes are killed.
THEOREM StagesHold == Spec => []StageInv
<1>1. Init => StageInv
  BY DEF Init, StageInv, StageOK, Tasked
<1>2. ControlOK /\ Journal /\ StageInv /\ [Next]_vars => StageInv'
  BY StageStep
<1> QED BY <1>1, <1>2, ControlHolds, JournalHolds, PTL DEF Spec

\* Deployment implements TaskLifecycle for any number of processes and tasks:
\* changes are recorded one at a time, every file only moves along the state
\* machine, and a finished one never changes again.
THEOREM LifecycleImplemented == Spec => ImplementsLifecycle
<1>1. Init => Lifecycle!Init
  BY DEF Init, Lifecycle!Init
<1>2. ControlOK /\ Journal /\ StageInv /\ [Next]_vars => [Lifecycle!Next]_Files
  BY LifecycleStep
<1> QED
  BY <1>1, <1>2, ControlHolds, JournalHolds, StagesHold, PTL
     DEF Spec, ImplementsLifecycle, Lifecycle!Spec, Files
===============================================================================
