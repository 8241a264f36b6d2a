----------------------------- MODULE ChangeProofs ------------------------------
(***************************************************************************)
(* What a change does to packages, units and backups, for any number of    *)
(* processes, packages, units and releases: what "committed" and           *)
(* "recovered" announce is so, no dependent is stranded, no shared unit    *)
(* touched, and the backup a rollback needs stays.                         *)
(***************************************************************************)
EXTENDS JournalProofs

\* The labels between the reading of the installed version and the last save.
Underway == Tasked \cup {"creating"}

-------------------------------------------------------------------------------
(* The inductive invariant.  Sets of packages are spelled out as           *)
(* quantifications over packages, which is what the steps preserve.        *)

\* DependentsOnDisk(q) \subseteq wasBroken.
Unneeded(q) ==
  \A d \in Package \ {q} :
    d \notin wasBroken /\ unpacked[d] # None => q \notin DependsOn[unpacked[d]]

\* OwnersOnDisk(u, q) \subseteq wasBroken.
Unshared(u, q) ==
  \A o \in Package \ {q} :
    o \notin wasBroken /\ unpacked[o] # None => u \notin ServicesOf[unpacked[o]]

\* The history knows of every manifest that cannot be read.
ManifestInv == broken \subseteq wasBroken

\* A package dpkg reports as installed has its files on disk.
PackageInv == \A q \in configured : unpacked[q] # None

\* A removal that is past its check of the dependents and before apt.
Removal(p, phases) == /\ Removing(p)
                      /\ pc[p] \in {"entering", "working"}
                      /\ job[p].phase \in phases

\* However often the deb is rebuilt, it keeps the version that was read from it.
DebOK(p) ==
  pc[p] \in Underway /\ ~Removing(p) => VersionOf[job[p].deb] = VersionOf[job[p].info]

\* The incomplete backup is the newest one, and of that version too.
CopyOK(p) ==
  pc[p] = "copying" =>
    LET mine == backups[job[p].pkg] IN
    mine # <<>> /\ VersionOf[mine[Len(mine)].rel] = VersionOf[job[p].info]

\* The package a removal is about is at the version it had, or gone.
RemovedOK(p) ==
  LET r == unpacked[job[p].pkg] IN
  /\ pc[p] \in Underway /\ Removing(p) =>
       job[p].from # None /\ (r = None \/ VersionOf[r] = job[p].from)
  /\ pc[p] = "judging" => Removing(p)

\* What the removal saw when it validated is still so when it acts.
DependentsOK(p) ==
  Removal(p, {"prepared", "stopping_services", "applying_package"}) =>
    Unneeded(job[p].pkg)

UnsharedOK(p) ==
  Removal(p, {"prepared", "stopping_services"}) =>
    /\ \A u \in job[p].decl : Unshared(u, job[p].pkg)
    /\ At(p, "working", "stopping_services") => job[p].todo \subseteq job[p].decl

\* The units to verify are those of the release that is installed, if its manifest
\* was there to be read.
DeclaredOK(p) ==
  /\ ~Removing(p)
  /\ \/ At(p, "working", "starting_services")
     \/ pc[p] \in {"entering", "working"} /\ job[p].phase = "verifying_package"
  /\ job[p].pkg \notin wasBroken
  => job[p].decl = DeclaredBy(unpacked[job[p].pkg], TRUE)

CommitOK(p) ==
  At(p, "finishing", "committed") =>
    IF Removing(p)
      THEN job[p].pkg \notin configured
      ELSE /\ job[p].pkg \in configured
           /\ unpacked[job[p].pkg] # None
           /\ VersionOf[unpacked[job[p].pkg]] = VersionOf[job[p].info]
           /\ \A u \in job[p].decl : Exists(u)
           /\ job[p].pkg \notin wasBroken =>
                \A u \in ServicesOf[unpacked[job[p].pkg]] : Exists(u)

\* The rollback an apt reported has happened, if apt tells the truth.
RecoveryOK(p) ==
  "silent" \notin Faults =>
    (pc[p] = "restarting" \/ At(p, "finishing", "recovered") =>
       /\ job[p].from # None
       /\ InstalledVersion(job[p].pkg) = job[p].from)

ChangeOK(p) ==
  /\ DebOK(p)
  /\ CopyOK(p)
  /\ RemovedOK(p)
  /\ DependentsOK(p)
  /\ UnsharedOK(p)
  /\ DeclaredOK(p)
  /\ CommitOK(p)
  /\ RecoveryOK(p)

\* What an apt run is about to do.  Its rsctl may be dead.
AptOK ==
  apt # None =>
    /\ apt.target = None => Unneeded(apt.pkg)
    /\ \A p \in Proc : apt.by = p =>
         /\ apt.pkg = job[p].pkg
         /\ job[p].phase = "applying_package" /\ Removing(p) => apt.target = None
         /\ job[p].phase = "recovering" =>
              /\ job[p].from # None
              /\ apt.target # None
              /\ VersionOf[apt.target] = job[p].from

ChangeInv ==
  /\ PackageInv
  /\ ManifestInv
  /\ AptOK
  /\ \A p \in Proc : ChangeOK(p)

\* What the journal proves and this rests on.
Base == ControlOK /\ Journal /\ StageInv

LEMMA ChangeInit == Init => ChangeInv
<1> SUFFICES ASSUME Init PROVE ChangeInv
  OBVIOUS
<1>1. PackageInv /\ ManifestInv /\ AptOK
  BY DEF Init, PackageInv, ManifestInv, AptOK
<1>2. \A p \in Proc : pc[p] = "idle" /\ job[p] = NoJob
  BY DEF Init
<1>3. ASSUME NEW p \in Proc PROVE ChangeOK(p)
  BY <1>2 DEF ChangeOK, DebOK, CopyOK, RemovedOK, DependentsOK, UnsharedOK,
     DeclaredOK, CommitOK, RecoveryOK, Removal, At, Underway, Tasked
<1> QED BY <1>1, <1>3 DEF ChangeInv

-------------------------------------------------------------------------------
(* Processes that have nothing to keep, and those that look on *)

\* While p holds the lock nobody else is underway.
LEMMA OthersWait ==
  ASSUME ControlOK, NEW p \in Proc, pc[p] \notin {"idle", "waiting"}
  PROVE  \A q \in Proc \ {p} : pc[q] \in {"idle", "waiting"} /\ pc[q] \notin Underway
  BY DEF ControlOK, LockInv, Underway, Tasked

\* A process that does not move, when the packages and backups do not either, be
\* there one more manifest that was not readable.
LEMMA Unmoved ==
  ASSUME NEW q \in Proc, ChangeOK(q), pc'[q] = pc[q], job'[q] = job[q],
         UNCHANGED <<unpacked, configured, backups>>, wasBroken \subseteq wasBroken'
  PROVE  ChangeOK(q)'
<1>1. DebOK(q)' /\ CopyOK(q)' /\ RemovedOK(q)'
  BY DEF ChangeOK, DebOK, CopyOK, RemovedOK, Removing
<1>2. DependentsOK(q)' /\ UnsharedOK(q)'
  BY DEF ChangeOK, DependentsOK, UnsharedOK, Unneeded, Unshared, Removal,
     Removing, At
<1>3. DeclaredOK(q)' /\ CommitOK(q)' /\ RecoveryOK(q)'
  BY DEF ChangeOK, DeclaredOK, CommitOK, RecoveryOK, Declared, Exists,
     InstalledVersion, Removing, At
<1> QED BY <1>1, <1>2, <1>3 DEF ChangeOK

\* A step of p that leaves packages and apt alone.
ActsAlone(p) ==
  /\ \A q \in Proc \ {p} : pc'[q] = pc[q] /\ job'[q] = job[q]
  /\ UNCHANGED <<apt, unpacked, configured, broken, wasBroken>>
  /\ pc[p] = "apt" => /\ job'[p].kind = job[p].kind /\ job'[p].pkg = job[p].pkg
                      /\ job'[p].from = job[p].from /\ job'[p].phase = job[p].phase
  /\ backups' = backups \/ pc[p] \notin {"idle", "waiting"}

LEMMA ActingAlone ==
  ASSUME ControlOK, ChangeInv, NEW p \in Proc, ActsAlone(p), ChangeOK(p)'
  PROVE  ChangeInv'
<1>1. PackageInv' /\ ManifestInv'
  BY DEF ChangeInv, PackageInv, ManifestInv, ActsAlone
<1>2. AptOK'
  <2>1. apt # None /\ apt.by = p => pc[p] = "apt"
    BY NoneAssumption DEF ControlOK, WaiterInv
  <2> QED BY <2>1 DEF ChangeInv, AptOK, ActsAlone, Unneeded, Removing
<1>3. ASSUME NEW q \in Proc \ {p} PROVE ChangeOK(q)'
  <2>1. CASE backups' = backups
    BY <2>1, Unmoved DEF ChangeInv, ActsAlone
  <2>2. CASE pc[p] \notin {"idle", "waiting"}
    <3>1. pc'[q] \notin Underway
      BY <2>2, OthersWait DEF ActsAlone
    <3> QED BY <3>1 DEF ChangeOK, DebOK, CopyOK, RemovedOK, DependentsOK,
               UnsharedOK, DeclaredOK, CommitOK, RecoveryOK, Removal, At,
               Underway, Tasked
  <2> QED BY <2>1, <2>2 DEF ActsAlone
<1> QED BY <1>1, <1>2, <1>3 DEF ChangeInv

\* A step of p after which it has nothing to keep.
LEMMA Leaving ==
  ASSUME ControlOK, ChangeInv, NEW p \in Proc, ActsAlone(p), pc'[p] \notin Underway
  PROVE  ChangeInv'
<1>1. ChangeOK(p)'
  BY DEF ChangeOK, DebOK, CopyOK, RemovedOK, DependentsOK, UnsharedOK, DeclaredOK,
     CommitOK, RecoveryOK, Removal, At, Underway, Tasked
<1> QED BY <1>1, ActingAlone

\* The job of p stays about the same package, found at the same version.
SameJob(p) ==
  /\ job'[p].kind = job[p].kind
  /\ job'[p].pkg = job[p].pkg
  /\ job'[p].info = job[p].info
  /\ job'[p].from = job[p].from
  /\ VersionOf[job'[p].deb] = VersionOf[job[p].deb]

\* The steps of p on the way.
GoesOnAlone(p) ==
  /\ ActsAlone(p)
  /\ SameJob(p)
  /\ pc[p] \in Underway
  /\ pc'[p] = "judging" => Removing(p)

LEMMA Carried ==
  ASSUME ControlOK, ChangeInv, NEW p \in Proc, GoesOnAlone(p)
  PROVE  DebOK(p)' /\ RemovedOK(p)'
<1>1. DebOK(p) /\ RemovedOK(p)
  BY DEF ChangeInv, ChangeOK
<1> QED
  BY <1>1 DEF GoesOnAlone, ActsAlone, SameJob, DebOK, RemovedOK, Removing

\* A state in which only the deb and the package's version are kept.
LEMMA Plain ==
  ASSUME ControlOK, ChangeInv, NEW p \in Proc, GoesOnAlone(p),
         \/ pc'[p] \in {"apt", "failing", "judging"}
         \/ pc'[p] = "finishing" /\ job'[p].phase = "recovery_required"
         \/ /\ pc'[p] \in {"entering", "working"}
            /\ job'[p].phase \in {"validating", "configuring_services", "recovering"}
  PROVE  ChangeInv'
<1>1. DebOK(p)' /\ RemovedOK(p)'
  BY Carried
<1>2. ChangeOK(p)'
  BY <1>1 DEF ChangeOK, CopyOK, DependentsOK, UnsharedOK, DeclaredOK, CommitOK,
     RecoveryOK, Removal, At
<1> QED BY <1>2, ActingAlone DEF GoesOnAlone

LEMMA NobodyUnderway ==
  ASSUME PackageInv', ManifestInv', apt' = None, \A q \in Proc : pc'[q] \notin Underway
  PROVE  ChangeInv'
<1>1. \A q \in Proc : ChangeOK(q)'
  BY DEF ChangeOK, DebOK, CopyOK, RemovedOK, DependentsOK, UnsharedOK, DeclaredOK,
     CommitOK, RecoveryOK, Removal, At, Underway, Tasked
<1>2. AptOK'
  BY DEF AptOK
<1> QED BY <1>1, <1>2 DEF ChangeInv

-------------------------------------------------------------------------------
(* The end of an apt run *)

\* However it ends, what dpkg reports as installed has its files.
LEMMA AptLeaves ==
  ASSUME ControlOK, PackageInv, ManifestInv, apt # None,
         \/ InstallAs(apt.pkg, apt.target)
         \/ Interrupted(apt.pkg, apt.target)
         \/ UNCHANGED pkgVars
  PROVE  PackageInv' /\ ManifestInv'
<1>1. apt.pkg \in Package
  BY DEF ControlOK, TypeOK, Apt
<1>2. PackageInv'
  BY <1>1 DEF InstallAs, Interrupted, pkgVars, PackageInv, ControlOK, TypeOK
<1>3. ManifestInv'
  BY DEF InstallAs, Interrupted, pkgVars, ManifestInv
<1> QED BY <1>2, <1>3

\* The task of an apt run is open, so that nobody is about to begin another.
LEMMA AptNeedsTask ==
  ASSUME ControlOK, Journal, apt # None
  PROVE  \A p \in Proc : pc[p] # "creating"
<1>1. apt.task \in OpenTasks
  BY DEF ControlOK, TypeOK, Apt, Journal, AptIsJournaled, OpenTasks, Incomplete,
     TaskState, Working, Terminal
<1> QED BY <1>1 DEF Journal, QuietInv

\* While an orphaned apt runs nobody gets as far as a task.
LEMMA OrphanedApt ==
  ASSUME ControlOK, Journal, apt # None, apt.by = None
  PROVE  \A p \in Proc : pc[p] \notin Underway
<1>1. \A p \in Proc : pc[p] \notin Tasked
  BY NoneAssumption DEF Journal, AptOwner
<1> QED BY <1>1, AptNeedsTask DEF Underway

-------------------------------------------------------------------------------
(* Every step keeps the invariant *)

LEMMA ChangeStep == Base /\ ChangeInv /\ [Next]_vars => ChangeInv'
<1> SUFFICES ASSUME Base, ChangeInv, [Next]_vars PROVE ChangeInv'
  OBVIOUS
<1> USE DEF Base
<1>1. ASSUME NEW p \in Proc, NEW r \in Release,
            NEW k \in {"install", "upgrade"}, StartInstall(p, k, r)
     PROVE  ChangeInv'
  <2>1. ActsAlone(p) /\ pc'[p] \notin Underway
    BY <1>1 DEF StartInstall, Start, Goto, sysVars, ControlOK, TypeOK, ActsAlone,
       Underway, Tasked
  <2> QED BY <2>1, Leaving
<1>2. ASSUME NEW p \in Proc, NEW q \in Package, StartRemove(p, q)
     PROVE  ChangeInv'
  <2>1. ActsAlone(p) /\ pc'[p] \notin Underway
    BY <1>2 DEF StartRemove, Start, Goto, sysVars, ControlOK, TypeOK, ActsAlone,
       Underway, Tasked
  <2> QED BY <2>1, Leaving
<1>3. ASSUME NEW p \in Proc, StartServiceCommand(p) PROVE ChangeInv'
  <2>1. ActsAlone(p) /\ pc'[p] \notin Underway
    BY <1>3 DEF StartServiceCommand, Start, Goto, sysVars, ControlOK, TypeOK,
       ActsAlone, Underway, Tasked
  <2> QED BY <2>1, Leaving
<1>4. ASSUME NEW p \in Proc, TakeLock(p) PROVE ChangeInv'
  <2>1. ActsAlone(p) /\ pc'[p] \notin Underway
    BY <1>4 DEF TakeLock, Goto, sysVars, ControlOK, TypeOK, ActsAlone, Underway,
       Tasked
  <2> QED BY <2>1, Leaving
<1>5. ASSUME NEW p \in Proc, LockTimeout(p) PROVE ChangeInv'
  <2>1. ActsAlone(p) /\ pc'[p] \notin Underway
    BY <1>5 DEF LockTimeout, Return, Goto, sysVars, ControlOK, TypeOK, ActsAlone,
       Underway, Tasked
  <2> QED BY <2>1, Leaving
<1>6. ASSUME NEW p \in Proc, GiveUpEarly(p) PROVE ChangeInv'
  <2>1. ActsAlone(p) /\ pc'[p] \notin Underway
    BY <1>6 DEF GiveUpEarly, Return, Goto, sysVars, ControlOK, TypeOK, ActsAlone,
       Underway, Tasked
  <2> QED BY <2>1, Leaving
<1>7. ASSUME NEW p \in Proc, FailFails(p) PROVE ChangeInv'
  <2>1. ActsAlone(p) /\ pc'[p] \notin Underway
    BY <1>7 DEF FailFails, Return, Goto, sysVars, ControlOK, TypeOK, ActsAlone,
       Underway, Tasked
  <2> QED BY <2>1, Leaving
<1>8. ASSUME NEW p \in Proc, FinishFails(p) PROVE ChangeInv'
  <2>1. ActsAlone(p) /\ pc'[p] \notin Underway
    BY <1>8 DEF FinishFails, Return, Goto, sysVars, ControlOK, TypeOK, ActsAlone,
       Underway, Tasked
  <2> QED BY <2>1, Leaving
<1>9. ASSUME NEW p \in Proc, ServiceCommandFails(p) PROVE ChangeInv'
  <2>1. ActsAlone(p) /\ pc'[p] \notin Underway
    BY <1>9 DEF ServiceCommandFails, Return, Goto, sysVars, ControlOK, TypeOK,
       ActsAlone, Underway, Tasked
  <2> QED BY <2>1, Leaving
<1>10. ASSUME NEW p \in Proc, PruneBackups(p) PROVE ChangeInv'
  <2>1. ActsAlone(p) /\ pc'[p] \notin Underway
    BY <1>10 DEF PruneBackups, Return, Goto, pkgVars, ControlOK, TypeOK,
       ActsAlone, Underway, Tasked
  <2> QED BY <2>1, Leaving
<1>11. ASSUME NEW p \in Proc, CheckIncomplete(p) PROVE ChangeInv'
  <2>1. ActsAlone(p) /\ pc'[p] \notin Underway
    BY <1>11 DEF CheckIncomplete, Return, Goto, sysVars, ControlOK, TypeOK,
       ActsAlone, Underway, Tasked
  <2> QED BY <2>1, Leaving
<1>12. ASSUME NEW p \in Proc, ReadInstalled(p) PROVE ChangeInv'
  <2> DEFINE from == InstalledVersion(job[p].pkg)
  <2>1. /\ pc'[p] = "creating" /\ pc[p] = "reading"
        /\ job'[p].from = from /\ job'[p].info = job'[p].deb /\ job'[p].pkg = job[p].pkg
        /\ Removing(p)' => from # None
        /\ unpacked' = unpacked
    BY <1>12 DEF ReadInstalled, Removing, Goto, sysVars, ControlOK, TypeOK, Job
  <2>2. DebOK(p)' /\ RemovedOK(p)'
    BY <2>1 DEF DebOK, RemovedOK, InstalledVersion
  <2>3. ChangeOK(p)'
    BY <2>1, <2>2 DEF ChangeOK, CopyOK, DependentsOK, UnsharedOK, DeclaredOK,
       CommitOK, RecoveryOK, Removal, At
  <2>4. ActsAlone(p)
    BY <1>12 DEF ReadInstalled, Goto, sysVars, ControlOK, TypeOK, ActsAlone
  <2> QED BY <2>3, <2>4, ActingAlone
<1>13. ASSUME NEW p \in Proc, CreateTask(p) PROVE ChangeInv'
  <2>1. /\ pc[p] = "creating" /\ pc'[p] = "entering" /\ job'[p].phase = "validating"
        /\ \A q \in Proc \ {p} : pc'[q] = pc[q]
        /\ SameJob(p)
        /\ wasBroken' = broken
        /\ UNCHANGED <<apt, unpacked, configured, broken>>
    BY <1>13 DEF CreateTask, Goto, ControlOK, TypeOK, Job, SameJob
  <2>2. apt = None
    BY <2>1, AptNeedsTask
  <2>3. \A q \in Proc \ {p} : pc'[q] \notin Underway
    BY <2>1, OthersWait
  <2>4. \A q \in Proc \ {p} : ChangeOK(q)'
    BY <2>3 DEF ChangeOK, DebOK, CopyOK, RemovedOK, DependentsOK, UnsharedOK,
       DeclaredOK, CommitOK, RecoveryOK, Removal, At, Underway, Tasked
  <2>5. DebOK(p)' /\ RemovedOK(p)'
    BY <2>1 DEF SameJob, ChangeInv, ChangeOK, DebOK, RemovedOK, Removing, Underway
  <2>6. ChangeOK(p)'
    BY <2>1, <2>5 DEF ChangeOK, CopyOK, DependentsOK, UnsharedOK, DeclaredOK,
       CommitOK, RecoveryOK, Removal, At
  <2>7. PackageInv' /\ ManifestInv' /\ AptOK'
    BY <2>1, <2>2 DEF ChangeInv, PackageInv, ManifestInv, AptOK
  <2> QED BY <2>4, <2>6, <2>7 DEF ChangeInv
<1>14. ASSUME NEW p \in Proc, Enter(p) PROVE ChangeInv'
  <2>1. GoesOnAlone(p)
    BY <1>14 DEF Enter, Goto, sysVars, ControlOK, TypeOK, Job, GoesOnAlone,
       ActsAlone, SameJob, Underway, Tasked
  <2>2. /\ pc[p] = "entering" /\ pc'[p] = "working" /\ job'[p].phase = job[p].phase
        /\ IF job[p].phase = "starting_services"
             THEN job'[p].decl = Declared(job[p].pkg)
             ELSE job'[p].decl = job[p].decl
        /\ job[p].phase = "stopping_services" /\ Removing(p) => job'[p].todo = job[p].decl
    BY <1>14 DEF Enter, Goto, ControlOK, TypeOK, Job
  <2>3. DebOK(p)' /\ RemovedOK(p)'
    BY <2>1, Carried
  <2>4. /\ ChangeOK(p) /\ SameJob(p) /\ ManifestInv
        /\ unpacked' = unpacked /\ wasBroken' = wasBroken
    BY <2>1 DEF ChangeInv, GoesOnAlone, ActsAlone
  <2>5. DependentsOK(p)' /\ UnsharedOK(p)'
    BY <2>2, <2>4 DEF SameJob, ChangeOK, DependentsOK, UnsharedOK, Unneeded,
       Unshared, Removal, Removing, At
  <2>6. DeclaredOK(p)' /\ CopyOK(p)' /\ CommitOK(p)' /\ RecoveryOK(p)'
    BY <2>2, <2>4 DEF SameJob, ChangeOK, DeclaredOK, CopyOK, CommitOK, RecoveryOK,
       ManifestInv, Declared, DeclaredBy, Removing, At
  <2> QED BY <2>1, <2>3, <2>5, <2>6, ActingAlone DEF GoesOnAlone, ChangeOK
<1>15. ASSUME NEW p \in Proc, Fail(p) PROVE ChangeInv'
  <2>1. GoesOnAlone(p)
    BY <1>15 DEF Fail, Proceed, sysVars, ControlOK, TypeOK, Job, GoesOnAlone,
       ActsAlone, SameJob, Underway, Tasked
  <2>2. \/ pc'[p] \in {"apt", "failing", "judging"}
        \/ pc'[p] = "finishing" /\ job'[p].phase = "recovery_required"
        \/ pc'[p] = "entering" /\ job'[p].phase = "recovering"
    BY <1>15 DEF Fail, Proceed, sysVars, ControlOK, TypeOK, Job
  <2> QED BY <2>1, <2>2, Plain
<1>16. ASSUME NEW p \in Proc, Finish(p) PROVE ChangeInv'
  <2>1. ActsAlone(p) /\ pc'[p] \notin Underway
    BY <1>16 DEF Finish, Return, Goto, sysVars, ControlOK, TypeOK, ActsAlone,
       Underway, Tasked
  <2> QED BY <2>1, Leaving
<1>17. ASSUME NEW p \in Proc, EnterFails(p) PROVE ChangeInv'
  <2>1. CASE job[p].phase = "recovering"
    <3>1. ActsAlone(p) /\ pc'[p] \notin Underway
      BY <1>17, <2>1 DEF EnterFails, Return, Goto, sysVars, ControlOK, TypeOK,
         ActsAlone, Underway, Tasked
    <3> QED BY <3>1, Leaving
  <2>2. CASE job[p].phase # "recovering"
    <3>1. GoesOnAlone(p) /\ pc'[p] = "failing"
      BY <1>17, <2>2 DEF EnterFails, Goto, sysVars, ControlOK, TypeOK,
         GoesOnAlone, ActsAlone, SameJob, Underway, Tasked
    <3> QED BY <3>1, Plain
  <2> QED BY <2>1, <2>2
<1>18. ASSUME NEW p \in Proc, ValidateInstall(p) PROVE ChangeInv'
  <2>1. GoesOnAlone(p)
    BY <1>18 DEF ValidateInstall, At, Proceed, sysVars, ControlOK, TypeOK, Job,
       GoesOnAlone, ActsAlone, SameJob, Underway, Tasked
  <2>2. /\ ~Removing(p)
        /\ pc'[p] = "entering" /\ job'[p].phase = "prepared"
    BY <1>18 DEF ValidateInstall, At, Proceed, sysVars, ControlOK, TypeOK, Job
  <2>3. DebOK(p)' /\ RemovedOK(p)'
    BY <2>1, Carried
  <2>4. ChangeOK(p)'
    BY <2>1, <2>2, <2>3 DEF GoesOnAlone, ActsAlone, SameJob, ChangeInv, ChangeOK,
       CopyOK, DependentsOK, UnsharedOK, DeclaredOK, CommitOK, RecoveryOK,
       Unneeded, Unshared, Declared, DeclaredBy, Exists, InstalledVersion,
       Removal, Removing, At
  <2> QED BY <2>1, <2>4, ActingAlone DEF GoesOnAlone
<1>19. ASSUME NEW p \in Proc, PrepareWithBackup(p) PROVE ChangeInv'
  <2>1. GoesOnAlone(p)
    BY <1>19 DEF PrepareWithBackup, At, Proceed, sysVars, ControlOK, TypeOK, Job,
       GoesOnAlone, ActsAlone, SameJob, Underway, Tasked
  <2>2. /\ pc[p] = "working" /\ job[p].phase = "prepared"
        /\ pc'[p] = "entering" /\ job'[p].phase = "stopping_services"
        /\ job'[p].decl = job[p].decl
    BY <1>19 DEF PrepareWithBackup, At, Proceed, sysVars, ControlOK, TypeOK, Job
  <2>3. DebOK(p)' /\ RemovedOK(p)'
    BY <2>1, Carried
  <2>4. ChangeOK(p)'
    BY <2>1, <2>2, <2>3 DEF GoesOnAlone, ActsAlone, SameJob, ChangeInv, ChangeOK,
       CopyOK, DependentsOK, UnsharedOK, DeclaredOK, CommitOK, RecoveryOK,
       Unneeded, Unshared, Declared, DeclaredBy, Exists, InstalledVersion,
       Removal, Removing, At
  <2> QED BY <2>1, <2>4, ActingAlone DEF GoesOnAlone
<1>20. ASSUME NEW p \in Proc, ServicesStopped(p) PROVE ChangeInv'
  <2>1. GoesOnAlone(p)
    BY <1>20 DEF ServicesStopped, At, Proceed, sysVars, ControlOK, TypeOK, Job,
       GoesOnAlone, ActsAlone, SameJob, Underway, Tasked
  <2>2. /\ pc[p] = "working" /\ job[p].phase = "stopping_services"
        /\ pc'[p] = "entering" /\ job'[p].phase = "applying_package"
    BY <1>20 DEF ServicesStopped, At, Proceed, sysVars, ControlOK, TypeOK, Job
  <2>3. DebOK(p)' /\ RemovedOK(p)'
    BY <2>1, Carried
  <2>4. ChangeOK(p)'
    BY <2>1, <2>2, <2>3 DEF GoesOnAlone, ActsAlone, SameJob, ChangeInv, ChangeOK,
       CopyOK, DependentsOK, UnsharedOK, DeclaredOK, CommitOK, RecoveryOK,
       Unneeded, Unshared, Declared, DeclaredBy, Exists, InstalledVersion,
       Removal, Removing, At
  <2> QED BY <2>1, <2>4, ActingAlone DEF GoesOnAlone
<1>21. ASSUME NEW p \in Proc, ServicesStarted(p) PROVE ChangeInv'
  <2>1. GoesOnAlone(p)
    BY <1>21 DEF ServicesStarted, At, Proceed, sysVars, ControlOK, TypeOK, Job,
       GoesOnAlone, ActsAlone, SameJob, Underway, Tasked
  <2>2. /\ pc[p] = "working" /\ job[p].phase = "starting_services"
        /\ pc'[p] = "entering" /\ job'[p].phase = "verifying_package"
        /\ job'[p].decl = job[p].decl
    BY <1>21 DEF ServicesStarted, At, Proceed, sysVars, ControlOK, TypeOK, Job
  <2>3. DebOK(p)' /\ RemovedOK(p)'
    BY <2>1, Carried
  <2>4. ChangeOK(p)'
    BY <2>1, <2>2, <2>3 DEF GoesOnAlone, ActsAlone, SameJob, ChangeInv, ChangeOK,
       CopyOK, DependentsOK, UnsharedOK, DeclaredOK, CommitOK, RecoveryOK,
       Unneeded, Unshared, Declared, DeclaredBy, Exists, InstalledVersion,
       Removal, Removing, At
  <2> QED BY <2>1, <2>4, ActingAlone DEF GoesOnAlone
<1>22. ASSUME NEW p \in Proc, DaemonReload(p) PROVE ChangeInv'
  <2>1. GoesOnAlone(p)
    BY <1>22 DEF DaemonReload, At, Proceed, sysVars, ControlOK, TypeOK, Job,
       GoesOnAlone, ActsAlone, SameJob, Underway, Tasked
  <2>2. /\ pc'[p] = "entering"
        /\ job'[p].phase = NextState(job[p].kind, "configuring_services")
        /\ job[p].kind \in Kind
    BY <1>22 DEF DaemonReload, At, Proceed, ControlOK, TypeOK, Job, JobInv
  <2>3. job'[p].phase \in {"starting_services", "verifying_package"}
        /\ (job'[p].phase = "verifying_package" => Removing(p))
    BY <2>2 DEF NextState, Removing
  <2>4. DebOK(p)' /\ RemovedOK(p)'
    BY <2>1, Carried
  <2>5. ChangeOK(p)'
    BY <2>1, <2>2, <2>3, <2>4 DEF GoesOnAlone, SameJob, ChangeOK, CopyOK,
       DependentsOK, UnsharedOK, DeclaredOK, CommitOK, RecoveryOK, Removal,
       Removing, At
  <2> QED BY <2>1, <2>5, ActingAlone DEF GoesOnAlone
<1>23. ASSUME NEW p \in Proc, ValidateRemove(p) PROVE ChangeInv'
  <2>1. GoesOnAlone(p)
    BY <1>23 DEF ValidateRemove, At, sysVars, ControlOK, TypeOK, Job, GoesOnAlone,
       ActsAlone, SameJob, Underway, Tasked
  <2>2. /\ pc'[p] = "entering" /\ job'[p].phase = "prepared"
        /\ Dependents(job[p].pkg) = {}
        /\ job'[p].decl = {u \in Declared(job[p].pkg) : OtherOwners(u, job[p].pkg) = {}}
    BY <1>23 DEF ValidateRemove, ControlOK, TypeOK, Job
  <2>3. Unneeded(job[p].pkg) /\ \A u \in job'[p].decl : Unshared(u, job[p].pkg)
    BY <2>2 DEF ChangeInv, ManifestInv, Dependents, OtherOwners, Declared, DeclaredBy,
       Unneeded, Unshared
  <2>4. DebOK(p)' /\ RemovedOK(p)'
    BY <2>1, Carried
  <2>5. ChangeOK(p)'
    BY <2>1, <2>2, <2>3, <2>4 DEF GoesOnAlone, ActsAlone, SameJob, ChangeOK,
       CopyOK, DependentsOK, UnsharedOK, DeclaredOK, CommitOK, RecoveryOK,
       Unneeded, Unshared, Removal, At
  <2> QED BY <2>1, <2>5, ActingAlone DEF GoesOnAlone
<1>24. ASSUME NEW p \in Proc, BeginBackup(p) PROVE ChangeInv'
  <2>1. GoesOnAlone(p)
    BY <1>24 DEF BeginBackup, At, Goto, pkgVars, ControlOK, TypeOK, Job,
       GoesOnAlone, ActsAlone, SameJob, Underway, Tasked
  <2>2. job[p].pkg \in Package /\ job[p].info \in Release /\ ~Removing(p) /\ pc'[p] = "copying"
    BY <1>24 DEF BeginBackup, At, Goto, Removing, ControlOK, TypeOK, JobInv, Tasked
  <2> DEFINE mine == backups[job[p].pkg]
             new  == [rel |-> job[p].info, whole |-> FALSE]
  <2>3. mine \in Seq(Backup) /\ new \in Backup /\ backups'[job[p].pkg] = Append(mine, new)
    BY <1>24, <2>2 DEF BeginBackup, ControlOK, TypeOK, Backup
  <2>4. Len(Append(mine, new)) = Len(mine) + 1 /\ Append(mine, new)[Len(mine) + 1] = new
        /\ Append(mine, new) # <<>>
    BY <2>3, AppendProperties
  <2>5. new.rel = job[p].info
    OBVIOUS
  <2> HIDE DEF mine, new
  <2>6. CopyOK(p)'
    BY <2>1, <2>3, <2>4, <2>5 DEF GoesOnAlone, SameJob, CopyOK
  <2>7. DebOK(p)' /\ RemovedOK(p)'
    BY <2>1, Carried
  <2>8. ChangeOK(p)'
    BY <2>2, <2>6, <2>7 DEF ChangeOK, DependentsOK, UnsharedOK, DeclaredOK,
       CommitOK, RecoveryOK, Removal, At
  <2> QED BY <2>1, <2>8, ActingAlone DEF GoesOnAlone
<1>25. ASSUME NEW p \in Proc, EndBackup(p) PROVE ChangeInv'
  <2>1. GoesOnAlone(p)
    BY <1>25 DEF EndBackup, Proceed, pkgVars, ControlOK, TypeOK, Job, GoesOnAlone,
       ActsAlone, SameJob, Underway, Tasked
  <2>2. ~Removing(p) /\ pc'[p] = "entering" /\ job'[p].phase = "stopping_services"
    BY <1>25 DEF EndBackup, Proceed, Removing, ControlOK, TypeOK, Job, JobInv
  <2>3. DebOK(p)' /\ RemovedOK(p)'
    BY <2>1, Carried
  <2>4. ChangeOK(p)'
    BY <2>1, <2>2, <2>3 DEF GoesOnAlone, SameJob, ChangeOK, CopyOK, DependentsOK,
       UnsharedOK, DeclaredOK, CommitOK, RecoveryOK, Removal, Removing, At
  <2> QED BY <2>1, <2>4, ActingAlone DEF GoesOnAlone
<1>26. ASSUME NEW p \in Proc, RunApt(p) PROVE ChangeInv'
  <2>1. apt' = [pkg |-> job[p].pkg, target |-> job[p].deb, task |-> job[p].task, by |-> p]
    BY <1>26 DEF RunApt
  <2>2. /\ job[p].phase = "applying_package" /\ pc[p] = "working" /\ job' = job
        /\ ~Removing(p) => job[p].deb \in Release
        /\ Removing(p) => job[p].deb = None
    BY <1>26 DEF RunApt, At, Removing, ControlOK, JobInv, Kind
  <2>3. Removing(p) => Unneeded(job[p].pkg)
    BY <2>2 DEF ChangeInv, ChangeOK, DependentsOK, Removal
  <2>4. AptOK'
    BY <1>26, <2>1, <2>2, <2>3, NoneAssumption DEF RunApt, pkgVars, AptOK,
       Unneeded, Removing
  <2>5. /\ pc'[p] = "apt"
        /\ \A q \in Proc \ {p} : pc'[q] = pc[q]
        /\ UNCHANGED <<job, unpacked, configured, broken, wasBroken, backups>>
    BY <1>26 DEF RunApt, Goto, pkgVars, ControlOK, TypeOK
  <2>6. PackageInv' /\ ManifestInv'
    BY <2>5 DEF ChangeInv, PackageInv, ManifestInv
  <2>7. \A q \in Proc \ {p} : ChangeOK(q)'
    <3>1. \A q \in Proc \ {p} : pc'[q] \notin Underway
      BY <2>2, <2>5, OthersWait
    <3> QED BY <3>1 DEF ChangeOK, DebOK, CopyOK, RemovedOK, DependentsOK,
               UnsharedOK, DeclaredOK, CommitOK, RecoveryOK, Removal, At,
               Underway, Tasked
  <2>8. ChangeOK(p)'
    <3>1. DebOK(p) /\ RemovedOK(p) /\ pc[p] \in Underway
      BY <2>2 DEF ChangeInv, ChangeOK, Underway, Tasked
    <3> QED BY <2>5, <3>1 DEF ChangeOK, DebOK, CopyOK, RemovedOK, DependentsOK,
               UnsharedOK, DeclaredOK, CommitOK, RecoveryOK, Removal, Removing, At
  <2> QED BY <2>4, <2>6, <2>7, <2>8 DEF ChangeInv
<1>27. ASSUME NEW p \in Proc, RunRollback(p) PROVE ChangeInv'
  <2>1. PICK i \in OldBackups(p) :
          apt' = [pkg |-> job[p].pkg, target |-> backups[job[p].pkg][i].rel,
                  task |-> job[p].task, by |-> p]
    BY <1>27 DEF RunRollback
  <2>2. job[p].phase = "recovering" /\ pc[p] = "working" /\ job' = job
    BY <1>27 DEF RunRollback, At
  <2>3. /\ backups[job[p].pkg][i].rel \in Release
        /\ job[p].from # None
        /\ VersionOf[backups[job[p].pkg][i].rel] = job[p].from
    BY <2>2, RollbackTarget DEF OldBackups, BackupsFor
  <2>4. AptOK'
    BY <2>1, <2>2, <2>3, NoneAssumption DEF AptOK
  <2>5. /\ pc'[p] = "apt"
        /\ \A q \in Proc \ {p} : pc'[q] = pc[q]
        /\ UNCHANGED <<job, unpacked, configured, broken, wasBroken, backups>>
    BY <1>27 DEF RunRollback, Goto, pkgVars, ControlOK, TypeOK
  <2>6. PackageInv' /\ ManifestInv'
    BY <2>5 DEF ChangeInv, PackageInv, ManifestInv
  <2>7. \A q \in Proc \ {p} : ChangeOK(q)'
    <3>1. \A q \in Proc \ {p} : pc'[q] \notin Underway
      BY <2>2, <2>5, OthersWait
    <3> QED BY <3>1 DEF ChangeOK, DebOK, CopyOK, RemovedOK, DependentsOK,
               UnsharedOK, DeclaredOK, CommitOK, RecoveryOK, Removal, At,
               Underway, Tasked
  <2>8. ChangeOK(p)'
    <3>1. DebOK(p) /\ RemovedOK(p) /\ pc[p] \in Underway
      BY <2>2 DEF ChangeInv, ChangeOK, Underway, Tasked
    <3> QED BY <2>5, <3>1 DEF ChangeOK, DebOK, CopyOK, RemovedOK, DependentsOK,
               UnsharedOK, DeclaredOK, CommitOK, RecoveryOK, Removal, Removing, At
  <2> QED BY <2>4, <2>6, <2>7, <2>8 DEF ChangeInv
<1>28. ASSUME NEW p \in Proc, StepFails(p) PROVE ChangeInv'
  <2>1. GoesOnAlone(p)
    BY <1>28 DEF StepFails, Goto, sysVars, ControlOK, TypeOK, Job, GoesOnAlone,
       ActsAlone, SameJob, Underway, Tasked
  <2>2. \/ pc'[p] \in {"apt", "failing", "judging"}
        \/ pc'[p] = "finishing" /\ job'[p].phase = "recovery_required"
        \/ pc'[p] = "entering" /\ job'[p].phase = "recovering"
    BY <1>28 DEF StepFails, Goto, sysVars, ControlOK, TypeOK, Job
  <2> QED BY <2>1, <2>2, Plain
<1>29. ASSUME NEW p \in Proc, RollbackImpossible(p) PROVE ChangeInv'
  <2>1. /\ pc[p] = "working"
        /\ \/ Removing(p) /\ Goto(p, "judging") /\ job' = job
           \/ Conclude(p, "recovery_required")
        /\ UNCHANGED <<apt, unpacked, configured, broken, wasBroken, backups>>
    BY <1>29 DEF RollbackImpossible, At, NoRollback, sysVars
  <2>2. \/ pc'[p] = "judging" /\ Removing(p)
        \/ pc'[p] = "finishing" /\ job'[p].phase = "recovery_required"
    BY <2>1 DEF Goto, Conclude, ControlOK, TypeOK, Job
  <2>3. /\ \A q \in Proc \ {p} : pc'[q] = pc[q] /\ job'[q] = job[q]
        /\ job'[p].kind = job[p].kind /\ job'[p].pkg = job[p].pkg
        /\ job'[p].info = job[p].info /\ job'[p].from = job[p].from
        /\ job'[p].deb = job[p].deb
    BY <2>1 DEF Goto, Conclude, ControlOK, TypeOK, Job
  <2>4. ActsAlone(p) /\ SameJob(p)
    BY <2>1, <2>3 DEF ActsAlone, SameJob
  <2> QED BY <2>1, <2>2, <2>4, Plain DEF GoesOnAlone, Underway, Tasked
<1>30. ASSUME NEW p \in Proc, Verify(p) PROVE ChangeInv'
  <2>1. GoesOnAlone(p)
    BY <1>30 DEF Verify, At, Conclude, sysVars, ControlOK, TypeOK, Job,
       GoesOnAlone, ActsAlone, SameJob, Underway, Tasked
  <2>2. /\ pc[p] = "working" /\ job[p].phase = "verifying_package" /\ Verified(p)
        /\ pc'[p] = "finishing" /\ job'[p].phase = "committed"
    BY <1>30 DEF Verify, At, Conclude, ControlOK, TypeOK, Job
  <2>3. /\ job[p].pkg \in Package
        /\ ~Removing(p) => job[p].info \in Release /\ VersionOf[job[p].info] # None
    BY <2>2, ReleaseAssumption, NoneAssumption DEF ControlOK, JobInv, Tasked,
       Removing
  <2>4. DebOK(p)' /\ RemovedOK(p)'
    BY <2>1, Carried
  <2>5. CASE Removing(p)
    <3>1. job[p].pkg \notin configured
      <4>1. unpacked[job[p].pkg] # None =>
              unpacked[job[p].pkg] \in Release /\ VersionOf[unpacked[job[p].pkg]] # None
        BY <2>3, ReleaseAssumption, NoneAssumption DEF ControlOK, TypeOK
      <4> QED BY <2>2, <2>5, <4>1 DEF Verified, InstalledVersion, ChangeInv,
                 PackageInv
    <3>2. CommitOK(p)'
      BY <2>1, <2>5, <3>1 DEF GoesOnAlone, ActsAlone, SameJob, CommitOK, Removing
    <3> QED BY <2>1, <2>2, <2>4, <3>2, ActingAlone DEF GoesOnAlone, ChangeOK,
               CopyOK, DependentsOK, UnsharedOK, DeclaredOK, RecoveryOK, Removal,
               At
  <2>6. CASE ~Removing(p)
    <3>1. /\ job[p].pkg \in configured /\ unpacked[job[p].pkg] # None
          /\ VersionOf[unpacked[job[p].pkg]] = VersionOf[job[p].info]
      BY <2>2, <2>3, <2>6 DEF Verified, InstalledVersion
    <3>2. job[p].pkg \notin wasBroken => job[p].decl = ServicesOf[unpacked[job[p].pkg]]
      BY <2>2, <2>6, <3>1 DEF ChangeInv, ChangeOK, DeclaredOK, DeclaredBy
    <3>3. \A u \in job[p].decl : Exists(u)
      BY <2>2, <2>6 DEF Verified
    <3>4. CommitOK(p)'
      <4>1. job'[p].decl = job[p].decl
        BY <1>30 DEF Verify, Conclude, ControlOK, TypeOK, Job
      <4> QED BY <2>1, <2>6, <3>1, <3>2, <3>3, <4>1 DEF GoesOnAlone, ActsAlone,
                 SameJob, CommitOK, Removing, Exists
    <3> QED BY <2>1, <2>2, <2>4, <3>4, ActingAlone DEF GoesOnAlone, ChangeOK,
               CopyOK, DependentsOK, UnsharedOK, DeclaredOK, RecoveryOK, Removal,
               At
  <2> QED BY <2>5, <2>6
<1>31. ASSUME NEW p \in Proc, ServicesRestarted(p) PROVE ChangeInv'
  <2>1. GoesOnAlone(p)
    BY <1>31 DEF ServicesRestarted, Conclude, sysVars, ControlOK, TypeOK, Job,
       GoesOnAlone, ActsAlone, SameJob, Underway, Tasked
  <2>2. /\ pc[p] = "restarting"
        /\ pc'[p] = "finishing" /\ job'[p].phase = "recovered"
    BY <1>31 DEF ServicesRestarted, Conclude, sysVars, ControlOK, TypeOK, Job
  <2>3. DebOK(p)' /\ RemovedOK(p)'
    BY <2>1, Carried
  <2>4. ChangeOK(p)'
    BY <2>1, <2>2, <2>3 DEF GoesOnAlone, ActsAlone, SameJob, ChangeInv, ChangeOK,
       CopyOK, DependentsOK, UnsharedOK, DeclaredOK, CommitOK, RecoveryOK,
       Unneeded, Unshared, Declared, DeclaredBy, Exists, InstalledVersion,
       Removal, Removing, At
  <2> QED BY <2>1, <2>4, ActingAlone DEF GoesOnAlone
<1>32. ASSUME NEW p \in Proc, JudgeRemoval(p) PROVE ChangeInv'
  <2>1. GoesOnAlone(p)
    BY <1>32 DEF JudgeRemoval, Conclude, sysVars, ControlOK, TypeOK, Job,
       GoesOnAlone, ActsAlone, SameJob, Underway, Tasked
  <2>2. /\ pc[p] = "judging" /\ pc'[p] = "finishing"
        /\ job'[p].phase = IF InstalledVersion(job[p].pkg) # None THEN "recovered"
                                                                 ELSE "recovery_required"
    BY <1>32 DEF JudgeRemoval, Conclude, ControlOK, TypeOK, Job
  <2>3. DebOK(p)' /\ RemovedOK(p)'
    BY <2>1, Carried
  <2>4. /\ job[p].from # None
        /\ InstalledVersion(job[p].pkg) # None => InstalledVersion(job[p].pkg) = job[p].from
    BY <2>2 DEF ChangeInv, ChangeOK, RemovedOK, InstalledVersion, Underway, Tasked
  <2>5. RecoveryOK(p)'
    BY <2>1, <2>2, <2>4 DEF GoesOnAlone, ActsAlone, SameJob, RecoveryOK,
       InstalledVersion, At
  <2>6. ChangeOK(p)'
    BY <2>2, <2>3, <2>5 DEF ChangeOK, CopyOK, DependentsOK, UnsharedOK, DeclaredOK,
       CommitOK, Removal, At
  <2> QED BY <2>1, <2>6, ActingAlone DEF GoesOnAlone
<1>33. ASSUME NEW p \in Proc, RecoveryFails(p) PROVE ChangeInv'
  <2>1. GoesOnAlone(p)
    BY <1>33 DEF RecoveryFails, At, Conclude, sysVars, ControlOK, TypeOK, Job,
       GoesOnAlone, ActsAlone, SameJob, Underway, Tasked
  <2>2. \/ pc'[p] \in {"apt", "failing", "judging"}
        \/ pc'[p] = "finishing" /\ job'[p].phase = "recovery_required"
        \/ pc'[p] = "entering" /\ job'[p].phase = "recovering"
    BY <1>33 DEF RecoveryFails, At, Conclude, sysVars, ControlOK, TypeOK, Job
  <2> QED BY <2>1, <2>2, Plain
<1>34. ASSUME NEW p \in Proc, NEW u \in Unit, StopUnit(p, u) PROVE ChangeInv'
  <2>1. GoesOnAlone(p)
    BY <1>34 DEF StopUnit, At, pkgVars, ControlOK, TypeOK, Job, GoesOnAlone,
       ActsAlone, SameJob, Underway, Tasked
  <2>2. /\ pc[p] = "working" /\ job[p].phase = "stopping_services"
        /\ pc'[p] = "working" /\ job'[p].phase = "stopping_services"
        /\ job'[p].decl = job[p].decl /\ job'[p].todo \subseteq job[p].todo
    BY <1>34 DEF StopUnit, At, pkgVars, ControlOK, TypeOK, Job
  <2>3. DebOK(p)' /\ RemovedOK(p)'
    BY <2>1, Carried
  <2>4. ChangeOK(p)'
    BY <2>1, <2>2, <2>3 DEF GoesOnAlone, ActsAlone, SameJob, ChangeInv, ChangeOK,
       CopyOK, DependentsOK, UnsharedOK, DeclaredOK, CommitOK, RecoveryOK,
       Unneeded, Unshared, Declared, DeclaredBy, Exists, InstalledVersion,
       Removal, Removing, At
  <2> QED BY <2>1, <2>4, ActingAlone DEF GoesOnAlone
<1>35. ASSUME NEW p \in Proc, NEW u \in Unit, DisableUnit(p, u) PROVE ChangeInv'
  <2>1. GoesOnAlone(p)
    BY <1>35 DEF DisableUnit, At, pkgVars, ControlOK, TypeOK, Job, GoesOnAlone,
       ActsAlone, SameJob, Underway, Tasked
  <2>2. /\ pc[p] = "working" /\ job[p].phase = "stopping_services"
        /\ pc'[p] = "working" /\ job'[p].phase = "stopping_services"
        /\ job'[p].decl = job[p].decl /\ job'[p].todo \subseteq job[p].todo
    BY <1>35 DEF DisableUnit, At, pkgVars, ControlOK, TypeOK, Job
  <2>3. DebOK(p)' /\ RemovedOK(p)'
    BY <2>1, Carried
  <2>4. ChangeOK(p)'
    BY <2>1, <2>2, <2>3 DEF GoesOnAlone, ActsAlone, SameJob, ChangeInv, ChangeOK,
       CopyOK, DependentsOK, UnsharedOK, DeclaredOK, CommitOK, RecoveryOK,
       Unneeded, Unshared, Declared, DeclaredBy, Exists, InstalledVersion,
       Removal, Removing, At
  <2> QED BY <2>1, <2>4, ActingAlone DEF GoesOnAlone
<1>36. ASSUME NEW p \in Proc, NEW u \in Unit, PassUnit(p, u) PROVE ChangeInv'
  <2>1. GoesOnAlone(p)
    BY <1>36 DEF PassUnit, At, sysVars, ControlOK, TypeOK, Job, GoesOnAlone,
       ActsAlone, SameJob, Underway, Tasked
  <2>2. /\ pc[p] = "working" /\ job[p].phase = "stopping_services"
        /\ pc'[p] = "working" /\ job'[p].phase = "stopping_services"
        /\ job'[p].decl = job[p].decl /\ job'[p].todo \subseteq job[p].todo
    BY <1>36 DEF PassUnit, At, sysVars, ControlOK, TypeOK, Job
  <2>3. DebOK(p)' /\ RemovedOK(p)'
    BY <2>1, Carried
  <2>4. ChangeOK(p)'
    BY <2>1, <2>2, <2>3 DEF GoesOnAlone, ActsAlone, SameJob, ChangeInv, ChangeOK,
       CopyOK, DependentsOK, UnsharedOK, DeclaredOK, CommitOK, RecoveryOK,
       Unneeded, Unshared, Declared, DeclaredBy, Exists, InstalledVersion,
       Removal, Removing, At
  <2> QED BY <2>1, <2>4, ActingAlone DEF GoesOnAlone
<1>37. ASSUME NEW p \in Proc, NEW u \in Unit, StartUnit(p, u) PROVE ChangeInv'
  <2>1. GoesOnAlone(p)
    BY <1>37 DEF StartUnit, At, pkgVars, ControlOK, TypeOK, Job, GoesOnAlone,
       ActsAlone, SameJob, Underway, Tasked
  <2>2. /\ pc[p] = "working" /\ job[p].phase = "starting_services"
        /\ pc'[p] = "working" /\ job'[p].phase = "starting_services"
        /\ job'[p].decl = job[p].decl
    BY <1>37 DEF StartUnit, At, pkgVars, ControlOK, TypeOK, Job
  <2>3. DebOK(p)' /\ RemovedOK(p)'
    BY <2>1, Carried
  <2>4. ChangeOK(p)'
    BY <2>1, <2>2, <2>3 DEF GoesOnAlone, ActsAlone, SameJob, ChangeInv, ChangeOK,
       CopyOK, DependentsOK, UnsharedOK, DeclaredOK, CommitOK, RecoveryOK,
       Unneeded, Unshared, Declared, DeclaredBy, Exists, InstalledVersion,
       Removal, Removing, At
  <2> QED BY <2>1, <2>4, ActingAlone DEF GoesOnAlone
<1>38. ASSUME NEW p \in Proc, NEW u \in Unit, RestartUnit(p, u) PROVE ChangeInv'
  <2>1. GoesOnAlone(p)
    BY <1>38 DEF RestartUnit, pkgVars, ControlOK, TypeOK, Job, GoesOnAlone,
       ActsAlone, SameJob, Underway, Tasked
  <2>2. /\ pc[p] = "restarting" /\ pc'[p] = "restarting"
    BY <1>38 DEF RestartUnit, pkgVars, ControlOK, TypeOK, Job
  <2>3. DebOK(p)' /\ RemovedOK(p)'
    BY <2>1, Carried
  <2>4. ChangeOK(p)'
    BY <2>1, <2>2, <2>3 DEF GoesOnAlone, ActsAlone, SameJob, ChangeInv, ChangeOK,
       CopyOK, DependentsOK, UnsharedOK, DeclaredOK, CommitOK, RecoveryOK,
       Unneeded, Unshared, Declared, DeclaredBy, Exists, InstalledVersion,
       Removal, Removing, At
  <2> QED BY <2>1, <2>4, ActingAlone DEF GoesOnAlone
<1>39. ASSUME NEW p \in Proc, NEW u \in Unit, StartUnitFails(p, u)
     PROVE  ChangeInv'
  <2>1. GoesOnAlone(p)
    BY <1>39 DEF StartUnitFails, At, Goto, pkgVars, ControlOK, TypeOK, Job,
       GoesOnAlone, ActsAlone, SameJob, Underway, Tasked
  <2>2. \/ pc'[p] \in {"apt", "failing", "judging"}
        \/ pc'[p] = "finishing" /\ job'[p].phase = "recovery_required"
        \/ pc'[p] = "entering" /\ job'[p].phase = "recovering"
    BY <1>39 DEF StartUnitFails, At, Goto, pkgVars, ControlOK, TypeOK, Job
  <2> QED BY <2>1, <2>2, Plain
<1>40. ASSUME NEW p \in Proc, NEW u \in Unit, ServiceCommand(p, u)
     PROVE  ChangeInv'
  <2>1. ActsAlone(p) /\ pc'[p] \notin Underway
    BY <1>40 DEF ServiceCommand, Return, Goto, pkgVars, ControlOK, TypeOK,
       ActsAlone, Underway, Tasked
  <2> QED BY <2>1, Leaving
<1>41. ASSUME AptSucceeds PROVE ChangeInv'
  <2>1. PackageInv' /\ ManifestInv' /\ apt' = None
    BY <1>41, AptLeaves DEF AptSucceeds, ChangeInv
  <2>2. CASE apt.by = None
    <3>1. \A p \in Proc : pc'[p] \notin Underway
      BY <1>41, <2>2, OrphanedApt DEF AptSucceeds, procVars
    <3> QED BY <2>1, <3>1, NobodyUnderway
  <2>3. CASE apt.by # None
    <3>1. PICK p \in Proc : apt.by = p /\ pc[p] = "apt"
      BY <1>41, <2>3 DEF AptSucceeds, ControlOK, TypeOK, Apt, WaiterInv
    <3>2. /\ job[p].phase \in {"applying_package", "recovering"}
          /\ job[p].pkg \in Package /\ job[p] \in Job /\ apt.pkg = job[p].pkg
          /\ DebOK(p) /\ RemovedOK(p) /\ apt # None
      <4>1. job[p].phase \in {"applying_package", "recovering"}
        BY <3>1 DEF StageInv, StageOK, Tasked
      <4>2. job[p].pkg \in Package /\ job[p] \in Job
        BY <3>1 DEF ControlOK, TypeOK, JobInv
      <4>3. apt # None /\ apt.pkg = job[p].pkg
        BY <1>41, <3>1 DEF AptSucceeds, ChangeInv, AptOK
      <4>4. DebOK(p) /\ RemovedOK(p)
        BY DEF ChangeInv, ChangeOK
      <4> QED BY <4>1, <4>2, <4>3, <4>4
    <3>3. /\ AfterApt(p) /\ backups' = backups
          /\ \A q \in Proc \ {p} : pc'[q] = pc[q] /\ pc'[q] \notin Underway
      <4>1. AfterApt(p) /\ backups' = backups
        BY <1>41, <2>3, <3>1 DEF AptSucceeds
      <4>2. \A q \in Proc \ {p} : pc'[q] = pc[q]
        BY <4>1 DEF AfterApt, NoRollback, Proceed, Conclude, Goto, ControlOK, TypeOK
      <4> QED BY <3>1, <4>1, <4>2, OthersWait
    <3>4. \A q \in Proc \ {p} : ChangeOK(q)'
      BY <3>3 DEF ChangeOK, DebOK, CopyOK, RemovedOK, DependentsOK, UnsharedOK,
         DeclaredOK, CommitOK, RecoveryOK, Removal, At, Underway, Tasked
    <3>5. /\ job'[p].kind = job[p].kind /\ job'[p].pkg = job[p].pkg
          /\ job'[p].deb = job[p].deb /\ job'[p].info = job[p].info
          /\ job'[p].from = job[p].from
      BY <3>2, <3>3 DEF AfterApt, NoRollback, Proceed, Conclude, Goto, ControlOK,
         TypeOK, Job
    <3>6. Removing(p) => \/ unpacked'[job[p].pkg] = unpacked[job[p].pkg]
                        \/ unpacked'[job[p].pkg] = None
                        \/ VersionOf[unpacked'[job[p].pkg]] = job[p].from
      <4>1. /\ job[p].phase = "applying_package" /\ Removing(p) => apt.target = None
            /\ job[p].phase = "recovering" =>
                 apt.target # None /\ VersionOf[apt.target] = job[p].from
        BY <3>1, <3>2 DEF ChangeInv, AptOK
      <4>2. \/ unpacked' = unpacked
            \/ unpacked'[job[p].pkg] = apt.target
        BY <1>41, <3>2 DEF AptSucceeds, InstallAs, Interrupted, pkgVars,
           ControlOK, TypeOK
      <4> QED BY <3>2, <4>1, <4>2
    <3>7. CASE job[p].phase = "applying_package"
      <4>1. pc'[p] = "entering" /\ job'[p].phase = "configuring_services"
        BY <3>2, <3>3, <3>7 DEF AfterApt, Proceed, ControlOK, TypeOK, Job
      <4>2. DebOK(p)' /\ RemovedOK(p)'
        BY <3>1, <3>2, <3>5, <3>6, <4>1 DEF DebOK, RemovedOK, Removing, Underway,
           Tasked
      <4>3. ChangeOK(p)'
        BY <4>1, <4>2 DEF ChangeOK, CopyOK, DependentsOK, UnsharedOK, DeclaredOK,
           CommitOK, RecoveryOK, Removal, At
      <4> QED BY <2>1, <3>4, <4>3 DEF ChangeInv, AptOK
    <3>8. CASE job[p].phase = "recovering"
      <4>1. \/ pc'[p] = "restarting"
            \/ pc'[p] = "finishing" /\ job'[p].phase = "recovery_required"
        BY <3>2, <3>3, <3>8 DEF AfterApt, Conclude, ControlOK, TypeOK, Job
      <4>2. DebOK(p)' /\ RemovedOK(p)'
        BY <3>1, <3>2, <3>5, <3>6, <4>1 DEF DebOK, RemovedOK, Removing, Underway,
           Tasked
      <4>3. RecoveryOK(p)'
        <5>1. /\ job[p].from # None /\ apt.target # None
              /\ VersionOf[apt.target] = job[p].from
          BY <3>1, <3>2, <3>8 DEF ChangeInv, AptOK
        <5>2. "silent" \notin Faults => InstalledVersion(job[p].pkg)' = job[p].from
          BY <1>41, <3>2, <3>5, <5>1 DEF AptSucceeds, InstallAs, InstalledVersion,
             ControlOK, TypeOK
        <5> QED BY <3>5, <4>1, <5>1, <5>2 DEF RecoveryOK, InstalledVersion, At
      <4>4. ChangeOK(p)'
        BY <4>1, <4>2, <4>3 DEF ChangeOK, CopyOK, DependentsOK, UnsharedOK,
           DeclaredOK, CommitOK, Removal, At
      <4> QED BY <2>1, <3>4, <4>4 DEF ChangeInv, AptOK
    <3> QED BY <3>2, <3>7, <3>8
  <2> QED BY <2>2, <2>3
<1>42. ASSUME AptFails PROVE ChangeInv'
  <2>1. PackageInv' /\ ManifestInv' /\ apt' = None
    BY <1>42, AptLeaves DEF AptFails, ChangeInv
  <2>2. CASE apt.by = None
    <3>1. \A p \in Proc : pc'[p] \notin Underway
      BY <1>42, <2>2, OrphanedApt DEF AptFails, procVars
    <3> QED BY <2>1, <3>1, NobodyUnderway
  <2>3. CASE apt.by # None
    <3>1. PICK p \in Proc : apt.by = p /\ pc[p] = "apt"
      BY <1>42, <2>3 DEF AptFails, ControlOK, TypeOK, Apt, WaiterInv
    <3>2. /\ job[p].phase \in {"applying_package", "recovering"}
          /\ job[p].pkg \in Package /\ job[p] \in Job /\ apt.pkg = job[p].pkg
          /\ DebOK(p) /\ RemovedOK(p) /\ apt # None
      <4>1. job[p].phase \in {"applying_package", "recovering"}
        BY <3>1 DEF StageInv, StageOK, Tasked
      <4>2. job[p].pkg \in Package /\ job[p] \in Job
        BY <3>1 DEF ControlOK, TypeOK, JobInv
      <4>3. apt # None /\ apt.pkg = job[p].pkg
        BY <1>42, <3>1 DEF AptFails, ChangeInv, AptOK
      <4>4. DebOK(p) /\ RemovedOK(p)
        BY DEF ChangeInv, ChangeOK
      <4> QED BY <4>1, <4>2, <4>3, <4>4
    <3>3. /\ AfterAptError(p) /\ backups' = backups
          /\ \A q \in Proc \ {p} : pc'[q] = pc[q] /\ pc'[q] \notin Underway
      <4>1. AfterAptError(p) /\ backups' = backups
        BY <1>42, <2>3, <3>1 DEF AptFails
      <4>2. \A q \in Proc \ {p} : pc'[q] = pc[q]
        BY <4>1 DEF AfterAptError, NoRollback, Proceed, Conclude, Goto, ControlOK,
           TypeOK
      <4> QED BY <3>1, <4>1, <4>2, OthersWait
    <3>4. \A q \in Proc \ {p} : ChangeOK(q)'
      BY <3>3 DEF ChangeOK, DebOK, CopyOK, RemovedOK, DependentsOK, UnsharedOK,
         DeclaredOK, CommitOK, RecoveryOK, Removal, At, Underway, Tasked
    <3>5. /\ job'[p].kind = job[p].kind /\ job'[p].pkg = job[p].pkg
          /\ job'[p].deb = job[p].deb /\ job'[p].info = job[p].info
          /\ job'[p].from = job[p].from
      BY <3>2, <3>3 DEF AfterAptError, NoRollback, Proceed, Conclude, Goto,
         ControlOK, TypeOK, Job
    <3>6. Removing(p) => \/ unpacked'[job[p].pkg] = unpacked[job[p].pkg]
                        \/ unpacked'[job[p].pkg] = None
                        \/ VersionOf[unpacked'[job[p].pkg]] = job[p].from
      <4>1. /\ job[p].phase = "applying_package" /\ Removing(p) => apt.target = None
            /\ job[p].phase = "recovering" =>
                 apt.target # None /\ VersionOf[apt.target] = job[p].from
        BY <3>1, <3>2 DEF ChangeInv, AptOK
      <4>2. \/ unpacked' = unpacked
            \/ unpacked'[job[p].pkg] = apt.target
        BY <1>42, <3>2 DEF AptFails, InstallAs, Interrupted, pkgVars, ControlOK,
           TypeOK
      <4> QED BY <3>2, <4>1, <4>2
    <3>7. \/ pc'[p] = "failing"
          \/ pc'[p] = "judging" /\ Removing(p)
          \/ pc'[p] = "finishing" /\ job'[p].phase = "recovery_required"
      BY <3>2, <3>3 DEF AfterAptError, NoRollback, Conclude, Goto, ControlOK,
         TypeOK, Job
    <3>8. DebOK(p)' /\ RemovedOK(p)'
      BY <3>1, <3>2, <3>5, <3>6, <3>7 DEF DebOK, RemovedOK, Removing, Underway,
         Tasked
    <3>9. ChangeOK(p)'
      BY <3>7, <3>8 DEF ChangeOK, CopyOK, DependentsOK, UnsharedOK, DeclaredOK,
         CommitOK, RecoveryOK, Removal, At
    <3> QED BY <2>1, <3>4, <3>9 DEF ChangeInv, AptOK
  <2> QED BY <2>2, <2>3
<1>43. ASSUME Reboot PROVE ChangeInv'
  <2>1. \A p \in Proc : pc'[p] \notin Underway
    BY <1>43 DEF Reboot, Underway, Tasked
  <2>2. apt' = None /\ PackageInv' /\ ManifestInv'
    BY <1>43 DEF Reboot, Interrupted, pkgVars, ChangeInv, PackageInv, ManifestInv,
       ControlOK, TypeOK
  <2> QED BY <2>1, <2>2, NobodyUnderway
<1>44. ASSUME NEW p \in Proc, Crash(p) PROVE ChangeInv'
  <2>1. /\ pc'[p] = "idle"
        /\ \A q \in Proc \ {p} : pc'[q] = pc[q] /\ job'[q] = job[q]
        /\ UNCHANGED <<unpacked, configured, broken, wasBroken, backups>>
    BY <1>44 DEF Crash, Return, Goto, pkgVars, ControlOK, TypeOK
  <2>2. apt' # None =>
          /\ apt # None /\ apt'.pkg = apt.pkg /\ apt'.target = apt.target
          /\ apt'.by # None => apt'.by = apt.by /\ apt.by # p
    BY <1>44 DEF Crash, ControlOK, TypeOK, Apt
  <2>3. AptOK'
    <3> SUFFICES ASSUME apt' # None PROVE AptOK'
      BY DEF AptOK
    <3>1. apt'.target = None => Unneeded(apt.pkg)'
      BY <2>1, <2>2 DEF ChangeInv, AptOK, Unneeded
    <3>2. ASSUME NEW q \in Proc, apt'.by = q
          PROVE  apt.by = q /\ pc'[q] = pc[q] /\ job'[q] = job[q]
      BY <2>1, <2>2, <3>2, NoneAssumption
    <3> QED BY <2>2, <3>1, <3>2 DEF ChangeInv, AptOK, Removing
  <2>4. PackageInv' /\ ManifestInv'
    BY <2>1 DEF ChangeInv, PackageInv, ManifestInv
  <2>5. ASSUME NEW q \in Proc PROVE ChangeOK(q)'
    <3>1. CASE q = p
      BY <2>1, <3>1 DEF ChangeOK, DebOK, CopyOK, RemovedOK, DependentsOK,
         UnsharedOK, DeclaredOK, CommitOK, RecoveryOK, Removal, At, Underway,
         Tasked
    <3>2. CASE q # p
      BY <2>1, <3>2, Unmoved DEF ChangeInv
    <3> QED BY <3>1, <3>2
  <2> QED BY <2>3, <2>4, <2>5 DEF ChangeInv
<1>45. ASSUME NEW t \in Task, Settle(t) PROVE ChangeInv'
  <2>1. UNCHANGED <<pc, job, apt, unpacked, configured, broken, wasBroken, backups>>
    BY <1>45 DEF Settle, procVars, sysVars
  <2>2. PackageInv' /\ ManifestInv' /\ AptOK'
    BY <2>1 DEF ChangeInv, PackageInv, ManifestInv, AptOK, Unneeded, Removing
  <2>3. \A q \in Proc : ChangeOK(q)'
    BY <2>1, Unmoved DEF ChangeInv
  <2> QED BY <2>2, <2>3 DEF ChangeInv
<1>46. ASSUME NEW p \in Proc, NEW r \in Release, Rebuild(p, r) PROVE ChangeInv'
  <2>1. /\ ActsAlone(p) /\ SameJob(p) /\ pc' = pc
        /\ job'[p].phase = job[p].phase /\ job'[p].decl = job[p].decl
        /\ job'[p].todo = job[p].todo /\ backups' = backups /\ ChangeOK(p)
    BY <1>46 DEF Rebuild, sysVars, ControlOK, TypeOK, Job, ActsAlone, SameJob,
       ChangeInv
  <2>2. DebOK(p)' /\ RemovedOK(p)' /\ CopyOK(p)'
    BY <2>1 DEF ActsAlone, SameJob, ChangeOK, DebOK, RemovedOK, CopyOK, Removing
  <2>3. DependentsOK(p)' /\ UnsharedOK(p)'
    BY <2>1 DEF ActsAlone, SameJob, ChangeOK, DependentsOK, UnsharedOK, Unneeded,
       Unshared, Removal, Removing, At
  <2>4. DeclaredOK(p)' /\ CommitOK(p)' /\ RecoveryOK(p)'
    BY <2>1 DEF ActsAlone, SameJob, ChangeOK, DeclaredOK, CommitOK, RecoveryOK,
       Declared, Exists, InstalledVersion, Removing, At
  <2> QED BY <2>1, <2>2, <2>3, <2>4, ActingAlone DEF ChangeOK
<1>47. ASSUME NEW q \in Package, Damage(q) \/ Mend(q) PROVE ChangeInv'
  <2>1. /\ UNCHANGED <<pc, job, apt, unpacked, configured, backups>>
        /\ wasBroken \subseteq wasBroken'
    BY <1>47 DEF Damage, Mend, procVars
  <2>2. PackageInv' /\ AptOK'
    BY <2>1 DEF ChangeInv, PackageInv, AptOK, Unneeded, Removing
  <2>3. ManifestInv'
    BY <1>47 DEF ChangeInv, ManifestInv, Damage, Mend
  <2>4. \A p \in Proc : ChangeOK(p)'
    BY <2>1, Unmoved DEF ChangeInv
  <2> QED BY <2>2, <2>3, <2>4 DEF ChangeInv
<1>48. CASE UNCHANGED vars
  <2>1. UNCHANGED <<pc, job, apt, unpacked, configured, broken, wasBroken, backups>>
    BY <1>48 DEF vars
  <2>2. PackageInv' /\ ManifestInv' /\ AptOK'
    BY <2>1 DEF ChangeInv, PackageInv, ManifestInv, AptOK, Unneeded, Removing
  <2>3. \A q \in Proc : ChangeOK(q)'
    BY <2>1, Unmoved DEF ChangeInv
  <2> QED BY <2>2, <2>3 DEF ChangeInv
<1> QED
  BY <1>1, <1>2, <1>3, <1>4, <1>5, <1>6, <1>7, <1>8, <1>9, <1>10, <1>11,
     <1>12, <1>13, <1>14, <1>15, <1>16, <1>17, <1>18, <1>19, <1>20, <1>21,
     <1>22, <1>23, <1>24, <1>25, <1>26, <1>27, <1>28, <1>29, <1>30, <1>31,
     <1>32, <1>33, <1>34, <1>35, <1>36, <1>37, <1>38, <1>39, <1>40, <1>41,
     <1>42, <1>43, <1>44, <1>45, <1>46, <1>47, <1>48 DEF Next, Command, Step,
     UnitStep, Environment

-------------------------------------------------------------------------------
(* What a step may never do *)

LEMMA UnneededIs ==
  ASSUME NEW q, Unneeded(q) PROVE DependentsOnDisk(q) \subseteq wasBroken
  BY DEF Unneeded, DependentsOnDisk

LEMMA UnsharedIs ==
  ASSUME NEW u, NEW q, Unshared(u, q) PROVE OwnersOnDisk(u, q) \subseteq wasBroken
  BY DEF Unshared, OwnersOnDisk

\* Only apt, however it ends, takes a package away, and the one it was asked to.
LEMMA StrandingStep ==
  ASSUME Base, ChangeInv, [Next]_vars, NEW q \in Package,
         unpacked[q] # None, unpacked'[q] = None
  PROVE  DependentsOnDisk(q) \subseteq wasBroken
<1>1. AptSucceeds \/ AptFails \/ Reboot
  BY Footprints DEF Base, ControlOK, Footprint, pkgVars
<1>2. apt # None /\ apt.pkg = q /\ apt.target = None
  <2>1. \/ InstallAs(apt.pkg, apt.target)
        \/ Interrupted(apt.pkg, apt.target)
    BY <1>1 DEF AptSucceeds, AptFails, Reboot, pkgVars
  <2>2. apt # None
    BY <1>1 DEF AptSucceeds, AptFails, Reboot, pkgVars
  <2> QED BY <2>1, <2>2 DEF InstallAs, Interrupted, Base, ControlOK, TypeOK
<1>3. Unneeded(q)
  BY <1>2 DEF ChangeInv, AptOK
<1> QED BY <1>3, UnneededIs

\* What a step stops or disables while a change holds the lock is one of the
\* units that change may touch.
LEMMA SharingStep ==
  ASSUME Base, ChangeInv, [Next]_vars, Changing,
         NEW u \in (active \ active') \cup (enabled \ enabled')
  PROVE  OwnersOnDisk(u, job[lock].pkg) \subseteq wasBroken
<1> USE DEF Base, ControlOK
<1>1. lock \in Proc /\ pc[lock] \notin {"idle", "waiting"}
  BY DEF Changing, TypeOK, LockInv
<1>2. ~Reboot
  BY DEF Changing, Reboot
<1>3. PICK p \in Proc, v \in Unit : UnitStep(p, v)
  BY <1>2, Footprints DEF Footprint, unitVars
<1>4. ASSUME pc[p] = "working" PROVE lock = p
  BY <1>4 DEF LockInv
<1>5. CASE StopUnit(p, v) \/ DisableUnit(p, v)
  <2>1. /\ At(p, "working", "stopping_services") /\ v \in job[p].todo /\ MayStop(p, v)
        /\ u = v
    BY <1>5 DEF StopUnit, DisableUnit
  <2>2. CASE Removing(p)
    <3>1. Unshared(v, job[p].pkg)
      BY <2>1, <2>2 DEF ChangeInv, ChangeOK, UnsharedOK, Removal, At
    <3> QED BY <1>4, <2>1, <3>1, UnsharedIs DEF At
  <2>3. CASE ~Removing(p)
    <3>1. Unshared(v, job[p].pkg)
      BY <2>1, <2>3 DEF MayStop, OtherOwners, Declared, DeclaredBy, ChangeInv, ManifestInv,
         Unshared
    <3> QED BY <1>4, <2>1, <3>1, UnsharedIs DEF At
  <2> QED BY <2>2, <2>3
<1>6. CASE \/ PassUnit(p, v) \/ StartUnit(p, v) \/ StartUnitFails(p, v) \/ RestartUnit(p, v)
  BY <1>6 DEF PassUnit, StartUnit, StartUnitFails, RestartUnit, sysVars
<1>7. CASE ServiceCommand(p, v)
  <2>1. pc[p] = "service" /\ Return(p)
    BY <1>7 DEF ServiceCommand
  <2>2. lock = p /\ lock' = None
    BY <2>1 DEF Return, LockInv
  <2> QED BY <2>2 DEF Changing
<1> QED BY <1>3, <1>5, <1>6, <1>7 DEF UnitStep

\* Wherever a change has an old version to roll back to, its backup is still
\* there after a step that does not end the change.
LEMMA BackupStep ==
  ASSUME Base, ChangeInv, [Next]_vars, NEW p \in Proc,
         pc[p] \notin {"idle", "waiting", "checking", "reading", "pruning"},
         pc'[p] # "idle",
         OldBackups(p) # {}
  PROVE  OldBackups(p)' # {}
<1> USE DEF Base, ControlOK
<1>1. job'[p].pkg = job[p].pkg /\ job'[p].from = job[p].from
  BY Footprints DEF Footprint
<1>2. job[p].from # None
  BY DEF OldBackups
<1> DEFINE mine == backups[job[p].pkg]
<1>3. PICK i \in DOMAIN mine : VersionOf[mine[i].rel] = job[p].from
  BY <1>2 DEF OldBackups, BackupsFor
<1>4. ASSUME NEW j \in DOMAIN backups'[job[p].pkg],
             VersionOf[backups'[job[p].pkg][j].rel] = job[p].from
      PROVE  OldBackups(p)' # {}
  BY <1>1, <1>2, <1>4 DEF OldBackups, BackupsFor
<1>5. CASE backups' = backups
  BY <1>3, <1>4, <1>5
<1>6. ASSUME NEW q \in Proc, BeginBackup(q) \/ EndBackup(q) \/ PruneBackups(q), q # p
      PROVE  FALSE
  <2>1. lock = q
    BY <1>6 DEF BeginBackup, EndBackup, PruneBackups, At, LockInv
  <2> QED BY <1>6, <2>1 DEF LockInv
<1>7. CASE BeginBackup(p)
  <2>1. job[p].pkg \in Package /\ job[p].info \in Release
    BY <1>7 DEF BeginBackup, At, Removing, JobInv, Tasked
  <2> DEFINE new == [rel |-> job[p].info, whole |-> FALSE]
  <2>2. mine \in Seq(Backup) /\ new \in Backup /\ backups'[job[p].pkg] = Append(mine, new)
    BY <1>7, <2>1 DEF BeginBackup, TypeOK, Backup
  <2> HIDE DEF new
  <2>3. i \in 1 .. Len(mine)
    BY <1>3, <2>2, LenProperties
  <2>4. i \in DOMAIN Append(mine, new) /\ Append(mine, new)[i] = mine[i]
    BY <2>2, <2>3, AppendProperties, LenProperties
  <2> QED BY <1>3, <1>4, <2>2, <2>4
<1>8. CASE EndBackup(p)
  <2>1. job[p].pkg \in Package /\ pc[p] = "copying" /\ ~Removing(p)
    BY <1>8 DEF EndBackup, JobInv, Removing
  <2> DEFINE last == [rel |-> job[p].deb, whole |-> TRUE]
  <2>2. mine \in Seq(Backup) /\ backups'[job[p].pkg] = [mine EXCEPT ![Len(mine)] = last]
    BY <1>8, <2>1 DEF EndBackup, TypeOK
  <2>3. /\ VersionOf[mine[Len(mine)].rel] = VersionOf[job[p].info]
        /\ VersionOf[job[p].deb] = VersionOf[job[p].info]
    BY <2>1 DEF ChangeInv, ChangeOK, CopyOK, DebOK, Underway, Tasked
  <2>4. last.rel = job[p].deb
    OBVIOUS
  <2> HIDE DEF last
  <2>5. i \in DOMAIN backups'[job[p].pkg]
    BY <1>3, <2>2
  <2>6. VersionOf[backups'[job[p].pkg][i].rel] = job[p].from
    BY <1>3, <2>2, <2>3, <2>4
  <2> QED BY <1>4, <2>5, <2>6
<1>9. CASE PruneBackups(p)
  BY <1>9 DEF PruneBackups
<1> QED BY <1>5, <1>6, <1>7, <1>8, <1>9, Footprints DEF Footprint

-------------------------------------------------------------------------------
(* Theorems *)

\* Control, journal and stages together, on which everything below rests.
THEOREM BaseHolds == Spec => []Base
<1>1. ControlOK /\ Journal /\ StageInv => Base
  BY DEF Base
<1> QED BY <1>1, ControlHolds, JournalHolds, StagesHold, PTL

\* What run_install, run_remove and the recovery found out at one statement is
\* still so at the next, and so is what an apt, orphaned or not, was started for.
THEOREM ChangeHolds == Spec => []ChangeInv
<1>1. Init => ChangeInv
  BY ChangeInit
<1>2. Base /\ ChangeInv /\ [Next]_vars => ChangeInv'
  BY ChangeStep
<1> QED BY <1>1, <1>2, BaseHolds, PTL DEF Spec

\* What verify_install established still holds when "committed" is written,
\* also where debs are rebuilt and manifests damaged under the change and apt lies
\* about its success.
THEOREM CommitAlwaysTrue == Spec => []CommitIsTrue
<1>1. ChangeInv => CommitIsTrue
  BY DEF ChangeInv, ChangeOK, CommitOK, CommitIsTrue
<1> QED BY <1>1, ChangeHolds, PTL

\* Where apt's exit status can be trusted, "recovered" is written only over the
\* version the change found.
THEOREM RecoveryAlwaysTrue ==
  ASSUME "silent" \notin Faults
  PROVE  Spec => []RecoveryIsTrue
<1>1. ChangeInv => RecoveryIsTrue
  BY DEF ChangeInv, ChangeOK, RecoveryOK, RecoveryIsTrue
<1> QED BY <1>1, ChangeHolds, PTL

\* Only a manifest that could not be read for a moment of the change hides a
\* dependent: the look at the others is still good when apt removes the package, be
\* its rsctl alive, killed or gone with a restart.
THEOREM NoneStranded == Spec => NoDependentStranded
<1>1. Base /\ ChangeInv /\ [Next]_vars =>
        [\A q \in Package : unpacked[q] # None /\ unpacked'[q] = None =>
           DependentsOnDisk(q) \subseteq wasBroken]_vars
  BY StrandingStep
<1> QED BY <1>1, BaseHolds, ChangeHolds, PTL DEF Spec, NoDependentStranded

\* Neither a removal, which settles on its units early, nor another change ever
\* stops or disables a unit that another package on disk declares, unless that
\* package's manifest could not be read for a moment of the change.
THEOREM SharedAlwaysUntouched == Spec => SharedUnitsUntouched
<1>1. Base /\ ChangeInv /\ [Next]_vars =>
        [Changing =>
           \A u \in (active \ active') \cup (enabled \ enabled') :
             OwnersOnDisk(u, job[lock].pkg) \subseteq wasBroken]_vars
  BY SharingStep
<1> QED BY <1>1, BaseHolds, ChangeHolds, PTL DEF Spec, SharedUnitsUntouched

\* Copying a new backup, a deb rebuilt meanwhile and the pruning of others never
\* cost a change under way the backup of the version it found.
THEOREM SourceAlwaysStays == Spec => RollbackSourceStays
<1>1. Base /\ ChangeInv /\ [Next]_vars =>
        [\A p \in Proc :
           /\ pc[p] \notin {"idle", "waiting", "checking", "reading", "pruning"}
           /\ pc'[p] # "idle"
           /\ OldBackups(p) # {}
           => OldBackups(p)' # {}]_vars
  BY BackupStep
<1> QED BY <1>1, BaseHolds, ChangeHolds, PTL DEF Spec, RollbackSourceStays
==============================================================================
