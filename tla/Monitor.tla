-------------------------------- MODULE Monitor --------------------------------
(***************************************************************************)
(* robot-system-daemon's process monitor: reconcile at startup and the     *)
(* collection tick over the units of the managed target (monitor.rs), the  *)
(* run and event rows it writes (db.rs, event.rs) and its reading of       *)
(* systemd and /proc (system/systemd.rs, system/procfs.rs), against a      *)
(* systemd that starts, stops and loses processes meanwhile.               *)
(*                                                                         *)
(* Every query and every autocommitted statement of a tick is a step of    *)
(* its own.  A failing one ends the tick by "?", with what memory and the  *)
(* database had already taken in.                                          *)
(***************************************************************************)
EXTENDS Integers, Sequences, FiniteSets

CONSTANTS
  Unit,      \* services, numbered in the order of their names
  Oneshot,   \* those of Type=oneshot
  Movable,   \* bounds the units that may leave the target or lose their unit file
  Pid,       \* process ids
  Run,       \* run ids (UUIDs); bounds the number of runs ever opened
  Births,    \* bounds the number of processes ever started
  Faults,    \* which of FaultKinds may happen
  None       \* no run, no event, no state seen yet

\* A query or statement fails; the daemon dies; the machine restarts; a pid is
\* given away again between two queries of one tick.
FaultKinds == {"error", "crash", "reboot", "reuse"}

ASSUME UnitAssumption == Unit \subseteq Nat /\ Oneshot \subseteq Unit /\ Movable \subseteq Unit
ASSUME BirthsAssumption == Births \in Nat
ASSUME MonitorFaultAssumption == Faults \subseteq FaultKinds

VARIABLES
  unit,        \* what systemd knows of each unit
  loaded,      \* units whose unit file is there
  members,     \* units the target wants
  procs,       \* every process ever started, in order
  clock,       \* start ticks of the youngest process since boot
  runs,        \* table process_runs
  events,      \* table error_events
  pc,          \* where the daemon is
  todo,        \* units the tick, or runs the reconciliation, has yet to visit
  view,        \* what the tick holds about the unit it is visiting
  lastActive,  \* last_active_state
  cpuSamples   \* cpu_samples: the runs with a baseline

sysVars    == <<unit, loaded, members, procs, clock>>
dbVars     == <<runs, events>>
memVars    == <<lastActive, cpuSamples>>
daemonVars == <<pc, todo, view, lastActive, cpuSamples>>
vars       == <<unit, loaded, members, procs, clock, runs, events, pc, todo, view,
                lastActive, cpuSamples>>

-------------------------------------------------------------------------------
(* Types.  Processes are numbered in the order they start; 0 is none.  The *)
(* daemon sees a process only as its pid and start ticks; its number, and  *)
(* the fields of, proc, by, unit and asked, are there for the properties.  *)

Process == 0 .. Births

Transitioning == {"activating", "deactivating"}  \* reloading is left out
ActiveState == {"inactive", "active", "failed"} \cup Transitioning

\* ExecMainCode, ExecMainStatus and Result: nothing recorded, a clean exit, any
\* other end of the main process, a failure without a main process.
Exit == {"none", "clean", "bad", "lost"}

UnitStatus == [state : ActiveState, main : Process, exit : Exit,
               of : Process]      \* the process exit is about

Unloaded == [state |-> "inactive", main |-> 0, exit |-> "none", of |-> 0]

Proc == [pid : Pid, ticks : Nat,
         unit : Unit,             \* the service that started it
         asked : Unit \cup {None}] \* the one a tick had just been told this pid for

Result == {"running", "exited", "failed", "unknown"}

RunRow == [unit : Unit, pid : Pid, ticks : Nat, result : Result,
           proc : Process,        \* the process it was opened for
           by : Process]          \* the process its result is about

EventType == {"service_start_failed", "service_stopped_unexpectedly",
              "process_exited_abnormally"}

EventRow == [type : EventType, unit : Unit, run : Run \cup {None}]

\* None is none of what it stands in for: Option::None.
ASSUME NoneAssumption == None \notin Run \cup RunRow \cup EventType

View == [unit : Unit \cup {None}, pid : Pid \cup {None}, run : Run \cup {None},
         proc : Process, result : Result, event : EventType \cup {None},
         of : Process]

NoView == [unit |-> None, pid |-> None, run |-> None, proc |-> 0,
           result |-> "unknown", event |-> None, of |-> 0]

Ticking == {"next", "stat", "close", "open", "metric", "event"}

TypeOK ==
  /\ unit \in [Unit -> UnitStatus]
  /\ loaded \subseteq Unit
  /\ members \subseteq Unit
  /\ procs \in Seq(Proc) /\ Len(procs) <= Births
  /\ clock \in Nat
  /\ runs \in [Run -> RunRow \cup {None}]
  /\ events \subseteq EventRow
  /\ pc \in {"down", "reconcile", "idle"} \cup Ticking
  /\ todo \subseteq (IF pc = "reconcile" THEN Run ELSE Unit)
  /\ view \in View
  /\ lastActive \in [Unit -> ActiveState \cup {None}]
  /\ cpuSamples \subseteq Run

-------------------------------------------------------------------------------
(* Queries *)

Alive == {unit[u].main : u \in Unit} \ {0}

\* read_stat: the process that has this pid now.
StatOf(pid) == {n \in Alive : procs[n].pid = pid}

RunsOf(u) == {r \in Run : runs[r] # None /\ runs[r].unit = u}
Running   == {r \in Run : runs[r] # None /\ runs[r].result = "running"}

\* open_run_for_service: the one started last.
OpenRunOf(u) ==
  LET open == RunsOf(u) \cap Running IN
  IF open = {} THEN None
  ELSE CHOOSE r \in open : \A s \in open : runs[s].proc <= runs[r].proc

\* Mutant of SameProcess: the start ticks are not compared.
SamePid(r, n) == runs[r].pid = procs[n].pid

\* A run and a process are the same instance by pid and start ticks.
SameProcess(r, n) == runs[r].pid = procs[n].pid /\ runs[r].ticks = procs[n].ticks

\* Mutant of ExitResult: a result the table's CHECK does not allow.
ExitResultKilled(exit) == IF exit = "bad" THEN "killed" ELSE "exited"

\* exit_details.
ExitResult(exit) ==
  CASE exit \in {"clean", "none"} -> "exited"
    [] exit = "bad" -> "failed"
    [] exit = "lost" -> "unknown"

-------------------------------------------------------------------------------
(* systemd, the kernel and whoever operates them, external *)

Init ==
  /\ unit = [u \in Unit |-> Unloaded]
  /\ loaded = Unit
  /\ members = Unit
  /\ procs = <<>>
  /\ clock = 0
  /\ runs = [r \in Run |-> None]
  /\ events = {}
  /\ pc = "down"
  /\ todo = {}
  /\ view = NoView
  /\ lastActive = [u \in Unit |-> None]
  /\ cpuSamples = {}

FreePids ==
  (Pid \ {procs[n].pid : n \in Alive})
    \ (IF pc = "stat" /\ "reuse" \notin Faults THEN {view.pid} ELSE {})

\* A start, or a restart by Restart=, forks the main process.
Spawn(u) ==
  /\ u \in loaded
  /\ unit[u].main = 0
  /\ unit[u].state \in {"inactive", "failed", "activating"}
  /\ Len(procs) < Births
  /\ \E pid \in FreePids :
       procs' = Append(procs, [pid |-> pid, ticks |-> clock + 1, unit |-> u,
                               asked |-> IF pc = "stat" /\ pid = view.pid
                                           THEN view.unit ELSE None])
  /\ clock' = clock + 1
  /\ \E s \in {"activating", "active"} :
       unit' = [unit EXCEPT ![u] = [Unloaded EXCEPT !.state = s, !.main = Len(procs')]]
  /\ UNCHANGED <<loaded, members, dbVars, daemonVars>>

Started(u) ==
  /\ unit[u].state = "activating"
  /\ unit[u].main # 0
  /\ unit' = [unit EXCEPT ![u].state = "active"]
  /\ UNCHANGED <<loaded, members, procs, clock, dbVars, daemonVars>>

\* A package change (stop_services) or an operator stops the unit.
StopAsked(u) ==
  /\ unit[u].state \in {"active", "activating"}
  /\ unit' = [unit EXCEPT ![u].state = IF unit[u].main = 0 THEN "inactive"
                                                           ELSE "deactivating"]
  /\ UNCHANGED <<loaded, members, procs, clock, dbVars, daemonVars>>

\* The main process ends: the unit is done, has failed, or will be restarted;
\* a oneshot unit may stay active without a process.  An end by a signal that
\* systemd takes for a stop, SIGTERM say, is no clean exit, and the unit is done.
Ends(u) ==
  /\ unit[u].main # 0
  /\ \E exit \in {"clean", "bad"} \cup
                 (IF unit[u].state = "activating" THEN {"lost"} ELSE {}),
        s \in {"inactive", "failed", "activating", "active"} :
       /\ s = "inactive" => exit # "lost"
       /\ s = "failed" => exit # "clean"
       /\ s = "activating" => unit[u].state # "deactivating"
       /\ s = "active" => u \in Oneshot /\ exit = "clean" /\ unit[u].state = "activating"
       /\ unit' = [unit EXCEPT ![u].state = s, ![u].main = 0, ![u].exit = exit,
                               ![u].of = unit[u].main]
  /\ UNCHANGED <<loaded, members, procs, clock, dbVars, daemonVars>>

\* enable and disable: the link in the target's .wants directory.
Enable(u) ==
  /\ u \in loaded \ members
  /\ members' = members \cup {u}
  /\ UNCHANGED <<unit, loaded, procs, clock, dbVars, daemonVars>>

Disable(u) ==
  /\ u \in Movable
  /\ u \in members
  /\ members' = members \ {u}
  /\ UNCHANGED <<unit, loaded, procs, clock, dbVars, daemonVars>>

\* The package goes away with its unit file and comes back.
Unload(u) ==
  /\ u \in Movable
  /\ u \in loaded
  /\ unit[u].state \in {"inactive", "failed"}
  /\ loaded' = loaded \ {u}
  /\ unit' = [unit EXCEPT ![u] = Unloaded]
  /\ UNCHANGED <<members, procs, clock, dbVars, daemonVars>>

Load(u) ==
  /\ u \notin loaded
  /\ loaded' = loaded \cup {u}
  /\ UNCHANGED <<unit, members, procs, clock, dbVars, daemonVars>>

-------------------------------------------------------------------------------
(* Startup *)

Forget ==
  /\ view' = NoView
  /\ lastActive' = [u \in Unit |-> None]
  /\ cpuSamples' = {}

StartDaemon ==
  /\ pc = "down"
  /\ pc' = "reconcile"
  /\ todo' = Running
  /\ Forget
  /\ UNCHANGED <<sysVars, dbVars>>

\* close_run: by is the process the result is taken from.
CloseRun(r, result, by) ==
  runs' = [runs EXCEPT ![r].result = result, ![r].by = by]

\* reconcile: the process is still there, and gets a CPU baseline.
ReconcileAlive(r) ==
  /\ pc = "reconcile"
  /\ r \in todo
  /\ \E n \in StatOf(runs[r].pid) : SameProcess(r, n)
  /\ todo' = todo \ {r}
  /\ cpuSamples' = cpuSamples \cup {r}
  /\ UNCHANGED <<sysVars, dbVars, pc, view, lastActive>>

\* Mutant of ReconcileGone: every run left open is closed unseen.
ReconcileAll(r) ==
  /\ pc = "reconcile"
  /\ r \in todo
  /\ CloseRun(r, "unknown", 0)
  /\ todo' = todo \ {r}
  /\ UNCHANGED <<sysVars, events, pc, view, memVars>>

\* reconcile: it is not, and nobody knows why.
ReconcileGone(r) ==
  /\ pc = "reconcile"
  /\ r \in todo
  /\ \A n \in StatOf(runs[r].pid) : ~SameProcess(r, n)
  /\ CloseRun(r, "unknown", 0)
  /\ todo' = todo \ {r}
  /\ cpuSamples' = cpuSamples \ {r}
  /\ UNCHANGED <<sysVars, events, pc, view, lastActive>>

Reconciled ==
  /\ pc = "reconcile"
  /\ todo = {}
  /\ pc' = "idle"
  /\ UNCHANGED <<sysVars, dbVars, todo, view, memVars>>

-------------------------------------------------------------------------------
(* One tick *)

BeginTick ==
  /\ pc = "idle"
  /\ pc' = "next"
  /\ todo' = members
  /\ UNCHANGED <<sysVars, dbVars, view, memVars>>

EndTick ==
  /\ pc = "next"
  /\ todo = {}
  /\ pc' = "idle"
  /\ UNCHANGED <<sysVars, dbVars, todo, view, memVars>>

\* The loop turns to the next unit and runs systemctl show.
Visit(u) ==
  /\ pc = "next"
  /\ u \in todo
  /\ \A w \in todo : u <= w
  /\ todo' = todo \ {u}
  /\ UNCHANGED <<sysVars, dbVars, cpuSamples>>

Skip == UNCHANGED <<pc, view>>

\* The unit exists: its state is remembered before anything is done about it.
Observe(u) ==
  /\ u \in loaded
  /\ lastActive' = [lastActive EXCEPT ![u] = unit[u].state]

Seen(u) == [NoView EXCEPT !.unit = u, !.run = OpenRunOf(u), !.of = unit[u].of]

SkipMissing(u) ==
  /\ Visit(u)
  /\ u \notin loaded
  /\ Skip
  /\ UNCHANGED lastActive

SkipTransitioning(u) ==
  /\ Visit(u)
  /\ Observe(u)
  /\ unit[u].state \in Transitioning
  /\ Skip

SeeMainProcess(u) ==
  /\ Visit(u)
  /\ Observe(u)
  /\ unit[u].state = "active"
  /\ unit[u].main # 0
  /\ pc' = "stat"
  /\ view' = [Seen(u) EXCEPT !.pid = procs[unit[u].main].pid]

\* Mutant of Stopped: a unit on its way down counts as stopped.
StoppedOrStopping(u) ==
  \/ unit[u].state \in {"inactive", "failed", "deactivating"}
  \/ unit[u].state = "active" /\ unit[u].main = 0

\* inactive, failed, or a oneshot unit that is done.
Stopped(u) ==
  \/ unit[u].state \in {"inactive", "failed"}
  \/ unit[u].state = "active" /\ unit[u].main = 0

\* The event the end of an open run calls for.
EndEvent(u, result) ==
  IF result = "failed" THEN "process_exited_abnormally"
  ELSE IF /\ result = "exited"
          /\ unit[u].state # "active"
          /\ lastActive[u] = "active"
          /\ u \notin Oneshot
         THEN "service_stopped_unexpectedly"
         ELSE None

SeeStopped(u) ==
  LET result == ExitResult(unit[u].exit) IN
  /\ Visit(u)
  /\ Observe(u)
  /\ Stopped(u)
  /\ OpenRunOf(u) # None
  /\ pc' = "close"
  /\ view' = [Seen(u) EXCEPT !.result = result, !.event = EndEvent(u, result)]

JustFailed(u) == unit[u].state = "failed" /\ lastActive[u] # "failed"

SeeStartFailure(u) ==
  /\ Visit(u)
  /\ Observe(u)
  /\ OpenRunOf(u) = None
  /\ JustFailed(u)
  /\ pc' = "event"
  /\ view' = [Seen(u) EXCEPT !.event = "service_start_failed"]

SeeNothing(u) ==
  /\ Visit(u)
  /\ Observe(u)
  /\ Stopped(u)
  /\ OpenRunOf(u) = None
  /\ ~JustFailed(u)
  /\ Skip

Continue == pc' = "next" /\ view' = NoView

\* read_stat(main_pid): the process may have gone since systemctl show.
StatGone ==
  /\ pc = "stat"
  /\ StatOf(view.pid) = {}
  /\ Continue
  /\ UNCHANGED <<sysVars, dbVars, todo, memVars>>

\* Mutant of ReadStat: the previous run is left open.
ReadStatLeavingOpen ==
  /\ pc = "stat"
  /\ \E n \in StatOf(view.pid) :
       /\ view' = [view EXCEPT !.proc = n]
       /\ pc' = IF view.run # None /\ SameProcess(view.run, n) THEN "metric" ELSE "open"
  /\ UNCHANGED <<sysVars, dbVars, todo, memVars>>

\* The same instance goes on; another one closes the run before it is opened.
ReadStat ==
  /\ pc = "stat"
  /\ \E n \in StatOf(view.pid) :
       /\ view' = [view EXCEPT !.proc = n]
       /\ pc' = IF view.run = None THEN "open"
                ELSE IF SameProcess(view.run, n) THEN "metric" ELSE "close"
  /\ UNCHANGED <<sysVars, dbVars, todo, memVars>>

AfterClose ==
  IF view.proc # 0 THEN pc' = "open" /\ view' = view
  ELSE IF view.event # None THEN pc' = "event" /\ view' = view
  ELSE Continue

\* Mutant of Close: every run of the service is closed.
CloseAllOfService ==
  /\ pc = "close"
  /\ runs' = [r \in Run |-> IF r \in RunsOf(view.unit)
                              THEN [runs[r] EXCEPT !.result = view.result] ELSE runs[r]]
  /\ cpuSamples' = cpuSamples \ {view.run}
  /\ AfterClose
  /\ UNCHANGED <<sysVars, events, todo, lastActive>>

\* Mutant of Close: the CPU baseline is kept.
CloseKeepingSample ==
  /\ pc = "close"
  /\ CloseRun(view.run, view.result, view.of)
  /\ AfterClose
  /\ UNCHANGED <<sysVars, events, todo, lastActive, cpuSamples>>

Close ==
  /\ pc = "close"
  /\ CloseRun(view.run, view.result, view.of)
  /\ cpuSamples' = cpuSamples \ {view.run}
  /\ AfterClose
  /\ UNCHANGED <<sysVars, events, todo, lastActive>>

OpenRun ==
  /\ pc = "open"
  /\ \E r \in Run :
       /\ runs[r] = None
       /\ runs' = [runs EXCEPT ![r] =
                     [unit |-> view.unit, pid |-> view.pid,
                      ticks |-> procs[view.proc].ticks, result |-> "running",
                      proc |-> view.proc, by |-> 0]]
       /\ view' = [view EXCEPT !.run = r]
  /\ pc' = "metric"
  /\ UNCHANGED <<sysVars, events, todo, memVars>>

\* record_metric: the baseline is taken before the row is written.
RecordMetric ==
  /\ pc = "metric"
  /\ cpuSamples' = cpuSamples \cup {view.run}
  /\ Continue
  /\ UNCHANGED <<sysVars, dbVars, todo, lastActive>>

\* Mutant of RecordEvent: events of processes are dropped.
RecordServiceEvent ==
  /\ pc = "event"
  /\ events' = IF view.run # None THEN events
               ELSE events \cup {[type |-> view.event, unit |-> view.unit,
                                  run |-> view.run]}
  /\ Continue
  /\ UNCHANGED <<sysVars, runs, todo, memVars>>

RecordEvent ==
  /\ pc = "event"
  /\ events' = events \cup {[type |-> view.event, unit |-> view.unit,
                             run |-> view.run]}
  /\ Continue
  /\ UNCHANGED <<sysVars, runs, todo, memVars>>

-------------------------------------------------------------------------------
(* Failures *)

\* The state systemctl show returned was remembered before a later query of the
\* same unit failed.
TickFailsLooking(u) ==
  /\ "error" \in Faults
  /\ Visit(u)
  /\ \/ UNCHANGED lastActive
     \/ Observe(u)
  /\ pc' = "idle"
  /\ view' = NoView

\* A later statement fails; a metric's baseline is already taken.
TickFails ==
  /\ "error" \in Faults
  /\ pc \in Ticking \ {"next"}
  /\ cpuSamples' = IF pc = "metric" THEN cpuSamples \cup {view.run} ELSE cpuSamples
  /\ pc' = "idle"
  /\ todo' = {}
  /\ view' = NoView
  /\ UNCHANGED <<sysVars, dbVars, lastActive>>

\* main returns FAILURE when the reconciliation fails.
ReconcileFails ==
  /\ "error" \in Faults
  /\ pc = "reconcile"
  /\ pc' = "down"
  /\ todo' = {}
  /\ Forget
  /\ UNCHANGED <<sysVars, dbVars>>

Die ==
  /\ pc' = "down"
  /\ todo' = {}
  /\ Forget
  /\ UNCHANGED dbVars

\* Killed, or stopped by SIGTERM between two ticks.
Crash ==
  /\ "crash" \in Faults
  /\ pc # "down"
  /\ Die
  /\ UNCHANGED sysVars

\* The kernel counts start ticks and pids afresh.
Reboot ==
  /\ "reboot" \in Faults
  /\ unit' = [u \in Unit |-> Unloaded]
  /\ clock' = 0
  /\ Die
  /\ UNCHANGED <<loaded, members, procs>>

-------------------------------------------------------------------------------
(* The specification *)

Systemd ==
  \E u \in Unit :
    \/ Spawn(u) \/ Started(u) \/ StopAsked(u) \/ Ends(u)
    \/ Enable(u) \/ Disable(u) \/ Unload(u) \/ Load(u)

Tick ==
  \/ BeginTick \/ EndTick
  \/ \E u \in Unit :
       \/ SkipMissing(u) \/ SkipTransitioning(u) \/ SeeMainProcess(u)
       \/ SeeStopped(u) \/ SeeStartFailure(u) \/ SeeNothing(u)
  \/ StatGone \/ ReadStat \/ Close \/ OpenRun \/ RecordMetric \/ RecordEvent

Startup ==
  \/ StartDaemon \/ Reconciled
  \/ \E r \in Run : ReconcileAlive(r) \/ ReconcileGone(r)

Daemon == Startup \/ Tick

Fault ==
  \/ TickFails \/ ReconcileFails \/ Crash \/ Reboot
  \/ \E u \in Unit : TickFailsLooking(u)

Next == Systemd \/ Daemon \/ Fault

Spec == Init /\ [][Next]_vars

\* The daemon is restarted (Restart=on-failure, WantedBy) and its interval timer
\* keeps ticking; systemd, its users and faults are under no obligation.
FairSpec == Spec /\ WF_vars(Daemon)

-------------------------------------------------------------------------------
(* Safety *)

\* A service has at most one run marked running, whatever ticks were cut short.
OneOpenRun == \A u \in Unit : Cardinality(RunsOf(u) \cap Running) <= 1

\* A run is closed only when its process is gone: no snapshot of systemctl show,
\* however old when it is acted upon, ends the run of its service's main process.
ClosedMeansGone ==
  \A r \in Run :
    runs[r] # None /\ r \notin Running => runs[r].proc # unit[runs[r].unit].main

\* A process gets one run, of the service that started it: restarts of the daemon
\* and failed ticks resume it (the uniqueness run_id is for, monitor.rs:5-6).  One
\* whose pid was handed to it between systemctl show and read_stat may get another,
\* of the service that was asked about, and no third.
OneRunPerProcess ==
  \A r \in Run :
    runs[r] # None =>
      /\ runs[r].unit \in {procs[runs[r].proc].unit, procs[runs[r].proc].asked}
      /\ \A s \in Run \ {r} :
           runs[s] # None /\ runs[s].proc = runs[r].proc => runs[s].unit # runs[r].unit

\* A CPU baseline is kept for open runs only, so cpu_samples does not grow with
\* every restart of a service.
SamplesAreOpen == cpuSamples \subseteq Running

\* Start ticks are counted from boot, in the order processes start.
SameBoot(m, n) == procs[n].ticks - procs[m].ticks = n - m

\* What is sampled from /proc is written to the run of that very process, as far
\* as pid and start ticks can tell: within one boot.
MetricsAreTheRunsOwn ==
  pc = "metric" => LET n == runs[view.run].proc IN
                   SameBoot(n, view.proc) => n = view.proc

\* Rows are opened once and ended once, and a run that has ended is history: ticks
\* cut short, restarts and reboots included, no later step touches its row.
Table == INSTANCE RunTable WITH
  open  <- Running,
  ended <- {[run |-> r, row |-> runs[r]] : r \in {q \in Run : runs[q] # None} \ Running}

ImplementsRunTable == Table!Spec

-------------------------------------------------------------------------------
(* Liveness *)

\* What systemd has settled on about a unit of the target.
Watched(u) == u \in members \cap loaded /\ unit[u].state \notin Transitioning

\* The open run of the unit is that of its main process, if it has one.
Agrees(u) ==
  IF unit[u].main = 0 THEN OpenRunOf(u) = None
  ELSE OpenRunOf(u) # None /\ runs[OpenRunOf(u)].proc = unit[u].main

\* The table catches up with every unit that stays in the target and settles.
TableCatchesUp == \A u \in Unit : <>[]Watched(u) => <>[]Agrees(u)

Reported(r) == \E e \in events : e.type = "process_exited_abnormally" /\ e.run = r

\* A run closed as failed gets its event (docs/ARCHITECTURE.md 4.4).
FailedRunsAreReported ==
  \A r \in Run : (runs[r] # None /\ runs[r].result = "failed") ~> Reported(r)

-------------------------------------------------------------------------------
(* What a comment says and the code does not keep *)

\* "在实例结束时写入结束时间与可确认的退出结果，不伪造退出码" (monitor.rs:7): a
\* result other than unknown is that of the run's own process.
ExitIsTheRunsOwn ==
  \A r \in Run :
    runs[r] # None /\ runs[r].result \in {"exited", "failed"} => runs[r].by = runs[r].proc
===============================================================================
