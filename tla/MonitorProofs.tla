---------------------------- MODULE MonitorProofs ----------------------------
(***************************************************************************)
(* The monitor for any number of services, processes and runs, whatever    *)
(* ticks fail and whenever the daemon or the machine goes down.            *)
(*                                                                         *)
(* The daemon acts on what systemctl show said some steps ago.  The        *)
(* inductive invariant therefore says, for every point of a tick, what of  *)
(* that is still true; processes are numbered in the order they start, so  *)
(* a main process newer than the snapshot is newer than every run.         *)
(***************************************************************************)
EXTENDS Monitor, FiniteSetTheorems, TLAPS

-------------------------------------------------------------------------------
(* The inductive invariant *)

OpenRuns(u) == RunsOf(u) \cap Running

\* Processes are numbered in the order they start and are the main process of the
\* unit that started them, if of any; no two that are alive share a pid.
ProcInv ==
  /\ \A u \in Unit : unit[u].main <= Len(procs)
  /\ \A u \in Unit : unit[u].state \in {"inactive", "failed"} => unit[u].main = 0
  /\ \A u, v \in Unit : unit[u].main = unit[v].main /\ unit[u].main # 0 => u = v
  /\ \A u \in Unit : unit[u].main # 0 => procs[unit[u].main].unit = u
  /\ \A m, n \in Alive : procs[m].pid = procs[n].pid => m = n

\* A row carries the pid and start ticks of the process it was opened for.
RowInv ==
  \A r \in Run : runs[r] # None =>
    /\ runs[r].proc \in 1 .. Len(procs)
    /\ SameProcess(r, runs[r].proc)

\* Open runs: one per service, all a reconciliation has left to visit among them.
OpenInv ==
  /\ \A r, s \in Running : runs[r].unit = runs[s].unit => r = s
  /\ pc = "reconcile" => todo \subseteq Running

\* The run view.run is the open run of view.unit, if it has one.
HoldsRun ==
  /\ view.unit \in Unit
  /\ view.run # None => view.run \in OpenRuns(view.unit)

\* Between systemctl show and read_stat: what has the pid now is the process systemd
\* named, or one that was handed the pid since and that no run knows.
StatInv ==
  /\ HoldsRun
  /\ view.run = None => OpenRuns(view.unit) = {}
  /\ view.pid \in Pid
  /\ view.run # None /\ runs[view.run].proc = unit[view.unit].main =>
       runs[view.run].pid = view.pid
  /\ \A n \in StatOf(view.pid) :
       \/ n = unit[view.unit].main
       \/ /\ procs[n].asked = view.unit
          /\ \A r \in Run : runs[r] # None => runs[r].proc # n

\* What read_stat found has no run of this service yet, and is its main process or
\* was handed the pid that systemd had named for it.
NewToService ==
  /\ view.proc \in 1 .. Len(procs)
  /\ view.pid \in Pid
  /\ procs[view.proc].pid = view.pid
  /\ view.unit \in {procs[view.proc].unit, procs[view.proc].asked}
  /\ \A r \in RunsOf(view.unit) : runs[r].proc # view.proc

\* The run about to be closed is not that of the main process, however long ago the
\* snapshot was taken.
CloseInv ==
  /\ HoldsRun
  /\ view.run # None
  /\ runs[view.run].proc # unit[view.unit].main
  /\ view.proc # 0 => NewToService

OpeningInv ==
  /\ view.unit \in Unit
  /\ OpenRuns(view.unit) = {}
  /\ NewToService

MetricInv ==
  /\ view.run \in Running
  /\ view.proc \in 1 .. Len(procs)
  /\ SameProcess(view.run, view.proc)

ViewInv ==
  /\ view.result # "running"
  /\ pc = "stat" => StatInv
  /\ pc = "close" => CloseInv
  /\ pc = "open" => OpeningInv
  /\ pc = "metric" => MetricInv
  /\ pc = "event" => view.unit \in Unit /\ view.event \in EventType

IInv ==
  /\ TypeOK
  /\ ProcInv
  /\ RowInv
  /\ OpenInv
  /\ SamplesAreOpen
  /\ ClosedMeansGone
  /\ OneRunPerProcess
  /\ ViewInv

-------------------------------------------------------------------------------
(* Operators *)

LEMMA NoneIsNone == None \notin Run /\ None \notin RunRow /\ None \notin EventType
BY NoneAssumption

LEMMA NoViewIsView == NoView \in View /\ NoView.result # "running" /\ NoView.run = None
BY BirthsAssumption DEF NoView, View, Process, Result

LEMMA UnloadedIsStatus == Unloaded \in UnitStatus /\ Unloaded.main = 0
BY BirthsAssumption DEF Unloaded, UnitStatus, ActiveState, Exit, Process

LEMMA ElementOfSeq ==
  ASSUME NEW S, NEW s \in Seq(S), NEW i \in 1 .. Len(s)
  PROVE  s[i] \in S
OBVIOUS

\* An open run is a row; so is a closed one.
LEMMA RowsAreRows ==
  ASSUME TypeOK, NEW r \in Run
  PROVE  /\ runs[r] # None <=> runs[r] \in RunRow
         /\ r \in Running <=> runs[r] \in RunRow /\ runs[r].result = "running"
BY NoneIsNone DEF TypeOK, Running

\* open_run_for_service finds the open run of the service whenever there is one.
LEMMA OpenRunOfIsOpen ==
  ASSUME TypeOK, RowInv, OpenInv, NEW u \in Unit
  PROVE  \/ OpenRuns(u) = {} /\ OpenRunOf(u) = None
         \/ OpenRunOf(u) \in OpenRuns(u) /\ OpenRunOf(u) # None
<1>1. CASE OpenRuns(u) = {}
  BY <1>1 DEF OpenRuns, OpenRunOf
<1>2. ASSUME NEW r \in OpenRuns(u)
      PROVE  OpenRunOf(u) \in OpenRuns(u)
  <2>1. \A s \in OpenRuns(u) : s = r
    BY <1>2 DEF OpenInv, OpenRuns, RunsOf
  <2>2. runs[r].proc \in Int
    BY <1>2 DEF RowInv, OpenRuns, Running
  <2>3. \A s \in OpenRuns(u) : runs[s].proc <= runs[r].proc
    BY <2>1, <2>2
  <2>4. OpenRunOf(u) = CHOOSE q \in OpenRuns(u) : \A s \in OpenRuns(u) : runs[s].proc <= runs[q].proc
    BY <1>2 DEF OpenRunOf, OpenRuns
  <2> QED
    BY <1>2, <2>3, <2>4
<1>3. OpenRuns(u) \subseteq Run
  BY DEF OpenRuns, RunsOf
<1> QED
  BY <1>1, <1>2, <1>3, NoneIsNone

-------------------------------------------------------------------------------
(* What systemd, the kernel and whoever operates them may change *)

\* Main processes go, stay, or are younger than every process so far; one that takes
\* over the pid a tick is about to look up was asked for by that tick.
MainsMove ==
  /\ Len(procs') >= Len(procs)
  /\ \A n \in 1 .. Len(procs) : procs'[n] = procs[n]
  /\ \A u \in Unit : unit'[u].main \in {0, unit[u].main, Len(procs) + 1}
  /\ pc = "stat" => \A n \in Alive' \ 1 .. Len(procs) :
       procs'[n].pid = view.pid => procs'[n].asked = view.unit

\* The conjuncts of TypeOK about sysVars.
SysTypeOK ==
  /\ unit \in [Unit -> UnitStatus]
  /\ loaded \subseteq Unit
  /\ members \subseteq Unit
  /\ procs \in Seq(Proc) /\ Len(procs) <= Births
  /\ clock \in Nat

LEMMA NoBirthMoves ==
  ASSUME TypeOK, ProcInv, procs' = procs, unit' \in [Unit -> UnitStatus],
         \A u \in Unit : unit'[u].main \in {0, unit[u].main},
         \A u \in Unit : unit'[u].state \in {"inactive", "failed"} => unit'[u].main = 0
  PROVE  MainsMove /\ ProcInv'
<1>1. Len(procs) \in Nat
  BY DEF TypeOK
<1>2. MainsMove
  <2>1. Alive' \subseteq 1 .. Len(procs)
    BY <1>1, BirthsAssumption DEF Alive, ProcInv, TypeOK, UnitStatus, Process
  <2> QED
    BY <1>1, <2>1 DEF MainsMove
<1>3. \A u \in Unit : unit'[u].main <= Len(procs')
  BY <1>1 DEF ProcInv, TypeOK, UnitStatus
<1>4. \A u, v \in Unit : unit'[u].main = unit'[v].main /\ unit'[u].main # 0 => u = v
  BY DEF ProcInv
<1>5. /\ Alive' \subseteq Alive
      /\ \A u \in Unit : unit'[u].main # 0 => procs'[unit'[u].main].unit = u
  BY DEF Alive, ProcInv
<1>6. \A m, n \in Alive' : procs'[m].pid = procs'[n].pid => m = n
  BY <1>5 DEF ProcInv
<1> QED
  BY <1>2, <1>3, <1>4, <1>5, <1>6 DEF ProcInv

LEMMA SpawnMoves ==
  ASSUME TypeOK, ProcInv, NEW u \in Unit, Spawn(u)
  PROVE  SysTypeOK' /\ MainsMove /\ ProcInv'
<1> DEFINE n == Len(procs) + 1
<1> DEFINE proc(pid) == [pid |-> pid, ticks |-> clock + 1, unit |-> u,
                         asked |-> IF pc = "stat" /\ pid = view.pid
                                     THEN view.unit ELSE None]
<1>1. PICK pid \in FreePids : procs' = Append(procs, proc(pid))
  BY DEF Spawn
<1>2. PICK s \in {"activating", "active"} :
        unit' = [unit EXCEPT ![u] = [Unloaded EXCEPT !.state = s, !.main = Len(procs')]]
  BY DEF Spawn
<1>3. pid \in Pid /\ \A m \in Alive : procs[m].pid # pid
  BY <1>1 DEF FreePids
<1>4. Len(procs) \in Nat /\ Len(procs) < Births /\ procs \in Seq(Proc)
  BY DEF TypeOK, Spawn
<1>5. /\ proc(pid) \in Proc
      /\ proc(pid).pid = pid /\ proc(pid).unit = u
      /\ pc = "stat" /\ pid = view.pid => proc(pid).asked = view.unit
  BY <1>3 DEF TypeOK, View, Proc
<1> HIDE DEF proc
<1>6. /\ procs' \in Seq(Proc)
      /\ Len(procs') = n
      /\ procs'[n] = proc(pid)
      /\ \A m \in 1 .. Len(procs) : procs'[m] = procs[m]
  BY <1>1, <1>4, <1>5
<1>7. n \in Process
  BY <1>4, BirthsAssumption DEF Process
<1>8. /\ unit'[u] = [Unloaded EXCEPT !.state = s, !.main = n]
      /\ \A v \in Unit \ {u} : unit'[v] = unit[v]
  BY <1>2, <1>6 DEF TypeOK
<1>9. unit'[u].main = n /\ unit'[u].state = s /\ unit'[u] \in UnitStatus
  BY <1>7, <1>8, UnloadedIsStatus DEF Unloaded, UnitStatus, ActiveState, Transitioning
<1>10. unit' \in [Unit -> UnitStatus]
  BY <1>2, <1>8, <1>9 DEF TypeOK
<1>11. SysTypeOK'
  <2>1. loaded' \subseteq Unit /\ members' \subseteq Unit /\ clock' \in Nat
    BY DEF Spawn, TypeOK
  <2>2. Len(procs') <= Births
    BY <1>4, <1>6, BirthsAssumption
  <2> QED
    BY <1>6, <1>10, <2>1, <2>2 DEF SysTypeOK
<1>12. \A v \in Unit : unit'[v].main = IF v = u THEN n ELSE unit[v].main
  BY <1>8, <1>9
<1>13. \A v \in Unit : unit[v].main \in Nat /\ unit[v].main <= Len(procs)
  BY BirthsAssumption DEF TypeOK, UnitStatus, Process, ProcInv
<1>14. n \in Nat /\ n > Len(procs)
  BY <1>4
<1> HIDE DEF n
<1>15. MainsMove
  <2>1. \A v \in Unit : unit'[v].main \in {0, unit[v].main, n}
    BY <1>12
  <2>2. \A m \in Alive' \ 1 .. Len(procs) : m = n
    BY <1>12, <1>13 DEF Alive
  <2> QED
    BY <1>4, <1>5, <1>6, <1>14, <2>1, <2>2 DEF MainsMove, n
<1>16. \A v \in Unit : unit'[v].main <= Len(procs')
  BY <1>4, <1>6, <1>12, <1>13, <1>14
<1>17. \A v \in Unit : unit'[v].state \in {"inactive", "failed"} => unit'[v].main = 0
  BY <1>8, <1>9 DEF ProcInv
<1>18. \A v, w \in Unit : unit'[v].main = unit'[w].main /\ unit'[v].main # 0 => v = w
  <2>1. \A v \in Unit : unit[v].main # n
    BY <1>4, <1>13, <1>14
  <2> QED
    BY <1>12, <2>1 DEF ProcInv
<1>19. \A m \in Alive' : m = n \/ m \in Alive
  BY <1>12 DEF Alive
<1>20. \A m \in Alive : m \in 1 .. Len(procs)
  BY <1>4, <1>13 DEF Alive
<1>21. \A m, q \in Alive' : procs'[m].pid = procs'[q].pid => m = q
  BY <1>3, <1>5, <1>6, <1>19, <1>20 DEF ProcInv
<1>22. \A v \in Unit : unit'[v].main # 0 => procs'[unit'[v].main].unit = v
  BY <1>4, <1>5, <1>6, <1>12, <1>13 DEF ProcInv
<1> QED
  BY <1>11, <1>15, <1>16, <1>17, <1>18, <1>21, <1>22 DEF ProcInv

LEMMA SystemdMoves ==
  ASSUME TypeOK, ProcInv, Systemd \/ Reboot
  PROVE  SysTypeOK' /\ MainsMove /\ ProcInv'
<1>1. CASE Reboot
  <2>1. unit' = [u \in Unit |-> Unloaded] /\ procs' = procs
    BY <1>1 DEF Reboot
  <2>2. unit' \in [Unit -> UnitStatus] /\ \A u \in Unit : unit'[u].main = 0
    BY <2>1, UnloadedIsStatus
  <2> QED
    BY <1>1, <2>1, <2>2, NoBirthMoves DEF Reboot, SysTypeOK, TypeOK
<1>2. ASSUME NEW u \in Unit, Spawn(u)
      PROVE  SysTypeOK' /\ MainsMove /\ ProcInv'
  BY <1>2, SpawnMoves
<1>3. ASSUME NEW u \in Unit,
             \/ Started(u) \/ StopAsked(u) \/ Ends(u)
             \/ Enable(u) \/ Disable(u) \/ Unload(u) \/ Load(u)
      PROVE  SysTypeOK' /\ MainsMove /\ ProcInv'
  <2>1. /\ procs' = procs /\ clock' = clock
        /\ loaded' \subseteq Unit /\ members' \subseteq Unit
    BY <1>3 DEF Started, StopAsked, Ends, Enable, Disable, Unload, Load, TypeOK
  <2>2. unit[u] \in UnitStatus
    BY DEF TypeOK
  <2>3. /\ unit' \in [Unit -> UnitStatus]
        /\ \A v \in Unit \ {u} : unit'[v] = unit[v]
        /\ unit'[u].main \in {0, unit[u].main}
        /\ unit'[u].state \in {"inactive", "failed"} => unit'[u].main = 0
    <3>1. CASE Started(u)
      <4>1. [unit[u] EXCEPT !.state = "active"] \in UnitStatus
        BY <2>2 DEF UnitStatus, ActiveState
      <4> QED
        BY <3>1, <2>2, <4>1 DEF Started, TypeOK, UnitStatus
    <3>2. CASE StopAsked(u)
      <4> DEFINE s == IF unit[u].main = 0 THEN "inactive" ELSE "deactivating"
      <4>1. [unit[u] EXCEPT !.state = s] \in UnitStatus
        BY <2>2 DEF UnitStatus, ActiveState, Transitioning
      <4> QED
        BY <3>2, <2>2, <4>1 DEF StopAsked, TypeOK, UnitStatus
    <3>3. CASE Ends(u)
      <4>1. PICK exit \in {"clean", "bad", "lost"},
                 s \in {"inactive", "failed", "activating", "active"} :
              unit' = [unit EXCEPT ![u].state = s, ![u].main = 0, ![u].exit = exit,
                                   ![u].of = unit[u].main]
        BY <3>3 DEF Ends
      <4> DEFINE ended == [unit[u] EXCEPT !.state = s, !.main = 0, !.exit = exit,
                                            !.of = unit[u].main]
      <4>2. unit' = [unit EXCEPT ![u] = ended]
        BY <4>1 DEF TypeOK
      <4>3. s \in ActiveState /\ 0 \in Process /\ exit \in Exit
        BY BirthsAssumption DEF ActiveState, Transitioning, Process, Exit
      <4>4. ended \in UnitStatus /\ ended.main = 0
        BY <2>2, <4>3 DEF UnitStatus
      <4> HIDE DEF ended
      <4> QED
        BY <4>2, <4>4 DEF TypeOK
    <3>4. CASE Unload(u)
      BY <3>4, UnloadedIsStatus DEF Unload, TypeOK
    <3>5. CASE Enable(u) \/ Disable(u) \/ Load(u)
      BY <3>5 DEF Enable, Disable, Load, TypeOK, ProcInv
    <3> QED
      BY <1>3, <3>1, <3>2, <3>3, <3>4, <3>5
  <2>4. \A v \in Unit : /\ unit'[v].main \in {0, unit[v].main}
                        /\ unit'[v].state \in {"inactive", "failed"} => unit'[v].main = 0
    BY <2>3 DEF ProcInv
  <2> QED
    BY <2>1, <2>3, <2>4, NoBirthMoves DEF SysTypeOK, TypeOK
<1> QED
  BY <1>1, <1>2, <1>3 DEF Systemd

\* No step of systemd makes the process of a closed run a main process again.
LEMMA MovesKeepRows ==
  ASSUME TypeOK, RowInv, MainsMove, runs' = runs
  PROVE  /\ RowInv'
         /\ ClosedMeansGone => ClosedMeansGone'
         /\ OneRunPerProcess => OneRunPerProcess'
         /\ \A r \in Run : runs[r] # None /\ runs[r].proc # unit[runs[r].unit].main =>
              runs[r].proc # unit'[runs[r].unit].main
<1>1. Len(procs) \in Nat /\ Len(procs') \in Int
  BY DEF TypeOK, MainsMove
<1>2. ASSUME NEW r \in Run, runs[r] # None
      PROVE  /\ runs[r] \in RunRow
             /\ runs[r].unit \in Unit
             /\ runs[r].proc \in 1 .. Len(procs)
  BY <1>2, RowsAreRows DEF RunRow, RowInv
<1>3. RowInv'
  <2>1. \A r \in Run : runs[r] # None => procs'[runs[r].proc] = procs[runs[r].proc]
    BY <1>2 DEF MainsMove
  <2>2. \A r \in Run : runs[r] # None => runs[r].proc \in 1 .. Len(procs')
    BY <1>1, <1>2 DEF MainsMove
  <2> QED
    BY <2>1, <2>2 DEF RowInv, SameProcess
<1>4. \A r \in Run : runs[r] # None /\ runs[r].proc # unit[runs[r].unit].main =>
        runs[r].proc # unit'[runs[r].unit].main
  BY <1>1, <1>2 DEF MainsMove
<1>5. ClosedMeansGone => ClosedMeansGone'
  BY <1>4 DEF ClosedMeansGone, Running
<1>6. OneRunPerProcess => OneRunPerProcess'
  <2>1. \A r \in Run : runs[r] # None => procs'[runs[r].proc] = procs[runs[r].proc]
    BY <1>2 DEF MainsMove
  <2> QED
    BY <2>1 DEF OneRunPerProcess
<1> QED
  BY <1>3, <1>4, <1>5, <1>6

\* What the tick knows about its unit stays as true as it was.
LEMMA MovesKeepView ==
  ASSUME TypeOK, ProcInv, RowInv, MainsMove, runs' = runs, ViewInv,
         view' = view, pc' = pc
  PROVE  ViewInv'
<1>1. OpenRuns(view.unit)' = OpenRuns(view.unit) /\ Running' = Running
  BY DEF OpenRuns, RunsOf, Running
<1>2. HoldsRun => HoldsRun'
  BY <1>1 DEF HoldsRun
<1>3. Len(procs) \in Nat /\ Len(procs') \in Int /\ Len(procs) <= Len(procs')
  BY DEF TypeOK, MainsMove
<1>4. ASSUME NEW r \in Run, runs[r] # None
      PROVE  /\ runs[r].proc \in 1 .. Len(procs)
             /\ runs[r].unit \in Unit
  BY <1>4, RowsAreRows DEF RunRow, RowInv
<1>5. \A u \in Unit : unit[u].main \in 0 .. Len(procs)
  BY BirthsAssumption DEF TypeOK, UnitStatus, Process, ProcInv
<1>6. ASSUME StatInv, pc = "stat"
      PROVE  StatInv'
  <2>1. ASSUME NEW n \in StatOf(view.pid)'
        PROVE  \/ n = unit'[view.unit].main
               \/ /\ procs'[n].asked = view.unit
                  /\ \A r \in Run : runs[r] # None => runs[r].proc # n
    <3>1. PICK u \in Unit : n = unit'[u].main /\ n # 0 /\ procs'[n].pid = view.pid
      BY <2>1 DEF StatOf, Alive
    <3>2. CASE n = Len(procs) + 1
      <4>1. n \in Alive' \ 1 .. Len(procs)
        BY <1>3, <2>1, <3>2 DEF StatOf
      <4> QED
        BY <1>3, <1>4, <1>6, <3>1, <3>2, <4>1 DEF MainsMove
    <3>3. CASE n = unit[u].main
      <4>1. n \in 1 .. Len(procs)
        BY <1>3, <1>5, <3>1, <3>3
      <4>2. n \in StatOf(view.pid)
        BY <3>1, <3>3, <4>1 DEF StatOf, Alive, MainsMove
      <4>3. view.unit \in Unit
        BY <1>6 DEF StatInv, HoldsRun
      <4>4. n = unit[view.unit].main => u = view.unit
        BY <3>1, <3>3, <4>3 DEF ProcInv
      <4> QED
        BY <1>6, <3>1, <4>1, <4>2, <4>4 DEF StatInv, MainsMove
    <3> QED
      BY <3>1, <3>2, <3>3 DEF MainsMove
  <2>2. view.run # None => view.run \in Run /\ runs[view.run] # None
                            /\ runs[view.run].unit = view.unit
    BY <1>6 DEF StatInv, HoldsRun, OpenRuns, RunsOf
  <2>3. view.run # None /\ runs[view.run].proc = unit'[view.unit].main =>
          runs[view.run].pid = view.pid
    <3>1. view.unit \in Unit
      BY <1>6 DEF StatInv, HoldsRun
    <3>2. view.run # None => runs[view.run].proc \in 1 .. Len(procs)
      BY <1>4, <2>2
    <3>3. view.run # None /\ runs[view.run].proc = unit'[view.unit].main =>
            runs[view.run].proc = unit[view.unit].main
      BY <1>3, <3>1, <3>2 DEF MainsMove
    <3> QED
      BY <1>6, <3>3 DEF StatInv
  <2> QED
    BY <1>1, <1>2, <1>6, <2>1, <2>3 DEF StatInv
<1>7. NewToService => NewToService'
  <2>1. RunsOf(view.unit)' = RunsOf(view.unit)
    BY DEF RunsOf
  <2>2. view.proc \in 1 .. Len(procs) =>
          view.proc \in 1 .. Len(procs') /\ procs'[view.proc] = procs[view.proc]
    BY <1>3 DEF MainsMove
  <2> QED
    BY <2>1, <2>2 DEF NewToService
<1>8. CloseInv => CloseInv'
  <2>1. CloseInv => view.run \in Run /\ runs[view.run] # None
                    /\ runs[view.run].unit = view.unit
    BY DEF CloseInv, HoldsRun, OpenRuns, RunsOf
  <2>2. CloseInv => runs[view.run].proc # unit'[view.unit].main
    BY <2>1, MovesKeepRows DEF CloseInv
  <2> QED
    BY <1>2, <1>7, <2>2 DEF CloseInv
<1>9. OpeningInv => OpeningInv'
  BY <1>1, <1>7 DEF OpeningInv
<1>10. MetricInv => MetricInv'
  <2>1. view.proc \in 1 .. Len(procs) =>
          view.proc \in 1 .. Len(procs') /\ procs'[view.proc] = procs[view.proc]
    BY <1>3 DEF MainsMove
  <2> QED
    BY <1>1, <2>1 DEF MetricInv, SameProcess
<1> QED
  BY <1>6, <1>8, <1>9, <1>10 DEF ViewInv

-------------------------------------------------------------------------------
(* What the daemon writes *)

\* close_run of an open run changes that row only, and for good.
LEMMA ClosingEnds ==
  ASSUME TypeOK, NEW r \in Running, NEW result \in Result \ {"running"},
         NEW by \in Process, CloseRun(r, result, by)
  PROVE  /\ runs' \in [Run -> RunRow \cup {None}]
         /\ runs'[r] # None
         /\ \A q \in Run \ {r} : runs'[q] = runs[q]
         /\ Running' = Running \ {r}
         /\ \A q \in Run : /\ runs'[q] # None <=> runs[q] # None
                           /\ runs[q] # None =>
                                /\ runs'[q].unit = runs[q].unit
                                /\ runs'[q].proc = runs[q].proc
                                /\ runs'[q].pid = runs[q].pid
                                /\ runs'[q].ticks = runs[q].ticks
<1> DEFINE row == [runs[r] EXCEPT !.result = result, !.by = by]
<1>1. runs[r] \in RunRow /\ r \in Run /\ runs[r] # None
  BY RowsAreRows DEF Running
<1>2. runs' = [runs EXCEPT ![r] = row]
  BY DEF CloseRun, TypeOK
<1>3. /\ row \in RunRow /\ row # None
      /\ row.result = result
      /\ row.unit = runs[r].unit /\ row.proc = runs[r].proc
      /\ row.pid = runs[r].pid /\ row.ticks = runs[r].ticks
  BY <1>1, NoneIsNone DEF RunRow
<1> HIDE DEF row
<1>4. runs' \in [Run -> RunRow \cup {None}] /\ runs'[r] = row
      /\ \A q \in Run \ {r} : runs'[q] = runs[q]
  BY <1>1, <1>2, <1>3 DEF TypeOK
<1>5. Running' = Running \ {r}
  BY <1>1, <1>3, <1>4 DEF Running
<1> QED
  BY <1>1, <1>3, <1>4, <1>5

\* close_run, of any open run but that of its service's main process.
LEMMA CloseRunKeeps ==
  ASSUME TypeOK, RowInv, OpenInv, ClosedMeansGone, OneRunPerProcess,
         NEW r \in Running, NEW result \in Result \ {"running"}, NEW by \in Process,
         CloseRun(r, result, by), UNCHANGED sysVars,
         runs[r].proc # unit[runs[r].unit].main
  PROVE  /\ runs' \in [Run -> RunRow \cup {None}]
         /\ Running' = Running \ {r}
         /\ \A u \in Unit : OpenRuns(u)' = OpenRuns(u) \ {r} /\ RunsOf(u)' = RunsOf(u)
         /\ \A q \in Run : runs[q] # None => runs'[q].proc = runs[q].proc
         /\ \A q, s \in Running' : runs'[q].unit = runs'[s].unit => q = s
         /\ RowInv' /\ ClosedMeansGone' /\ OneRunPerProcess'
<1>1. /\ runs' \in [Run -> RunRow \cup {None}]
      /\ Running' = Running \ {r}
      /\ \A q \in Run \ {r} : runs'[q] = runs[q]
      /\ \A q \in Run : /\ runs'[q] # None <=> runs[q] # None
                        /\ runs[q] # None =>
                             /\ runs'[q].unit = runs[q].unit /\ runs'[q].proc = runs[q].proc
                             /\ runs'[q].pid = runs[q].pid /\ runs'[q].ticks = runs[q].ticks
  BY ClosingEnds
<1>2. ASSUME NEW u \in Unit
      PROVE  OpenRuns(u)' = OpenRuns(u) \ {r} /\ RunsOf(u)' = RunsOf(u)
  <2>1. RunsOf(u)' = RunsOf(u)
    BY <1>1 DEF RunsOf
  <2> QED
    BY <1>1, <2>1 DEF OpenRuns
<1>3. RowInv'
  BY <1>1 DEF RowInv, SameProcess, sysVars
<1>4. ClosedMeansGone'
  BY <1>1 DEF ClosedMeansGone, sysVars, Running
<1>5. OneRunPerProcess'
  BY <1>1 DEF OneRunPerProcess, sysVars
<1>6. \A q, s \in Running' : runs'[q].unit = runs'[s].unit => q = s
  BY <1>1 DEF OpenInv, Running
<1> QED
  BY <1>1, <1>2, <1>3, <1>4, <1>5, <1>6

\* open_run, when the service has no open run and none of this process.
LEMMA OpenRunKeeps ==
  ASSUME TypeOK, RowInv, OpenInv, ClosedMeansGone, OneRunPerProcess,
         OpeningInv, OpenRun
  PROVE  \E r \in Run :
         /\ runs[r] = None /\ r \notin Running
         /\ runs' \in [Run -> RunRow \cup {None}]
         /\ runs'[r] # None /\ runs'[r].unit = view.unit
         /\ \A q \in Run \ {r} : runs'[q] = runs[q]
         /\ Running' = Running \cup {r}
         /\ view' = [view EXCEPT !.run = r]
         /\ MetricInv'
         /\ \A q, s \in Running' : runs'[q].unit = runs'[s].unit => q = s
         /\ RowInv' /\ ClosedMeansGone' /\ OneRunPerProcess'
<1> DEFINE row == [unit |-> view.unit, pid |-> view.pid,
                   ticks |-> procs[view.proc].ticks, result |-> "running",
                   proc |-> view.proc, by |-> 0]
<1>1. PICK r \in Run : /\ runs[r] = None
                       /\ runs' = [runs EXCEPT ![r] = row]
                       /\ view' = [view EXCEPT !.run = r]
  BY DEF OpenRun
<1>2. /\ view.unit \in Unit /\ view.pid \in Pid /\ view.proc \in 1 .. Len(procs)
      /\ procs[view.proc].pid = view.pid
  BY DEF OpeningInv, NewToService
<1>3. Len(procs) \in Nat /\ Len(procs) <= Births /\ procs \in Seq(Proc)
  BY DEF TypeOK
<1>4. view.proc \in Process /\ 0 \in Process
  BY <1>2, <1>3, BirthsAssumption DEF Process
<1>5. procs[view.proc].ticks \in Nat
  <2>1. procs[view.proc] \in Proc
    BY <1>2, <1>3, ElementOfSeq
  <2> QED
    BY <2>1 DEF Proc
<1>6. row \in RunRow /\ row # None
  BY <1>2, <1>4, <1>5, NoneIsNone DEF RunRow, Result
<1>7. /\ row.unit = view.unit /\ row.pid = view.pid /\ row.proc = view.proc
      /\ row.ticks = procs[view.proc].ticks /\ row.result = "running"
  OBVIOUS
<1> HIDE DEF row
<1>8. runs' \in [Run -> RunRow \cup {None}] /\ runs'[r] = row
      /\ \A q \in Run \ {r} : runs'[q] = runs[q]
  BY <1>1, <1>6 DEF TypeOK
<1>9. r \notin Running /\ Running' = Running \cup {r}
  BY <1>1, <1>6, <1>7, <1>8 DEF Running
<1>10. \A q \in Running : q # r /\ runs'[q] = runs[q] /\ runs[q].unit # view.unit
  BY <1>1, <1>8 DEF Running, OpeningInv, OpenRuns, RunsOf
<1>11. \A q, s \in Running' : runs'[q].unit = runs'[s].unit => q = s
  BY <1>7, <1>8, <1>9, <1>10 DEF OpenInv
<1>12. procs' = procs /\ unit' = unit
  BY DEF OpenRun, sysVars
<1>13. RowInv'
  BY <1>2, <1>7, <1>8, <1>12 DEF RowInv, SameProcess
<1>14. ClosedMeansGone'
  BY <1>8, <1>9, <1>12 DEF ClosedMeansGone
<1>15. OneRunPerProcess'
  <2>1. /\ runs'[r].unit \in {procs[view.proc].unit, procs[view.proc].asked}
        /\ runs'[r].proc = view.proc /\ runs'[r].unit = view.unit
    BY <1>7, <1>8 DEF OpeningInv, NewToService
  <2>2. \A q \in Run \ {r} : runs'[q] # None /\ runs'[q].proc = view.proc =>
                             runs'[q].unit # view.unit
    BY <1>8 DEF OpeningInv, NewToService, RunsOf
  <2> QED
    BY <1>8, <1>12, <2>1, <2>2 DEF OneRunPerProcess
<1>16. MetricInv'
  <2>1. view'.run = r /\ view'.proc = view.proc
    BY <1>1 DEF TypeOK, View
  <2> QED
    BY <1>2, <1>7, <1>8, <1>9, <1>12, <2>1 DEF MetricInv, SameProcess
<1> QED
  BY <1>1, <1>6, <1>7, <1>8, <1>9, <1>11, <1>13, <1>14, <1>15, <1>16

-------------------------------------------------------------------------------
(* The invariant holds *)

\* The conjuncts of IInv about rows and processes, which most steps leave alone.
RowsOK ==
  /\ SysTypeOK
  /\ runs \in [Run -> RunRow \cup {None}]
  /\ ProcInv
  /\ RowInv
  /\ \A r, s \in Running : runs[r].unit = runs[s].unit => r = s
  /\ ClosedMeansGone
  /\ OneRunPerProcess

\* The conjuncts about what the daemon has in hand.
HandOK ==
  /\ events \subseteq EventRow
  /\ pc \in {"down", "reconcile", "idle"} \cup Ticking
  /\ todo \subseteq (IF pc = "reconcile" THEN Running ELSE Unit)
  /\ view \in View
  /\ lastActive \in [Unit -> ActiveState \cup {None}]
  /\ cpuSamples \subseteq Running
  /\ ViewInv

LEMMA RowsAndHand == IInv <=> RowsOK /\ HandOK
<1>1. Running \subseteq Run
  BY DEF Running
<1> QED
  BY <1>1 DEF IInv, RowsOK, HandOK, SysTypeOK, TypeOK, OpenInv, SamplesAreOpen

LEMMA RowsStay ==
  ASSUME RowsOK, UNCHANGED sysVars, runs' = runs
  PROVE  RowsOK' /\ Running' = Running
BY DEF RowsOK, SysTypeOK, sysVars, ProcInv, Alive, RowInv, SameProcess, Running,
       ClosedMeansGone, OneRunPerProcess

\* Nothing in hand: the view is empty wherever no unit is being visited.
LEMMA EmptyHanded ==
  ASSUME IInv, Running' = Running, events' = events,
         pc' \in {"down", "reconcile", "idle", "next"},
         todo' \subseteq (IF pc' = "reconcile" THEN Running ELSE Unit),
         view' = NoView \/ view' = view,
         lastActive' \in [Unit -> ActiveState \cup {None}],
         cpuSamples' \subseteq Running
  PROVE  HandOK'
<1>1. view' \in View /\ view'.result # "running"
  BY NoViewIsView DEF IInv, TypeOK, ViewInv
<1>2. ViewInv'
  BY <1>1 DEF ViewInv
<1> QED
  BY <1>1, <1>2 DEF IInv, TypeOK, HandOK, Ticking

\* A step of a visit: the rows are right, and so is what the tick holds.
LEMMA InHand ==
  ASSUME IInv, RowsOK', UNCHANGED <<events, todo, lastActive>>,
         pc \in Ticking, pc' \in Ticking,
         view' \in View, cpuSamples' \subseteq Running', ViewInv'
  PROVE  IInv'
<1>1. HandOK'
  BY DEF HandOK, IInv, TypeOK, Ticking
<1> QED
  BY <1>1, RowsAndHand, PTL

LEMMA InitInv == Init => IInv
<1> SUFFICES ASSUME Init
             PROVE  IInv
  OBVIOUS
<1> USE DEF Init
<1>1. unit \in [Unit -> UnitStatus] /\ \A u \in Unit : unit[u].main = 0
  BY UnloadedIsStatus
<1>2. \A r \in Run : runs[r] = None
  OBVIOUS
<1>3. Running = {} /\ Alive = {}
  BY <1>1, <1>2 DEF Running, Alive
<1>4. SysTypeOK
  BY <1>1, BirthsAssumption DEF SysTypeOK
<1>5. RowsOK
  BY <1>1, <1>2, <1>3, <1>4 DEF RowsOK, ProcInv, RowInv, ClosedMeansGone, OneRunPerProcess
<1>6. HandOK
  BY NoViewIsView DEF HandOK, ViewInv
<1> QED
  BY <1>5, <1>6, RowsAndHand

LEMMA SystemdKeeps ==
  ASSUME IInv, Systemd
  PROVE  IInv'
<1>1. SysTypeOK' /\ MainsMove /\ ProcInv'
  BY SystemdMoves DEF IInv
<1>2. UNCHANGED <<dbVars, daemonVars>>
  BY DEF Systemd, Spawn, Started, StopAsked, Ends, Enable, Disable, Unload, Load
<1>3. runs' = runs /\ pc' = pc /\ view' = view /\ todo' = todo /\ events' = events
      /\ lastActive' = lastActive /\ cpuSamples' = cpuSamples
  BY <1>2 DEF dbVars, daemonVars
<1>4. RowInv' /\ ClosedMeansGone' /\ OneRunPerProcess'
  BY <1>1, <1>3, MovesKeepRows DEF IInv
<1>5. ViewInv'
  BY <1>1, <1>3, MovesKeepView DEF IInv
<1>6. Running' = Running
  BY <1>3 DEF Running
<1>7. RowsOK'
  BY <1>1, <1>3, <1>4, <1>6 DEF RowsOK, IInv, TypeOK, OpenInv
<1>8. HandOK'
  BY <1>3, <1>5, <1>6, RowsAndHand DEF HandOK
<1> QED
  BY <1>7, <1>8, RowsAndHand, PTL

\* The daemon comes up, goes down, or only turns its loop.
LEMMA TurnsKeep ==
  ASSUME IInv,
         \/ StartDaemon \/ Reconciled \/ BeginTick \/ EndTick \/ StatGone
         \/ ReconcileFails \/ Crash
  PROVE  IInv'
<1>1. UNCHANGED sysVars /\ runs' = runs /\ events' = events
  BY DEF StartDaemon, Reconciled, BeginTick, EndTick, StatGone, ReconcileFails, Crash, Die, dbVars
<1>2. RowsOK' /\ Running' = Running
  BY <1>1, RowsAndHand, RowsStay
<1>3. view' = NoView \/ view' = view
  BY DEF StartDaemon, Reconciled, BeginTick, EndTick, StatGone, ReconcileFails, Crash, Die,
     Forget, Continue
<1>4. /\ pc' \in {"down", "reconcile", "idle", "next"}
      /\ todo' \subseteq (IF pc' = "reconcile" THEN Running ELSE Unit)
  BY DEF StartDaemon, Reconciled, BeginTick, EndTick, StatGone, ReconcileFails, Crash, Die,
     Continue, IInv, TypeOK
<1>5. \/ lastActive' = lastActive /\ cpuSamples' = cpuSamples
      \/ lastActive' = [u \in Unit |-> None] /\ cpuSamples' = {}
  BY DEF StartDaemon, Reconciled, BeginTick, EndTick, StatGone, ReconcileFails, Crash, Die,
     Forget, Continue, memVars
<1>6. lastActive' \in [Unit -> ActiveState \cup {None}] /\ cpuSamples' \subseteq Running
  BY <1>5 DEF IInv, TypeOK, SamplesAreOpen
<1>7. HandOK'
  BY <1>1, <1>2, <1>3, <1>4, <1>6, EmptyHanded
<1> QED
  BY <1>2, <1>7, RowsAndHand, PTL

LEMMA RebootKeeps ==
  ASSUME IInv, Reboot
  PROVE  IInv'
<1>1. SysTypeOK' /\ MainsMove /\ ProcInv'
  BY SystemdMoves DEF IInv
<1>2. runs' = runs /\ events' = events
  BY DEF Reboot, Die, dbVars
<1>3. RowInv' /\ ClosedMeansGone' /\ OneRunPerProcess' /\ Running' = Running
  BY <1>1, <1>2, MovesKeepRows DEF IInv, Running
<1>4. RowsOK'
  BY <1>1, <1>2, <1>3 DEF RowsOK, IInv, TypeOK, OpenInv
<1>5. HandOK'
  BY <1>2, <1>3, EmptyHanded DEF Reboot, Die, Forget
<1> QED
  BY <1>4, <1>5, RowsAndHand, PTL

LEMMA ReconcileKeeps ==
  ASSUME IInv, NEW r \in Run, ReconcileAlive(r) \/ ReconcileGone(r)
  PROVE  IInv'
<1>1. /\ pc = "reconcile" /\ pc' = pc /\ r \in todo /\ todo' = todo \ {r}
      /\ view' = view /\ lastActive' = lastActive /\ events' = events
      /\ UNCHANGED sysVars
  BY DEF ReconcileAlive, ReconcileGone, dbVars
<1>2. r \in Running /\ todo \subseteq Running
  BY <1>1 DEF IInv, OpenInv
<1>3. CASE ReconcileAlive(r)
  <2>1. RowsOK' /\ Running' = Running
    BY <1>1, <1>3, RowsAndHand, RowsStay DEF ReconcileAlive, dbVars
  <2>2. HandOK'
    BY <1>1, <1>2, <1>3, <2>1, EmptyHanded DEF ReconcileAlive, IInv, TypeOK, SamplesAreOpen
  <2> QED
    BY <2>1, <2>2, RowsAndHand, PTL
<1>4. CASE ReconcileGone(r)
  <2>1. runs[r].proc # unit[runs[r].unit].main
    <3>1. runs[r] # None /\ runs[r].proc \in 1 .. Len(procs) /\ SameProcess(r, runs[r].proc)
      BY <1>2 DEF IInv, RowInv, Running
    <3>2. runs[r].unit \in Unit
      BY <3>1, RowsAreRows DEF IInv, RunRow
    <3>3. runs[r].proc = unit[runs[r].unit].main => runs[r].proc \in StatOf(runs[r].pid)
      BY <3>1, <3>2 DEF StatOf, Alive, SameProcess
    <3> QED
      BY <1>4, <3>1, <3>3 DEF ReconcileGone
  <2>2. "unknown" \in Result \ {"running"} /\ 0 \in Process /\ CloseRun(r, "unknown", 0)
    BY <1>4, BirthsAssumption DEF ReconcileGone, Result, Process
  <2>3. /\ runs' \in [Run -> RunRow \cup {None}]
        /\ Running' = Running \ {r}
        /\ \A q, s \in Running' : runs'[q].unit = runs'[s].unit => q = s
        /\ RowInv' /\ ClosedMeansGone' /\ OneRunPerProcess'
    BY <1>1, <1>2, <2>1, <2>2, CloseRunKeeps DEF IInv
  <2>4. SysTypeOK' /\ ProcInv'
    BY <1>1 DEF IInv, TypeOK, SysTypeOK, ProcInv, Alive, sysVars
  <2>5. RowsOK'
    BY <2>3, <2>4 DEF RowsOK
  <2>6. ViewInv'
    BY <1>1, RowsAndHand DEF HandOK, ViewInv
  <2>7. HandOK'
    <3>1. cpuSamples' = cpuSamples \ {r}
      BY <1>4 DEF ReconcileGone
    <3>2. cpuSamples' \subseteq Running' /\ todo' \subseteq Running'
      BY <1>1, <1>2, <2>3, <3>1 DEF IInv, SamplesAreOpen
    <3> QED
      BY <1>1, <2>6, <3>2, RowsAndHand DEF HandOK
  <2> QED
    BY <2>5, <2>7, RowsAndHand, PTL
<1> QED
  BY <1>3, <1>4

-------------------------------------------------------------------------------
(* The tick, unit by unit *)

\* What every visit does.
LEMMA VisitFrame ==
  ASSUME IInv, NEW u \in Unit, Visit(u)
  PROVE  /\ pc = "next" /\ u \in todo /\ todo' = todo \ {u} /\ todo' \subseteq Unit
         /\ cpuSamples' = cpuSamples /\ events' = events /\ runs' = runs
         /\ UNCHANGED sysVars
         /\ RowsOK' /\ Running' = Running
<1>1. /\ pc = "next" /\ u \in todo /\ todo' = todo \ {u}
      /\ cpuSamples' = cpuSamples /\ events' = events /\ runs' = runs
      /\ UNCHANGED sysVars
  BY DEF Visit, dbVars
<1>2. todo' \subseteq Unit
  BY <1>1 DEF IInv, TypeOK
<1>3. RowsOK' /\ Running' = Running
  BY <1>1, RowsAndHand, RowsStay
<1> QED
  BY <1>1, <1>2, <1>3

LEMMA ObserveType ==
  ASSUME IInv, NEW u \in Unit, Observe(u) \/ UNCHANGED lastActive
  PROVE  lastActive' \in [Unit -> ActiveState \cup {None}]
<1>1. unit[u].state \in ActiveState
  BY DEF IInv, TypeOK, UnitStatus
<1> QED
  BY <1>1 DEF Observe, IInv, TypeOK

LEMMA SeenIsView ==
  ASSUME IInv, NEW u \in Unit
  PROVE  /\ Seen(u) \in View
         /\ Seen(u).unit = u /\ Seen(u).run = OpenRunOf(u) /\ Seen(u).proc = 0
         /\ Seen(u).result = "unknown" /\ Seen(u).event = None
<1>1. OpenRunOf(u) \in Run \cup {None}
  BY OpenRunOfIsOpen DEF IInv, OpenRuns, RunsOf
<1>2. unit[u].of \in Process
  BY DEF IInv, TypeOK, UnitStatus
<1> QED
  BY <1>1, <1>2, NoViewIsView DEF Seen, NoView, View

LEMMA PassingVisitKeeps ==
  ASSUME IInv, NEW u \in Unit,
         SkipMissing(u) \/ SkipTransitioning(u) \/ SeeNothing(u) \/ TickFailsLooking(u)
  PROVE  IInv'
<1>1. Visit(u) /\ (Observe(u) \/ UNCHANGED lastActive)
  BY DEF SkipMissing, SkipTransitioning, SeeNothing, TickFailsLooking
<1>2. (pc' = pc /\ view' = view) \/ (pc' = "idle" /\ view' = NoView)
  BY DEF SkipMissing, SkipTransitioning, SeeNothing, TickFailsLooking, Skip
<1>3. HandOK'
  BY <1>1, <1>2, VisitFrame, ObserveType, EmptyHanded DEF IInv, SamplesAreOpen
<1> QED
  BY <1>1, <1>3, VisitFrame, RowsAndHand, PTL

\* The pid systemctl show returned is that of one process: the unit's.
LEMMA SeeMainProcessKeeps ==
  ASSUME IInv, NEW u \in Unit, SeeMainProcess(u)
  PROVE  IInv'
<1> DEFINE m == unit[u].main
<1>1. Visit(u) /\ Observe(u) /\ m # 0 /\ pc' = "stat"
      /\ view' = [Seen(u) EXCEPT !.pid = procs[m].pid]
  BY DEF SeeMainProcess
<1>2. /\ RowsOK' /\ Running' = Running /\ todo' \subseteq Unit
      /\ runs' = runs /\ events' = events /\ cpuSamples' = cpuSamples
      /\ procs' = procs /\ unit' = unit
  BY <1>1, VisitFrame DEF sysVars
<1>3. m \in 1 .. Len(procs) /\ m \in Alive
  BY <1>1, BirthsAssumption DEF IInv, TypeOK, UnitStatus, Process, ProcInv, Alive
<1>4. procs[m].pid \in Pid
  <2>1. procs[m] \in Proc
    BY <1>3, ElementOfSeq DEF IInv, TypeOK
  <2> QED
    BY <2>1 DEF Proc
<1>5. /\ view' \in View
      /\ view'.unit = u /\ view'.run = OpenRunOf(u) /\ view'.proc = 0
      /\ view'.result = "unknown" /\ view'.pid = procs[m].pid
  BY <1>1, <1>4, SeenIsView DEF View
<1> HIDE DEF m
<1>6. OpenRuns(u)' = OpenRuns(u)
  BY <1>2 DEF OpenRuns, RunsOf
<1>7. HoldsRun' /\ (view'.run = None => OpenRuns(u)' = {})
  BY <1>5, <1>6, OpenRunOfIsOpen DEF HoldsRun, IInv
<1>8. \A n \in StatOf(view.pid)' : n = m
  BY <1>2, <1>3, <1>5 DEF StatOf, Alive, IInv, ProcInv
<1>9. view'.run # None /\ runs[view'.run].proc = m => runs[view'.run].pid = procs[m].pid
  BY <1>5, OpenRunOfIsOpen DEF IInv, OpenRuns, Running, RowInv, SameProcess
<1>10. StatInv'
  BY <1>2, <1>4, <1>5, <1>7, <1>8, <1>9 DEF StatInv, m
<1>11. ViewInv'
  BY <1>1, <1>5, <1>10 DEF ViewInv
<1>12. HandOK'
  BY <1>1, <1>2, <1>5, <1>11, ObserveType DEF HandOK, Ticking, IInv, TypeOK, SamplesAreOpen
<1> QED
  BY <1>2, <1>12, RowsAndHand, PTL

\* A unit that has stopped has no main process the run could be of.
LEMMA SeeStoppedKeeps ==
  ASSUME IInv, NEW u \in Unit, SeeStopped(u)
  PROVE  IInv'
<1> DEFINE result == ExitResult(unit[u].exit)
<1>1. /\ Visit(u) /\ Observe(u) /\ Stopped(u) /\ OpenRunOf(u) # None /\ pc' = "close"
      /\ view' = [Seen(u) EXCEPT !.result = result, !.event = EndEvent(u, result)]
  BY DEF SeeStopped
<1>2. /\ RowsOK' /\ Running' = Running /\ todo' \subseteq Unit
      /\ runs' = runs /\ events' = events /\ cpuSamples' = cpuSamples
      /\ procs' = procs /\ unit' = unit
  BY <1>1, VisitFrame DEF sysVars
<1>3. unit[u].main = 0
  BY <1>1 DEF Stopped, IInv, ProcInv
<1>4. result \in Result \ {"running"}
  <2>1. unit[u].exit \in Exit
    BY DEF IInv, TypeOK, UnitStatus
  <2> QED
    BY <2>1 DEF ExitResult, Exit, Result
<1>5. EndEvent(u, result) \in EventType \cup {None}
  BY DEF EndEvent, EventType
<1> DEFINE event == EndEvent(u, result)
<1> HIDE DEF result, event
<1>6. /\ view' \in View
      /\ view'.unit = u /\ view'.run = OpenRunOf(u) /\ view'.proc = 0
      /\ view'.result # "running"
  <2>1. view' = [Seen(u) EXCEPT !.result = result, !.event = event]
    BY <1>1 DEF event
  <2>2. event \in EventType \cup {None}
    BY <1>5 DEF event
  <2>3. result \in Result /\ result # "running"
    BY <1>4
  <2>4. Seen(u) \in View
        /\ Seen(u).unit = u /\ Seen(u).run = OpenRunOf(u) /\ Seen(u).proc = 0
    BY SeenIsView
  <2>5. view' \in View /\ view'.result = result
    BY <2>1, <2>2, <2>3, <2>4 DEF View
  <2>6. view'.unit = u /\ view'.run = OpenRunOf(u) /\ view'.proc = 0
    BY <2>1, <2>4 DEF View
  <2> QED
    BY <2>3, <2>5, <2>6
<1>7. OpenRunOf(u) \in OpenRuns(u) /\ OpenRuns(u)' = OpenRuns(u)
  BY <1>1, <1>2, OpenRunOfIsOpen DEF IInv, OpenRuns, RunsOf
<1>8. runs[OpenRunOf(u)].proc # 0
  BY <1>7 DEF IInv, RowInv, OpenRuns, RunsOf
<1>9. CloseInv'
  BY <1>1, <1>2, <1>3, <1>6, <1>7, <1>8 DEF CloseInv, HoldsRun
<1>10. ViewInv'
  BY <1>1, <1>6, <1>9 DEF ViewInv
<1>11. HandOK'
  BY <1>1, <1>2, <1>6, <1>10, ObserveType DEF HandOK, Ticking, IInv, TypeOK, SamplesAreOpen
<1> QED
  BY <1>2, <1>11, RowsAndHand, PTL

LEMMA SeeStartFailureKeeps ==
  ASSUME IInv, NEW u \in Unit, SeeStartFailure(u)
  PROVE  IInv'
<1>1. /\ Visit(u) /\ Observe(u) /\ pc' = "event"
      /\ view' = [Seen(u) EXCEPT !.event = "service_start_failed"]
  BY DEF SeeStartFailure
<1>2. /\ RowsOK' /\ Running' = Running /\ todo' \subseteq Unit
      /\ events' = events /\ cpuSamples' = cpuSamples
  BY <1>1, VisitFrame
<1>3. /\ view' \in View
      /\ view'.unit = u /\ view'.result # "running" /\ view'.event \in EventType
  BY <1>1, SeenIsView DEF View, EventType
<1>4. ViewInv'
  BY <1>1, <1>3 DEF ViewInv
<1>5. HandOK'
  BY <1>1, <1>2, <1>3, <1>4, ObserveType DEF HandOK, Ticking, IInv, TypeOK, SamplesAreOpen
<1> QED
  BY <1>2, <1>5, RowsAndHand, PTL

-------------------------------------------------------------------------------
(* The tick, one unit *)

\* Whatever process has the pid by now, it has no run of this service, unless it is
\* the one the open run is of.
LEMMA ReadStatKeeps ==
  ASSUME IInv, ReadStat
  PROVE  IInv'
<1>1. PICK n \in StatOf(view.pid) :
        /\ view' = [view EXCEPT !.proc = n]
        /\ pc' = IF view.run = None THEN "open"
                 ELSE IF SameProcess(view.run, n) THEN "metric" ELSE "close"
  BY DEF ReadStat
<1>2. /\ UNCHANGED sysVars /\ runs' = runs /\ events' = events /\ todo' = todo
      /\ lastActive' = lastActive /\ cpuSamples' = cpuSamples
  BY DEF ReadStat, dbVars, memVars
<1>3. RowsOK' /\ Running' = Running
  BY <1>2, RowsAndHand, RowsStay
<1>4. pc = "stat" /\ StatInv
  BY DEF ReadStat, IInv, ViewInv
<1>5. n \in 1 .. Len(procs) /\ n \in Process /\ procs[n].pid = view.pid
  <2>1. PICK u \in Unit : n = unit[u].main /\ n # 0
    BY <1>1 DEF StatOf, Alive
  <2>2. n \in Process /\ n <= Len(procs)
    BY <2>1 DEF IInv, TypeOK, UnitStatus, ProcInv
  <2> QED
    BY <1>1, <2>1, <2>2, BirthsAssumption DEF StatOf, Process, IInv, TypeOK
<1>6. /\ view' \in View
      /\ view'.proc = n /\ view'.unit = view.unit /\ view'.run = view.run
      /\ view'.pid = view.pid /\ view'.result = view.result
  BY <1>1, <1>5 DEF IInv, TypeOK, View
<1>7. view.unit \in Unit /\ view.pid \in Pid
  BY <1>4 DEF StatInv, HoldsRun
<1>8. OpenRuns(view.unit)' = OpenRuns(view.unit) /\ RunsOf(view.unit)' = RunsOf(view.unit)
  BY <1>2, <1>6 DEF OpenRuns, RunsOf, Running
<1>9. view.run # None => view.run \in OpenRuns(view.unit) /\ view.run \in Run
  BY <1>4 DEF StatInv, HoldsRun, OpenRuns, RunsOf
\* No run of the service is of n, but the open one.
<1>10. ASSUME NEW r \in RunsOf(view.unit), runs[r].proc = n
       PROVE  view.run # None /\ r = view.run
  <2>1. r \in Run /\ runs[r] # None /\ runs[r].unit = view.unit
    BY DEF RunsOf
  <2>2. n = unit[view.unit].main
    BY <1>1, <1>4, <1>10, <2>1 DEF StatInv
  <2>3. r \in OpenRuns(view.unit)
    BY <1>10, <2>1, <2>2 DEF IInv, ClosedMeansGone, OpenRuns
  <2> QED
    BY <1>4, <1>9, <2>3 DEF StatInv, IInv, OpenInv, OpenRuns, RunsOf
<1>11. \A r \in RunsOf(view.unit) : runs[r].proc = n => SameProcess(view.run, n)
  BY <1>10 DEF IInv, RowInv, RunsOf
<1>12. (view.run = None \/ ~SameProcess(view.run, n)) => NewToService'
  <2>1. view.unit \in {procs[n].unit, procs[n].asked}
    BY <1>1, <1>4, <1>5, <1>7, BirthsAssumption DEF StatInv, IInv, ProcInv
  <2> QED
    BY <1>2, <1>5, <1>6, <1>7, <1>8, <1>10, <1>11, <2>1 DEF NewToService, sysVars
<1>13. /\ view.run = None => pc' = "open" /\ OpeningInv'
       /\ view.run # None /\ SameProcess(view.run, n) => pc' = "metric" /\ MetricInv'
       /\ view.run # None /\ ~SameProcess(view.run, n) => pc' = "close" /\ CloseInv'
  <2>1. CASE view.run = None
    BY <1>1, <1>4, <1>6, <1>7, <1>8, <1>12, <2>1 DEF OpeningInv, StatInv
  <2>2. CASE view.run # None /\ SameProcess(view.run, n)
    BY <1>1, <1>2, <1>3, <1>5, <1>6, <1>9, <2>2 DEF MetricInv, OpenRuns, SameProcess, sysVars
  <2>3. CASE view.run # None /\ ~SameProcess(view.run, n)
    <3>1. runs[view.run].proc # unit[view.unit].main
      <4> SUFFICES ASSUME runs[view.run].proc = unit[view.unit].main
                   PROVE  SameProcess(view.run, n)
        BY <2>3
      <4>1. /\ runs[view.run].pid = view.pid
            /\ runs[view.run].proc \in 1 .. Len(procs)
            /\ SameProcess(view.run, runs[view.run].proc)
        BY <1>4, <1>9, <2>3 DEF StatInv, IInv, RowInv, OpenRuns, RunsOf
      <4>2. runs[view.run].proc \in Alive
        BY <1>7, <4>1 DEF Alive
      <4>3. n \in Alive
        BY <1>1 DEF StatOf
      <4>4. n = runs[view.run].proc
        BY <1>5, <4>1, <4>2, <4>3 DEF IInv, ProcInv, SameProcess
      <4> QED
        BY <4>1, <4>4
    <3>2. HoldsRun'
      BY <1>6, <1>7, <1>8, <1>9 DEF HoldsRun
    <3> QED
      BY <1>1, <1>2, <1>6, <1>12, <2>3, <3>1, <3>2 DEF CloseInv, sysVars
  <2> QED
    BY <2>1, <2>2, <2>3
<1>14. pc' \in {"open", "metric", "close"} /\ ViewInv'
  BY <1>6, <1>13 DEF ViewInv, IInv
<1> QED
  BY <1>2, <1>3, <1>4, <1>6, <1>14, InHand DEF Ticking, IInv, SamplesAreOpen, ReadStat

\* Once its open run is closed, the service has none.
LEMMA CloseKeeps ==
  ASSUME IInv, Close
  PROVE  IInv'
<1> DEFINE r == view.run
<1>1. pc = "close" /\ CloseInv
  BY DEF Close, IInv, ViewInv
<1>2. /\ CloseRun(r, view.result, view.of) /\ cpuSamples' = cpuSamples \ {r}
      /\ UNCHANGED sysVars /\ UNCHANGED <<events, todo, lastActive>>
  BY DEF Close
<1>3. /\ view.unit \in Unit /\ r \in OpenRuns(view.unit) /\ r \in Running
      /\ runs[r].unit = view.unit /\ runs[r].proc # unit[view.unit].main
  BY <1>1 DEF CloseInv, HoldsRun, OpenRuns, RunsOf
<1>4. view.result \in Result \ {"running"} /\ view.of \in Process
  BY DEF IInv, TypeOK, View, ViewInv
<1>5. /\ runs' \in [Run -> RunRow \cup {None}]
      /\ Running' = Running \ {r}
      /\ \A u \in Unit : OpenRuns(u)' = OpenRuns(u) \ {r} /\ RunsOf(u)' = RunsOf(u)
      /\ \A q \in Run : runs[q] # None => runs'[q].proc = runs[q].proc
      /\ \A q, s \in Running' : runs'[q].unit = runs'[s].unit => q = s
      /\ RowInv' /\ ClosedMeansGone' /\ OneRunPerProcess'
  BY <1>2, <1>3, <1>4, CloseRunKeeps DEF IInv
<1> HIDE DEF r
<1>6. SysTypeOK' /\ ProcInv'
  BY <1>2 DEF IInv, TypeOK, SysTypeOK, ProcInv, Alive, sysVars
<1>7. RowsOK'
  BY <1>5, <1>6 DEF RowsOK
<1>8. cpuSamples' \subseteq Running'
  BY <1>2, <1>5 DEF IInv, SamplesAreOpen
<1>9. AfterClose
  BY DEF Close
<1>10. /\ pc' \in Ticking /\ view' \in View /\ view'.result # "running"
       /\ \/ pc' = "open" /\ view' = view /\ view.proc # 0
          \/ pc' = "event" /\ view' = view /\ view.event # None
          \/ pc' = "next"
  BY <1>4, <1>9, NoViewIsView DEF AfterClose, Continue, Ticking, IInv, TypeOK
<1>11. ASSUME view' = view, view.proc # 0
       PROVE  OpeningInv'
  <2>1. OpenRuns(view.unit) \subseteq {r}
    BY <1>3 DEF IInv, OpenInv, OpenRuns, RunsOf
  <2>2. OpenRuns(view.unit)' = {}
    BY <1>3, <1>5, <1>11, <2>1
  <2>3. RunsOf(view.unit)' = RunsOf(view.unit) /\ NewToService
    BY <1>1, <1>3, <1>5, <1>11 DEF CloseInv
  <2>4. NewToService'
    BY <1>2, <1>5, <1>11, <2>3 DEF NewToService, RunsOf, sysVars
  <2> QED
    BY <1>3, <1>11, <2>2, <2>4 DEF OpeningInv
<1>12. view.event # None => view.event \in EventType
  BY DEF IInv, TypeOK, View
<1>13. ViewInv'
  BY <1>3, <1>10, <1>11, <1>12 DEF ViewInv
<1> QED
  BY <1>1, <1>2, <1>7, <1>8, <1>10, <1>13, InHand DEF Ticking

LEMMA OpenKeeps ==
  ASSUME IInv, OpenRun
  PROVE  IInv'
<1>1. pc = "open" /\ OpeningInv /\ pc' = "metric"
  BY DEF OpenRun, IInv, ViewInv
<1>2. PICK r \in Run :
        /\ runs' \in [Run -> RunRow \cup {None}]
        /\ Running' = Running \cup {r}
        /\ view' = [view EXCEPT !.run = r]
        /\ MetricInv'
        /\ \A q, s \in Running' : runs'[q].unit = runs'[s].unit => q = s
        /\ RowInv' /\ ClosedMeansGone' /\ OneRunPerProcess'
  BY <1>1, OpenRunKeeps DEF IInv
<1>3. UNCHANGED sysVars /\ UNCHANGED <<events, todo, lastActive, cpuSamples>>
  BY DEF OpenRun, memVars
<1>4. SysTypeOK' /\ ProcInv'
  BY <1>3 DEF IInv, TypeOK, SysTypeOK, ProcInv, Alive, sysVars
<1>5. RowsOK'
  BY <1>2, <1>4 DEF RowsOK
<1>6. view' \in View /\ view'.result = view.result
  BY <1>2 DEF IInv, TypeOK, View
<1>7. ViewInv'
  BY <1>1, <1>2, <1>6 DEF ViewInv, IInv
<1> QED
  BY <1>1, <1>2, <1>3, <1>5, <1>6, <1>7, InHand DEF Ticking, IInv, SamplesAreOpen

LEMMA RecordKeeps ==
  ASSUME IInv, RecordMetric \/ RecordEvent \/ TickFails
  PROVE  IInv'
<1>1. UNCHANGED sysVars /\ runs' = runs /\ lastActive' = lastActive
      /\ todo' \in {todo, {}} /\ pc' \in {"next", "idle"} /\ view' = NoView
      /\ pc \in Ticking
  BY DEF RecordMetric, RecordEvent, TickFails, dbVars, Continue, memVars, Ticking
<1>2. RowsOK' /\ Running' = Running
  BY <1>1, RowsAndHand, RowsStay
<1>3. events' \subseteq EventRow
  <2>1. CASE RecordEvent
    <3>1. view.unit \in Unit /\ view.event \in EventType /\ view.run \in Run \cup {None}
      BY <2>1 DEF RecordEvent, IInv, ViewInv, TypeOK, View
    <3> QED
      BY <2>1, <3>1 DEF RecordEvent, EventRow, IInv, TypeOK
  <2>2. CASE RecordMetric \/ TickFails
    BY <2>2 DEF RecordMetric, TickFails, dbVars, IInv, TypeOK
  <2> QED
    BY <2>1, <2>2
<1>4. cpuSamples' \subseteq Running
  <2>1. pc = "metric" => view.run \in Running
    BY DEF IInv, ViewInv, MetricInv
  <2> QED
    BY <2>1 DEF RecordMetric, RecordEvent, TickFails, memVars, IInv, SamplesAreOpen
<1>5. ViewInv'
  BY <1>1, NoViewIsView DEF ViewInv
<1>6. HandOK'
  BY <1>1, <1>2, <1>3, <1>4, <1>5, NoViewIsView DEF HandOK, IInv, TypeOK, Ticking
<1> QED
  BY <1>2, <1>6, RowsAndHand, PTL

LEMMA NextInv == IInv /\ [Next]_vars => IInv'
<1> SUFFICES ASSUME IInv, [Next]_vars
             PROVE  IInv'
  OBVIOUS
<1>1. CASE Systemd
  BY <1>1, SystemdKeeps
<1>2. CASE Startup
  BY <1>2, TurnsKeep, ReconcileKeeps DEF Startup
<1>3. CASE Tick
  <2>1. ASSUME NEW u \in Unit,
               \/ SkipMissing(u) \/ SkipTransitioning(u) \/ SeeMainProcess(u)
               \/ SeeStopped(u) \/ SeeStartFailure(u) \/ SeeNothing(u)
        PROVE  IInv'
    BY <2>1, PassingVisitKeeps, SeeMainProcessKeeps, SeeStoppedKeeps, SeeStartFailureKeeps
  <2>2. CASE \/ BeginTick \/ EndTick \/ StatGone \/ ReadStat \/ Close \/ OpenRun
             \/ RecordMetric \/ RecordEvent
    BY <2>2, TurnsKeep, ReadStatKeeps, CloseKeeps, OpenKeeps, RecordKeeps
  <2> QED
    BY <1>3, <2>1, <2>2 DEF Tick
<1>4. CASE Fault
  BY <1>4, RecordKeeps, TurnsKeep, RebootKeeps, PassingVisitKeeps DEF Fault
<1>5. CASE UNCHANGED vars
  <2>1. RowsOK' /\ Running' = Running
    BY <1>5, RowsAndHand, RowsStay DEF vars, sysVars
  <2>2. ViewInv'
    <3>1. ViewInv
      BY DEF IInv
    <3> QED
      BY <1>5, <3>1 DEF vars, ViewInv, StatInv, CloseInv, OpeningInv, MetricInv, HoldsRun,
         NewToService, OpenRuns, RunsOf, Running, StatOf, Alive, SameProcess
  <2>3. HandOK'
    BY <1>5, <2>1, <2>2, RowsAndHand DEF vars, HandOK
  <2> QED
    BY <2>1, <2>3, RowsAndHand, PTL
<1> QED
  BY <1>1, <1>2, <1>3, <1>4, <1>5 DEF Next, Daemon

LEMMA Invariance == Spec => []IInv
BY InitInv, NextInv, PTL DEF Spec

-------------------------------------------------------------------------------
(* What it means *)

\* Every reachable state is well typed: whatever step a tick is cut off at, the view and
\* the tables never hold a row half filled in.
THEOREM TypeCorrect == Spec => []TypeOK
<1>1. IInv => TypeOK
  BY DEF IInv
<1> QED
  BY <1>1, Invariance, PTL

\* A service never has two runs marked running: a run is opened only after the one the
\* unit's visit found open is closed, and a visit cut off before that finds it again.
THEOREM OneRunIsOpen == Spec => []OneOpenRun
<1>1. IInv => OneOpenRun
  <2> SUFFICES ASSUME IInv, NEW u \in Unit
               PROVE  Cardinality(OpenRuns(u)) <= 1
    BY DEF OneOpenRun, OpenRuns
  <2>1. CASE OpenRuns(u) = {}
    BY <2>1, FS_EmptySet
  <2>2. ASSUME NEW r \in OpenRuns(u)
        PROVE  Cardinality(OpenRuns(u)) <= 1
    <3>1. OpenRuns(u) = {r}
      BY <2>2 DEF IInv, OpenInv, OpenRuns, RunsOf
    <3>2. Cardinality({r}) = 1
      BY FS_Singleton
    <3> QED
      BY <3>1, <3>2
  <2> QED
    BY <2>1, <2>2
<1> QED
  BY <1>1, Invariance, PTL

\* No run is closed while its process is the service's main process, though the tick
\* decides on what systemctl show said before the process was read.
THEOREM ClosedRunsAreGone == Spec => []ClosedMeansGone
<1>1. IInv => ClosedMeansGone
  BY DEF IInv
<1> QED
  BY <1>1, Invariance, PTL

\* However often the daemon is restarted and ticks fail, a process gets at most one
\* run of the service that started it; one that was handed its pid between two
\* queries of a tick gets at most one more, of the service that tick had asked about.
THEOREM RunsAreUnique == Spec => []OneRunPerProcess
<1>1. IInv => OneRunPerProcess
  BY DEF IInv
<1> QED
  BY <1>1, Invariance, PTL

\* CPU baselines are kept for open runs only, whichever statement of a tick fails.
THEOREM BaselinesAreOfOpenRuns == Spec => []SamplesAreOpen
<1>1. IInv => SamplesAreOpen
  BY DEF IInv
<1> QED
  BY <1>1, Invariance, PTL

\* What is sampled is written to the run of the process it was sampled from, as far as
\* pid and start ticks can tell one process from another.
THEOREM MetricsGoToTheirRun == Spec => []MetricsAreTheRunsOwn
<1>1. IInv => MetricsAreTheRunsOwn
  <2> SUFFICES ASSUME IInv, pc = "metric",
                      SameBoot(runs[view.run].proc, view.proc)
               PROVE  runs[view.run].proc = view.proc
    BY DEF MetricsAreTheRunsOwn
  <2> DEFINE n == runs[view.run].proc
  <2>1. MetricInv
    BY DEF IInv, ViewInv
  <2>2. n \in 1 .. Len(procs) /\ SameProcess(view.run, n)
    BY <2>1 DEF MetricInv, Running, IInv, RowInv
  <2>3. procs[n].ticks = procs[view.proc].ticks
    BY <2>1, <2>2 DEF MetricInv, SameProcess
  <2>4. procs[n].ticks \in Nat /\ n \in Int /\ view.proc \in Int
    <3>1. procs[n] \in Proc
      BY <2>2, ElementOfSeq DEF IInv, TypeOK
    <3> QED
      BY <2>1, <2>2, <3>1 DEF MetricInv, Proc
  <2>5. procs[view.proc].ticks - procs[n].ticks = view.proc - n
    BY DEF SameBoot
  <2> HIDE DEF n
  <2>6. view.proc - n = 0
    BY <2>3, <2>4, <2>5
  <2> QED
    BY <2>4, <2>6 DEF n
<1> QED
  BY <1>1, Invariance, PTL

-------------------------------------------------------------------------------
(* The run table *)

\* Rows of the table, by what they stand for in RunTable.
Kept == {q \in Run : runs[q] # None}
Ended == {[run |-> r, row |-> runs[r]] : r \in Kept \ Running}

LEMMA KnownIsKept == Running \cup {e.run : e \in Ended} = Kept
<1>1. \A r : r \in {e.run : e \in Ended} <=> r \in Kept \ Running
  <2>1. \A r \in Kept \ Running : [run |-> r, row |-> runs[r]] \in Ended
    BY DEF Ended
  <2>2. \A e \in Ended : e.run \in Kept \ Running
    BY DEF Ended
  <2>3. \A r \in Kept \ Running : \E e \in Ended : e.run = r
    BY <2>1
  <2> QED
    BY <2>2, <2>3
<1>2. Running \subseteq Kept
  BY DEF Running, Kept
<1> QED
  BY <1>1, <1>2

LEMMA EndStep ==
  ASSUME NEW r \in Running, runs'[r] # None,
         \A q \in Run \ {r} : runs'[q] = runs[q],
         Running' = Running \ {r}
  PROVE  Table!End(r)
<1>1. Kept' = Kept /\ r \in Kept
  BY DEF Kept, Running
<1>2. Kept' \ Running' = (Kept \ Running) \cup {r}
  BY <1>1
<1>3. \A q \in Kept \ Running : runs'[q] = runs[q]
  BY DEF Kept
<1>4. Ended' = Ended \cup {[run |-> r, row |-> runs'[r]]}
  BY <1>2, <1>3 DEF Ended
<1>5. \E e \in Ended' : e.run = r /\ Ended' = Ended \cup {e}
  BY <1>4
<1> QED
  BY <1>5 DEF Table!End, Ended, Kept

LEMMA OpenStep ==
  ASSUME NEW r \in Run, runs[r] = None, runs'[r] # None,
         \A q \in Run \ {r} : runs'[q] = runs[q],
         Running' = Running \cup {r}
  PROVE  Table!Open(r)
<1>1. Kept' = Kept \cup {r} /\ r \notin Kept
  BY DEF Kept
<1>2. Kept' \ Running' = Kept \ Running /\ \A q \in Kept \ Running : runs'[q] = runs[q]
  BY <1>1 DEF Kept
<1>3. Ended' = Ended
  BY <1>2 DEF Ended
<1>4. Ended = {[run |-> q, row |-> runs[q]] : q \in {w \in Run : runs[w] # None} \ Running}
  BY DEF Ended, Kept
<1>5. r \notin Table!Known
  BY <1>1, <1>4, KnownIsKept DEF Table!Known
<1> QED
  BY <1>3, <1>5 DEF Table!Open, Ended, Kept

\* The daemon's statements are steps of RunTable, whatever happens to the tick they belong
\* to: a run opens once, ends once, and no later step touches its row.
THEOREM MonitorImplements == Spec => ImplementsRunTable
<1> DEFINE tableVars == <<Running, Ended>>
<1>1. Init => Running = {} /\ Ended = {}
  BY DEF Init, Running, Ended, Kept
<1>2. IInv /\ [Next]_vars => [Table!Next]_tableVars
  <2> SUFFICES ASSUME IInv, [Next]_vars
               PROVE  [Table!Next]_tableVars
    OBVIOUS
  <2>1. ASSUME NEW r \in Run, ReconcileGone(r)
        PROVE  Table!Next
    <3>1. r \in Running /\ CloseRun(r, "unknown", 0)
      BY <2>1 DEF ReconcileGone, IInv, OpenInv
    <3>2. /\ runs'[r] # None
          /\ \A q \in Run \ {r} : runs'[q] = runs[q]
          /\ Running' = Running \ {r}
      BY <3>1, ClosingEnds, BirthsAssumption DEF IInv, Result, Process
    <3> QED
      BY <2>1, <3>1, <3>2, EndStep DEF Table!Next
  <2>2. CASE Close
    <3>1. view.run \in Running /\ view.result \in Result \ {"running"} /\ view.of \in Process
      BY <2>2 DEF Close, IInv, ViewInv, CloseInv, HoldsRun, OpenRuns, TypeOK, View
    <3>2. view.run \in Run
      BY <3>1 DEF Running
    <3>3. /\ runs'[view.run] # None
          /\ \A q \in Run \ {view.run} : runs'[q] = runs[q]
          /\ Running' = Running \ {view.run}
      BY <2>2, <3>1, ClosingEnds DEF Close, IInv
    <3> QED
      BY <3>1, <3>2, <3>3, EndStep DEF Table!Next
  <2>3. CASE OpenRun
    <3>1. OpeningInv
      BY <2>3 DEF OpenRun, IInv, ViewInv
    <3>2. PICK r \in Run : /\ runs[r] = None /\ runs'[r] # None
                           /\ \A q \in Run \ {r} : runs'[q] = runs[q]
                           /\ Running' = Running \cup {r}
      BY <2>3, <3>1, OpenRunKeeps DEF IInv
    <3> QED
      BY <3>2, OpenStep DEF Table!Next
  <2>4. CASE runs' = runs
    BY <2>4 DEF Running, Ended, Kept
  <2>5. \/ Close \/ OpenRun \/ runs' = runs
        \/ \E r \in Run : ReconcileGone(r)
    BY DEF Next, vars, Systemd, Spawn, Started, StopAsked, Ends, Enable, Disable, Unload, Load,
       Daemon, Startup, StartDaemon, Reconciled, ReconcileAlive, Tick, BeginTick, EndTick,
       SkipMissing, SkipTransitioning, SeeMainProcess, SeeStopped, SeeStartFailure, SeeNothing,
       Visit, StatGone, ReadStat, RecordMetric, RecordEvent, Fault, TickFails, ReconcileFails,
       Crash, Reboot, Die, TickFailsLooking, dbVars
  <2> QED
    BY <2>1, <2>2, <2>3, <2>4, <2>5
<1> QED
  BY <1>1, <1>2, Invariance, PTL
  DEF Spec, ImplementsRunTable, Table!Spec, Table!Init, Ended, Kept
================================================================================
