------------------------------- MODULE Retention -------------------------------
(***************************************************************************)
(* Database::prune (robot-system-daemon/src/db.rs): the history the daemon *)
(* keeps in SQLite and its periodic deletion in batches, table by table.   *)
(* The daemon is the only writer and prunes between two ticks, so rows are *)
(* only added while no pruning is under way.                               *)
(***************************************************************************)
EXTENDS Integers, FiniteSets

CONSTANTS
  Run,          \* run ids; bounds the runs ever opened
  MetricsDays, RunsDays, EventsDays,  \* RetentionPolicy
  BatchSize,    \* LIMIT of one DELETE
  LastDay,      \* bounds the clock
  None          \* no run, not ended

ASSUME RetentionAssumption ==
  /\ MetricsDays \in Nat /\ RunsDays \in Nat /\ EventsDays \in Nat
  /\ BatchSize \in Nat \ {0}
  /\ LastDay \in Nat

VARIABLES
  today,
  runs,     \* process_runs: [start, end], end = None while running
  metrics,  \* process_metrics: [run, at]
  events,   \* error_events: their days
  pc,       \* "idle", or the table being pruned, or "done"
  asOf      \* prune's now

vars == <<today, runs, metrics, events, pc, asOf>>

Day == 0 .. LastDay
RunRow == [start : Day, end : Day \cup {None}]

ASSUME NoneAssumption == None \notin Day /\ None \notin RunRow

TypeOK ==
  /\ today \in Day
  /\ runs \in [Run -> RunRow \cup {None}]
  /\ metrics \subseteq [run : Run, at : Day]
  /\ events \subseteq Day
  /\ pc \in {"idle", "metrics", "runs", "events", "done"}
  /\ asOf \in Day

Init ==
  /\ today = 0
  /\ runs = [r \in Run |-> None]
  /\ metrics = {}
  /\ events = {}
  /\ pc = "idle"
  /\ asOf = 0

Running == {r \in Run : runs[r] # None /\ runs[r].end = None}

-------------------------------------------------------------------------------
(* What the monitor writes *)

TimePasses ==
  /\ today < LastDay
  /\ today' = today + 1
  /\ UNCHANGED <<runs, metrics, events, pc, asOf>>

\* Mutant of OpenRun: the age of the process is added, not subtracted.
OpenRunAhead(r) ==
  /\ pc = "idle"
  /\ runs[r] = None
  /\ \A m \in metrics : m.run # r
  /\ \E d \in 0 .. today :
       runs' = [runs EXCEPT ![r] = [start |-> today + d, end |-> None]]
  /\ UNCHANGED <<today, metrics, events, pc, asOf>>

\* open_run: the process may have been running for a while.
OpenRun(r) ==
  /\ pc = "idle"
  /\ runs[r] = None
  /\ \A m \in metrics : m.run # r
  /\ \E d \in 0 .. today : runs' = [runs EXCEPT ![r] = [start |-> d, end |-> None]]
  /\ UNCHANGED <<today, metrics, events, pc, asOf>>

CloseRun(r) ==
  /\ pc = "idle"
  /\ r \in Running
  /\ runs' = [runs EXCEPT ![r].end = today]
  /\ UNCHANGED <<today, metrics, events, pc, asOf>>

InsertMetric(r) ==
  /\ pc = "idle"
  /\ r \in Running
  /\ metrics' = metrics \cup {[run |-> r, at |-> today]}
  /\ UNCHANGED <<today, runs, events, pc, asOf>>

InsertEvent ==
  /\ pc = "idle"
  /\ events' = events \cup {today}
  /\ UNCHANGED <<today, runs, metrics, pc, asOf>>

-------------------------------------------------------------------------------
(* prune *)

BeginPrune ==
  /\ pc = "idle"
  /\ pc' = "metrics"
  /\ asOf' = today
  /\ UNCHANGED <<today, runs, metrics, events>>

Smaller(a, b) == IF a < b THEN a ELSE b

\* One DELETE ... LIMIT: whichever rows the subquery returns.
Batches(rows) == {b \in SUBSET rows : Cardinality(b) = Smaller(BatchSize, Cardinality(rows))}

\* Mutant of DoneWith: the last, incomplete batch is left for the next prune.
DoneWithin(rows) == Cardinality(rows) <= BatchSize

\* delete_batched ends with the first DELETE that finds nothing.
DoneWith(rows) == rows = {}

OldMetrics == {m \in metrics : m.at < asOf - MetricsDays}

\* Mutant of OldRuns: runs still marked running are taken along.
OldRunsOfAnyResult == {r \in Run : runs[r] # None /\ runs[r].start < asOf - RunsDays}

OldRuns == {r \in Run : /\ runs[r] # None
                        /\ r \notin Running
                        /\ runs[r].start < asOf - RunsDays}
OldEvents == {d \in events : d < asOf - EventsDays}

PruneMetrics ==
  /\ pc = "metrics"
  /\ IF DoneWith(OldMetrics)
       THEN pc' = "runs" /\ UNCHANGED metrics
       ELSE /\ \E b \in Batches(OldMetrics) : metrics' = metrics \ b
            /\ UNCHANGED pc
  /\ UNCHANGED <<today, runs, events, asOf>>

\* Mutant of Cascade: the connection does not enforce foreign keys.
NoCascade(gone) == metrics

\* ON DELETE CASCADE takes the metrics of the deleted runs along.
Cascade(gone) == {m \in metrics : m.run \notin gone}

PruneRuns ==
  /\ pc = "runs"
  /\ IF DoneWith(OldRuns)
       THEN pc' = "events" /\ UNCHANGED <<runs, metrics>>
       ELSE /\ \E b \in Batches(OldRuns) :
                 /\ runs' = [r \in Run |-> IF r \in b THEN None ELSE runs[r]]
                 /\ metrics' = Cascade(b)
            /\ UNCHANGED pc
  /\ UNCHANGED <<today, events, asOf>>

PruneEvents ==
  /\ pc = "events"
  /\ IF DoneWith(OldEvents)
       THEN pc' = "done" /\ UNCHANGED events
       ELSE /\ \E b \in Batches(OldEvents) : events' = events \ b
            /\ UNCHANGED pc
  /\ UNCHANGED <<today, runs, metrics, asOf>>

Pruned ==
  /\ pc = "done"
  /\ pc' = "idle"
  /\ UNCHANGED <<today, runs, metrics, events, asOf>>

\* A statement fails or the daemon dies; every DELETE is a transaction.
PruneStops ==
  /\ pc \notin {"idle", "done"}
  /\ pc' = "idle"
  /\ UNCHANGED <<today, runs, metrics, events, asOf>>

Next ==
  \/ TimePasses \/ InsertEvent
  \/ \E r \in Run : OpenRun(r) \/ CloseRun(r) \/ InsertMetric(r)
  \/ BeginPrune \/ PruneMetrics \/ PruneRuns \/ PruneEvents \/ Pruned \/ PruneStops

Spec == Init /\ [][Next]_vars

-------------------------------------------------------------------------------
(* Properties *)

\* "仍在运行的实例永不清理" (docs/ARCHITECTURE.md 5.4): a run is opened, ends and is
\* deleted, in this order; however old it is, no batch takes the row of a running
\* instance, nor changes one that ended.
Table == INSTANCE RunTable WITH
  open  <- Running,
  ended <- {[run |-> r, row |-> runs[r]] : r \in {q \in Run : runs[q] # None} \ Running}

ImplementsRunTable == Table!Spec

\* A metric never outlives its run, although the two tables are pruned by
\* separate statements and a pruning may stop between any two.
MetricsHaveTheirRun == \A m \in metrics : runs[m.run] # None

\* A prune that comes to its end has left nothing beyond the retention periods,
\* however many batches that took.
NothingOldIsLeft ==
  pc = "done" => OldMetrics = {} /\ OldRuns = {} /\ OldEvents = {}
===============================================================================
