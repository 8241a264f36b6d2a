---------------------------- MODULE RetentionProofs ----------------------------
(***************************************************************************)
(* Pruning for any number of runs and rows, any retention periods, batches *)
(* of any size, stopped after any of them.                                 *)
(***************************************************************************)
EXTENDS Retention, TLAPS

LEMMA BatchIsPart ==
  ASSUME NEW rows, NEW b \in Batches(rows)
  PROVE  b \subseteq rows
BY DEF Batches

LEMMA DayIsNat == Day \subseteq Nat
BY RetentionAssumption DEF Day

-------------------------------------------------------------------------------
(* Types *)

\* Every reachable state is well typed.
THEOREM TypeCorrect == Spec => []TypeOK
<1>1. Init => TypeOK
  BY RetentionAssumption DEF Init, TypeOK, Day
<1>2. TypeOK /\ [Next]_vars => TypeOK'
  <2> SUFFICES ASSUME TypeOK, [Next]_vars
               PROVE  TypeOK'
    OBVIOUS
  <2> USE DEF TypeOK
  <2>1. CASE TimePasses
    BY <2>1, RetentionAssumption DEF TimePasses, Day
  <2>2. CASE InsertEvent
    BY <2>2 DEF InsertEvent
  <2>3. ASSUME NEW r \in Run, OpenRun(r)
        PROVE  TypeOK'
    <3>1. PICK d \in 0 .. today : runs' = [runs EXCEPT ![r] = [start |-> d, end |-> None]]
      BY <2>3 DEF OpenRun
    <3>2. d \in Day
      BY RetentionAssumption DEF Day
    <3> QED
      BY <2>3, <3>1, <3>2 DEF OpenRun, RunRow
  <2>4. ASSUME NEW r \in Run, CloseRun(r)
        PROVE  TypeOK'
    <3>1. runs[r] \in RunRow
      BY <2>4 DEF CloseRun, Running
    <3>2. [runs[r] EXCEPT !.end = today] \in RunRow
      BY <3>1 DEF RunRow
    <3> QED
      BY <2>4, <3>2 DEF CloseRun
  <2>5. ASSUME NEW r \in Run, InsertMetric(r)
        PROVE  TypeOK'
    BY <2>5 DEF InsertMetric
  <2>6. CASE BeginPrune \/ Pruned \/ PruneStops
    BY <2>6 DEF BeginPrune, Pruned, PruneStops
  <2>7. CASE PruneMetrics
    BY <2>7 DEF PruneMetrics
  <2>8. CASE PruneRuns
    BY <2>8 DEF PruneRuns, Cascade
  <2>9. CASE PruneEvents
    BY <2>9 DEF PruneEvents
  <2>10. CASE UNCHANGED vars
    BY <2>10 DEF vars
  <2> QED
    BY <2>1, <2>2, <2>3, <2>4, <2>5, <2>6, <2>7, <2>8, <2>9, <2>10 DEF Next
<1> QED
  BY <1>1, <1>2, PTL DEF Spec

-------------------------------------------------------------------------------
(* Metrics and their runs *)

LEMMA NextMetrics == TypeOK /\ MetricsHaveTheirRun /\ [Next]_vars => MetricsHaveTheirRun'
<1> SUFFICES ASSUME TypeOK, MetricsHaveTheirRun, [Next]_vars
             PROVE  MetricsHaveTheirRun'
  OBVIOUS
<1> USE DEF TypeOK, MetricsHaveTheirRun
<1>1. ASSUME NEW r \in Run, OpenRun(r)
      PROVE  MetricsHaveTheirRun'
  BY <1>1 DEF OpenRun
<1>2. ASSUME NEW r \in Run, CloseRun(r)
      PROVE  MetricsHaveTheirRun'
  <2>1. runs[r] \in RunRow
    BY <1>2 DEF CloseRun, Running
  <2>2. [runs[r] EXCEPT !.end = today] \in RunRow
    BY <2>1 DEF RunRow
  <2> QED
    BY <1>2, <2>2, NoneAssumption DEF CloseRun
<1>3. ASSUME NEW r \in Run, InsertMetric(r)
      PROVE  MetricsHaveTheirRun'
  BY <1>3 DEF InsertMetric, Running
<1>4. CASE PruneMetrics
  BY <1>4 DEF PruneMetrics
<1>5. CASE PruneRuns
  BY <1>5 DEF PruneRuns, Cascade
<1>6. CASE \/ TimePasses \/ InsertEvent \/ BeginPrune \/ PruneEvents \/ Pruned \/ PruneStops
           \/ UNCHANGED vars
  BY <1>6 DEF TimePasses, InsertEvent, BeginPrune, PruneEvents, Pruned, PruneStops, vars
<1> QED
  BY <1>1, <1>2, <1>3, <1>4, <1>5, <1>6 DEF Next

\* No metric outlives its run, wherever a pruning stops.
THEOREM MetricsKeepTheirRun == Spec => []MetricsHaveTheirRun
<1>1. Init => MetricsHaveTheirRun
  BY DEF Init, MetricsHaveTheirRun
<1> QED
  BY <1>1, TypeCorrect, NextMetrics, PTL DEF Spec

-------------------------------------------------------------------------------
(* What is old *)

\* Tables are done one after the other, and stay done: nothing is added meanwhile,
\* and the age of a row is that of the moment the pruning began.
PruneInv ==
  /\ pc \in {"runs", "events", "done"} => OldMetrics = {}
  /\ pc \in {"events", "done"} => OldRuns = {}
  /\ pc = "done" => OldEvents = {}

LEMMA NextPrune == PruneInv /\ [Next]_vars => PruneInv'
<1> SUFFICES ASSUME PruneInv, [Next]_vars
             PROVE  PruneInv'
  OBVIOUS
<1> USE DEF PruneInv
<1>1. CASE pc' = "idle" \/ pc' = "metrics"
  BY <1>1
<1>2. CASE TimePasses \/ UNCHANGED vars
  BY <1>2 DEF TimePasses, vars, OldMetrics, OldRuns, OldEvents, Running
<1>3. CASE PruneMetrics
  BY <1>3 DEF PruneMetrics, DoneWith, OldMetrics
<1>4. CASE PruneRuns
  <2>1. CASE DoneWith(OldRuns)
    BY <1>4, <2>1 DEF PruneRuns, DoneWith, OldMetrics, OldRuns, Running
  <2>2. CASE ~DoneWith(OldRuns)
    <3>1. metrics' \subseteq metrics /\ asOf' = asOf /\ pc' = "runs" /\ pc = "runs"
      BY <1>4, <2>2 DEF PruneRuns, Cascade
    <3> QED
      BY <3>1 DEF OldMetrics
  <2> QED
    BY <2>1, <2>2
<1>5. CASE PruneEvents
  BY <1>5 DEF PruneEvents, DoneWith, OldMetrics, OldRuns, OldEvents, Running
<1>6. CASE InsertEvent \/ BeginPrune \/ Pruned \/ PruneStops
  BY <1>1, <1>6 DEF InsertEvent, BeginPrune, Pruned, PruneStops
<1>7. CASE \E r \in Run : OpenRun(r) \/ CloseRun(r) \/ InsertMetric(r)
  BY <1>1, <1>7 DEF OpenRun, CloseRun, InsertMetric
<1> QED
  BY <1>2, <1>3, <1>4, <1>5, <1>6, <1>7 DEF Next

\* A pruning that comes to its end leaves nothing older than the retention periods.
THEOREM NothingOldStays == Spec => []NothingOldIsLeft
<1>1. Init => PruneInv
  BY DEF Init, PruneInv
<1>2. PruneInv => NothingOldIsLeft
  BY DEF PruneInv, NothingOldIsLeft
<1> QED
  BY <1>1, <1>2, NextPrune, PTL DEF Spec

-------------------------------------------------------------------------------
(* The run table *)

\* Rows of the table, by what they stand for in RunTable.
Kept == {q \in Run : runs[q] # None}
Ended == {[run |-> r, row |-> runs[r]] : r \in Kept \ Running}

LEMMA KnownIsKept == Running \cup {e.run : e \in Ended} = Kept
<1>1. \A r : r \in {e.run : e \in Ended} <=> r \in Kept \ Running
  <2>1. \A r \in Kept \ Running : [run |-> r, row |-> runs[r]] \in Ended
    BY DEF Ended
  <2>2. \A e \in Ended : e.run \in Kept \ Running
    BY DEF Ended
  <2>3. \A r \in Kept \ Running : \E e \in Ended : e.run = r
    BY <2>1
  <2> QED
    BY <2>2, <2>3
<1>2. Running \subseteq Kept
  BY DEF Running, Kept
<1> QED
  BY <1>1, <1>2

LEMMA OpenRunOpens ==
  ASSUME TypeOK, NEW r \in Run, OpenRun(r)
  PROVE  r \notin Kept /\ Running' = Running \cup {r} /\ Ended' = Ended
<1>1. PICK d \in 0 .. today : runs' = [runs EXCEPT ![r] = [start |-> d, end |-> None]]
  BY DEF OpenRun
<1>2. runs'[r] = [start |-> d, end |-> None] /\ \A q \in Run \ {r} : runs'[q] = runs[q]
  BY <1>1 DEF TypeOK
<1>3. [start |-> d, end |-> None] # None
  <2>1. d \in Day
    BY RetentionAssumption DEF TypeOK, Day
  <2> QED
    BY <2>1, NoneAssumption DEF RunRow
<1>4. runs[r] = None
  BY DEF OpenRun
<1>5. Running' = Running \cup {r} /\ Kept' = Kept \cup {r} /\ r \notin Kept
  BY <1>2, <1>3, <1>4 DEF Running, Kept
<1>6. Kept' \ Running' = Kept \ Running /\ \A q \in Kept \ Running : runs'[q] = runs[q]
  BY <1>2, <1>5 DEF Kept
<1> QED
  BY <1>5, <1>6 DEF Ended

LEMMA CloseRunEnds ==
  ASSUME TypeOK, NEW r \in Run, CloseRun(r)
  PROVE  /\ r \in Running
         /\ Running' = Running \ {r}
         /\ Ended' = Ended \cup {[run |-> r, row |-> runs'[r]]}
<1>1. r \in Running /\ runs[r] \in RunRow
  BY DEF CloseRun, Running, TypeOK
<1>2. runs'[r] = [runs[r] EXCEPT !.end = today] /\ \A q \in Run \ {r} : runs'[q] = runs[q]
  BY DEF CloseRun, TypeOK
<1>3. runs'[r] \in RunRow /\ runs'[r].end = today
  BY <1>1, <1>2 DEF RunRow, TypeOK
<1>4. runs'[r] # None /\ runs'[r].end # None
  BY <1>3, NoneAssumption DEF TypeOK
<1>5. Running' = Running \ {r} /\ Kept' = Kept /\ r \in Kept
  BY <1>1, <1>2, <1>4 DEF Running, Kept
<1>6. Kept' \ Running' = (Kept \ Running) \cup {r}
  BY <1>1, <1>5
<1>7. \A q \in Kept \ Running : runs'[q] = runs[q]
  BY <1>1, <1>2 DEF Kept
<1> QED
  BY <1>1, <1>5, <1>6, <1>7 DEF Ended

\* No batch takes a running run, nor touches one it leaves.
LEMMA PruneRunsForgets ==
  ASSUME TypeOK, PruneRuns
  PROVE  Running' = Running /\ Ended' \subseteq Ended
<1>1. CASE DoneWith(OldRuns)
  BY <1>1 DEF PruneRuns, Running, Ended, Kept
<1>2. CASE ~DoneWith(OldRuns)
  <2>1. PICK b \in Batches(OldRuns) : runs' = [r \in Run |-> IF r \in b THEN None ELSE runs[r]]
    BY <1>2 DEF PruneRuns
  <2>2. b \subseteq Kept \ Running
    BY BatchIsPart DEF OldRuns, Kept
  <2>3. \A q \in Run : runs'[q] = IF q \in b THEN None ELSE runs[q]
    BY <2>1
  <2>4. Kept' = Kept \ b /\ Running' = Running
    BY <2>2, <2>3 DEF Kept, Running
  <2>5. \A q \in Kept' \ Running' : q \in Kept \ Running /\ runs'[q] = runs[q]
    BY <2>3, <2>4 DEF Kept
  <2> QED
    BY <2>4, <2>5 DEF Ended
<1> QED
  BY <1>1, <1>2

\* Every statement is a step of RunTable or none: a run opens, ends and is forgotten in
\* this order, and its row is that of its end until then.
THEOREM RetentionImplements == Spec => ImplementsRunTable
<1> DEFINE tableVars == <<Running, Ended>>
<1>1. Ended = {[run |-> r, row |-> runs[r]] : r \in {q \in Run : runs[q] # None} \ Running}
  BY DEF Ended, Kept
<1>2. Init => Running = {} /\ Ended = {}
  BY DEF Init, Running, Ended, Kept
<1>3. TypeOK /\ [Next]_vars => [Table!Next]_tableVars
  <2> SUFFICES ASSUME TypeOK, [Next]_vars
               PROVE  [Table!Next]_tableVars
    OBVIOUS
  <2>1. ASSUME NEW r \in Run, OpenRun(r)
        PROVE  Table!Next
    <3>1. r \notin Table!Known
      BY <2>1, OpenRunOpens, KnownIsKept, <1>1 DEF Table!Known
    <3>2. Running' = Running \cup {r} /\ Ended' = Ended
      BY <2>1, OpenRunOpens
    <3> QED
      BY <3>1, <3>2 DEF Table!Next, Table!Open, Ended, Kept
  <2>2. ASSUME NEW r \in Run, CloseRun(r)
        PROVE  Table!Next
    <3>1. /\ r \in Running
          /\ Running' = Running \ {r}
          /\ Ended' = Ended \cup {[run |-> r, row |-> runs'[r]]}
      BY <2>2, CloseRunEnds
    <3>2. \E e \in Ended' : e.run = r /\ Ended' = Ended \cup {e}
      BY <3>1
    <3> QED
      BY <3>1, <3>2 DEF Table!Next, Table!End, Ended, Kept
  <2>3. CASE PruneRuns
    <3>1. Running' = Running /\ Ended' \subseteq Ended
      BY <2>3, PruneRunsForgets
    <3> QED
      BY <3>1 DEF Table!Next, Table!Forget, Ended, Kept
  <2>4. CASE runs' = runs
    BY <2>4 DEF Running, Ended, Kept
  <2>5. \/ PruneRuns \/ runs' = runs
        \/ \E r \in Run : OpenRun(r) \/ CloseRun(r)
    BY DEF Next, vars, TimePasses, InsertEvent, InsertMetric, BeginPrune, PruneMetrics,
       PruneEvents, Pruned, PruneStops
  <2> QED
    BY <2>1, <2>2, <2>3, <2>4, <2>5
<1> QED
  BY <1>2, <1>3, TypeCorrect, PTL DEF Spec, ImplementsRunTable, Table!Spec, Table!Init, Ended, Kept
================================================================================
