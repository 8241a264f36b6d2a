-------------------------------- MODULE LogScan --------------------------------
(***************************************************************************)
(* LogManager::scan (robot-system-daemon/src/logs.rs): every so often the  *)
(* daemon reads the recent warnings of a service from journald and turns   *)
(* them into service_log_error rows of error_events (db.rs).  Scans of two *)
(* services touch different rows, so there is one service here; journal    *)
(* entries below warning are never returned by journalctl -p warning.      *)
(***************************************************************************)
EXTENDS Integers, Sequences, FiniteSets

CONSTANTS
  Lookback,    \* journal_lookback_secs
  MaxLines,    \* LOG_SCAN_MAX_LINES
  MaxTime,     \* bounds the clock
  MaxEntries,  \* bounds the journal
  None         \* no cursor

ASSUME LogScanAssumption ==
  /\ Lookback \in Nat /\ MaxTime \in Nat /\ MaxEntries \in Nat
  /\ MaxLines \in Nat \ {0}

VARIABLES
  now,      \* seconds
  journal,  \* the time of each warning, oldest first; its index is its cursor
  events,   \* rows [entry, at, cursor] in order; entry is there for the properties
  pc,       \* "idle" or "scanning"
  batch,    \* entries the scan has read and not considered yet
  read      \* all entries this scan has read

vars == <<now, journal, events, pc, batch, read>>

EntryId == 1 .. MaxEntries

TypeOK ==
  /\ now \in 0 .. MaxTime
  /\ journal \in Seq(0 .. MaxTime) /\ Len(journal) <= MaxEntries
  /\ events \in Seq([entry : EntryId, at : 0 .. MaxTime, cursor : EntryId \cup {None}])
  /\ pc \in {"idle", "scanning"}
  /\ batch \in Seq(EntryId)
  /\ read \subseteq EntryId

Init ==
  /\ now = 0
  /\ journal = <<>>
  /\ events = <<>>
  /\ pc = "idle"
  /\ batch = <<>>
  /\ read = {}

-------------------------------------------------------------------------------
(* journald and the clock, external *)

TimePasses ==
  /\ now < MaxTime
  /\ now' = now + 1
  /\ UNCHANGED <<journal, events, pc, batch, read>>

ServiceLogs ==
  /\ Len(journal) < MaxEntries
  /\ journal' = Append(journal, now)
  /\ UNCHANGED <<now, events, pc, batch, read>>

-------------------------------------------------------------------------------
(* The scan *)

Rows == {events[k] : k \in DOMAIN events}

\* latest_cursor: of the newest event that has one.
LatestCursor ==
  LET known == {e \in Rows : e.cursor # None} IN
  IF known = {} THEN None
  ELSE (CHOOSE e \in known : \A f \in known : f.at <= e.at).cursor

\* journalctl --since --after-cursor -n: the last MaxLines entries that match.
Matching ==
  {i \in DOMAIN journal :
     /\ journal[i] >= now - Lookback
     /\ LatestCursor # None => i > LatestCursor}

Smaller(a, b) == IF a < b THEN a ELSE b

\* Mutant of Query: the index is off by one.
QueryBefore ==
  LET count == Smaller(MaxLines, Cardinality(Matching)) IN
  [k \in 1 .. count |-> Len(journal) - count + k - 1]

\* The matching entries are the last ones of the journal.
Query ==
  LET count == Smaller(MaxLines, Cardinality(Matching)) IN
  [k \in 1 .. count |-> Len(journal) - count + k]

BeginScan ==
  /\ pc = "idle"
  /\ pc' = "scanning"
  /\ batch' = Query
  /\ read' = {Query[k] : k \in DOMAIN Query}
  /\ UNCHANGED <<now, journal, events>>

\* Mutants of HasRecentEvent: a strict comparison, a debounce over the window.
HasLaterEvent(since) == \E e \in Rows : e.at > since
HasEventInWindow(since) == \E e \in Rows : e.at >= since - Lookback

\* has_recent_event
HasRecentEvent(since) == \E e \in Rows : e.at >= since

\* An entry no newer than some event counts as recorded already.
SkipEntry ==
  /\ pc = "scanning"
  /\ batch # <<>>
  /\ HasRecentEvent(journal[Head(batch)])
  /\ batch' = Tail(batch)
  /\ UNCHANGED <<now, journal, events, pc, read>>

\* Event::record stamps the event with the present time and hands insert_event
\* no cursor.
RecordEntry ==
  /\ pc = "scanning"
  /\ batch # <<>>
  /\ ~HasRecentEvent(journal[Head(batch)])
  /\ events' = Append(events, [entry |-> Head(batch), at |-> now, cursor |-> None])
  /\ batch' = Tail(batch)
  /\ UNCHANGED <<now, journal, pc, read>>

EndScan ==
  /\ pc = "scanning"
  /\ batch = <<>>
  /\ pc' = "idle"
  /\ read' = {}
  /\ UNCHANGED <<now, journal, events, batch>>

\* A statement fails, or the daemon dies: the rest of the batch is dropped.
ScanFails ==
  /\ pc = "scanning"
  /\ pc' = "idle"
  /\ batch' = <<>>
  /\ read' = {}
  /\ UNCHANGED <<now, journal, events>>

Next ==
  \/ TimePasses \/ ServiceLogs
  \/ BeginScan \/ SkipEntry \/ RecordEntry \/ EndScan \/ ScanFails

Spec == Init /\ [][Next]_vars

-------------------------------------------------------------------------------
(* Properties *)

\* However often an entry is read again, it becomes one event at most: the
\* comparison of whole seconds holds although events carry no cursor.
NoEntryTwice ==
  \A k, l \in DOMAIN events : events[k].entry = events[l].entry => k = l

Scanned == pc = "scanning" /\ batch = <<>>

\* A completed scan leaves no warning it read without an event at or after it: a
\* burst is never lost altogether.
BurstLeavesATrace ==
  Scanned => \A i \in read : \E e \in Rows : e.at >= journal[i]
===============================================================================
