----------------------------- MODULE LogScanProofs -----------------------------
(***************************************************************************)
(* The log scan for journals of any length, any window, scans of any size, *)
(* overlapping and cut short in any way.                                   *)
(***************************************************************************)
EXTENDS LogScan, FiniteSetTheorems, SequenceTheorems, TLAPS

\* Events are about entries of the journal and no older than them; what a scan has
\* read is in the journal; the journal is not ahead of the clock.
ScanInv ==
  /\ \A i \in DOMAIN journal : journal[i] <= now
  /\ \A k \in DOMAIN events : /\ events[k].entry \in DOMAIN journal
                              /\ events[k].at >= journal[events[k].entry]
  /\ \A k \in DOMAIN batch : batch[k] \in read
  /\ read \subseteq DOMAIN journal

\* Each entry read is still to be considered, or has an event at or after it.
TraceInv ==
  \A i \in read : \/ \E k \in DOMAIN batch : batch[k] = i
                  \/ \E e \in Rows : e.at >= journal[i]

Scan == TypeOK /\ ScanInv /\ NoEntryTwice /\ TraceInv

-------------------------------------------------------------------------------
(* Lemmas *)

\* A query returns entries of the journal.
LEMMA QueryReads ==
  ASSUME TypeOK
  PROVE  /\ Query \in Seq(EntryId)
         /\ \A k \in DOMAIN Query : Query[k] \in DOMAIN journal
<1> DEFINE count == Smaller(MaxLines, Cardinality(Matching))
<1>1. Len(journal) \in Nat /\ DOMAIN journal = 1 .. Len(journal)
  BY DEF TypeOK
<1>2. IsFiniteSet(1 .. Len(journal)) /\ Cardinality(1 .. Len(journal)) = Len(journal)
  <2>1. /\ IsFiniteSet(1 .. Len(journal))
        /\ Cardinality(1 .. Len(journal)) = IF 1 > Len(journal) THEN 0 ELSE Len(journal) - 1 + 1
    BY <1>1, FS_Interval
  <2> QED
    BY <1>1, <2>1
<1>3. Matching \subseteq 1 .. Len(journal)
  BY <1>1 DEF Matching
<1>4. Cardinality(Matching) \in Nat /\ Cardinality(Matching) <= Len(journal)
  BY <1>2, <1>3, FS_Subset, FS_CardinalityType
<1>5. count \in Nat /\ count <= Len(journal)
  BY <1>4, LogScanAssumption DEF Smaller
<1>6. Query = [k \in 1 .. count |-> Len(journal) - count + k]
  BY DEF Query
<1> HIDE DEF count
<1>7. \A k \in 1 .. count : Len(journal) - count + k \in 1 .. Len(journal)
  BY <1>1, <1>5
<1>8. 1 .. Len(journal) \subseteq EntryId
  BY <1>1, LogScanAssumption DEF TypeOK, EntryId
<1>9. Query \in [1 .. count -> EntryId]
  BY <1>6, <1>7, <1>8
<1>10. DOMAIN Query = 1 .. count /\ \A k \in 1 .. count : Query[k] = Len(journal) - count + k
  BY <1>6
<1> HIDE DEF Query
<1>11. Query \in Seq(EntryId)
  BY <1>5, <1>9
<1> QED
  BY <1>1, <1>7, <1>10, <1>11

\* One entry less to consider.
LEMMA TailLeaves ==
  ASSUME NEW s \in Seq(EntryId), s # <<>>
  PROVE  /\ Tail(s) \in Seq(EntryId)
         /\ Head(s) \in EntryId /\ 1 \in DOMAIN s /\ Head(s) = s[1]
         /\ \A k \in DOMAIN Tail(s) : k + 1 \in DOMAIN s /\ Tail(s)[k] = s[k + 1]
OBVIOUS

LEMMA RestStays ==
  ASSUME NEW s \in Seq(EntryId), s # <<>>, NEW i, \E k \in DOMAIN s : s[k] = i
  PROVE  i = s[1] \/ \E k \in DOMAIN Tail(s) : Tail(s)[k] = i
<1>1. PICK k \in DOMAIN s : s[k] = i
  OBVIOUS
<1>2. CASE k = 1
  BY <1>1, <1>2
<1>3. CASE k # 1
  <2>1. k - 1 \in DOMAIN Tail(s) /\ Tail(s)[k - 1] = s[k]
    BY <1>3
  <2> QED
    BY <1>1, <2>1
<1> QED
  BY <1>2, <1>3

-------------------------------------------------------------------------------
(* Steps *)

LEMMA ServiceLogsKeeps == ASSUME Scan, ServiceLogs PROVE Scan'
<1>1. /\ DOMAIN journal \subseteq DOMAIN journal'
      /\ \A i \in DOMAIN journal : journal'[i] = journal[i]
      /\ \A i \in DOMAIN journal' : i \in DOMAIN journal \/ journal'[i] = now
      /\ journal' \in Seq(0 .. MaxTime) /\ Len(journal') = Len(journal) + 1
  BY DEF Scan, TypeOK, ServiceLogs
<1>2. TypeOK'
  BY <1>1, LogScanAssumption DEF Scan, TypeOK, ServiceLogs
<1>3. now \in Nat
  BY LogScanAssumption DEF Scan, TypeOK
<1>4. ScanInv'
  BY <1>1, <1>3 DEF Scan, ScanInv, ServiceLogs
<1>5. NoEntryTwice' /\ TraceInv'
  BY <1>1 DEF Scan, ScanInv, NoEntryTwice, TraceInv, Rows, ServiceLogs
<1> QED
  BY <1>2, <1>4, <1>5 DEF Scan

LEMMA BeginScanKeeps == ASSUME Scan, BeginScan PROVE Scan'
<1>1. batch' = Query /\ read' = {Query[k] : k \in DOMAIN Query}
  BY DEF BeginScan
<1>2. Query \in Seq(EntryId) /\ \A k \in DOMAIN Query : Query[k] \in DOMAIN journal
  BY QueryReads DEF Scan
<1> HIDE DEF Query
<1>3. read' \subseteq EntryId
  BY <1>1, <1>2
<1>4. TypeOK'
  BY <1>1, <1>2, <1>3 DEF Scan, TypeOK, BeginScan
<1>5. ScanInv'
  BY <1>1, <1>2 DEF Scan, ScanInv, BeginScan
<1>6. NoEntryTwice' /\ TraceInv'
  BY <1>1 DEF Scan, NoEntryTwice, TraceInv, BeginScan
<1> QED
  BY <1>4, <1>5, <1>6 DEF Scan

LEMMA SkipEntryKeeps == ASSUME Scan, SkipEntry PROVE Scan'
<1>1. batch \in Seq(EntryId) /\ batch # <<>> /\ batch' = Tail(batch)
  BY DEF Scan, TypeOK, SkipEntry
<1>2. TypeOK' /\ ScanInv' /\ NoEntryTwice'
  BY <1>1, TailLeaves DEF Scan, TypeOK, ScanInv, NoEntryTwice, SkipEntry
<1>3. \E e \in Rows : e.at >= journal[batch[1]]
  BY <1>1, TailLeaves DEF SkipEntry, HasRecentEvent
<1>4. TraceInv'
  <2>1. SUFFICES ASSUME NEW i \in read
                 PROVE  \/ \E k \in DOMAIN batch' : batch'[k] = i
                        \/ \E e \in Rows : e.at >= journal[i]
    BY DEF TraceInv, Rows, SkipEntry
  <2>2. \/ \E k \in DOMAIN batch : batch[k] = i
        \/ \E e \in Rows : e.at >= journal[i]
    BY DEF Scan, TraceInv
  <2> QED
    BY <1>1, <1>3, <2>2, RestStays
<1> QED
  BY <1>2, <1>4 DEF Scan

\* The new event is no older than the entry; an older event of the same entry would
\* have been a reason to skip it.
LEMMA RecordEntryKeeps == ASSUME Scan, RecordEntry PROVE Scan'
<1> DEFINE new == [entry |-> Head(batch), at |-> now, cursor |-> None]
<1>1. batch \in Seq(EntryId) /\ batch # <<>> /\ batch' = Tail(batch)
  BY DEF Scan, TypeOK, RecordEntry
<1>2. Head(batch) \in EntryId /\ Head(batch) \in DOMAIN journal /\ Head(batch) = batch[1]
  BY <1>1, TailLeaves DEF Scan, ScanInv
<1>3. journal[Head(batch)] \in Nat /\ journal[Head(batch)] <= now /\ now \in Nat
  BY <1>2, LogScanAssumption DEF Scan, ScanInv, TypeOK
<1>4. new \in [entry : EntryId, at : 0 .. MaxTime, cursor : EntryId \cup {None}]
  BY <1>2 DEF Scan, TypeOK
<1>5. /\ events' = Append(events, new)
      /\ UNCHANGED <<now, journal, pc, read>>
  BY DEF RecordEntry
<1> HIDE DEF new
<1>6. /\ events' \in Seq([entry : EntryId, at : 0 .. MaxTime, cursor : EntryId \cup {None}])
      /\ \A k \in DOMAIN events : k \in DOMAIN events' /\ events'[k] = events[k]
      /\ Len(events) + 1 \in DOMAIN events' /\ events'[Len(events) + 1] = new
      /\ \A k \in DOMAIN events' : k \in DOMAIN events \/ k = Len(events) + 1
  BY <1>4, <1>5 DEF Scan, TypeOK
<1>7. new.entry = Head(batch) /\ new.at = now
  BY DEF new
<1>8. TypeOK'
  BY <1>1, <1>5, <1>6, TailLeaves DEF Scan, TypeOK
<1>9. ScanInv'
  <2>1. \A k \in DOMAIN events' : /\ events'[k].entry \in DOMAIN journal
                                  /\ events'[k].at >= journal[events'[k].entry]
    BY <1>2, <1>3, <1>6, <1>7 DEF Scan, ScanInv
  <2>2. \A k \in DOMAIN batch' : batch'[k] \in read
    BY <1>1, TailLeaves DEF Scan, ScanInv
  <2> QED
    BY <1>5, <2>1, <2>2 DEF Scan, ScanInv
<1>10. NoEntryTwice'
  <2>1. \A k \in DOMAIN events : events[k].entry # Head(batch)
    <3>1. \A e \in Rows : ~(e.at >= journal[Head(batch)])
      BY DEF RecordEntry, HasRecentEvent
    <3>2. \A k \in DOMAIN events : ~(events[k].at >= journal[Head(batch)])
      BY <3>1 DEF Rows
    <3> QED
      BY <3>2 DEF Scan, ScanInv
  <2> QED
    BY <1>6, <1>7, <2>1 DEF Scan, NoEntryTwice
<1>11. TraceInv'
  <2>1. Rows \subseteq Rows' /\ new \in Rows'
    BY <1>6 DEF Rows
  <2>2. \E e \in Rows' : e.at >= journal[batch[1]]
    BY <1>2, <1>3, <1>7, <2>1
  <2>3. SUFFICES ASSUME NEW i \in read
                 PROVE  \/ \E k \in DOMAIN batch' : batch'[k] = i
                        \/ \E e \in Rows' : e.at >= journal[i]
    BY <1>5 DEF TraceInv
  <2>4. \/ \E k \in DOMAIN batch : batch[k] = i
        \/ \E e \in Rows : e.at >= journal[i]
    BY DEF Scan, TraceInv
  <2> QED
    BY <1>1, <2>1, <2>2, <2>4, RestStays
<1> QED
  BY <1>8, <1>9, <1>10, <1>11 DEF Scan

LEMMA NextScan == Scan /\ [Next]_vars => Scan'
<1> SUFFICES ASSUME Scan, [Next]_vars
             PROVE  Scan'
  OBVIOUS
<1>1. CASE TimePasses
  <2>1. now' = now + 1 /\ now \in Nat /\ now' \in 0 .. MaxTime
    BY <1>1, LogScanAssumption DEF Scan, TypeOK, TimePasses
  <2>2. \A i \in DOMAIN journal : journal[i] \in Nat
    BY LogScanAssumption DEF Scan, TypeOK
  <2> QED
    BY <1>1, <2>1, <2>2 DEF Scan, TypeOK, ScanInv, NoEntryTwice, TraceInv, Rows, TimePasses
<1>2. CASE EndScan \/ ScanFails
  <2>1. batch' = <<>> /\ read' = {} /\ pc' = "idle" /\ UNCHANGED <<now, journal, events>>
    BY <1>2 DEF EndScan, ScanFails
  <2>2. TypeOK'
    BY <2>1 DEF Scan, TypeOK
  <2>3. ScanInv'
    BY <2>1 DEF Scan, ScanInv
  <2> QED
    BY <2>1, <2>2, <2>3 DEF Scan, NoEntryTwice, TraceInv
<1>3. CASE UNCHANGED vars
  BY <1>3 DEF Scan, TypeOK, ScanInv, NoEntryTwice, TraceInv, Rows, vars
<1> QED
  BY <1>1, <1>2, <1>3, ServiceLogsKeeps, BeginScanKeeps, SkipEntryKeeps, RecordEntryKeeps
     DEF Next

-------------------------------------------------------------------------------
(* Theorems *)

\* Every entry a scan has read has an event at or after it or is in hand, and the
\* event recorded for it is found when the entry is read again.
THEOREM ScanHolds == Spec => []Scan
<1>1. Init => Scan
  BY LogScanAssumption
     DEF Init, Scan, TypeOK, ScanInv, NoEntryTwice, TraceInv, EntryId
<1> QED
  BY <1>1, NextScan, PTL DEF Spec

\* Every reachable state is well typed.
THEOREM TypeCorrect == Spec => []TypeOK
BY ScanHolds, PTL DEF Scan

\* An entry becomes one event at most, however many scans read it.
THEOREM NeverTwice == Spec => []NoEntryTwice
BY ScanHolds, PTL DEF Scan

\* A scan that ends leaves no warning it read without an event at or after it.
THEOREM AlwaysATrace == Spec => []BurstLeavesATrace
<1>1. Scan => BurstLeavesATrace
  BY DEF Scan, TraceInv, BurstLeavesATrace, Scanned
<1> QED
  BY <1>1, ScanHolds, PTL
================================================================================
