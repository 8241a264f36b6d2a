----------------------------- MODULE ReportsProofs -----------------------------
(***************************************************************************)
(* Theorems about Reports and DependencyTree.  What has to be known of a   *)
(* command half way is which lines it has and which keys it has yet to ask *)
(* about: LineInv says that the lines it has are true, LoopInv that it has *)
(* a line, or still has to ask, for everything that was there all along.   *)
(* A page that leaves rows out is full because places (how many rows are   *)
(* later) number the rows without a gap.                                   *)
(***************************************************************************)
EXTENDS Reports, FiniteSetTheorems, FunctionTheorems, TLAPS

-------------------------------------------------------------------------------
(* The drawn tree *)

\* The cells before a name are as many as there are units above it.
LEMMA DepthOfWay ==
  ASSUME NEW wants, NEW way \in Ways(wants), NEW drawing, NEW u
  PROVE  /\ Len(way) \in Nat \ {0}
         /\ Depth([cells |-> Cells(wants, way), unit |-> u], drawing) = Len(way)
<1> DEFINE line == [cells |-> Cells(wants, way), unit |-> u]
           B == Branches(line, drawing)
<1>1. PICK n \in 1 .. Cardinality(Group) + 1 : way \in [1 .. n -> Service \cup Group]
  BY DEF Ways
<1>2. n \in Nat \ {0} /\ Len(way) = n /\ DOMAIN way = 1 .. n
  BY <1>1, TreeAssumption, FS_CardinalityType
<1>3. line.cells = [c \in 1 .. n + 1 |-> IF c = 1 THEN "marker" ELSE Cell(wants, way, c - 1)]
  BY <1>2 DEF Cells
<1>4. line.cells[n + 1] \in {"branch", "corner"}
  BY <1>2, <1>3 DEF Cell
<1>5. n + 1 \in B /\ B \subseteq 1 .. n + 1 /\ Marker(line) = 1
  BY <1>2, <1>3, <1>4 DEF Branches, IsBranch, Marker
<1> HIDE DEF B
<1> DEFINE top == CHOOSE i \in B : \A j \in B : j <= i
<1>6. \E i \in B : \A j \in B : j <= i
  BY <1>2, <1>5
<1>7. top \in B /\ \A j \in B : j <= top
  BY <1>6, Zenon
<1>8. Depth(line, drawing) = IF B = {} THEN Indent(line) ELSE top - Marker(line)
  BY DEF Depth, B
<1> HIDE DEF top
<1>9. top = n + 1
  BY <1>2, <1>5, <1>7
<1> QED BY <1>2, <1>5, <1>8, <1>9

\* Without branches the one gap before the name is the level.
LEMMA DepthOfBareLine ==
  ASSUME NEW drawing, NEW u
  PROVE  Depth([cells |-> <<"gap">>, unit |-> u], drawing) = 1
<1> DEFINE line == [cells |-> <<"gap">>, unit |-> u]
<1>1. DOMAIN line.cells = {1} /\ line.cells[1] = "gap"
  OBVIOUS
<1>2. Branches(line, drawing) = {}
  BY <1>1 DEF Branches, IsBranch
<1>3. {i \in DOMAIN line.cells : \A j \in 1 .. i : line.cells[j] = "gap"} = {1}
  BY <1>1
<1>4. Indent(line) = 1
  BY <1>3, FS_Singleton DEF Indent
<1> QED BY <1>2, <1>4 DEF Depth

\* What a tree is drawn as.
LEMMA LinesOfWays ==
  ASSUME NEW wants, NEW drawing
  PROVE  /\ \A l \in Drawn(wants, drawing) :
              \/ l.unit = Managed
              \/ \E way \in Ways(wants) :
                   l.unit = way[Len(way)] /\ Depth(l, drawing) = Len(way)
         /\ \A way \in Ways(wants) : \E l \in Drawn(wants, drawing) :
              l.unit = way[Len(way)] /\ Depth(l, drawing) = Len(way)
<1> DEFINE bare == drawing = "flat" /\ \A way \in Ways(wants) : Len(way) = 1
           line(way) == [cells |-> IF bare THEN <<"gap">> ELSE Cells(wants, way),
                         unit |-> way[Len(way)]]
<1>1. Drawn(wants, drawing) =
        {[cells |-> << >>, unit |-> Managed]} \cup {line(way) : way \in Ways(wants)}
  BY DEF Drawn
<1>2. ASSUME NEW way \in Ways(wants)
      PROVE  line(way).unit = way[Len(way)] /\ Depth(line(way), drawing) = Len(way)
  <2>1. CASE bare
    BY <2>1, DepthOfBareLine
  <2>2. CASE ~bare
    BY <2>2, DepthOfWay
  <2> QED BY <2>1, <2>2
<1> HIDE DEF line
<1> QED BY <1>1, <1>2

\* However the tree is drawn, in either alphabet, with or without branches on a single
\* level and with whatever below it, the code reads off it the services the target
\* wants itself: no more and no fewer.
THEOREM DirectServices ==
  ASSUME NEW wants \in [Group \cup {Managed} -> SUBSET (Service \cup Group)],
         NEW drawing \in Drawing
  PROVE  ServiceDependencies(wants, drawing) = wants[Managed] \cap Service
<1>1. ASSUME NEW u \in ServiceDependencies(wants, drawing)
      PROVE  u \in wants[Managed] \cap Service
  <2>1. PICK l \in Drawn(wants, drawing) :
          l.unit = u /\ Depth(l, drawing) = 1 /\ l.unit \in Service
    BY <1>1 DEF ServiceDependencies
  <2>2. PICK way \in Ways(wants) : l.unit = way[Len(way)] /\ Depth(l, drawing) = Len(way)
    <3>1. l.unit # Managed
      BY <2>1, TreeAssumption
    <3>2. \A m \in Drawn(wants, drawing) :
            \/ m.unit = Managed
            \/ \E way \in Ways(wants) :
                 m.unit = way[Len(way)] /\ Depth(m, drawing) = Len(way)
      BY LinesOfWays
    <3> QED BY <2>1, <3>1, <3>2
  <2>3. 1 \in DOMAIN way
    BY <2>1, <2>2, TreeAssumption, FS_CardinalityType DEF Ways
  <2>4. way[1] \in wants[Managed]
    BY <2>3 DEF Ways, Above
  <2> QED BY <2>1, <2>2, <2>4
<1>2. ASSUME NEW u \in wants[Managed] \cap Service
      PROVE  u \in ServiceDependencies(wants, drawing)
  <2>1. PICK way \in [1 .. 1 -> Service \cup Group] : way = [i \in 1 .. 1 |-> u]
    OBVIOUS
  <2>2. Cardinality(Group) \in Nat /\ 1 \in 1 .. Cardinality(Group) + 1
    BY TreeAssumption, FS_CardinalityType
  <2>3. way \in Ways(wants)
    BY <2>1, <2>2 DEF Ways, Above
  <2>4. Len(way) = 1 /\ way[Len(way)] = u
    BY <2>1
  <2>5. PICK l \in Drawn(wants, drawing) : l.unit = u /\ Depth(l, drawing) = 1
    BY <2>3, <2>4, LinesOfWays
  <2> QED BY <2>5 DEF ServiceDependencies
<1> QED BY <1>1, <1>2

-------------------------------------------------------------------------------
(* A page: the rows that have fewer than n others after them. *)

Page(R, key, n) == {r \in R : Cardinality({q \in R : key[q] > key[r]}) < n}

\* Places are different and leave no gap.
LEMMA Places ==
  ASSUME NEW R, IsFiniteSet(R), NEW key \in [R -> Int],
         \A q, r \in R : key[q] = key[r] => q = r
  PROVE  LET place == [r \in R |-> Cardinality({q \in R : key[q] > key[r]})]
         IN  place \in Bijection(R, 0 .. Cardinality(R) - 1)
<1> DEFINE After(r) == {q \in R : key[q] > key[r]}
           place == [r \in R |-> Cardinality(After(r))]
           c == Cardinality(R)
<1>1. c \in Nat
  BY FS_CardinalityType
<1>2. ASSUME NEW r \in R  PROVE IsFiniteSet(After(r)) /\ Cardinality(After(r)) \in Nat
  BY FS_Subset, FS_CardinalityType
<1>3. ASSUME NEW r \in R  PROVE Cardinality(After(r)) \in 0 .. c - 1
  <2>1. IsFiniteSet(R \ {r}) /\ Cardinality(R \ {r}) = c - 1
    BY FS_RemoveElement
  <2>2. After(r) \in SUBSET (R \ {r})
    OBVIOUS
  <2>3. Cardinality(After(r)) <= c - 1
    BY <2>1, <2>2, FS_Subset
  <2> QED BY <1>1, <1>2, <2>3
<1>4. ASSUME NEW q \in R, NEW r \in R, key[q] > key[r]
      PROVE  Cardinality(After(q)) < Cardinality(After(r))
  <2>1. After(q) \in SUBSET After(r) /\ q \in After(r) /\ q \notin After(q)
    BY <1>4
  <2>2. /\ Cardinality(After(q)) <= Cardinality(After(r))
        /\ Cardinality(After(q)) # Cardinality(After(r))
    BY <1>2, <2>1, FS_Subset
  <2> QED BY <1>2, <2>2
<1> HIDE DEF After, c
<1>5. place \in [R -> 0 .. c - 1]
  BY <1>3
<1>6. ASSUME NEW q \in R, NEW r \in R, place[q] = place[r]  PROVE q = r
  <2>1. key[q] \in Int /\ key[r] \in Int
    OBVIOUS
  <2>2. Cardinality(After(q)) = Cardinality(After(r))
    BY <1>6
  <2>3. ~(key[q] > key[r]) /\ ~(key[r] > key[q])
    BY <1>2, <1>4, <2>2
  <2> QED BY <2>1, <2>3
<1>7. place \in Injection(R, 0 .. c - 1)
  BY <1>5, <1>6, Fun_IsInj
<1>8. IsFiniteSet(0 .. c - 1) /\ Cardinality(0 .. c - 1) = c
  BY <1>1, FS_Interval
<1>9. place \in Surjection(R, 0 .. c - 1)
  BY <1>7, <1>8, FS_Injection DEF c
<1> QED BY <1>7, <1>9 DEF Bijection, After, c

\* A page that leaves out a row is full, and what it shows comes after that row.
LEMMA FullPage ==
  ASSUME NEW R, IsFiniteSet(R), NEW key \in [R -> Int],
         \A q, r \in R : key[q] = key[r] => q = r,
         NEW n \in Nat, NEW x \in R \ Page(R, key, n)
  PROVE  /\ Cardinality(Page(R, key, n)) = n
         /\ \A r \in Page(R, key, n) : key[r] > key[x]
<1> DEFINE After(r) == {q \in R : key[q] > key[r]}
           place == [r \in R |-> Cardinality(After(r))]
           c == Cardinality(R)
           page == Page(R, key, n)
           shown == [r \in page |-> place[r]]
<1>1. place \in Bijection(R, 0 .. c - 1)
  BY Places
<1> HIDE DEF place, page, c
<1>0. c \in Nat
  BY FS_CardinalityType DEF c
<1>2. place[x] \in 0 .. c - 1 /\ \A r \in R : place[r] \in Nat
  <2>1. place \in [R -> 0 .. c - 1]
    BY <1>1, Fun_BijectionProperties
  <2> QED BY <1>0, <2>1
<1> USE DEF place, page
<1>3. page = {r \in R : place[r] < n}
  BY DEF Page
<1>4. page \subseteq R /\ n <= place[x]
  BY <1>2, <1>3
<1>5. ASSUME NEW r \in page  PROVE key[r] > key[x]
  <2>1. r \in R /\ place[r] < n
    BY <1>3
  <2>2. CASE key[r] <= key[x]
    <3>1. After(x) \in SUBSET After(r)
      BY <2>1, <2>2
    <3>2. IsFiniteSet(After(r))
      BY FS_Subset
    <3>3. Cardinality(After(x)) <= Cardinality(After(r))
      BY <3>1, <3>2, FS_Subset
    <3>4. place[x] <= place[r]
      BY <2>1, <3>3
    <3> QED BY <1>2, <1>4, <2>1, <3>4
  <2> QED BY <2>1, <2>2
<1> HIDE DEF place, page
<1>6. shown \in [page -> 0 .. n - 1]
  BY <1>0, <1>2, <1>3
<1>7. \A q, r \in page : shown[q] = shown[r] => q = r
  BY <1>1, <1>4, Fun_BijectionProperties
<1>8. ASSUME NEW i \in 0 .. n - 1  PROVE \E r \in page : shown[r] = i
  <2>1. i \in 0 .. c - 1
    BY <1>0, <1>2, <1>4
  <2>2. PICK r \in R : place[r] = i
    BY <1>1, <2>1 DEF Bijection, Surjection
  <2> QED BY <1>3, <2>2
<1>9. shown \in Bijection(page, 0 .. n - 1)
  BY <1>6, <1>7, <1>8, Fun_IsBij
<1>10. IsFiniteSet(page)
  BY <1>4, FS_Subset
<1>11. Cardinality(0 .. n - 1) = n
  BY FS_Interval
<1>12. Cardinality(page) = n
  BY <1>9, <1>10, <1>11, FS_Bijection DEF ExistsBijection
<1> QED BY <1>5, <1>12 DEF page

-------------------------------------------------------------------------------
(* The inductive invariant *)

\* Which command is at which query.
LabelInv ==
  /\ pc \in {"dir", "files"} => command \in Listings \cup {"package list", "package info"}
  /\ pc \in {"tree", "show"} => command \in Listings
  /\ pc = "again" => command = "system status"
  /\ pc = "dpkg" => command \in {"package list", "package info"}
  /\ pc \in {"open", "query"} => command \in Queries
  /\ pc = "status" => command = "service status"
  /\ pc = "all" => command = "service list --all"
  /\ pc = "tasks" => command \in TaskLists
  /\ pc = "task" => command \in TaskLists \cup {"task show"}
  /\ pc = "journal" => command = "logs"

\* Where the answer comes from, and why it does.
SourceInv ==
  /\ pc = "open" => source = "live"
  /\ pc = "query" => source = "database"
  /\ source = "database" => command \in Queries /\ pc \in {"query", "shown", "failed"}
  /\ command \in Queries /\ source = "live" /\ pc # "open" => \E w \in past : w.db = "absent"

\* What a loop still has to query.
TodoInv ==
  /\ pc = "files" => todo \subseteq Package
  /\ pc = "show" => todo \subseteq Service
  /\ pc = "dpkg" => todo \subseteq found
  /\ pc = "task" => todo \subseteq Task
  /\ pc \in {"show", "dpkg", "task"} /\ command # "task show" =>
       \A k \in todo :
         (command = "package history" => k = Arg) => \E w \in past : k \in Members(w)

\* Manifests found were there, and those that were there all the time are found.
FoundInv ==
  /\ \A p \in found : p \in Package /\ \E w \in past : w.file[p] = "whole"
  /\ pc \in {"files", "tree", "show", "again", "dpkg"} =>
       \A p \in Package : (\A w \in past : w.file[p] = "whole") =>
         p \in found \/ (pc = "files" /\ p \in todo)

Truthful(l) ==
  /\ \E w \in past : l.key \in Members(w)
  /\ \E w \in past : l.state \in States(w, l.key)
  /\ \A p \in l.owners : p \in found /\ l.key \in Declares[p]

\* Before the first line.
Quiet == {"open", "query", "dir", "files", "tree", "status", "all", "tasks", "journal"}

\* Lines, of an answer or of a part of it, are true.
LineInv ==
  /\ pc \in Quiet => lines = {}
  /\ \A l \in lines : Truthful(l) /\ (pc \in {"shown", "failed"} => Runs(l.state))

\* A listing has a line for a service, and one only, or has to query it yet.
ListingInv ==
  command \in Listings /\ source = "live" =>
    /\ \A l, m \in lines : l.key = m.key => l = m
    /\ \A l \in lines : l.key \in Service /\ (pc = "show" => l.key \notin todo)

Always(k) == \A w \in past : k \in Members(w)

Shown(k) ==
  \E l \in lines :
    /\ l.key = k
    /\ command \in Listings =>
         {p \in Package : k \in Declares[p] /\ \A w \in past : w.file[p] = "whole"}
           \subseteq l.owners

\* Loops pass over nothing that is there all the time.
LoopInv ==
  pc \in {"show", "again", "dpkg", "task"} /\ command # "task show" =>
    \A k : Always(k) => (k \in todo /\ pc # "again") \/ Shown(k)

\* The count is that of some moment.
TotalInv ==
  pc = "shown" /\ command = "system status" =>
    \E w \in past : total = Cardinality(w.wants \cap Service)

ReasonInv ==
  /\ FailureHasItsReason
  /\ pc = "dpkg" /\ command = "package info" => Arg \in found

IInv ==
  /\ TypeOK /\ LabelInv /\ SourceInv /\ TodoInv /\ FoundInv
  /\ LineInv /\ ListingInv /\ LoopInv /\ NothingMissed /\ TotalInv /\ ReasonInv

-------------------------------------------------------------------------------
(* Types *)

\* Every world a command may begin in is well formed.
LEMMA InitWorld == ASSUME Init PROVE world \in World
<1>1. ASSUME NEW part, NEW values, NEW usual
      PROVE  Start(part, values, usual) \subseteq values \cup {usual}
  BY DEF Start
<1>2. [s \in Service |-> "active"] \in [Service -> UnitState]
  BY DEF UnitState
<1>3. {[s \in Service |-> a] : a \in {"active", "absent"}} \subseteq [Service -> UnitState]
  BY DEF UnitState
<1>4. [Package -> {"broken", "whole"}] \subseteq [Package -> Manifest]
  BY DEF Manifest
<1>5. [p \in Package |-> "whole"] \in [Package -> Manifest]
  BY DEF Manifest
<1>6. [p \in Package |-> "installed"] \in [Package -> DpkgState]
  BY DEF DpkgState
<1>7. [t \in Task |-> "none"] \in [Task -> TaskFile]
  BY DEF TaskFile
<1>8. ASSUME NEW Row PROVE {} \in Table(Row)
  BY DEF Table
<1> DEFINE Wants0 == Start("wants", SUBSET (Service \cup Group), {})
           Unit0 == Start("unit", {[s \in Service |-> a] : a \in {"active", "absent"}},
                      [s \in Service |-> "active"])
           File0 == Start("file", [Package -> {"broken", "whole"}], [p \in Package |-> "whole"])
           Dpkg0 == Start("dpkg", [Package -> DpkgState], [p \in Package |-> "installed"])
           Task0 == Start("task", [Task -> TaskFile], [t \in Task |-> "none"])
           Db0 == Start("db", {"absent", "bare", "ready"}, "ready")
           Runs0 == Start("runs", Table(RunRow), {})
           Metrics0 == Start("metrics", Table(MetricRow), {})
           Events0 == Start("events", Table(EventRow), {})
           Journal0 == Start("journal", Table(LogEntry), {})
<1>9. world \in [wants : Wants0, unit : Unit0, file : File0, dpkg : Dpkg0, task : Task0,
                 db : Db0, runs : Runs0, metrics : Metrics0, events : Events0,
                 journal : Journal0]
  BY DEF Init
<1>10. /\ Wants0 \subseteq SUBSET (Service \cup Group)
       /\ Unit0 \subseteq [Service -> UnitState]
       /\ File0 \subseteq [Package -> Manifest]
       /\ Dpkg0 \subseteq [Package -> DpkgState]
       /\ Task0 \subseteq [Task -> TaskFile]
  <2>1. Wants0 \subseteq SUBSET (Service \cup Group)
    BY <1>1
  <2>2. Unit0 \subseteq [Service -> UnitState]
    BY <1>1, <1>2, <1>3
  <2>3. File0 \subseteq [Package -> Manifest]
    BY <1>1, <1>4, <1>5
  <2>4. Dpkg0 \subseteq [Package -> DpkgState]
    BY <1>1, <1>6
  <2>5. Task0 \subseteq [Task -> TaskFile]
    BY <1>1, <1>7
  <2> QED BY <2>1, <2>2, <2>3, <2>4, <2>5
<1>11. /\ Db0 \subseteq {"absent", "bare", "ready"}
       /\ Runs0 \subseteq Table(RunRow)
       /\ Metrics0 \subseteq Table(MetricRow)
       /\ Events0 \subseteq Table(EventRow)
       /\ Journal0 \subseteq Table(LogEntry)
  BY <1>1, <1>8
<1> HIDE DEF Wants0, Unit0, File0, Dpkg0, Task0, Db0, Runs0, Metrics0, Events0, Journal0
<1> QED BY <1>9, <1>10, <1>11 DEF World

\* Whoever changes the world leaves one that can be asked about.
LEMMA ChangeType == ASSUME world \in World, Change PROVE world' \in World
<1> USE DEF World
<1>1. CASE Systemd
  <2>1. ASSUME NEW u \in Service \cup Group,
               world' = [world EXCEPT !.wants = Toggle(@, u)]
        PROVE  world' \in World
    <3>1. Toggle(world.wants, u) \in SUBSET (Service \cup Group)
      BY DEF Toggle
    <3> QED BY <2>1, <3>1
  <2>2. ASSUME NEW u \in Service, NEW s \in UnitState, world' = [world EXCEPT !.unit[u] = s]
        PROVE  world' \in World
    BY <2>2
  <2>3. ASSUME NEW e \in LogEntry, \A f \in world.journal : f.id < e.id,
               world' = [world EXCEPT !.journal = @ \cup {e}]
        PROVE  world' \in World
    <3>1. world.journal \cup {e} \in Table(LogEntry)
      BY <2>3 DEF Table, LogEntry
    <3> QED BY <2>3, <3>1
  <2>4. ASSUME NEW e \in LogEntry, world' = [world EXCEPT !.journal = @ \ {e}]
        PROVE  world' \in World
    <3>1. world.journal \ {e} \in Table(LogEntry)
      BY DEF Table
    <3> QED BY <2>4, <3>1
  <2> QED BY <1>1, <2>1, <2>2, <2>3, <2>4 DEF Systemd
<1>2. CASE Rsctl
  <2>1. ASSUME NEW p \in Package, NEW f \in Manifest, world' = [world EXCEPT !.file[p] = f]
        PROVE  world' \in World
    BY <2>1
  <2>2. ASSUME NEW p \in Package, NEW s \in DpkgState, world' = [world EXCEPT !.dpkg[p] = s]
        PROVE  world' \in World
    BY <2>2
  <2>3. ASSUME NEW t \in Task, NEW s \in TaskFile \ {"none"},
               world' = [world EXCEPT !.task[t] = s]
        PROVE  world' \in World
    BY <2>3
  <2> QED BY <1>2, <2>1, <2>2, <2>3 DEF Rsctl
<1>3. CASE Collects
  <2>1. ASSUME NEW d \in {"bare", "ready"}, world' = [world EXCEPT !.db = d]
        PROVE  world' \in World
    BY <2>1
  <2>2. ASSUME NEW r \in RunRow,
               world' = [world EXCEPT !.runs = {q \in @ : q.id # r.id} \cup {r}]
        PROVE  world' \in World
    <3>1. {q \in world.runs : q.id # r.id} \cup {r} \in Table(RunRow)
      BY DEF Table
    <3> QED BY <2>2, <3>1
  <2>3. ASSUME NEW r \in world.runs,
               world' = [world EXCEPT !.runs = @ \ {r}, !.metrics = {m \in @ : m.run # r.id}]
        PROVE  world' \in World
    <3>1. world.runs \ {r} \in Table(RunRow)
      BY DEF Table
    <3>2. {m \in world.metrics : m.run # r.id} \in Table(MetricRow)
      BY DEF Table
    <3> QED BY <2>3, <3>1, <3>2
  <2>4. ASSUME NEW m \in MetricRow, \A n \in world.metrics : n.id < m.id,
               world' = [world EXCEPT !.metrics = @ \cup {m}]
        PROVE  world' \in World
    <3>1. world.metrics \cup {m} \in Table(MetricRow)
      BY <2>4 DEF Table, MetricRow
    <3> QED BY <2>4, <3>1
  <2>5. ASSUME NEW e \in EventRow, \A f \in world.events : f.id < e.id,
               world' = [world EXCEPT !.events = @ \cup {e}]
        PROVE  world' \in World
    <3>1. world.events \cup {e} \in Table(EventRow)
      BY <2>5 DEF Table, EventRow
    <3> QED BY <2>5, <3>1
  <2> QED BY <1>3, <2>1, <2>2, <2>3, <2>4, <2>5 DEF Collects
<1> QED BY <1>1, <1>2, <1>3 DEF Change

\* A step of a command, by the query it makes.
Steps ==
  \/ ListManifests \/ ManifestsLoaded \/ NoPackages
  \/ \E p \in todo : LoadManifest(p) \/ QueryDpkg(p) \/ ShowUnit(p) \/ LoadTask(p)
  \/ ReadTree \/ ListShown \/ CountTargetServices \/ ServiceStatus
  \/ ListAll \/ OpenDb \/ Query \/ Logs \/ ListTasks \/ ShowTask

\* The worlds a command has lived through stay; its own steps add none.
LEMMA Footprint ==
  ASSUME [Next]_vars, world \in past
  PROVE  /\ command' = command
         /\ past \subseteq past' /\ world' \in past'
         /\ \/ Change
            \/ UNCHANGED vars
            \/ Steps /\ UNCHANGED asked
<1>1. CASE Change
  BY <1>1 DEF Change
<1>2. CASE Steps
  BY <1>2 DEF Steps, asked, Read, ListManifests, ManifestsLoaded, NoPackages,
     LoadManifest, QueryDpkg, ShowUnit, LoadTask, ReadTree, ListShown,
     CountTargetServices, ServiceStatus, ListAll, OpenDb, Query, Logs, ListTasks,
     ShowTask
<1>3. CASE UNCHANGED vars
  BY <1>3 DEF vars
<1> QED BY <1>1, <1>2, <1>3 DEF Next, Steps, Ended

\* What target_units returns.
LEMMA Targets ==
  ASSUME TypeOK
  PROVE  \A drawing \in Drawing : TargetUnits(drawing) = world.wants \cap Service
<1>1. world.wants \in SUBSET (Service \cup Group)
  BY DEF TypeOK, World
<1>2. Wants \in [Group \cup {Managed} -> SUBSET (Service \cup Group)]
  BY <1>1, ReportsAssumption DEF Wants
<1>3. Wants[Managed] = world.wants
  BY DEF Wants
<1> QED BY <1>2, <1>3, DirectServices DEF TargetUnits, TypeOK

-------------------------------------------------------------------------------
(* Each part of the invariant is kept by every step *)

LEMMA TypeKeeps ==
  ASSUME TypeOK, LabelInv, TodoInv, [Next]_vars
  PROVE  TypeOK'
<1>1. /\ command' = command
      /\ past \subseteq past' /\ world' \in past'
      /\ \/ Change
         \/ UNCHANGED vars
         \/ Steps /\ UNCHANGED asked
  BY Footprint DEF TypeOK
<1> USE DEF TypeOK
<1>2. CASE Change
  BY <1>1, <1>2, ChangeType DEF Change
<1>3. CASE UNCHANGED vars
  BY <1>3 DEF vars
<1>4. CASE Steps /\ UNCHANGED asked
  <2> USE DEF Read
  <2>1. UNCHANGED asked
    BY <1>4
  <2>2. CASE ListManifests
    BY <2>1, <2>2 DEF asked, ListManifests
  <2>3. CASE ManifestsLoaded
    BY <2>1, <2>3 DEF asked, ManifestsLoaded, LabelInv, Listings
  <2>4. CASE NoPackages
    BY <2>1, <2>4 DEF asked, NoPackages
  <2>5. ASSUME NEW p \in todo, LoadManifest(p) PROVE TypeOK'
    BY <2>1, <2>5 DEF asked, LoadManifest, TodoInv
  <2>6. ASSUME NEW p \in todo, QueryDpkg(p) PROVE TypeOK'
    BY <2>1, <2>6 DEF asked, QueryDpkg, Line
  <2>7. ASSUME NEW p \in todo, ShowUnit(p) PROVE TypeOK'
    BY <2>1, <2>7 DEF asked, ShowUnit, Line
  <2>8. ASSUME NEW p \in todo, LoadTask(p) PROVE TypeOK'
    <3>0. lines' \subseteq lines \cup {Line(p, world.task[p], {})}
      BY <2>8 DEF LoadTask, HistoryFor
    <3>1. \A l \in lines' : l.owners \subseteq found
      BY <3>0 DEF Line
    <3>2. todo' \subseteq Service \cup Package \cup Task /\ pc' \in {"shown", "task"}
      BY <2>8 DEF LoadTask
    <3> QED BY <2>1, <2>8, <3>1, <3>2 DEF asked, LoadTask
  <2>9. CASE ReadTree
    BY <2>1, <2>9, Targets DEF asked, ReadTree
  <2>10. CASE ListShown
    BY <2>1, <2>10 DEF asked, ListShown, Live
  <2>11. CASE CountTargetServices
    <3> DEFINE units == world.wants \cap Service
    <3>1. Cardinality(units) \in 0 .. Cardinality(Service)
      <4>1. units \in SUBSET Service
        OBVIOUS
      <4>2. Cardinality(units) <= Cardinality(Service)
        BY <4>1, TreeAssumption, FS_Subset
      <4>3. Cardinality(units) \in Nat /\ Cardinality(Service) \in Nat
        BY <4>1, TreeAssumption, FS_Subset, FS_CardinalityType
      <4> QED BY <4>2, <4>3
    <3>2. total' = Cardinality(units)
      BY <2>11, Targets DEF CountTargetServices
    <3> HIDE DEF units
    <3> QED BY <2>1, <2>11, <3>1, <3>2 DEF asked, CountTargetServices
  <2>12. CASE ServiceStatus
    BY <2>1, <2>12 DEF asked, ServiceStatus, Line
  <2>13. CASE ListAll
    BY <2>1, <2>13 DEF asked, ListAll, Line
  <2>14. CASE OpenDb
    BY <2>1, <2>14 DEF asked, OpenDb
  <2>15. CASE Query
    <3>1. command \in Queries
      BY <2>15 DEF Query, LabelInv
    <3>2. \A ls \in {ProcessList, ProcessHistory, Metrics, ErrorList} :
            \A l \in ls : l.owners = {}
      BY DEF ProcessList, ProcessHistory, Metrics, ErrorList, Line
    <3>3. lines' \in {lines, ProcessList, ProcessHistory, Metrics, ErrorList}
      BY <2>15, <3>1 DEF Query, Queries
    <3>4. \A l \in lines' : l.owners \subseteq found
      BY <3>2, <3>3
    <3> QED BY <2>1, <2>15, <3>4 DEF asked, Query
  <2>16. CASE Logs
    BY <2>1, <2>16 DEF asked, Logs, Line
  <2>17. CASE ListTasks
    BY <2>1, <2>17 DEF asked, ListTasks
  <2>18. CASE ShowTask
    <3>0. lines' \subseteq {Line(Arg, world.task[Arg], {})}
      BY <2>18 DEF ShowTask
    <3>1. \A l \in lines' : l.owners \subseteq found
      BY <3>0 DEF Line
    <3> QED BY <2>1, <2>18, <3>1 DEF asked, ShowTask
  <2> QED BY <1>4, <2>2, <2>3, <2>4, <2>5, <2>6, <2>7, <2>8, <2>9, <2>10, <2>11,
             <2>12, <2>13,
            <2>14, <2>15, <2>16, <2>17, <2>18 DEF Steps
<1> QED BY <1>1, <1>2, <1>3, <1>4

LEMMA LabelKeeps ==
  ASSUME TypeOK, LabelInv, [Next]_vars
  PROVE  LabelInv'
<1>1. /\ command' = command
      /\ \/ Change
         \/ UNCHANGED vars
         \/ Steps /\ UNCHANGED asked
  BY Footprint DEF TypeOK
<1> USE DEF LabelInv, Read
<1>2. CASE Change \/ UNCHANGED vars
  BY <1>2 DEF Change, vars
<1>3. CASE ListManifests \/ ManifestsLoaded \/ NoPackages
  BY <1>1, <1>3 DEF ListManifests, ManifestsLoaded, NoPackages, Listings
<1>4. ASSUME NEW p \in todo, LoadManifest(p) \/ QueryDpkg(p) \/ ShowUnit(p) \/ LoadTask(p)
      PROVE  LabelInv'
  BY <1>1, <1>4 DEF LoadManifest, QueryDpkg, ShowUnit, LoadTask
<1>5. CASE ReadTree \/ ListShown \/ CountTargetServices \/ ServiceStatus \/ ListAll
  BY <1>1, <1>5 DEF ReadTree, ListShown, CountTargetServices, ServiceStatus, ListAll
<1>6. CASE OpenDb \/ Query \/ Logs \/ ListTasks \/ ShowTask
  BY <1>1, <1>6 DEF OpenDb, Query, Logs, ListTasks, ShowTask, Listings
<1> QED BY <1>1, <1>2, <1>3, <1>4, <1>5, <1>6 DEF Steps

LEMMA SourceKeeps ==
  ASSUME TypeOK, LabelInv, SourceInv, [Next]_vars
  PROVE  SourceInv'
<1>1. /\ command' = command /\ past \subseteq past' /\ world' \in past'
      /\ \/ Change
         \/ UNCHANGED vars
         \/ Steps /\ UNCHANGED asked
  BY Footprint DEF TypeOK
<1> USE DEF SourceInv, Read
<1>2. CASE Change \/ UNCHANGED vars
  BY <1>1, <1>2 DEF Change, vars
<1>3. CASE ListManifests \/ ManifestsLoaded \/ NoPackages
  BY <1>1, <1>3 DEF ListManifests, ManifestsLoaded, NoPackages, LabelInv
<1>4. ASSUME NEW p \in todo, LoadManifest(p) \/ QueryDpkg(p) \/ ShowUnit(p) \/ LoadTask(p)
      PROVE  SourceInv'
  BY <1>1, <1>4 DEF LoadManifest, QueryDpkg, ShowUnit, LoadTask
<1>5. CASE ReadTree \/ ListShown \/ CountTargetServices \/ ServiceStatus \/ ListAll
  BY <1>1, <1>5 DEF ReadTree, ListShown, CountTargetServices, ServiceStatus, ListAll
<1>6. CASE Query \/ Logs \/ ListTasks \/ ShowTask
  BY <1>1, <1>6 DEF Query, Logs, ListTasks, ShowTask
<1>7. CASE OpenDb
  <2>1. source' = "live" => world.db = "absent"
    BY <1>7 DEF OpenDb, Available
  <2>2. world \in past /\ command \in Queries
    BY <1>7 DEF OpenDb, TypeOK, LabelInv
  <2>3. source' = (IF Available THEN "database" ELSE "live")
    BY <1>7 DEF OpenDb
  <2>4. /\ Available => pc' = "query"
        /\ ~Available => pc' \in {"dir", "shown"}
    BY <1>7 DEF OpenDb
  <2>5. source' = "live" => \E w \in past' : w.db = "absent"
    BY <1>1, <2>1, <2>2
  <2> QED BY <1>1, <2>2, <2>3, <2>4, <2>5
<1> QED BY <1>1, <1>2, <1>3, <1>4, <1>5, <1>6, <1>7 DEF Steps

LEMMA FoundKeeps ==
  ASSUME TypeOK, TodoInv, FoundInv, [Next]_vars
  PROVE  FoundInv'
<1>1. /\ past \subseteq past' /\ world \in past /\ world' \in past'
      /\ \/ Change
         \/ UNCHANGED vars
         \/ Steps /\ UNCHANGED asked
  BY Footprint DEF TypeOK
<1> USE DEF FoundInv, Read
<1>2. CASE Change \/ UNCHANGED vars
  BY <1>1, <1>2 DEF Change, vars
<1>3. CASE ManifestsLoaded \/ NoPackages
  BY <1>1, <1>3 DEF ManifestsLoaded, NoPackages, asked
<1>4. ASSUME NEW p \in todo, QueryDpkg(p) \/ ShowUnit(p) \/ LoadTask(p)
      PROVE  FoundInv'
  BY <1>1, <1>4 DEF QueryDpkg, ShowUnit, LoadTask, asked
<1>5. CASE ReadTree \/ ListShown \/ CountTargetServices \/ ServiceStatus \/ ListAll
  BY <1>1, <1>5 DEF ReadTree, ListShown, CountTargetServices, ServiceStatus,
     ListAll, asked
<1>6. CASE OpenDb \/ Query \/ Logs \/ ListTasks \/ ShowTask
  BY <1>1, <1>6 DEF OpenDb, Query, Logs, ListTasks, ShowTask, asked
<1>7. CASE ListManifests
  BY <1>1, <1>7 DEF ListManifests, asked
<1>8. ASSUME NEW p \in todo, LoadManifest(p)  PROVE FoundInv'
  BY <1>1, <1>8 DEF LoadManifest, TodoInv, asked
<1> QED BY <1>1, <1>2, <1>3, <1>4, <1>5, <1>6, <1>7, <1>8 DEF Steps

\* What a command asks is fixed, but for where process list gets its answer.
LEMMA SameQuestion ==
  ASSUME command' = command, source' = source
  PROVE  /\ \A w : Members(w)' = Members(w)
         /\ \A w, k : States(w, k)' = States(w, k)
         /\ \A s : Runs(s)' = Runs(s)
BY DEF Members, States, Runs

\* What each command has to list, and what it may say of it.
LEMMA ListingAsks ==
  ASSUME command \in Listings, source = "live", NEW w
  PROVE  Members(w) = w.wants \cap Service /\ \A k : States(w, k) = {w.unit[k]}
BY DEF Members, States, Listings, TaskLists

LEMMA PackagesAsk ==
  ASSUME NEW w
  PROVE  /\ command = "package list" => Members(w) = {p \in Package : w.file[p] = "whole"}
         /\ command = "package info" => Members(w) = {p \in {Arg} : w.file[p] = "whole"}
         /\ command \in {"package list", "package info"} =>
              \A k : States(w, k) = {w.dpkg[k] = "installed"}
BY DEF Members, States, Listings, TaskLists

LEMMA TasksAsk ==
  ASSUME NEW w
  PROVE  /\ command = "task list" => Members(w) = {t \in Task : w.task[t] # "none"}
         /\ command \in {"task show", "package history"} =>
              Members(w) = {t \in {Arg} : w.task[t] # "none"}
         /\ command \in TaskLists \cup {"task show"} => \A k : States(w, k) = {w.task[k]}
BY DEF Members, States, Listings, TaskLists

LEMMA ServicesAsk ==
  ASSUME NEW w, source = "live"
  PROVE  /\ command = "service status" => Members(w) = {u \in {Arg} : w.unit[u] # "absent"}
         /\ command = "service list --all" =>
              Members(w) = {u \in Service : w.unit[u] # "absent"}
         /\ command \in {"service status", "service list --all"} =>
              \A k : States(w, k) = {w.unit[k]}
BY DEF Members, States, Listings, TaskLists

LEMMA TodoKeeps ==
  ASSUME TypeOK, LabelInv, SourceInv, TodoInv, FoundInv, [Next]_vars
  PROVE  TodoInv'
<1>1. /\ command' = command /\ past \subseteq past' /\ world \in past /\ world' \in past'
      /\ \/ Change
         \/ UNCHANGED vars
         \/ Steps /\ UNCHANGED asked
  BY Footprint DEF TypeOK
<1>2. source' = source => \A w : Members(w)' = Members(w)
  BY <1>1, SameQuestion
<1> USE DEF TodoInv, Read
<1>3. CASE Change \/ UNCHANGED vars
  BY <1>1, <1>2, <1>3 DEF Change, vars
<1>4. CASE ListManifests
  BY <1>1, <1>4 DEF ListManifests, asked
<1>5. CASE ManifestsLoaded
  <2>1. /\ command \in Listings \cup {"package list", "package info"}
        /\ source' = source /\ past' = past /\ found' = found
    BY <1>1, <1>5 DEF ManifestsLoaded, LabelInv, asked
  <2>2. CASE command \in Listings
    BY <1>5, <2>1, <2>2 DEF ManifestsLoaded, Listings
  <2>3. CASE command \in {"package list", "package info"}
    <3>1. pc' \in {"dpkg", "failed"} /\ todo' \subseteq found
      BY <1>5, <2>3 DEF ManifestsLoaded, Listings
    <3>2. command = "package info" => todo' \subseteq {Arg}
      BY <1>5 DEF ManifestsLoaded, Listings
    <3>3. ASSUME NEW k \in todo' PROVE \E w \in past : k \in Members(w)
      <4>1. PICK w \in past : k \in Package /\ w.file[k] = "whole"
        BY <3>1, <3>3 DEF FoundInv
      <4>2. k \in Members(w)
        <5>1. CASE command = "package list"
          BY <4>1, <5>1, PackagesAsk
        <5>2. CASE command = "package info"
          BY <3>2, <3>3, <4>1, <5>2, PackagesAsk
        <5> QED BY <2>3, <5>1, <5>2
      <4> QED BY <4>1, <4>2
    <3> QED BY <1>2, <2>1, <2>3, <3>1, <3>3
  <2> QED BY <2>1, <2>2, <2>3
<1>6. CASE NoPackages
  BY <1>1, <1>6 DEF NoPackages, asked
<1>7. ASSUME NEW p \in todo, LoadManifest(p) PROVE TodoInv'
  BY <1>1, <1>7 DEF LoadManifest, asked
<1>8. ASSUME NEW p \in todo, QueryDpkg(p) \/ ShowUnit(p) \/ LoadTask(p)
      PROVE  TodoInv'
  BY <1>1, <1>2, <1>8 DEF QueryDpkg, ShowUnit, LoadTask, asked
<1>9. CASE ReadTree
  <2>1. /\ command \in Listings /\ source = "live" /\ source' = source /\ past' = past
        /\ pc' = "show" /\ todo' = world.wants \cap Service
    <3>1. command \in Listings /\ source = "live" /\ todo' = world.wants \cap Service
      BY <1>9, Targets DEF ReadTree, LabelInv, SourceInv, TypeOK
    <3> QED BY <1>1, <1>9, <3>1 DEF ReadTree, asked
  <2>2. ASSUME NEW k \in todo' PROVE \E w \in past : k \in Members(w)
    BY <1>1, <2>1, <2>2, ListingAsks
  <2> QED BY <1>2, <2>1, <2>2
<1>10. CASE ListShown \/ CountTargetServices \/ ServiceStatus \/ ListAll
  BY <1>1, <1>10 DEF ListShown, CountTargetServices, ServiceStatus, ListAll
<1>11. CASE OpenDb \/ Query \/ Logs \/ ShowTask
  BY <1>1, <1>11 DEF OpenDb, Query, Logs, ShowTask
<1>12. CASE ListTasks
  <2>1. /\ command \in TaskLists /\ source' = source /\ past' = past
        /\ pc' \in {"shown", "task"} /\ todo' = {t \in Task : world.task[t] # "none"}
    BY <1>1, <1>12 DEF ListTasks, LabelInv, asked
  <2>2. ASSUME NEW k \in todo', command = "package history" => k = Arg
        PROVE  \E w \in past : k \in Members(w)
    BY <1>1, <2>1, <2>2, TasksAsk DEF TaskLists
  <2> QED BY <1>1, <1>2, <2>1, <2>2
<1> QED BY <1>1, <1>3, <1>4, <1>5, <1>6, <1>7, <1>8, <1>9, <1>10, <1>11, <1>12 DEF
           Steps

LEMMA RunningAsk ==
  ASSUME NEW w, command = "process list", source # "live"
  PROVE  /\ Members(w) = {r.id : r \in {q \in w.runs : q.result = "running"}}
         /\ \A k : States(w, k) = {r.service : r \in {q \in w.runs : q.id = k}}
BY DEF Members, States, Listings, TaskLists

LEMMA HistoryAsks ==
  ASSUME NEW w, command = "process history"
  PROVE  /\ Members(w) = {r.id : r \in {q \in w.runs : q.service = Arg}}
         /\ \A k : States(w, k) = {r.result : r \in {q \in w.runs : q.id = k}}
BY DEF Members, States, Listings, TaskLists

LEMMA ErrorsAsk ==
  ASSUME NEW w, command = "error list"
  PROVE  /\ Members(w) = {e.id : e \in {f \in w.events : f.service = Arg}}
         /\ \A k : States(w, k) = {e.service : e \in {f \in w.events : f.id = k}}
BY DEF Members, States, Listings, TaskLists

LEMMA LogsAsk ==
  ASSUME NEW w, command = "logs"
  PROVE  /\ Members(w) = {e.id : e \in {f \in w.journal : f.service = Arg}}
         /\ \A k : States(w, k) = {e.service : e \in {f \in w.journal : f.id = k}}
BY DEF Members, States, Listings, TaskLists

LEMMA MetricsAsk ==
  ASSUME NEW w, command = "metrics"
  PROVE  /\ Members(w) =
              {m.id : m \in {n \in w.metrics :
                              \E r \in w.runs : r.id = n.run /\ r.service = Arg}}
         /\ \A k : States(w, k) = {m.run : m \in {n \in w.metrics : n.id = k}}
BY DEF Members, States, Listings, TaskLists

\* A line that is true stays so.
LEMMA TruthStays ==
  ASSUME command' = command, source' = source, past \subseteq past', found \subseteq found'
  PROVE  \A l : Truthful(l) => Truthful(l)'
<1>1. /\ \A w : Members(w)' = Members(w)
      /\ \A w, k : States(w, k)' = States(w, k)
  BY SameQuestion
<1> QED BY <1>1 DEF Truthful

\* The lines of a query are those of its moment.
LEMMA RowsAreTrue ==
  ASSUME TypeOK
  PROVE  /\ command = "process list" /\ source # "live" => \A l \in ProcessList : Truthful(l)
         /\ command = "process history" => \A l \in ProcessHistory : Truthful(l)
         /\ command = "metrics" => \A l \in Metrics : Truthful(l)
         /\ command = "error list" => \A l \in ErrorList : Truthful(l)
         /\ command = "logs" =>
              \A l \in {Line(e.id, e.service, {}) : e \in JournalQuery} : Truthful(l)
<1> USE DEF Truthful, Line, Newest
<1>1. world \in past
  BY DEF TypeOK
<1>2. ASSUME command = "process list", source # "live", NEW r \in Newest(RunningRuns)
      PROVE  Truthful(Line(r.id, r.service, {}))
  <2>1. r \in RunningRuns
    OBVIOUS
  <2>2. Members(world) = {q.id : q \in {q \in world.runs : q.result = "running"}}
    BY <1>2, RunningAsk
  <2>3. r.id \in Members(world)
    BY <2>2, <2>1 DEF RunningRuns
  <2>4. States(world, r.id) = {q.service : q \in {q \in world.runs : q.id = r.id}}
    BY <1>2, RunningAsk
  <2>5. r.service \in States(world, r.id)
    BY <2>1, <2>4 DEF RunningRuns
  <2> QED BY <1>1, <2>3, <2>5
<1>3. ASSUME command = "process history", NEW r \in Newest(ProcessRuns)
      PROVE  Truthful(Line(r.id, r.result, {}))
  <2>1. r \in ProcessRuns
    OBVIOUS
  <2>2. Members(world) = {q.id : q \in {q \in world.runs : q.service = Arg}}
    BY <1>3, HistoryAsks
  <2>3. r.id \in Members(world)
    BY <2>2, <2>1 DEF ProcessRuns
  <2>4. States(world, r.id) = {q.result : q \in {q \in world.runs : q.id = r.id}}
    BY <1>3, HistoryAsks
  <2>5. r.result \in States(world, r.id)
    BY <2>1, <2>4 DEF ProcessRuns
  <2> QED BY <1>1, <2>3, <2>5
<1>4. ASSUME command = "metrics", NEW m \in Newest(MetricsForService)
      PROVE  Truthful(Line(m.id, m.run, {}))
  BY <1>1, <1>4, MetricsAsk DEF MetricsForService
<1>5. ASSUME command = "error list", NEW e \in Newest(ErrorEvents)
      PROVE  Truthful(Line(e.id, e.service, {}))
  <2>1. e \in ErrorEvents
    OBVIOUS
  <2>2. Members(world) = {f.id : f \in {f \in world.events : f.service = Arg}}
    BY <1>5, ErrorsAsk
  <2>3. e.id \in Members(world)
    BY <2>2, <2>1 DEF ErrorEvents
  <2>4. States(world, e.id) = {f.service : f \in {f \in world.events : f.id = e.id}}
    BY <1>5, ErrorsAsk
  <2>5. e.service \in States(world, e.id)
    BY <2>1, <2>4 DEF ErrorEvents
  <2> QED BY <1>1, <2>3, <2>5
<1>6. ASSUME command = "logs", NEW e \in JournalQuery
      PROVE  Truthful(Line(e.id, e.service, {}))
  BY <1>1, <1>6, LogsAsk DEF JournalQuery
<1> HIDE DEF Truthful, Line, Newest
<1> QED BY <1>2, <1>3, <1>4, <1>5, <1>6 DEF ProcessList, ProcessHistory, Metrics,
           ErrorList

\* Every line a step of the command leaves is true.
LEMMA StepIsTrue ==
  ASSUME TypeOK, LabelInv, SourceInv, TodoInv, FoundInv, LineInv, Steps, UNCHANGED asked
  PROVE  /\ pc' \in Quiet => lines' = {}
         /\ \A l \in lines' : Truthful(l) /\ (pc' \in {"shown", "failed"} => Runs(l.state))
         /\ found' # found => lines' = {}
         /\ source' # source => lines' = {}
<1> DEFINE Goal == /\ pc' \in Quiet => lines' = {}
                   /\ \A l \in lines' :
                        Truthful(l) /\ (pc' \in {"shown", "failed"} => Runs(l.state))
                   /\ found' # found => lines' = {}
                   /\ source' # source => lines' = {}
<1>1. /\ world \in past /\ source \in {"live", "database"}
      /\ pc \in Quiet => lines = {}
      /\ \A l \in lines : Truthful(l)
  BY DEF TypeOK, LineInv, Quiet
<1>2. command # "process list" \/ source # "live" => \A s : Runs(s)
  BY DEF Runs
<1> USE DEF Read
<1>3. CASE ListManifests \/ ManifestsLoaded \/ ReadTree
  BY <1>1, <1>3 DEF ListManifests, ManifestsLoaded, ReadTree, Quiet
<1>4. CASE ListTasks \/ OpenDb
  BY <1>1, <1>4 DEF ListTasks, OpenDb, Quiet
<1>5. ASSUME NEW p \in todo, LoadManifest(p) PROVE Goal
  BY <1>1, <1>5 DEF LoadManifest, Quiet
<1>6. CASE NoPackages
  BY <1>1, <1>2, <1>6 DEF NoPackages, Quiet, LabelInv
<1>7. ASSUME NEW p \in todo, QueryDpkg(p) PROVE Goal
  <2>1. command \in {"package list", "package info"}
    BY <1>7 DEF QueryDpkg, LabelInv
  <2>2. Queried(p) \in {world.dpkg[p] = "installed"}
    BY Zenon DEF Queried, IsInstalled
  <2>3. \E w \in past : p \in Members(w)
    BY <1>7, <2>1 DEF QueryDpkg, TodoInv
  <2>4. Truthful(Line(p, Queried(p), {}))
    BY <1>1, <2>1, <2>2, <2>3, PackagesAsk DEF Truthful, Line
  <2>5. lines' = lines \cup {Line(p, Queried(p), {})} /\ pc' \in {"shown", "dpkg"}
    BY <1>7 DEF QueryDpkg
  <2> QED BY <1>1, <1>2, <1>7, <2>1, <2>4, <2>5 DEF QueryDpkg, Quiet
<1>8. ASSUME NEW u \in todo, ShowUnit(u) PROVE Goal
  <2> DEFINE new == Line(u, Show(u), {p \in found : u \in Declares[p]})
  <2>1. command \in Listings /\ source = "live" /\ pc = "show"
    BY <1>1, <1>8 DEF ShowUnit, LabelInv, SourceInv
  <2>2. \E w \in past : u \in Members(w)
    BY <1>8, <2>1 DEF TodoInv, Listings
  <2>3. Truthful(new)
    BY <1>1, <2>1, <2>2, ListingAsks DEF Truthful, Line, Show
  <2>4. lines' = lines \cup {new} /\ pc' = "show" /\ found' = found /\ source' = source
    BY <1>8, <2>1 DEF ShowUnit
  <2> QED BY <1>1, <2>3, <2>4 DEF Quiet
<1>9. CASE ListShown
  <2>1. Live(lines) \subseteq lines /\ \A l \in Live(lines) : l.state = "active"
    BY DEF Live
  <2>2. \A l \in lines' : pc' = "shown" => Runs(l.state)
    BY <1>2, <1>9, <2>1 DEF ListShown, Runs
  <2> QED BY <1>1, <1>9, <2>1, <2>2 DEF ListShown, Quiet
<1>10. CASE CountTargetServices
  BY <1>1, <1>2, <1>10 DEF CountTargetServices, Quiet, LabelInv
<1>11. CASE ServiceStatus
  <2>1. command = "service status" /\ source = "live"
    BY <1>1, <1>11 DEF ServiceStatus, LabelInv, SourceInv
  <2>2. ASSUME Show(Arg) # "absent" PROVE Truthful(Line(Arg, Show(Arg), {}))
    <3>1. /\ Members(world) = {u \in {Arg} : world.unit[u] # "absent"}
          /\ States(world, Arg) = {world.unit[Arg]}
      BY <2>1, ServicesAsk
    <3>2. Arg \in Members(world) /\ Show(Arg) \in States(world, Arg)
      BY <2>2, <3>1 DEF Show
    <3> QED BY <1>1, <3>2 DEF Truthful, Line
  <2> QED BY <1>1, <1>2, <1>11, <2>1, <2>2 DEF ServiceStatus, Quiet
<1>12. CASE ListAll
  <2>1. command = "service list --all" /\ source = "live"
    BY <1>1, <1>12 DEF ListAll, LabelInv, SourceInv
  <2>2. ASSUME NEW u \in Service, Show(u) # "absent"  PROVE Truthful(Line(u, Show(u), {}))
    <3>1. u \in Members(world) /\ Show(u) \in States(world, u)
      BY <2>1, <2>2, ServicesAsk DEF Show
    <3> QED BY <1>1, <3>1 DEF Truthful, Line
  <2> QED BY <1>1, <1>2, <1>12, <2>1, <2>2 DEF ListAll, Quiet
<1>13. CASE Query
  <2>1. command \in Queries /\ source = "database" /\ lines = {}
    BY <1>1, <1>13 DEF Query, LabelInv, SourceInv, Quiet
  <2>2. \/ lines' = {}
        \/ command = "process list" /\ lines' = ProcessList
        \/ command = "process history" /\ lines' = ProcessHistory
        \/ command = "metrics" /\ lines' = Metrics
        \/ command = "error list" /\ lines' = ErrorList
    BY <1>13, <2>1 DEF Query, Queries
  <2>3. \A l \in lines' : Truthful(l)
    BY <2>1, <2>2, RowsAreTrue
  <2>4. pc' \in {"shown", "failed"} /\ found' = found /\ source' = source
    BY <1>13 DEF Query
  <2> QED BY <1>2, <2>1, <2>3, <2>4 DEF Quiet
<1>14. CASE Logs
  <2>1. command = "logs"
    BY <1>14 DEF Logs, LabelInv
  <2> QED BY <1>2, <1>14, <2>1, RowsAreTrue DEF Logs, Quiet
<1>15. ASSUME NEW t \in todo, LoadTask(t) PROVE Goal
  <2> DEFINE new == Line(t, world.task[t], {})
  <2>1. command \in TaskLists /\ pc = "task"
    BY <1>15 DEF LoadTask
  <2>2. ASSUME command = "package history" => t = Arg
        PROVE  Truthful(new)
    <3>1. \E w \in past : t \in Members(w)
      BY <2>1, <2>2 DEF TodoInv, TaskLists
    <3>2. world.task[t] \in States(world, t)
      BY <2>1, TasksAsk
    <3> QED BY <1>1, <3>1, <3>2 DEF Truthful, Line
  <2>3. /\ lines' \subseteq lines \cup {new}
        /\ new \in lines' /\ command = "package history" => new.key = Arg \/ new \in lines
    BY <1>15 DEF LoadTask, HistoryFor
  <2>4. new.key = t
    BY DEF Line
  <2>5. \A l \in lines' : Truthful(l)
    BY <1>1, <2>2, <2>3, <2>4
  <2>6. pc' \in {"shown", "task"} /\ found' = found /\ source' = source
    BY <1>15 DEF LoadTask
  <2> QED BY <1>2, <2>1, <2>5, <2>6 DEF Quiet, TaskLists
<1>16. CASE ShowTask
  <2> DEFINE new == Line(Arg, world.task[Arg], {})
  <2>1. command = "task show"
    BY <1>16 DEF ShowTask
  <2>2. ASSUME world.task[Arg] # "none" PROVE Truthful(new)
    <3>1. Arg \in Members(world) /\ world.task[Arg] \in States(world, Arg)
      BY <2>1, <2>2, TasksAsk
    <3> QED BY <1>1, <3>1 DEF Truthful, Line
  <2>3. lines' = IF world.task[Arg] = "none" THEN {} ELSE {new}
    BY <1>16 DEF ShowTask
  <2>4. \A l \in lines' : Truthful(l)
    BY <2>2, <2>3
  <2>5. pc' \in {"shown", "failed"} /\ found' = found /\ source' = source
    BY <1>16 DEF ShowTask
  <2> QED BY <1>2, <2>1, <2>4, <2>5 DEF Quiet
<1> QED BY <1>3, <1>4, <1>5, <1>6, <1>7, <1>8, <1>9, <1>10, <1>11, <1>12, <1>13,
           <1>14, <1>15,
          <1>16 DEF Steps

LEMMA LineKeeps ==
  ASSUME TypeOK, LabelInv, SourceInv, TodoInv, FoundInv, LineInv, [Next]_vars
  PROVE  LineInv'
<1>1. /\ command' = command /\ past \subseteq past'
      /\ \/ Change
         \/ UNCHANGED vars
         \/ Steps /\ UNCHANGED asked
  BY Footprint DEF TypeOK
<1>2. source' = source => \A s : Runs(s)' = Runs(s)
  BY <1>1, SameQuestion
<1>3. CASE Change \/ UNCHANGED vars
  <2>1. lines' = lines /\ pc' = pc /\ source' = source /\ found' = found
    BY <1>3 DEF Change, vars
  <2>2. \A l : Truthful(l) => Truthful(l)'
    BY <1>1, <2>1, TruthStays
  <2> QED BY <1>2, <2>1, <2>2 DEF LineInv
<1>4. CASE Steps /\ UNCHANGED asked
  <2>1. /\ pc' \in Quiet => lines' = {}
        /\ \A l \in lines' : Truthful(l) /\ (pc' \in {"shown", "failed"} => Runs(l.state))
        /\ found' # found => lines' = {}
        /\ source' # source => lines' = {}
    BY <1>4, StepIsTrue
  <2>2. CASE lines' = {}
    BY <2>2 DEF LineInv
  <2>3. CASE found' = found /\ source' = source
    <3>1. \A l : Truthful(l) => Truthful(l)'
      BY <1>1, <2>3, TruthStays
    <3> QED BY <1>2, <2>1, <2>3, <3>1 DEF LineInv, Quiet
  <2> QED BY <2>1, <2>2, <2>3
<1> QED BY <1>1, <1>3, <1>4

LEMMA ListingKeeps ==
  ASSUME TypeOK, LabelInv, SourceInv, TodoInv, LineInv, ListingInv, [Next]_vars
  PROVE  ListingInv'
<1>1. /\ command' = command
      /\ \/ Change
         \/ UNCHANGED vars
         \/ Steps /\ UNCHANGED asked
  BY Footprint DEF TypeOK
<1>2. pc \in Quiet => lines = {}
  BY DEF LineInv, Quiet
<1>3. SUFFICES ASSUME command \in Listings, source' = "live"  PROVE ListingInv'
  BY <1>1 DEF ListingInv
<1>4. lines' = {} => ListingInv'
  BY DEF ListingInv
<1> USE DEF Read
<1>5. CASE Change \/ UNCHANGED vars
  BY <1>1, <1>3, <1>5 DEF Change, vars, ListingInv
<1>6. CASE ListManifests \/ ManifestsLoaded \/ ReadTree \/ OpenDb \/ ListTasks
  BY <1>2, <1>4, <1>6 DEF ListManifests, ManifestsLoaded, ReadTree, OpenDb,
     ListTasks, Quiet
<1>7. ASSUME NEW p \in todo, LoadManifest(p) PROVE ListingInv'
  BY <1>2, <1>4, <1>7 DEF LoadManifest, Quiet
<1>8. CASE NoPackages \/ ServiceStatus \/ ListAll \/ Query \/ Logs \/ ShowTask
  BY <1>3, <1>8 DEF NoPackages, ServiceStatus, ListAll, Query, Logs, ShowTask,
     Listings, LabelInv, SourceInv
<1>9. ASSUME NEW p \in todo, QueryDpkg(p) \/ LoadTask(p) PROVE ListingInv'
  BY <1>3, <1>9 DEF QueryDpkg, LoadTask, Listings, TaskLists, LabelInv
<1>10. ASSUME NEW u \in todo, ShowUnit(u) PROVE ListingInv'
  <2> DEFINE new == Line(u, Show(u), {p \in found : u \in Declares[p]})
  <2>1. /\ pc = "show" /\ source = "live" /\ todo' = todo \ {u} /\ lines' = lines \cup {new}
        /\ u \in Service
    BY <1>3, <1>10 DEF ShowUnit, TodoInv
  <2>2. new.key = u
    BY DEF Line
  <2>3. /\ \A l, m \in lines : l.key = m.key => l = m
        /\ \A l \in lines : l.key \in Service /\ l.key \notin todo
    BY <1>3, <2>1 DEF ListingInv
  <2> HIDE DEF new
  <2>4. /\ \A l, m \in lines' : l.key = m.key => l = m
        /\ \A l \in lines' : l.key \in Service /\ l.key \notin todo'
    BY <1>10, <2>1, <2>2, <2>3
  <2> QED BY <2>4 DEF ListingInv
<1>11. CASE ListShown
  <2>1. lines' \subseteq lines /\ pc' # "show" /\ source = "live"
    BY <1>3, <1>11 DEF ListShown, Live
  <2> QED BY <1>3, <2>1 DEF ListingInv
<1>12. CASE CountTargetServices
  <2>1. lines' = lines /\ pc' # "show" /\ source = "live"
    BY <1>3, <1>12 DEF CountTargetServices
  <2> QED BY <1>3, <2>1 DEF ListingInv
<1> QED BY <1>1, <1>5, <1>6, <1>7, <1>8, <1>9, <1>10, <1>11, <1>12 DEF Steps

\* system status has nothing to show before it has counted.
LEMMA StatusEnds ==
  ASSUME LabelInv, Steps, command = "system status", pc' = "shown"
  PROVE  CountTargetServices
<1> USE DEF Read
<1>1. ~ListManifests /\ ~ManifestsLoaded /\ ~ReadTree /\ ~ListShown
  BY DEF ListManifests, ManifestsLoaded, ReadTree, ListShown, Listings
<1>2. ~NoPackages /\ ~ServiceStatus /\ ~ListAll /\ ~OpenDb
  BY DEF NoPackages, ServiceStatus, ListAll, OpenDb, LabelInv, Queries
<1>3. ~Query /\ ~Logs /\ ~ListTasks /\ ~ShowTask
  BY DEF Query, Logs, ListTasks, ShowTask, LabelInv, Queries, TaskLists
<1>4. ASSUME NEW p \in todo
      PROVE  ~LoadManifest(p) /\ ~QueryDpkg(p) /\ ~ShowUnit(p) /\ ~LoadTask(p)
  BY DEF LoadManifest, QueryDpkg, ShowUnit, LoadTask, LabelInv, TaskLists
<1> QED BY <1>1, <1>2, <1>3, <1>4 DEF Steps

LEMMA TotalKeeps ==
  ASSUME TypeOK, LabelInv, TotalInv, [Next]_vars
  PROVE  TotalInv'
<1>1. /\ command' = command /\ past \subseteq past' /\ world \in past
      /\ \/ Change
         \/ UNCHANGED vars
         \/ Steps /\ UNCHANGED asked
  BY Footprint DEF TypeOK
<1>2. CASE CountTargetServices
  BY <1>1, <1>2, Targets DEF CountTargetServices, TotalInv
<1>3. CASE ~CountTargetServices /\ Steps
  BY <1>1, <1>3, StatusEnds DEF TotalInv
<1> QED BY <1>1, <1>2, <1>3 DEF Change, vars, TotalInv

\* What each command fails over.
LEMMA MissingIs ==
  ASSUME NEW w
  PROVE  /\ command = "service status" => (Missing(w) <=> w.unit[Arg] = "absent")
         /\ command = "package info" => (Missing(w) <=> w.file[Arg] # "whole")
         /\ command = "task show" => (Missing(w) <=> w.task[Arg] # "committed")
         /\ command \in Queries => (Missing(w) <=> w.db = "bare")
         /\ command \notin Queries \cup {"service status", "package info", "task show"} =>
              ~Missing(w)
BY DEF Missing, Queries

LEMMA ReasonKeeps ==
  ASSUME TypeOK, LabelInv, SourceInv, FoundInv, ReasonInv, [Next]_vars
  PROVE  ReasonInv'
<1>1. /\ command' = command /\ past \subseteq past' /\ world \in past
      /\ \/ Change
         \/ UNCHANGED vars
         \/ Steps /\ UNCHANGED asked
  BY Footprint DEF TypeOK
<1>2. \A w : Missing(w)' = Missing(w)
  BY <1>1 DEF Missing
<1>3. pc' = "shown" /\ command \in Queries /\ source' = "live" =>
        \E w \in past' : w.db = "absent"
  BY <1>1, SourceKeeps DEF SourceInv
<1>4. CASE Change \/ UNCHANGED vars
  <2>1. pc' = pc /\ found' = found
    BY <1>4 DEF Change, vars
  <2> QED BY <1>1, <1>2, <1>3, <2>1 DEF ReasonInv, FailureHasItsReason
<1>5. CASE Steps /\ UNCHANGED asked
  <2>1. SUFFICES /\ pc' = "failed" => \E w \in past : Missing(w)
                 /\ pc' = "shown" /\ command \notin Queries => \E w \in past : ~Missing(w)
                 /\ pc' = "dpkg" /\ command = "package info" => Arg \in found'
    BY <1>1, <1>2, <1>3 DEF ReasonInv, FailureHasItsReason
  <2> DEFINE Goal == /\ pc' = "failed" => \E w \in past : Missing(w)
                     /\ pc' = "shown" /\ command \notin Queries => \E w \in past : ~Missing(w)
                     /\ pc' = "dpkg" /\ command = "package info" => Arg \in found'
  <2>2. command \notin Queries \cup {"service status", "package info", "task show"} =>
          \E w \in past : ~Missing(w)
    BY <1>1, MissingIs
  <2> USE DEF Read
  <2>3. CASE ListManifests \/ ReadTree \/ OpenDb \/ ListTasks
    BY <2>2, <2>3 DEF ListManifests, ReadTree, OpenDb, ListTasks, LabelInv,
       TaskLists, Queries
  <2>4. CASE ManifestsLoaded
    <3>1. CASE command = "package info"
      <4>1. /\ todo = {} /\ found' = found
            /\ pc' = IF Arg \in found THEN "dpkg" ELSE "failed"
        BY <2>4, <3>1 DEF ManifestsLoaded, Listings
      <4>2. Arg \notin found => \E w \in past : w.file[Arg] # "whole"
        BY <2>4, <4>1, ReportsAssumption DEF ManifestsLoaded, FoundInv
      <4> QED BY <3>1, <4>1, <4>2, MissingIs
    <3>2. CASE command # "package info"
      BY <2>4, <3>2 DEF ManifestsLoaded, LabelInv, Listings
    <3> QED BY <3>1, <3>2
  <2>5. ASSUME NEW p \in todo, LoadManifest(p) \/ ShowUnit(p) PROVE Goal
    BY <2>5 DEF LoadManifest, ShowUnit
  <2>6. ASSUME NEW p \in todo, QueryDpkg(p) PROVE Goal
    <3>1. /\ command \in {"package list", "package info"} /\ found' = found
          /\ pc' \in {"shown", "dpkg"} /\ pc = "dpkg"
      BY <2>6 DEF QueryDpkg, LabelInv
    <3>2. command = "package info" => Arg \in found
      BY <3>1 DEF ReasonInv
    <3>3. command = "package info" => \E w \in past : w.file[Arg] = "whole"
      BY <3>2 DEF FoundInv
    <3>4. \E w \in past : ~Missing(w)
      BY <2>2, <3>1, <3>3, MissingIs DEF Queries
    <3> QED BY <3>1, <3>2, <3>4
  <2>7. CASE NoPackages
    <3>1. /\ command \in {"package list", "package info"} /\ found' = found
          /\ pc' = "shown" /\ pc = "dpkg"
      BY <2>7 DEF NoPackages, LabelInv
    <3>2. command = "package info" => Arg \in found
      BY <3>1 DEF ReasonInv
    <3>3. command = "package info" => \E w \in past : w.file[Arg] = "whole"
      BY <3>2 DEF FoundInv
    <3>4. \E w \in past : ~Missing(w)
      BY <2>2, <3>1, <3>3, MissingIs DEF Queries
    <3> QED BY <3>1, <3>2, <3>4
  <2>8. CASE ListShown \/ CountTargetServices
    <3>1. command \in Listings /\ pc' \in {"again", "shown"}
      BY <2>8 DEF ListShown, CountTargetServices, LabelInv, Listings
    <3> QED BY <2>2, <3>1 DEF Listings
  <2>9. CASE ServiceStatus
    <3>1. /\ command = "service status"
          /\ pc' = IF world.unit[Arg] = "absent" THEN "failed" ELSE "shown"
      BY <2>9 DEF ServiceStatus, LabelInv, Show
    <3> QED BY <1>1, <3>1, MissingIs
  <2>10. CASE ListAll \/ Logs
    BY <2>2, <2>10 DEF ListAll, Logs, LabelInv, Queries
  <2>11. CASE Query
    <3>1. /\ command \in Queries /\ pc' \in {"shown", "failed"}
          /\ pc' = "failed" => world.db = "bare"
      BY <2>11 DEF Query, LabelInv
    <3> QED BY <1>1, <3>1, MissingIs
  <2>12. ASSUME NEW t \in todo, LoadTask(t) PROVE Goal
    <3>1. command \in TaskLists /\ pc' \in {"shown", "task"}
      BY <2>12 DEF LoadTask
    <3> QED BY <2>2, <3>1 DEF TaskLists, Queries
  <2>13. CASE ShowTask
    <3>1. /\ command = "task show"
          /\ pc' = IF world.task[Arg] = "committed" THEN "shown" ELSE "failed"
      BY <2>13 DEF ShowTask, Concludes
    <3> QED BY <1>1, <3>1, MissingIs
  <2> QED BY <1>5, <2>3, <2>4, <2>5, <2>6, <2>7, <2>8, <2>9, <2>10, <2>11, <2>12,
             <2>13 DEF Steps
<1> QED BY <1>1, <1>4, <1>5

\* What a loop has not covered it still has to query, after each of its steps.
LEMMA LoopStep ==
  ASSUME TypeOK, LabelInv, SourceInv, FoundInv, LineInv, LoopInv, UNCHANGED asked,
         NEW p \in todo, QueryDpkg(p) \/ ShowUnit(p) \/ LoadTask(p), NEW k, Always(k)
  PROVE  k \in todo' \/ Shown(k)'
<1>1. k \in todo \/ Shown(k)
  BY DEF LoopInv, QueryDpkg, ShowUnit, LoadTask, Read, LabelInv, TaskLists, Listings
<1>2. todo' = todo \ {p} /\ command' = command /\ past' = past
  BY DEF QueryDpkg, ShowUnit, LoadTask, asked
<1>3. world \in past
  BY DEF TypeOK
<1> USE DEF Read
<1>4. CASE QueryDpkg(p)
  <2> DEFINE new == Line(p, Queried(p), {})
  <2>1. lines' = lines \cup {new} /\ new.key = p /\ command \notin Listings
    BY <1>4 DEF QueryDpkg, Line, LabelInv, Listings
  <2> HIDE DEF new
  <2>2. CASE k = p
    BY <1>2, <2>1, <2>2 DEF Shown
  <2>3. CASE k # p
    BY <1>1, <1>2, <2>1, <2>3 DEF Shown
  <2> QED BY <2>2, <2>3
<1>5. CASE ShowUnit(p)
  <2> DEFINE new == Line(p, Show(p), {q \in found : p \in Declares[q]})
  <2>1. lines' = lines \cup {new} /\ pc = "show"
    BY <1>5 DEF ShowUnit
  <2>2. new.key = p /\ new.owners = {q \in found : p \in Declares[q]}
    BY DEF Line
  <2>3. {q \in Package : p \in Declares[q] /\ \A w \in past : w.file[q] = "whole"}
          \subseteq new.owners
    BY <2>1, <2>2 DEF FoundInv
  <2> HIDE DEF new
  <2>4. CASE k = p
    BY <1>2, <2>1, <2>2, <2>3, <2>4 DEF Shown
  <2>5. CASE k # p
    BY <1>1, <1>2, <2>1, <2>5 DEF Shown
  <2> QED BY <2>4, <2>5
<1>6. CASE LoadTask(p)
  <2> DEFINE new == Line(p, world.task[p], {})
             read == lines \cup {new}
  <2>1. /\ command \in TaskLists
        /\ lines' = IF command = "package history" THEN HistoryFor(read) ELSE read
    BY <1>6 DEF LoadTask
  <2>2. new.key = p
    BY DEF Line
  <2>3. command = "package history" => k = Arg
    <3>1. k \in Members(world)
      BY <1>3 DEF Always
    <3>2. command = "package history" => Members(world) \subseteq {Arg}
      BY TasksAsk
    <3> QED BY <3>1, <3>2
  <2> HIDE DEF new
  <2>4. ASSUME NEW l \in read, l.key = k  PROVE l \in lines'
    BY <2>1, <2>3, <2>4 DEF HistoryFor
  <2>5. command' \notin Listings
    BY <1>2, <2>1 DEF TaskLists, Listings
  <2>6. CASE k = p
    BY <2>2, <2>4, <2>5, <2>6 DEF Shown
  <2>7. CASE k # p
    BY <1>1, <1>2, <2>4, <2>5, <2>7 DEF Shown
  <2> QED BY <2>6, <2>7
<1> QED BY <1>4, <1>5, <1>6

LEMMA LoopKeeps ==
  ASSUME TypeOK, LabelInv, SourceInv, FoundInv, LineInv, LoopInv, [Next]_vars
  PROVE  LoopInv'
<1>1. /\ command' = command /\ past \subseteq past' /\ world \in past
      /\ \/ Change
         \/ UNCHANGED vars
         \/ Steps /\ UNCHANGED asked
  BY Footprint DEF TypeOK
<1>2. ASSUME source' = source, NEW k, Always(k)'  PROVE Always(k)
  <2>1. \A w : Members(w)' = Members(w)
    BY <1>1, <1>2, SameQuestion
  <2> QED BY <1>1, <1>2, <2>1 DEF Always
<1>3. SUFFICES ASSUME pc' \in {"show", "again", "dpkg", "task"}, command # "task show",
                      NEW k, Always(k)'
               PROVE  (k \in todo' /\ pc' # "again") \/ Shown(k)'
  BY <1>1 DEF LoopInv
<1> USE DEF Read
<1>4. CASE Change \/ UNCHANGED vars
  <2>1. /\ pc' = pc /\ todo' = todo /\ lines' = lines /\ source' = source
    BY <1>4 DEF Change, vars
  <2>2. (k \in todo /\ pc # "again") \/ Shown(k)
    BY <1>2, <1>3, <2>1 DEF LoopInv
  <2>3. Shown(k) => Shown(k)'
    BY <1>1, <2>1 DEF Shown
  <2> QED BY <2>1, <2>2, <2>3
<1>5. CASE Steps /\ UNCHANGED asked
  <2>1. CASE ManifestsLoaded
    <3>1. source' = source /\ todo = {} /\ pc = "files" /\ past' = past
      BY <1>5, <2>1 DEF ManifestsLoaded, asked
    <3>2. /\ pc' = "dpkg" /\ command \in {"package list", "package info"}
          /\ todo' = IF command = "package list" THEN found ELSE found \cap {Arg}
      BY <1>3, <2>1 DEF ManifestsLoaded, LabelInv, Listings
    <3>3. Always(k)
      BY <1>2, <1>3, <3>1
    <3>4. ASSUME NEW w \in past
          PROVE  /\ k \in Package /\ w.file[k] = "whole"
                 /\ command = "package info" => k = Arg
      <4>1. k \in Members(w)
        BY <3>3 DEF Always
      <4>2. CASE command = "package list"
        BY <4>1, <4>2, PackagesAsk
      <4>3. CASE command = "package info"
        BY <4>1, <4>3, PackagesAsk, ReportsAssumption
      <4> QED BY <3>2, <4>2, <4>3
    <3>5. k \in Package /\ \A w \in past : w.file[k] = "whole"
      BY <1>1, <3>4
    <3>6. command = "package info" => k = Arg
      BY <1>1, <3>4
    <3>7. k \in found
      BY <3>1, <3>5 DEF FoundInv
    <3> QED BY <3>2, <3>6, <3>7
  <2>2. ASSUME NEW p \in todo, QueryDpkg(p) \/ ShowUnit(p) \/ LoadTask(p)
        PROVE  (k \in todo' /\ pc' # "again") \/ Shown(k)'
    <3>1. source' = source /\ pc' # "again"
      BY <2>2 DEF QueryDpkg, ShowUnit, LoadTask
    <3>2. Always(k)
      BY <1>2, <1>3, <3>1
    <3> QED BY <1>5, <2>2, <3>1, <3>2, LoopStep
  <2>3. CASE ReadTree
    <3>1. /\ command \in Listings /\ source = "live" /\ source' = source
          /\ pc' = "show" /\ todo' = world.wants \cap Service
      BY <2>3, Targets DEF ReadTree, LabelInv, SourceInv, TypeOK
    <3>2. Always(k)
      BY <1>2, <1>3, <3>1
    <3>3. k \in world.wants \cap Service
      BY <1>1, <3>1, <3>2, ListingAsks DEF Always
    <3> QED BY <3>1, <3>3
  <2>4. CASE ListShown
    <3>1. /\ command = "system status" /\ pc = "show" /\ todo = {}
          /\ lines' = lines /\ source' = source /\ past' = past
      BY <1>3, <1>5, <2>4 DEF ListShown, asked
    <3>2. Always(k)
      BY <1>2, <1>3, <3>1
    <3>3. Shown(k)
      BY <3>1, <3>2 DEF LoopInv
    <3>4. Shown(k) => Shown(k)'
      BY <1>1, <3>1 DEF Shown
    <3> QED BY <3>3, <3>4
  <2>5. CASE ListTasks
    <3>1. /\ command \in TaskLists /\ source' = source /\ pc' = "task"
          /\ todo' = {t \in Task : world.task[t] # "none"}
      BY <1>3, <2>5 DEF ListTasks, LabelInv
    <3>2. Always(k)
      BY <1>2, <1>3, <3>1
    <3>3. k \in Members(world)
      BY <1>1, <3>2 DEF Always
    <3>4. k \in Task /\ world.task[k] # "none"
      <4>1. CASE command = "task list"
        BY <3>3, <4>1, TasksAsk
      <4>2. CASE command = "package history"
        <5>1. k \in {t \in {Arg} : world.task[t] # "none"}
          BY <3>3, <4>2, TasksAsk
        <5> QED BY <5>1, ReportsAssumption
      <4> QED BY <3>1, <4>1, <4>2 DEF TaskLists
    <3> QED BY <3>1, <3>4
  <2>6. CASE ListManifests \/ NoPackages \/ CountTargetServices \/ ServiceStatus \/ ListAll
    BY <1>3, <2>6 DEF ListManifests, NoPackages, CountTargetServices,
       ServiceStatus, ListAll
  <2>7. CASE OpenDb \/ Query \/ Logs \/ ShowTask
    BY <1>3, <2>7 DEF OpenDb, Query, Logs, ShowTask
  <2>8. ASSUME NEW p \in todo PROVE ~LoadManifest(p)
    BY <1>3 DEF LoadManifest
  <2> QED BY <1>5, <2>1, <2>2, <2>3, <2>4, <2>5, <2>6, <2>7, <2>8 DEF Steps
<1> QED BY <1>1, <1>4, <1>5

-------------------------------------------------------------------------------
(* Pages *)

\* Tables are finite, because ids are and are not used twice.
LEMMA TableIsFinite ==
  ASSUME NEW rows, \A r \in rows : r.id \in 1 .. 2, \A q, r \in rows : q.id = r.id => q = r
  PROVE  IsFiniteSet(rows)
<1>1. [r \in rows |-> r.id] \in Injection(rows, 1 .. 2)
  BY Fun_IsInj
<1>2. IsFiniteSet(1 .. 2)
  <2>1. PICK n \in Int : n = 2
    OBVIOUS
  <2>2. IsFiniteSet(1 .. n)
    BY FS_Interval
  <2> QED BY <2>1, <2>2
<1> QED BY <1>1, <1>2, FS_Injection

\* A row is on the page, or the page is full of later ones.
LEMMA NewestIsFull ==
  ASSUME NEW rows, \A r \in rows : r.id \in 1 .. 2, \A q, r \in rows : q.id = r.id => q = r,
         NEW text, NEW ls, ls = {Line(r.id, text[r], {}) : r \in Newest(rows)},
         NEW x \in rows
  PROVE  \/ \E l \in ls : l.key = x.id
         \/ Cardinality(ls) = Limit /\ \A l \in ls : l.key > x.id
<1> DEFINE key == [r \in rows |-> r.id]
           page == Newest(rows)
           line == [r \in page |-> Line(r.id, text[r], {})]
<1>1. IsFiniteSet(rows)
  BY TableIsFinite
<1>2. key \in [rows -> Int] /\ \A q, r \in rows : key[q] = key[r] => q = r
  OBVIOUS
<1>3. page = Page(rows, key, Limit)
  <2>1. \A r \in rows : {q \in rows : q.id > r.id} = {q \in rows : key[q] > key[r]}
    OBVIOUS
  <2> QED BY <2>1 DEF Newest, Page
<1>4. CASE x \in page
  <2>1. Line(x.id, text[x], {}) \in ls
    BY <1>4
  <2>2. Line(x.id, text[x], {}).key = x.id
    BY DEF Line
  <2> QED BY <2>1, <2>2
<1>5. CASE x \notin page
  <2>1. Cardinality(page) = Limit /\ \A r \in page : key[r] > key[x]
    BY <1>1, <1>2, <1>3, <1>5, FullPage, ReportsAssumption
  <2>2. page \subseteq rows /\ IsFiniteSet(page)
    BY <1>1, FS_Subset DEF Newest
  <2>3. line \in Bijection(page, ls)
    <3>1. line \in [page -> ls]
      OBVIOUS
    <3>2. \A q, r \in page : line[q] = line[r] => q = r
      BY <2>2 DEF Line
    <3>3. \A l \in ls : \E r \in page : line[r] = l
      OBVIOUS
    <3> HIDE DEF line
    <3> QED BY <3>1, <3>2, <3>3, Fun_IsBij
  <2>4. Cardinality(ls) = Limit
    BY <2>1, <2>2, <2>3, FS_Bijection DEF ExistsBijection
  <2>5. ASSUME NEW l \in ls PROVE l.key > x.id
    <3>1. PICK r \in page : l = Line(r.id, text[r], {})
      OBVIOUS
    <3>2. l.key = r.id
      BY <3>1 DEF Line
    <3>3. key[r] = r.id /\ key[x] = x.id
      BY <2>2
    <3> QED BY <2>1, <3>2, <3>3
  <2> QED BY <2>4, <2>5
<1> QED BY <1>4, <1>5

\* The same for the live list of processes, in the order of their names.
LEMMA LiveIsFull ==
  ASSUME \A l, m \in lines : l.key = m.key => l = m, \A l \in lines : l.key \in Service,
         NEW x \in lines, x.state = "active"
  PROVE  \/ x \in Live(lines)
         \/ Cardinality(Live(lines)) = Limit /\ \A l \in Live(lines) : l.key < x.key
<1> DEFINE running == {l \in lines : l.state = "active"}
           place == [l \in running |-> -l.key]
<1>1. \A l \in running : l.key \in Nat
  BY TreeAssumption
<1>2. IsFiniteSet(running)
  <2>1. [l \in running |-> l.key] \in Injection(running, Service)
    BY Fun_IsInj
  <2> QED BY <2>1, FS_Injection, TreeAssumption
<1>3. place \in [running -> Int] /\ \A l, m \in running : place[l] = place[m] => l = m
  BY <1>1
<1>4. Live(lines) = Page(running, place, Limit)
  <2>1. \A l \in running :
          {k \in running : k.key < l.key} = {k \in running : place[k] > place[l]}
    BY <1>1
  <2> QED BY <2>1 DEF Live, Page
<1>5. CASE x \notin Live(lines)
  <2>0. x \in running \ Page(running, place, Limit)
    BY <1>4, <1>5
  <2>1. /\ Cardinality(Live(lines)) = Limit
        /\ \A l \in Live(lines) : place[l] > place[x]
    <3> HIDE DEF running, place
    <3> QED BY <1>2, <1>3, <1>4, <2>0, FullPage, ReportsAssumption
  <2>2. Live(lines) \subseteq running /\ x \in running
    BY DEF Live
  <2>3. \A l \in running : place[l] = -l.key
    OBVIOUS
  <2>4. ASSUME NEW l \in Live(lines) PROVE l.key < x.key
    <3>1. -l.key > -x.key
      BY <2>1, <2>2, <2>3
    <3>2. l.key \in Nat /\ x.key \in Nat
      BY <1>1, <2>2
    <3> QED BY <3>1, <3>2
  <2> QED BY <2>1, <2>4
<1> QED BY <1>5

\* The page of a query has the row x, or is full without it.
OnPage(ls, x) ==
  \/ \E l \in ls : l.key = x
  \/ Cardinality(ls) = Limit /\ \A l \in ls : l.key > x

\* A query has each row that was there, or a full page of later ones.
LEMMA RowsAreNotMissed ==
  ASSUME TypeOK, NEW k, k \in Members(world)
  PROVE  /\ command = "process list" /\ source # "live" => OnPage(ProcessList, k)
         /\ command = "process history" => OnPage(ProcessHistory, k)
         /\ command = "metrics" => OnPage(Metrics, k)
         /\ command = "error list" => OnPage(ErrorList, k)
         /\ command = "logs" => OnPage({Line(e.id, e.service, {}) : e \in JournalQuery}, k)
<1>1. /\ world.runs \in Table(RunRow) /\ world.metrics \in Table(MetricRow)
      /\ world.events \in Table(EventRow) /\ world.journal \in Table(LogEntry)
  BY DEF TypeOK, World
<1>2. ASSUME NEW Row \in {RunRow, MetricRow, EventRow, LogEntry},
             NEW t \in Table(Row), NEW rows \in SUBSET t
      PROVE  /\ \A r \in rows : r.id \in 1 .. 2
             /\ \A q, r \in rows : q.id = r.id => q = r
  <2>1. \A r \in Row : r.id \in 1 .. 2
    <3>1. (\A r \in RunRow : r.id \in 1 .. 2) /\ (\A r \in MetricRow : r.id \in 1 .. 2)
      BY DEF RunRow, MetricRow
    <3>2. (\A r \in EventRow : r.id \in 1 .. 2) /\ (\A r \in LogEntry : r.id \in 1 .. 2)
      BY DEF EventRow, LogEntry
    <3> QED BY <3>1, <3>2
  <2> QED BY <2>1 DEF Table
<1>3. ASSUME command = "process list", source # "live" PROVE OnPage(ProcessList, k)
  <2> DEFINE text == [r \in RunningRuns |-> r.service]
  <2>1. RunningRuns \subseteq world.runs
    BY DEF RunningRuns
  <2>2. /\ \A r \in RunningRuns : r.id \in 1 .. 2
        /\ \A q, r \in RunningRuns : q.id = r.id => q = r
    BY <1>1, <1>2, <2>1
  <2>3. Members(world) = {r.id : r \in {q \in world.runs : q.result = "running"}}
    BY <1>3, RunningAsk
  <2>4. PICK x \in RunningRuns : x.id = k
    BY <2>3 DEF RunningRuns
  <2>5. ProcessList = {Line(r.id, text[r], {}) : r \in Newest(RunningRuns)}
    BY DEF ProcessList, Newest
  <2> HIDE DEF text
  <2> QED BY <2>2, <2>4, <2>5, NewestIsFull DEF OnPage
<1>4. ASSUME command = "process history" PROVE OnPage(ProcessHistory, k)
  <2> DEFINE text == [r \in ProcessRuns |-> r.result]
  <2>1. ProcessRuns \subseteq world.runs
    BY DEF ProcessRuns
  <2>2. /\ \A r \in ProcessRuns : r.id \in 1 .. 2
        /\ \A q, r \in ProcessRuns : q.id = r.id => q = r
    BY <1>1, <1>2, <2>1
  <2>3. Members(world) = {r.id : r \in {q \in world.runs : q.service = Arg}}
    BY <1>4, HistoryAsks
  <2>4. PICK x \in ProcessRuns : x.id = k
    BY <2>3 DEF ProcessRuns
  <2>5. ProcessHistory = {Line(r.id, text[r], {}) : r \in Newest(ProcessRuns)}
    BY DEF ProcessHistory, Newest
  <2> HIDE DEF text
  <2> QED BY <2>2, <2>4, <2>5, NewestIsFull DEF OnPage
<1>5. ASSUME command = "metrics" PROVE OnPage(Metrics, k)
  <2> DEFINE text == [m \in MetricsForService |-> m.run]
  <2>1. MetricsForService \subseteq world.metrics
    BY DEF MetricsForService
  <2>2. /\ \A r \in MetricsForService : r.id \in 1 .. 2
        /\ \A q, r \in MetricsForService : q.id = r.id => q = r
    BY <1>1, <1>2, <2>1
  <2>3. Members(world) =
          {m.id : m \in {n \in world.metrics :
                          \E r \in world.runs : r.id = n.run /\ r.service = Arg}}
    BY <1>5, MetricsAsk
  <2>4. PICK x \in MetricsForService : x.id = k
    BY <2>3 DEF MetricsForService
  <2>5. Metrics = {Line(r.id, text[r], {}) : r \in Newest(MetricsForService)}
    BY DEF Metrics, Newest
  <2> HIDE DEF text
  <2> QED BY <2>2, <2>4, <2>5, NewestIsFull DEF OnPage
<1>6. ASSUME command = "error list" PROVE OnPage(ErrorList, k)
  <2> DEFINE text == [e \in ErrorEvents |-> e.service]
  <2>1. ErrorEvents \subseteq world.events
    BY DEF ErrorEvents
  <2>2. /\ \A r \in ErrorEvents : r.id \in 1 .. 2
        /\ \A q, r \in ErrorEvents : q.id = r.id => q = r
    BY <1>1, <1>2, <2>1
  <2>3. Members(world) = {e.id : e \in {f \in world.events : f.service = Arg}}
    BY <1>6, ErrorsAsk
  <2>4. PICK x \in ErrorEvents : x.id = k
    BY <2>3 DEF ErrorEvents
  <2>5. ErrorList = {Line(r.id, text[r], {}) : r \in Newest(ErrorEvents)}
    BY DEF ErrorList, Newest
  <2> HIDE DEF text
  <2> QED BY <2>2, <2>4, <2>5, NewestIsFull DEF OnPage
<1>7. ASSUME command = "logs"
      PROVE  OnPage({Line(e.id, e.service, {}) : e \in JournalQuery}, k)
  <2> DEFINE rows == {e \in world.journal : e.service = Arg}
             text == [e \in rows |-> e.service]
             ls == {Line(e.id, e.service, {}) : e \in JournalQuery}
  <2>1. rows \subseteq world.journal
    OBVIOUS
  <2>2. /\ \A r \in rows : r.id \in 1 .. 2
        /\ \A q, r \in rows : q.id = r.id => q = r
    BY <1>1, <1>2, <2>1
  <2>3. Members(world) = {e.id : e \in {f \in world.journal : f.service = Arg}}
    BY <1>7, LogsAsk
  <2>4. PICK x \in rows : x.id = k
    BY <2>3
  <2>5. ls = {Line(r.id, text[r], {}) : r \in Newest(rows)}
    BY DEF JournalQuery, Newest
  <2> HIDE DEF rows, text, ls
  <2>6. OnPage(ls, k)
    BY <2>2, <2>4, <2>5, NewestIsFull DEF OnPage
  <2> QED BY <2>6 DEF ls
<1> QED BY <1>3, <1>4, <1>5, <1>6, <1>7

\* What a shown answer has of k: its line, or a full page without it.
Answered(k) ==
  \/ \E l \in lines :
       /\ l.key = k
       /\ command = "service list" =>
            {p \in Package : k \in Declares[p] /\ \A w \in past : w.file[p] = "whole"}
              \subseteq l.owners
  \/ /\ command \in Queries \cup {"logs"}
     /\ Cardinality(lines) = Limit
     /\ \A l \in lines :
          IF command = "process list" /\ source = "live" THEN l.key < k ELSE l.key > k

\* A step that ends a command has answered for everything there all the time.
LEMMA StepMissesNothing ==
  ASSUME TypeOK, LabelInv, SourceInv, FoundInv, LineInv, ListingInv, LoopInv,
         Steps, UNCHANGED asked, pc' = "shown",
         source' = "live" => command \notin Queries \ Listings,
         NEW k,
         \A w \in past : k \in Members(w)' /\ \A s \in States(w, k)' : Runs(s)'
  PROVE  Answered(k)'
<1>1. command' = command /\ past' = past /\ world \in past
  BY DEF asked, TypeOK
<1>2. ~OpenDb
  BY DEF OpenDb, Read, LabelInv, Listings, Queries
<1> USE DEF Read
<1>3. source' = source
  BY <1>2 DEF Steps, ListManifests, ManifestsLoaded, NoPackages, LoadManifest,
     QueryDpkg, ShowUnit, LoadTask, ReadTree, ListShown, CountTargetServices,
     ServiceStatus, ListAll, Query, Logs, ListTasks, ShowTask
<1>4. Always(k) /\ k \in Members(world)
  BY <1>1, <1>3, SameQuestion DEF Always
<1>5. \A w \in past : \A s \in States(w, k) : Runs(s)
  BY <1>1, <1>3, SameQuestion
<1>6. lines' = lines /\ Shown(k) => Answered(k)'
  BY <1>1 DEF Shown, Answered, Listings
<1>7. command # "service list" /\ (\E l \in lines' : l.key = k) => Answered(k)'
  BY <1>1 DEF Answered
<1>8. /\ command \in Queries \cup {"logs"} /\ command # "service list"
      /\ ~(command = "process list" /\ source = "live") /\ OnPage(lines', k)
      => Answered(k)'
  BY <1>1, <1>3, <1>7 DEF OnPage, Answered
<1>9. CASE NoPackages
  <2>1. pc = "dpkg" /\ todo = {} /\ lines' = lines /\ command \in {"package list", "package info"}
    BY <1>9 DEF NoPackages, LabelInv
  <2> QED BY <1>4, <1>6, <2>1 DEF LoopInv
<1>10. ASSUME NEW p \in todo, QueryDpkg(p) \/ LoadTask(p) PROVE Answered(k)'
  <2>1. k \in todo' \/ Shown(k)'
    BY <1>4, <1>10, LoopStep
  <2>2. todo' = {} /\ command # "service list"
    BY <1>10 DEF QueryDpkg, LoadTask, LabelInv, TaskLists
  <2>3. \E l \in lines' : l.key = k
    BY <2>1, <2>2 DEF Shown
  <2> QED BY <1>7, <2>2, <2>3
<1>11. CASE ListShown
  <2>1. /\ command \in Listings /\ pc = "show" /\ todo = {} /\ source = "live"
        /\ lines' = IF command = "process list" THEN Live(lines) ELSE lines
    BY <1>11 DEF ListShown, LabelInv, SourceInv, TypeOK
  <2>2. Shown(k)
    BY <1>4, <2>1 DEF LoopInv, Listings
  <2>3. CASE command # "process list"
    BY <1>6, <2>1, <2>2, <2>3
  <2>4. CASE command = "process list"
    <3>1. PICK x \in lines : x.key = k
      BY <2>2 DEF Shown
    <3>2. PICK w \in past : x.state \in States(w, k)
      BY <3>1 DEF LineInv, Truthful
    <3>3. x.state = "active"
      BY <1>5, <2>1, <2>4, <3>2 DEF Runs
    <3>4. /\ \A l, m \in lines : l.key = m.key => l = m
          /\ \A l \in lines : l.key \in Service
      BY <2>1 DEF ListingInv
    <3>5. \/ x \in Live(lines)
          \/ Cardinality(Live(lines)) = Limit /\ \A l \in Live(lines) : l.key < x.key
      BY <3>3, <3>4, LiveIsFull
    <3>6. lines' = Live(lines)
      BY <2>1, <2>4
    <3> QED BY <1>1, <1>3, <2>1, <2>4, <3>1, <3>5, <3>6 DEF Answered, Queries
  <2> QED BY <2>3, <2>4
<1>12. CASE CountTargetServices
  <2>1. pc = "again" /\ lines' = lines /\ command = "system status"
    BY <1>12 DEF CountTargetServices, LabelInv
  <2>2. Shown(k)
    BY <1>4, <2>1 DEF LoopInv
  <2> QED BY <1>6, <2>1, <2>2
<1>13. CASE ServiceStatus
  <2>1. /\ command = "service status" /\ source = "live"
        /\ lines' = {Line(Arg, Show(Arg), {})}
    BY <1>13 DEF ServiceStatus, LabelInv, SourceInv, TypeOK
  <2>2. Members(world) = {u \in {Arg} : world.unit[u] # "absent"}
    BY <2>1, ServicesAsk
  <2>3. k = Arg
    BY <1>4, <2>2
  <2> QED BY <1>7, <2>1, <2>3 DEF Line
<1>14. CASE ListAll
  <2>1. /\ command = "service list --all" /\ source = "live"
        /\ lines' = {Line(u, Show(u), {}) : u \in {v \in Service : Show(v) # "absent"}}
    BY <1>14 DEF ListAll, LabelInv, SourceInv, TypeOK
  <2>2. k \in Service /\ Show(k) # "absent"
    <3>1. Members(world) = {u \in Service : world.unit[u] # "absent"}
      BY <2>1, ServicesAsk
    <3> QED BY <1>4, <3>1 DEF Show
  <2>3. Line(k, Show(k), {}) \in lines'
    BY <2>1, <2>2
  <2> QED BY <1>7, <2>1, <2>3 DEF Line
<1>15. CASE Query
  <2>1. command \in Queries /\ source = "database"
    BY <1>15 DEF Query, LabelInv, SourceInv
  <2>2. \/ command = "process list" /\ lines' = ProcessList
        \/ command = "process history" /\ lines' = ProcessHistory
        \/ command = "metrics" /\ lines' = Metrics
        \/ command = "error list" /\ lines' = ErrorList
    BY <1>15, <2>1 DEF Query, Queries
  <2>3. OnPage(lines', k)
    BY <1>4, <2>1, <2>2, RowsAreNotMissed
  <2> QED BY <1>8, <2>1, <2>2, <2>3
<1>16. CASE Logs
  <2>1. command = "logs" /\ lines' = {Line(e.id, e.service, {}) : e \in JournalQuery}
    BY <1>16 DEF Logs, LabelInv
  <2> QED BY <1>4, <1>8, <2>1, RowsAreNotMissed
<1>17. CASE ListTasks
  <2>1. command \in TaskLists /\ {t \in Task : world.task[t] # "none"} = {}
    BY <1>17 DEF ListTasks, LabelInv
  <2>2. k \in Task /\ world.task[k] # "none"
    <3>1. \/ Members(world) = {t \in Task : world.task[t] # "none"}
          \/ Members(world) = {t \in {Arg} : world.task[t] # "none"}
      BY <2>1, TasksAsk DEF TaskLists
    <3> QED BY <1>4, <3>1, ReportsAssumption
  <2> QED BY <2>1, <2>2
<1>18. CASE ShowTask
  <2>1. /\ command = "task show"
        /\ lines' = IF world.task[Arg] = "none" THEN {} ELSE {Line(Arg, world.task[Arg], {})}
    BY <1>18 DEF ShowTask
  <2>2. k = Arg /\ world.task[Arg] # "none"
    <3>1. Members(world) = {t \in {Arg} : world.task[t] # "none"}
      BY <2>1, TasksAsk
    <3> QED BY <1>4, <3>1
  <2> QED BY <1>7, <2>1, <2>2 DEF Line
<1>19. CASE ListManifests \/ ManifestsLoaded \/ ReadTree
  BY <1>19 DEF ListManifests, ManifestsLoaded, ReadTree, LabelInv, Listings
<1>20. ASSUME NEW p \in todo PROVE ~LoadManifest(p) /\ ~ShowUnit(p)
  BY DEF LoadManifest, ShowUnit
<1> QED BY <1>2, <1>9, <1>10, <1>11, <1>12, <1>13, <1>14, <1>15, <1>16, <1>17,
           <1>18, <1>19,
          <1>20 DEF Steps

LEMMA NothingMissedKeeps ==
  ASSUME TypeOK, LabelInv, SourceInv, FoundInv, LineInv, ListingInv, LoopInv, NothingMissed,
         [Next]_vars
  PROVE  NothingMissed'
<1>1. /\ world \in past
      /\ \/ Change
         \/ UNCHANGED vars
         \/ Steps /\ UNCHANGED asked
  BY Footprint DEF TypeOK
<1>2. CASE Change
  BY <1>2 DEF Change, NothingMissed
<1>3. CASE UNCHANGED vars
  <2>1. /\ \A w : Members(w)' = Members(w)
        /\ \A w, k : States(w, k)' = States(w, k)
        /\ \A s : Runs(s)' = Runs(s)
    BY <1>3, SameQuestion DEF vars
  <2> QED BY <1>3, <2>1 DEF vars, NothingMissed
<1>4. CASE Steps /\ UNCHANGED asked
  <2>1. command' = command /\ past' = past
    BY <1>4 DEF asked
  <2>2. ASSUME pc' = "shown", source' = "live" => command \notin Queries \ Listings,
               NEW k, \A w \in past : k \in Members(w)' /\ \A s \in States(w, k)' : Runs(s)'
        PROVE  Answered(k)'
    BY <1>4, <2>2, StepMissesNothing
  <2> QED BY <2>1, <2>2 DEF NothingMissed, Answered
<1> QED BY <1>1, <1>2, <1>3, <1>4

-------------------------------------------------------------------------------
(* Theorems *)

LEMMA Starts == Init => IInv
<1> SUFFICES ASSUME Init PROVE IInv
  OBVIOUS
<1>1. /\ world \in World /\ past = {world} /\ command \in Command
      /\ pc = FirstQuery /\ found = {} /\ lines = {} /\ source = "live" /\ total = 0
      /\ todo = IF command = "task show" THEN {Arg} ELSE {}
  BY InitWorld DEF Init
<1>2. /\ pc \in {"open", "status", "all", "tasks", "task", "journal", "dir"}
      /\ LabelInv
      /\ pc = "open" <=> command \in Queries
      /\ pc = "task" <=> command = "task show"
  BY <1>1 DEF FirstQuery, Command, Listings, Queries, TaskLists, LabelInv
<1>3. TypeOK
  <2>1. Cardinality(Service) \in Nat
    BY TreeAssumption, FS_CardinalityType
  <2>2. total \in 0 .. Cardinality(Service)
    <3>1. total = 0
      BY <1>1
    <3>2. 0 \in 0 .. Cardinality(Service)
      BY <2>1
    <3> QED BY <3>1, <3>2, Zenon
  <2>3. todo \subseteq Service \cup Package \cup Task
    BY <1>1, ReportsAssumption
  <2>4. past \subseteq World /\ world \in past
    BY <1>1
  <2> QED BY <1>1, <1>2, <2>2, <2>3, <2>4 DEF TypeOK
<1>4. SourceInv /\ FoundInv
  BY <1>1, <1>2 DEF SourceInv, FoundInv
<1>5. TodoInv
  BY <1>1, <1>2, ReportsAssumption DEF TodoInv
<1>6. LineInv /\ ListingInv
  BY <1>1 DEF LineInv, ListingInv
<1>7. LoopInv /\ TotalInv /\ NothingMissed
  BY <1>1, <1>2 DEF LoopInv, TotalInv, NothingMissed
<1>8. ReasonInv
  BY <1>1, <1>2 DEF ReasonInv, FailureHasItsReason
<1> QED BY <1>2, <1>3, <1>4, <1>5, <1>6, <1>7, <1>8 DEF IInv

\* Every part of the inductive invariant holds in every reachable state: at any query of
\* any command, whatever changes between two of them.
THEOREM ReportsHold == Spec => []IInv
<1>1. IInv /\ [Next]_vars => IInv'
  BY TypeKeeps, LabelKeeps, SourceKeeps, TodoKeeps, FoundKeeps, LineKeeps,
     ListingKeeps, LoopKeeps, NothingMissedKeeps, TotalKeeps, ReasonKeeps DEF IInv
<1> QED BY Starts, <1>1, PTL DEF Spec

\* Every reachable state of a read-only command is well typed.
THEOREM TypeCorrect == Spec => []TypeOK
<1>1. IInv => TypeOK
  BY DEF IInv
<1> QED BY <1>1, ReportsHold, PTL

\* No read-only command shows anything that was not so at some moment while it ran.
THEOREM LinesAlwaysTrue == Spec => []LinesAreTrue
<1>1. IInv => LinesAreTrue
  BY DEF IInv, LineInv, FoundInv, Truthful, LinesAreTrue
<1> QED BY <1>1, ReportsHold, PTL

\* No read-only command leaves out what was there all the time, but for full pages.
THEOREM NothingIsMissed == Spec => []NothingMissed
<1>1. IInv => NothingMissed
  BY DEF IInv
<1> QED BY <1>1, ReportsHold, PTL

\* A read-only command fails only over something that was so while it ran.
THEOREM FailuresHaveReasons == Spec => []FailureHasItsReason
<1>1. IInv => FailureHasItsReason
  BY DEF IInv, ReasonInv
<1> QED BY <1>1, ReportsHold, PTL

\* The numbers of system status, from two looks at the target, fit if it is left alone.
THEOREM CountsAlwaysFit == Spec => []CountsFit
<1>1. ASSUME IInv, pc = "shown", command = "system status",
             \A w \in past : w.wants = world.wants
      PROVE  /\ Cardinality({l \in lines : l.state # "absent"}) <= total
             /\ total = Cardinality(lines)
  <2> DEFINE services == world.wants \cap Service
             key == [l \in lines |-> l.key]
  <2>1. /\ TypeOK /\ LineInv /\ ListingInv /\ NothingMissed /\ world \in past
        /\ command \in Listings /\ source = "live"
    BY <1>1 DEF IInv, TypeOK, SourceInv, Queries, Listings
  <2>2. \A w \in past : Members(w) = services
    BY <1>1, <2>1, ListingAsks
  <2>3. total = Cardinality(services)
    BY <1>1 DEF IInv, TotalInv
  <2>4. key \in [lines -> services] /\ \A l, m \in lines : key[l] = key[m] => l = m
    BY <2>1, <2>2 DEF LineInv, Truthful, ListingInv
  <2>5. ASSUME NEW k \in services PROVE \E l \in lines : key[l] = k
    <3>1. \A s : Runs(s)
      BY <1>1 DEF Runs
    <3>2. \A w \in past : k \in Members(w)
      BY <2>2
    <3>3. command \notin Queries \cup {"logs"}
      BY <1>1 DEF Queries
    <3>4. \E l \in lines : l.key = k
      BY <1>1, <2>1, <3>1, <3>2, <3>3 DEF NothingMissed
    <3> QED BY <3>4
  <2> HIDE DEF key
  <2>6. key \in Bijection(lines, services) /\ key \in Injection(lines, services)
    BY <2>4, <2>5, Fun_IsBij DEF Bijection
  <2>7. IsFiniteSet(services)
    BY TreeAssumption, FS_Intersection
  <2>8. IsFiniteSet(lines)
    BY <2>6, <2>7, FS_Injection
  <2>9. total = Cardinality(lines)
    BY <2>3, <2>6, <2>8, FS_Bijection DEF ExistsBijection
  <2>10. Cardinality({l \in lines : l.state # "absent"}) <= Cardinality(lines)
    BY <2>8, FS_Subset
  <2> QED BY <2>9, <2>10
<1>2. IInv => CountsFit
  BY <1>1 DEF CountsFit
<1> QED BY <1>2, ReportsHold, PTL
===============================================================================
