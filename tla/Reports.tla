-------------------------------- MODULE Reports --------------------------------
(***************************************************************************)
(* The commands of rsctl that only look (commands/, service.rs, package/,  *)
(* state.rs, db.rs).  Each is a row of queries, to files, dpkg, systemd    *)
(* and SQLite, without the change lock: packages, units, task files and    *)
(* the daemon's tables change between any two of them.                     *)
(***************************************************************************)
EXTENDS DependencyTree

CONSTANTS
  Package, Task,  \* as numbers
  Declares,       \* services a package's manifest declares
  InGroup,        \* what a target other than the managed one wants
  Arg,            \* the unit, package or task a command is asked about
  Limit,          \* --limit
  MaxChanges      \* Bound: different worlds one command lives through, less one

ASSUME ReportsAssumption ==
  /\ Declares \in [Package -> SUBSET Service]
  /\ InGroup \in [Group -> SUBSET (Service \cup Group)]
  /\ Arg \in Service \cap Package \cap Task
  /\ Limit \in Nat /\ MaxChanges \in Nat

VARIABLES
  world,    \* what can be asked about
  past,     \* the worlds since the command began
  command,  \* its name
  pc,       \* the query that comes next, or "shown", "failed"
  todo,     \* what is still to be queried in this loop
  found,    \* manifests loaded
  lines,    \* the answer
  source,   \* "database" or "live"
  total     \* target_services

vars == <<world, past, command, pc, todo, found, lines, source, total>>

Manifest == {"absent", "broken", "whole"}
DpkgState == {"unknown", "installed", "half-installed", "config-files"}
UnitState == {"absent", "inactive", "failed", "active"}
TaskFile == {"none", "stopping", "committed", "recovered", "recovery_required"}
RunRow == [id : 1 .. 2, service : Service, result : {"running", "exited"}]
MetricRow == [id : 1 .. 2, run : 1 .. 2]
EventRow == [id : 1 .. 2, service : Service]
LogEntry == [id : 1 .. 2, service : Service]

Listings == {"service list", "system status", "process list"}
Queries == {"process list", "process history", "metrics", "error list"}
TaskLists == {"task list", "package history"}
Command == Listings \cup Queries \cup TaskLists \cup
             {"service status", "service list --all", "package list", "package info",
              "task show", "logs"}

\* The parts of the world a command looks at.
Reads(part) ==
  CASE part = "wants"   -> command \in Listings
    [] part = "unit"    -> command \in Listings \cup {"service status", "service list --all"}
    [] part = "file"    -> command \in {"service list", "package list", "package info"}
    [] part = "dpkg"    -> command \in {"package list", "package info"}
    [] part = "db"      -> command \in Queries
    [] part = "runs"    -> command \in {"process list", "process history", "metrics"}
    [] part = "metrics" -> command = "metrics"
    [] part = "events"  -> command = "error list"
    [] part = "task"    -> command \in TaskLists \cup {"task show"}
    [] part = "journal" -> command = "logs"

Start(part, values, usual) == IF Reads(part) THEN values ELSE {usual}

\* At most one row of an id.
Table(Row) == {t \in SUBSET Row : \A r, s \in t : r.id = s.id => r = s}

World ==
  [wants : SUBSET (Service \cup Group), unit : [Service -> UnitState],
   file : [Package -> Manifest], dpkg : [Package -> DpkgState], task : [Task -> TaskFile],
   db : {"absent", "bare", "ready"}, runs : Table(RunRow), metrics : Table(MetricRow),
   events : Table(EventRow), journal : Table(LogEntry)]

TypeOK ==
  /\ past \subseteq World
  /\ world \in past
  /\ command \in Command
  /\ pc \in {"open", "query", "dir", "files", "tree", "show", "status", "again", "dpkg",
       "tasks", "task", "all", "journal", "shown", "failed"}
  /\ todo \subseteq Service \cup Package \cup Task
  /\ found \subseteq Package
  /\ \A l \in lines : l.owners \subseteq found
  /\ source \in {"database", "live"}
  /\ total \in 0 .. Cardinality(Service)

FirstQuery ==
  CASE command \in Queries          -> "open"
    [] command = "service status"   -> "status"
    [] command = "service list --all" -> "all"
    [] command \in TaskLists        -> "tasks"
    [] command = "task show"        -> "task"
    [] command = "logs"             -> "journal"
    [] OTHER                        -> "dir"

Init ==
  /\ command \in Command
  /\ world \in
       [wants : Start("wants", SUBSET (Service \cup Group), {}),
        unit  : Start("unit", {[s \in Service |-> a] : a \in {"active", "absent"}},
                      [s \in Service |-> "active"]),
        file  : Start("file", [Package -> {"broken", "whole"}], [p \in Package |-> "whole"]),
        dpkg  : Start("dpkg", [Package -> DpkgState], [p \in Package |-> "installed"]),
        task  : Start("task", [Task -> TaskFile], [t \in Task |-> "none"]),
        db    : Start("db", {"absent", "bare", "ready"}, "ready"),
        runs  : Start("runs", Table(RunRow), {}),
        metrics : Start("metrics", Table(MetricRow), {}),
        events  : Start("events", Table(EventRow), {}),
        journal : Start("journal", Table(LogEntry), {})]
  /\ world.db # "ready" => world.runs = {} /\ world.events = {}
  /\ \A m \in world.metrics : \E r \in world.runs : r.id = m.run
  /\ past = {world}
  /\ pc = FirstQuery
  /\ todo = IF command = "task show" THEN {Arg} ELSE {}
  /\ found = {}
  /\ lines = {}
  /\ source = "live"
  /\ total = 0

-------------------------------------------------------------------------------
(* Everybody else, external *)

Toggle(set, x) == (set \ {x}) \cup ({x} \ set)

\* Services are enabled and disabled, started, installed, end and fail; they write
\* to the journal, which is vacuumed.
Systemd ==
  \/ \E u \in Service \cup Group :
       Reads("wants") /\ world' = [world EXCEPT !.wants = Toggle(@, u)]
  \/ \E u \in Service, s \in UnitState :
       Reads("unit") /\ world' = [world EXCEPT !.unit[u] = s]
  \/ \E e \in LogEntry :
       /\ Reads("journal")
       /\ \/ /\ \A f \in world.journal : f.id < e.id
             /\ world' = [world EXCEPT !.journal = @ \cup {e}]
          \/ /\ e \in world.journal
             /\ world' = [world EXCEPT !.journal = @ \ {e}]

\* Packages come and go, file by file; task files go from state to state.
Rsctl ==
  \/ \E p \in Package, f \in Manifest :
       Reads("file") /\ world' = [world EXCEPT !.file[p] = f]
  \/ \E p \in Package, s \in DpkgState :
       Reads("dpkg") /\ world' = [world EXCEPT !.dpkg[p] = s]
  \/ \E t \in Task, s \in TaskFile \ {"none"} :
       /\ Reads("task")
       /\ world.task[t] \in {"none", "stopping"}
       /\ world' = [world EXCEPT !.task[t] = s]

\* The daemon creates its database, fills it, and prunes.
Collects ==
  \/ Reads("db") /\ world.db = "absent" /\ world' = [world EXCEPT !.db = "bare"]
  \/ Reads("db") /\ world.db = "bare" /\ world' = [world EXCEPT !.db = "ready"]
  \/ \E r \in RunRow :
       /\ Reads("runs") /\ world.db = "ready"
       /\ \/ \A q \in world.runs : q.id < r.id
          \/ [r EXCEPT !.result = "running"] \in world.runs
       /\ world' = [world EXCEPT !.runs = {q \in @ : q.id # r.id} \cup {r}]
  \/ \E r \in world.runs :
       /\ r.result # "running"
       /\ world' = [world EXCEPT !.runs = @ \ {r}, !.metrics = {m \in @ : m.run # r.id}]
  \/ \E m \in MetricRow :
       /\ Reads("metrics") /\ world.db = "ready"
       /\ \E r \in world.runs : r.id = m.run
       /\ \A n \in world.metrics : n.id < m.id
       /\ world' = [world EXCEPT !.metrics = @ \cup {m}]
  \/ \E e \in EventRow :
       /\ Reads("events") /\ world.db = "ready"
       /\ \A f \in world.events : f.id < e.id
       /\ world' = [world EXCEPT !.events = @ \cup {e}]

Change ==
  /\ pc \notin {"shown", "failed"}
  /\ Cardinality(past) <= MaxChanges
  /\ Systemd \/ Rsctl \/ Collects
  /\ past' = past \cup {world'}
  /\ UNCHANGED <<command, pc, todo, found, lines, source, total>>

-------------------------------------------------------------------------------
(* PackageManifest::load_all *)

asked == <<world, past, command>>

Read(query) ==
  /\ pc = query
  /\ UNCHANGED asked

ListManifests ==
  /\ Read("dir")
  /\ pc' = "files"
  /\ todo' = {p \in Package : world.file[p] # "absent"}
  /\ UNCHANGED <<found, lines, source, total>>

\* Mutant of LoadManifest: one file that does not parse ends the listing.
LoadManifestStrictly(p) ==
  /\ Read("files")
  /\ todo' = IF world.file[p] = "whole" THEN todo \ {p} ELSE {}
  /\ found' = IF world.file[p] = "whole" THEN found \cup {p} ELSE found
  /\ UNCHANGED <<pc, lines, source, total>>

\* A file that is gone by now or does not parse is skipped.
LoadManifest(p) ==
  /\ Read("files")
  /\ todo' = todo \ {p}
  /\ found' = IF world.file[p] = "whole" THEN found \cup {p} ELSE found
  /\ UNCHANGED <<pc, lines, source, total>>

\* package_info looks for its package among all of them.
ManifestsLoaded ==
  /\ Read("files")
  /\ todo = {}
  /\ CASE command \in Listings       -> pc' = "tree" /\ todo' = {}
       [] command = "package list"   -> pc' = "dpkg" /\ todo' = found
       [] command = "package info"   ->
            /\ pc' = IF Arg \in found THEN "dpkg" ELSE "failed"
            /\ todo' = found \cap {Arg}
  /\ UNCHANGED <<found, lines, source, total>>

-------------------------------------------------------------------------------
(* dpkg::query, for managed_packages and package_info *)

\* "install ok installed", and no other state dpkg may report.
IsInstalled(state) == state = "installed"

\* dpkg-query fails for a package dpkg does not know.
Queried(p) == world.dpkg[p] # "unknown" /\ IsInstalled(world.dpkg[p])

Line(key, state, owners) == [key |-> key, state |-> state, owners |-> owners]

QueryDpkg(p) ==
  /\ Read("dpkg")
  /\ p = Min(todo)
  /\ todo' = todo \ {p}
  /\ lines' = lines \cup {Line(p, Queried(p), {})}
  /\ pc' = IF todo' = {} THEN "shown" ELSE "dpkg"
  /\ UNCHANGED <<found, source, total>>

NoPackages ==
  /\ Read("dpkg")
  /\ todo = {}
  /\ pc' = "shown"
  /\ UNCHANGED <<todo, found, lines, source, total>>

-------------------------------------------------------------------------------
(* ServiceManager *)

Wants == [u \in Group \cup {Managed} |-> IF u = Managed THEN world.wants ELSE InGroup[u]]

TargetUnits(drawing) == ServiceDependencies(Wants, drawing)

\* LANG=C is set for systemctl, SYSTEMD_UTF8 overrides that.
ReadTree ==
  /\ Read("tree")
  /\ pc' = "show"
  /\ \E drawing \in Drawing : todo' = TargetUnits(drawing)
  /\ UNCHANGED <<found, lines, source, total>>

\* systemctl show; a unit without a file is "not-found".
Show(u) == world.unit[u]

\* Each of them, in order.
ShowUnit(u) ==
  /\ Read("show")
  /\ u = Min(todo)
  /\ todo' = todo \ {u}
  /\ lines' = lines \cup {Line(u, Show(u), {p \in found : u \in Declares[p]})}
  /\ UNCHANGED <<pc, found, source, total>>

\* process list without a database: services with a main process, truncated.
Live(ls) ==
  LET running == {l \in ls : l.state = "active"}
  IN  {l \in running : Cardinality({k \in running : k.key < l.key}) < Limit}

ListShown ==
  /\ Read("show")
  /\ todo = {}
  /\ pc' = IF command = "system status" THEN "again" ELSE "shown"
  /\ lines' = IF command = "process list" THEN Live(lines) ELSE lines
  /\ UNCHANGED <<todo, found, source, total>>

\* Mutant of CountTargetServices: every line of the tree is counted.
CountLines ==
  /\ Read("again")
  /\ \E drawing \in Drawing : total' = Cardinality(Drawn(Wants, drawing))
  /\ pc' = "shown"
  /\ UNCHANGED <<todo, found, lines, source>>

\* system status asks for the target's services a second time, to count them.
CountTargetServices ==
  /\ Read("again")
  /\ \E drawing \in Drawing : total' = Cardinality(TargetUnits(drawing))
  /\ pc' = "shown"
  /\ UNCHANGED <<todo, found, lines, source>>

\* Mutant of ServiceStatus: what systemctl says of a unit without a file is shown.
ServiceStatusOfAny ==
  /\ Read("status")
  /\ pc' = "shown"
  /\ lines' = {Line(Arg, Show(Arg), {})}
  /\ UNCHANGED <<todo, found, source, total>>

ServiceStatus ==
  /\ Read("status")
  /\ IF Show(Arg) = "absent"
       THEN pc' = "failed" /\ UNCHANGED lines
       ELSE pc' = "shown" /\ lines' = {Line(Arg, Show(Arg), {})}
  /\ UNCHANGED <<todo, found, source, total>>

\* systemctl list-units --all, in one go.
ListAll ==
  /\ Read("all")
  /\ pc' = "shown"
  /\ lines' = {Line(u, Show(u), {}) : u \in {v \in Service : Show(v) # "absent"}}
  /\ UNCHANGED <<todo, found, source, total>>

-------------------------------------------------------------------------------
(* StateStore and journald *)

Available == world.db # "absent"

\* Without a file history is empty, and process list asks systemd instead.
OpenDb ==
  /\ Read("open")
  /\ IF Available
       THEN pc' = "query" /\ source' = "database"
       ELSE /\ pc' = IF command = "process list" THEN "dir" ELSE "shown"
            /\ source' = "live"
  /\ UNCHANGED <<todo, found, lines, total>>

\* ORDER BY ... DESC LIMIT; ids are in the order of their times.
Newest(rows) == {r \in rows : Cardinality({q \in rows : q.id > r.id}) < Limit}

RunningRuns == {r \in world.runs : r.result = "running"}
ProcessRuns == {r \in world.runs : r.service = Arg}
ErrorEvents == {e \in world.events : e.service = Arg}

\* Joined with the runs of the service.
MetricsForService == {m \in world.metrics : \E r \in world.runs : r.id = m.run /\ r.service = Arg}

ProcessList    == {Line(r.id, r.service, {}) : r \in Newest(RunningRuns)}
ProcessHistory == {Line(r.id, r.result, {}) : r \in Newest(ProcessRuns)}
Metrics        == {Line(m.id, m.run, {}) : m \in Newest(MetricsForService)}
ErrorList      == {Line(e.id, e.service, {}) : e \in Newest(ErrorEvents)}

\* One SELECT, on one snapshot; before the daemon has migrated there is no table.
Query ==
  /\ Read("query")
  /\ IF world.db = "bare"
       THEN pc' = "failed" /\ UNCHANGED lines
       ELSE /\ pc' = "shown"
            /\ lines' = CASE command = "process list"    -> ProcessList
                          [] command = "process history" -> ProcessHistory
                          [] command = "metrics"         -> Metrics
                          [] command = "error list"      -> ErrorList
  /\ UNCHANGED <<todo, found, source, total>>

\* journalctl -u -n.
JournalQuery == Newest({e \in world.journal : e.service = Arg})

Logs ==
  /\ Read("journal")
  /\ pc' = "shown"
  /\ lines' = {Line(e.id, e.service, {}) : e \in JournalQuery}
  /\ UNCHANGED <<todo, found, source, total>>

-------------------------------------------------------------------------------
(* Task files, see Deployment *)

ListTasks ==
  /\ Read("tasks")
  /\ todo' = {t \in Task : world.task[t] # "none"}
  /\ pc' = IF todo' = {} THEN "shown" ELSE "task"
  /\ UNCHANGED <<found, lines, source, total>>

\* history_for; a task has the number of its package.
HistoryFor(ls) == {l \in ls : l.key = Arg}

LoadTask(t) ==
  /\ Read("task")
  /\ command \in TaskLists
  /\ todo' = todo \ {t}
  /\ LET read == lines \cup {Line(t, world.task[t], {})}
     IN  lines' = IF command = "package history" THEN HistoryFor(read) ELSE read
  /\ pc' = IF todo' = {} THEN "shown" ELSE "task"
  /\ UNCHANGED <<found, source, total>>

\* Only a committed task is a success, one still under way is none.
Concludes(state) == state = "committed"

\* task_show prints the task and exits as if it had run it.
ShowTask ==
  /\ Read("task")
  /\ command = "task show"
  /\ todo' = {}
  /\ pc' = IF Concludes(world.task[Arg]) THEN "shown" ELSE "failed"
  /\ lines' = IF world.task[Arg] = "none" THEN {} ELSE {Line(Arg, world.task[Arg], {})}
  /\ UNCHANGED <<found, source, total>>

\* The command has answered.
Ended ==
  /\ pc \in {"shown", "failed"}
  /\ UNCHANGED vars

Next ==
  \/ Change
  \/ ListManifests \/ ManifestsLoaded \/ NoPackages
  \/ \E p \in todo : LoadManifest(p) \/ QueryDpkg(p)
  \/ ReadTree \/ ListShown \/ CountTargetServices \/ ServiceStatus
  \/ \E u \in todo : ShowUnit(u)
  \/ ListAll \/ OpenDb \/ Query \/ Logs
  \/ ListTasks \/ ShowTask
  \/ \E t \in todo : LoadTask(t)
  \/ Ended

Spec == Init /\ [][Next]_vars

-------------------------------------------------------------------------------
(* Properties.  The answer to a question about moving things cannot be that of *)
(* one moment; each part of it can be that of some moment of the command.      *)

\* What the command is about in world w, key by key: what it has to list.
Members(w) ==
  CASE command \in Listings /\ source = "live" -> w.wants \cap Service
    [] command = "service status"  -> {u \in {Arg} : w.unit[u] # "absent"}
    [] command = "service list --all" -> {u \in Service : w.unit[u] # "absent"}
    [] command = "package list"    -> {p \in Package : w.file[p] = "whole"}
    [] command = "package info"    -> {p \in {Arg} : w.file[p] = "whole"}
    [] command = "task list"       -> {t \in Task : w.task[t] # "none"}
    [] command \in {"task show", "package history"} -> {t \in {Arg} : w.task[t] # "none"}
    [] command = "process list" /\ source # "live" ->
         {r.id : r \in {q \in w.runs : q.result = "running"}}
    [] command = "process history" -> {r.id : r \in {q \in w.runs : q.service = Arg}}
    [] command = "metrics"         ->
         {m.id : m \in {n \in w.metrics : \E r \in w.runs : r.id = n.run /\ r.service = Arg}}
    [] command = "error list"      -> {e.id : e \in {f \in w.events : f.service = Arg}}
    [] command = "logs"            -> {e.id : e \in {f \in w.journal : f.service = Arg}}

\* process list shows what runs, other commands show everything.
Runs(state) == command = "process list" /\ source = "live" => state = "active"

\* What a line may say of its key in world w.
States(w, key) ==
  CASE command \in Listings \cup {"service status", "service list --all"} /\ source = "live" ->
         {w.unit[key]}
    [] command \in {"package list", "package info"} -> {w.dpkg[key] = "installed"}
    [] command \in TaskLists \cup {"task show"}     -> {w.task[key]}
    [] command = "process list" /\ source # "live"  -> {r.service : r \in {q \in w.runs : q.id = key}}
    [] command = "process history" -> {r.result : r \in {q \in w.runs : q.id = key}}
    [] command = "metrics"         -> {m.run : m \in {n \in w.metrics : n.id = key}}
    [] command = "error list"      -> {e.service : e \in {f \in w.events : f.id = key}}
    [] command = "logs"            -> {e.service : e \in {f \in w.journal : f.id = key}}

\* Nothing is shown that was not so while the command ran: the line belongs to the
\* answer at some moment, what it says of its unit, package, task or row was so at
\* some moment, and its owners declared it.  Above all a service is one the target
\* wants itself, however the tree is drawn (systemd.rs:173 "只取**直接**依赖").
LinesAreTrue ==
  pc \in {"shown", "failed"} =>
    \A l \in lines :
      /\ \E w \in past : l.key \in Members(w)
      /\ \E w \in past : l.state \in States(w, l.key)
      /\ Runs(l.state)
      /\ \A p \in l.owners : l.key \in Declares[p] /\ \E w \in past : w.file[p] = "whole"

\* What was there all the time is not missed, with its owners, whatever else came,
\* went or was broken (manifest.rs:50 "不会因为一个损坏的清单而整体失败"); a full page
\* leaves out only what is later in its order.
NothingMissed ==
  pc = "shown" /\ (source = "live" => command \notin Queries \ Listings) =>
    \A k \in {k \in Service \cup Package \cup Task \cup 1 .. 2 :
              \A w \in past : k \in Members(w) /\ \A s \in States(w, k) : Runs(s)} :
      \/ \E l \in lines :
           /\ l.key = k
           /\ command = "service list" =>
                {p \in Package : k \in Declares[p] /\ \A w \in past : w.file[p] = "whole"}
                  \subseteq l.owners
      \/ /\ command \in Queries \cup {"logs"}
         /\ Cardinality(lines) = Limit
         /\ \A l \in lines :
              IF command = "process list" /\ source = "live" THEN l.key < k ELSE l.key > k

\* What a command fails over.
Missing(w) ==
  CASE command = "service status" -> w.unit[Arg] = "absent"
    [] command = "package info"   -> w.file[Arg] # "whole"
    [] command = "task show"      -> w.task[Arg] # "committed"
    [] command \in Queries        -> w.db = "bare"
    [] OTHER                      -> FALSE

\* A command fails only over something that was so while it ran: no such unit, no
\* manifest, no such task or one that is not committed, a database not migrated yet
\* (docs/ARCHITECTURE.md promises an answer without history there only if the file
\* is missing); and it succeeds only if there was something to show.
FailureHasItsReason ==
  /\ pc = "failed" => \E w \in past : Missing(w)
  /\ pc = "shown" /\ command \in Queries /\ source = "live" => \E w \in past : w.db = "absent"
  /\ pc = "shown" /\ command \notin Queries => \E w \in past : ~Missing(w)

\* system status counts its services from one look at the target and compares with a
\* number from another: they fit when the target is left alone.
CountsFit ==
  pc = "shown" /\ command = "system status" /\ (\A w \in past : w.wants = world.wants) =>
    Cardinality({l \in lines : l.state # "absent"}) <= total /\ total = Cardinality(lines)
===============================================================================
