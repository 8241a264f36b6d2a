---------------------------- MODULE DependencyTree ----------------------------
(***************************************************************************)
(* service_dependencies (system/systemd.rs, of rsctl and, line for line,   *)
(* of the daemon): the direct services of the managed target, read off     *)
(* the tree systemctl list-dependencies draws.                             *)
(***************************************************************************)
EXTENDS Integers, Sequences, SequencesExt

CONSTANTS
  Service,  \* services, as numbers in the order of their names
  Group,    \* other targets, as numbers: drawn after the services
  Managed   \* the managed target

ASSUME TreeAssumption ==
  /\ IsFiniteSet(Service) /\ IsFiniteSet(Group)
  /\ Service \cup Group \subseteq Nat
  /\ \A s \in Service, g \in Group : s < g
  /\ Managed \notin Service \cup Group

-------------------------------------------------------------------------------
(* systemctl list-dependencies, external.  A line is a state marker, a bar or *)
(* a gap for every ancestor, a branch and a name; the first line is a bare    *)
(* name.  A unit that is its own ancestor is drawn as "..." and left out.     *)

\* In UTF-8, in ASCII, or in ASCII with the branches and markers left out when all
\* units are on the first level (a test gives that as systemd 255's, systemd.rs:361).
Drawing == {"utf8", "ascii", "flat"}

\* The unit that wants the i-th one on the way down from the managed target.
Above(way, i) == IF i = 1 THEN Managed ELSE way[i - 1]

\* There is a line for every way down to a unit, through targets.
Ways(wants) ==
  {way \in UNION {[1 .. n -> Service \cup Group] : n \in 1 .. Cardinality(Group) + 1} :
     /\ \A i \in DOMAIN way :
          /\ Above(way, i) \in Group \cup {Managed}
          /\ way[i] \in wants[Above(way, i)]
     /\ \A i, j \in DOMAIN way : way[i] = way[j] => i = j}

\* The unit's own cell is the last; the other ones continue its ancestors' branches.
Cell(wants, way, i) ==
  LET last == way[i] = Max(wants[Above(way, i)])
  IN  IF i = Len(way) THEN IF last THEN "corner" ELSE "branch"
                      ELSE IF last THEN "gap" ELSE "bar"

Cells(wants, way) ==
  [c \in 1 .. Len(way) + 1 |-> IF c = 1 THEN "marker" ELSE Cell(wants, way, c - 1)]

Drawn(wants, drawing) ==
  LET ways == Ways(wants)
      bare == drawing = "flat" /\ \A way \in ways : Len(way) = 1
  IN  {[cells |-> << >>, unit |-> Managed]} \cup
      {[cells |-> IF bare THEN <<"gap">> ELSE Cells(wants, way), unit |-> way[Len(way)]] :
         way \in ways}

-------------------------------------------------------------------------------
(* Reading it *)

\* BRANCH_CHARS: in ASCII the bar of an ancestor is drawn with the branch's "|".
IsBranch(cell, drawing) ==
  cell \in {"branch", "corner"} \/ (cell = "bar" /\ drawing # "utf8")

Branches(line, drawing) == {i \in DOMAIN line.cells : IsBranch(line.cells[i], drawing)}

\* A marker at the start of the line is a cell, but no level.
Marker(line) == IF line.cells[1] = "gap" THEN 0 ELSE 1

Indent(line) ==
  Cardinality({i \in DOMAIN line.cells : \A j \in 1 .. i : line.cells[j] = "gap"})

\* Mutant of Depth: the first branch of the line is taken for the unit's own.
FirstBranchDepth(line, drawing) ==
  LET B == Branches(line, drawing) IN
  IF B = {} THEN Indent(line) ELSE (CHOOSE i \in B : \A j \in B : i <= j) - Marker(line)

\* parse_dependency_line: cells up to the last branch, without the marker; a line
\* without branches has its level from its indentation.
Depth(line, drawing) ==
  LET B == Branches(line, drawing) IN
  IF B = {} THEN Indent(line) ELSE (CHOOSE i \in B : \A j \in B : j <= i) - Marker(line)

\* parse_service_dependencies.
ServiceDependencies(wants, drawing) ==
  {line.unit : line \in {l \in Drawn(wants, drawing) :
                            Depth(l, drawing) = 1 /\ l.unit \in Service}}
===============================================================================
