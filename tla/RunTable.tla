------------------------------- MODULE RunTable -------------------------------
(***************************************************************************)
(* What the daemon promises about process_runs: a run is opened once, ends *)
(* once, keeps from then on the row it ended with, and is forgotten only   *)
(* after it has ended.  Monitor, which writes the rows, and Retention,     *)
(* which deletes them, each implement this.                                *)
(***************************************************************************)
CONSTANT Run     \* run ids

VARIABLES open,  \* runs under way
          ended  \* the rows of the others, [run, row]

Known == open \cup {e.run : e \in ended}

Init == open = {} /\ ended = {}

Open(r) ==
  /\ r \notin Known
  /\ open' = open \cup {r}
  /\ UNCHANGED ended

End(r) ==
  /\ r \in open
  /\ open' = open \ {r}
  /\ \E e \in ended' : e.run = r /\ ended' = ended \cup {e}

Forget ==
  /\ ended' \subseteq ended
  /\ UNCHANGED open

Next == Forget \/ \E r \in Run : Open(r) \/ End(r)

Spec == Init /\ [][Next]_<<open, ended>>
===============================================================================
