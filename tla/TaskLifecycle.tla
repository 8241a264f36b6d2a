----------------------------- MODULE TaskLifecycle -----------------------------
(***************************************************************************)
(* What the deployment manager promises about its task files: changes are  *)
(* recorded one at a time, a file only moves along the state machine, and  *)
(* a finished file never changes again.  Deployment implements this.       *)
(***************************************************************************)
EXTENDS TaskStates

CONSTANTS Task,     \* task ids (UUIDs)
          NoTask    \* what stands in place of a file that was never written

VARIABLE files      \* task id -> [kind : Kind, state : TaskState] on disk, or NoTask

Written == {t \in Task : files[t] # NoTask}

Open == {t \in Written : Incomplete(files[t].state)}

Init == files = [t \in Task |-> NoTask]

\* A change begins: its file appears while no other change is open.
Begin(t) ==
  /\ files[t] = NoTask
  /\ Open = {}
  /\ \E k \in Kind : files' = [files EXCEPT ![t] = [kind |-> k, state |-> "created"]]

\* The running change records its next state.
Advance(t) ==
  /\ t \in Open
  /\ \E s \in Successors(files[t].kind, files[t].state) :
       files' = [files EXCEPT ![t].state = s]

\* An operator settles by hand a task whose process is gone.
Settle(t) ==
  /\ t \in Open
  /\ files' = [files EXCEPT ![t].state = "recovery_required"]

Next == \E t \in Task : Begin(t) \/ Advance(t) \/ Settle(t)

Spec == Init /\ [][Next]_files
===============================================================================
