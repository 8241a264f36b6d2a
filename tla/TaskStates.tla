------------------------------ MODULE TaskStates ------------------------------
(***************************************************************************)
(* The deployment task's state machine as data: the kinds and states of    *)
(* crates/rsctl/src/deployment/state.rs, the predicates over them, and the *)
(* order in which DeploymentManager walks through them.                    *)
(***************************************************************************)

Kind == {"install", "upgrade", "remove"}

\* The states a running change passes through before it ends or fails.
Working == {"created", "validating", "prepared", "stopping_services",
            "applying_package", "configuring_services", "starting_services",
            "verifying_package"}

\* TaskState::is_terminal: the states that no longer block later changes.
Terminal == {"committed", "recovered", "recovery_required"}

TaskState == Working \cup Terminal \cup {"failed", "recovering"}

\* DeploymentTask::is_incomplete.
Incomplete(s) == s \in TaskState \ Terminal

(***************************************************************************)
(* The state that follows s when nothing fails.  run_remove has no         *)
(* services to start and goes from configuring to verifying.               *)
(***************************************************************************)
NextState(kind, s) ==
  CASE s = "created" -> "validating"
    [] s = "validating" -> "prepared"
    [] s = "prepared" -> "stopping_services"
    [] s = "stopping_services" -> "applying_package"
    [] s = "applying_package" -> "configuring_services"
    [] s = "configuring_services" -> IF kind = "remove" THEN "verifying_package"
                                                        ELSE "starting_services"
    [] s = "starting_services" -> "verifying_package"
    [] s = "verifying_package" -> "committed"

(***************************************************************************)
(* The states a task file in state s may hold next.  A change that cannot  *)
(* save the state it is entering records "failed" from wherever the file   *)
(* stands, "created" included.                                             *)
(***************************************************************************)
Successors(kind, s) ==
  IF s \in Working THEN {NextState(kind, s), "failed"}
  ELSE IF s = "failed" THEN {"recovering"}
  ELSE IF s = "recovering" THEN {"recovered", "recovery_required"}
  ELSE {}
===============================================================================
