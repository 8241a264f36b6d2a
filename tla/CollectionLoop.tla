----------------------------- MODULE CollectionLoop -----------------------------
(***************************************************************************)
(* run_collection_loop and shutdown_signal (robot-system-daemon/main.rs),  *)
(* Daemon::tick's rounds (daemon.rs), under tokio's signal handling: a     *)
(* handler for SIGTERM is installed the first time shutdown_signal is      *)
(* polled and stays; every turn of the loop makes a new receiver, which    *)
(* sees the signals broadcast after it was made and no earlier ones.       *)
(***************************************************************************)
EXTENDS Integers

CONSTANTS
  PruneEvery,  \* PRUNE_INTERVAL_TICKS
  LogEvery,    \* log_every_ticks
  TickErrors   \* whether monitor.tick may fail

VARIABLES
  pc,         \* "select", "ticking", "scanning", "pruning", "exited", "killed"
  due,        \* the interval has a tick to give
  ticks,      \* ticks, modulo PruneEvery
  rounds,     \* tick_count, modulo LogEvery
  handler,    \* a SIGTERM handler is installed
  receiver,   \* this turn's receiver exists
  delivered,  \* a signal was broadcast to it
  pending,    \* the kernel has a SIGTERM the runtime has not broadcast yet
  asked       \* systemd has sent SIGTERM

signalVars == <<handler, receiver, delivered, pending, asked>>
vars == <<pc, due, ticks, rounds, signalVars>>

Working == {"ticking", "scanning", "pruning"}

TypeOK ==
  /\ pc \in {"select", "exited", "killed"} \cup Working
  /\ due \in BOOLEAN
  /\ ticks \in 0 .. PruneEvery - 1
  /\ rounds \in 0 .. LogEvery - 1
  /\ handler \in BOOLEAN /\ receiver \in BOOLEAN /\ delivered \in BOOLEAN
  /\ pending \in BOOLEAN /\ asked \in BOOLEAN

Init ==
  /\ pc = "select"
  /\ due = TRUE
  /\ ticks = 0
  /\ rounds = 0
  /\ handler = FALSE
  /\ receiver = FALSE
  /\ delivered = FALSE
  /\ pending = FALSE
  /\ asked = FALSE

\* A new process starts with new counters, signals and timer.
Restart ==
  /\ pc' = "select" /\ due' = TRUE /\ ticks' = 0 /\ rounds' = 0
  /\ handler' = FALSE /\ receiver' = FALSE /\ delivered' = FALSE
  /\ pending' = FALSE /\ asked' = FALSE

Stopped == pc \in {"exited", "killed"}

-------------------------------------------------------------------------------
(* Signals and the timer, external *)

\* systemctl stop: without a handler SIGTERM kills the process.
Terminate ==
  /\ ~asked
  /\ ~Stopped
  /\ asked' = TRUE
  /\ IF handler THEN pending' = TRUE /\ UNCHANGED pc
                ELSE pc' = "killed" /\ UNCHANGED pending
  /\ UNCHANGED <<due, ticks, rounds, handler, receiver, delivered>>

\* The runtime broadcasts the signal to whichever receivers exist.
Broadcast ==
  /\ pending
  /\ ~Stopped
  /\ pending' = FALSE
  /\ delivered' = receiver
  /\ UNCHANGED <<pc, due, ticks, rounds, handler, receiver, asked>>

\* The interval keeps a missed tick: it fires at once after a long turn.
TimerFires ==
  /\ ~due
  /\ ~Stopped
  /\ due' = TRUE
  /\ UNCHANGED <<pc, ticks, rounds, signalVars>>

-------------------------------------------------------------------------------
(* select! polls its branches in a random order and stops at the first one *)
(* that is ready; the futures of the others are dropped.                   *)

\* shutdown_signal is polled and has nothing: it waits with its receiver.
Listen ==
  /\ pc = "select"
  /\ ~receiver
  /\ handler' = TRUE
  /\ receiver' = TRUE
  /\ UNCHANGED <<pc, due, ticks, rounds, delivered, pending, asked>>

TakeTick ==
  /\ pc = "select"
  /\ due
  /\ pc' = "ticking"
  /\ due' = FALSE
  /\ ticks' = (ticks + 1) % PruneEvery
  /\ receiver' = FALSE
  /\ delivered' = FALSE
  /\ UNCHANGED <<rounds, handler, pending, asked>>

Exit ==
  /\ pc = "select"
  /\ delivered
  /\ pc' = "exited"
  /\ UNCHANGED <<due, ticks, rounds, signalVars>>

-------------------------------------------------------------------------------
(* One turn *)

AfterTick == pc' = IF ticks = 0 THEN "pruning" ELSE "select"

\* Mutant of Collected: the round counter is compared, not reduced.
CollectedCounting ==
  /\ pc = "ticking"
  /\ rounds' = rounds + 1
  /\ IF rounds' = LogEvery THEN pc' = "scanning" ELSE AfterTick
  /\ UNCHANGED <<due, ticks, signalVars>>

\* Daemon::tick: every LogEvery-th successful round scans the logs.
Collected ==
  /\ pc = "ticking"
  /\ rounds' = (rounds + 1) % LogEvery
  /\ IF rounds' = 0 THEN pc' = "scanning" ELSE AfterTick
  /\ UNCHANGED <<due, ticks, signalVars>>

\* Mutant of CollectFails: only a successful tick looks whether to prune.
CollectFailsUnpruned ==
  /\ TickErrors
  /\ pc = "ticking"
  /\ pc' = "select"
  /\ UNCHANGED <<due, ticks, rounds, signalVars>>

\* The error is logged and the loop goes on.
CollectFails ==
  /\ TickErrors
  /\ pc = "ticking"
  /\ AfterTick
  /\ UNCHANGED <<due, ticks, rounds, signalVars>>

LogsScanned ==
  /\ pc = "scanning"
  /\ AfterTick
  /\ UNCHANGED <<due, ticks, rounds, signalVars>>

\* Whether it succeeds or not.
Pruned ==
  /\ pc = "pruning"
  /\ pc' = "select"
  /\ UNCHANGED <<due, ticks, rounds, signalVars>>

Turn == TakeTick \/ Collected \/ CollectFails \/ LogsScanned \/ Pruned

Step == Broadcast \/ TimerFires \/ Listen \/ Exit \/ Turn

Next == Terminate \/ Step

Spec == Init /\ [][Next]_vars

\* The timer and the runtime run; a receiver that holds a signal is noticed by
\* the next poll.
Fairness ==
  /\ WF_vars(TimerFires) /\ WF_vars(Broadcast) /\ WF_vars(Turn)
  /\ WF_vars(Listen) /\ WF_vars(Exit)

FairSpec == Spec /\ Fairness

-------------------------------------------------------------------------------
(* Properties *)

\* docs/ARCHITECTURE.md 6.3 ("收到 SIGTERM/SIGINT？ -->|是| 退出"): a SIGTERM ends
\* the daemon.
SigtermEndsTheDaemon == asked ~> Stopped
===============================================================================
