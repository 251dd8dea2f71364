----------------------------- MODULE SessionHooks -----------------------------
(***************************************************************************)
(* The commands run at the start and the end of a session                  *)
(* (src/src/server/session_hooks.rs).  The connection handler queues a job *)
(* per boundary; one thread runs the commands in order, waiting for the    *)
(* previous one no longer than a deadline.                                 *)
(*                                                                         *)
(* Time is counted in ticks.  The thread polls, so that it has always done *)
(* what it can when a tick passes.                                         *)
(***************************************************************************)
EXTENDS Integers, Sequences, FiniteSets

CONSTANTS
  HookDeadline,   \* SESSION_HOOK_DEADLINE, in ticks
  HookConfigs,    \* configured commands: subsets of {"start", "end"}
  MaxHooks        \* bound on the commands run

ASSUME HookAssumption ==
  /\ HookDeadline \in Nat \ {0} /\ MaxHooks \in Nat
  /\ HookConfigs \subseteq SUBSET {"start", "end"}

VARIABLES
  hookConfig,    \* the configured commands; {} is no SessionHooks at all
  hookActive,    \* session_active
  jobs, jobsOpen,  \* the queue and its sender
  hooksClosing,  \* shutting_down
  runner,        \* the thread: [pc, job]
  running,       \* the command waited for: [id, hook, age]
  stragglers,    \* commands past their deadline
  hookAlive,     \* ids of the commands whose process is alive
  drain,         \* ticks left of the shared budget, or NoDrain
  launched,      \* history: the commands launched, in order
  stopTicks      \* history: ticks since shutdown began

hookVars == <<hookConfig, hookActive, jobs, jobsOpen, hooksClosing, runner, running,
              stragglers, hookAlive, drain, launched, stopTicks>>

NoHook == [id |-> 0, hook |-> "none", age |-> 0]
NoDrain == HookDeadline + 1
AtRecv == [pc |-> "recv", job |-> "none"]
StopCap == 3 * HookDeadline

HookInit ==
  /\ hookConfig \in HookConfigs /\ hookActive = FALSE
  /\ jobs = <<>> /\ jobsOpen = (hookConfig # {}) /\ hooksClosing = FALSE
  /\ runner = IF hookConfig = {} THEN [pc |-> "ended", job |-> "none"] ELSE AtRecv
  /\ running = NoHook /\ stragglers = {} /\ hookAlive = {} /\ drain = NoDrain
  /\ launched = <<>> /\ stopTicks = 0

-----------------------------------------------------------------------------
(* The connection handler.                                                 *)

(* session_started: a second notification of one session is ignored.       *)
HookSessionStarted ==
  /\ IF hookActive \/ hookConfig = {} THEN UNCHANGED <<hookActive, jobs>>
     ELSE hookActive' = TRUE /\ jobs' = Append(jobs, "start")
  /\ UNCHANGED <<hookConfig, jobsOpen, hooksClosing, runner, running, stragglers, hookAlive,
                 drain, launched, stopTicks>>

HookSessionEnded ==
  /\ IF hookActive THEN hookActive' = FALSE /\ jobs' = Append(jobs, "end")
     ELSE UNCHANGED <<hookActive, jobs>>
  /\ UNCHANGED <<hookConfig, jobsOpen, hooksClosing, runner, running, stragglers, hookAlive,
                 drain, launched, stopTicks>>

(* Drop: the flag goes up,                                                 *)
HooksFlag ==
  /\ ~hooksClosing /\ hooksClosing' = TRUE
  /\ UNCHANGED <<hookConfig, hookActive, jobs, jobsOpen, runner, running, stragglers,
                 hookAlive, drain, launched, stopTicks>>

(* Mutant: a session that is still up gets no end command.                 *)
CloseWithoutEnd == jobs

(* the session that is still up ends, *)
JobsAtClose == IF hookActive THEN Append(jobs, "end") ELSE jobs

(* and the sender is dropped; the caller then joins the thread.            *)
HooksClose ==
  /\ hooksClosing /\ jobsOpen
  /\ jobs' = JobsAtClose
  /\ hookActive' = FALSE /\ jobsOpen' = FALSE
  /\ UNCHANGED <<hookConfig, hooksClosing, runner, running, stragglers, hookAlive, drain,
                 launched, stopTicks>>

-----------------------------------------------------------------------------
(* run_hook_queue.                                                         *)

(* reap_finished *)
Reaped == stragglers \cap hookAlive

HookTake ==
  /\ runner.pc = "recv" /\ jobs # <<>> /\ jobs' = Tail(jobs)
  /\ stragglers' = Reaped
  /\ drain' = IF drain = NoDrain /\ hooksClosing THEN HookDeadline ELSE drain
  /\ runner' = IF Head(jobs) \in hookConfig THEN [pc |-> "finish", job |-> Head(jobs)] ELSE AtRecv
  /\ UNCHANGED <<hookConfig, hookActive, jobsOpen, hooksClosing, running, hookAlive, launched,
                 stopTicks>>

(* Mutant: every command has its own deadline, shutdown or not.            *)
OverdueUnshared == running.age >= HookDeadline

(* Mutant: a command is waited for without end.                            *)
NeverOverdue == FALSE

(* finish_running gives up waiting at the earlier of the two deadlines.    *)
Overdue == running.age >= HookDeadline \/ drain = 0

Exited == running.id \notin hookAlive

(* Mutant: the previous command is not waited for.                         *)
FinishedUnwaited == TRUE

Finished == running = NoHook \/ Exited \/ Overdue
Left == IF running = NoHook \/ Exited THEN {} ELSE {running.id}

(* finish_running, then spawn_session_hook, which may fail.                *)
HookSpawn(spawned) ==
  /\ runner.pc = "finish" /\ Finished /\ Len(launched) < MaxHooks
  /\ stragglers' = stragglers \cup (IF Overdue THEN Left ELSE {})
  /\ LET id == Len(launched) + 1 IN
     /\ running' = IF spawned THEN [id |-> id, hook |-> runner.job, age |-> 0] ELSE NoHook
     /\ hookAlive' = IF spawned THEN hookAlive \cup {id} ELSE hookAlive
  /\ launched' = Append(launched, runner.job)
  /\ runner' = AtRecv
  /\ UNCHANGED <<hookConfig, hookActive, jobs, jobsOpen, hooksClosing, drain, stopTicks>>

(* The queue is closed: only an end command is waited for.                 *)
HookClosed ==
  /\ runner.pc = "recv" /\ jobs = <<>> /\ ~jobsOpen
  /\ runner' = [AtRecv EXCEPT !.pc = IF running.hook = "end" THEN "last" ELSE "reap"]
  /\ stragglers' = IF running.hook = "start" THEN stragglers \cup {running.id} ELSE stragglers
  /\ running' = IF running.hook = "end" THEN running ELSE NoHook
  /\ UNCHANGED <<hookConfig, hookActive, jobs, jobsOpen, hooksClosing, hookAlive, drain,
                 launched, stopTicks>>

HookLast ==
  /\ runner.pc = "last" /\ Finished
  /\ stragglers' = stragglers \cup Left /\ running' = NoHook
  /\ runner' = [AtRecv EXCEPT !.pc = "reap"]
  /\ UNCHANGED <<hookConfig, hookActive, jobs, jobsOpen, hooksClosing, hookAlive, drain,
                 launched, stopTicks>>

(* Stragglers are reaped for less than a tick, and left behind.            *)
HookReap ==
  /\ runner.pc = "reap"
  /\ runner' = [AtRecv EXCEPT !.pc = "ended"]
  /\ stragglers' = Reaped
  /\ UNCHANGED <<hookConfig, hookActive, jobs, jobsOpen, hooksClosing, running, hookAlive,
                 drain, launched, stopTicks>>

-----------------------------------------------------------------------------
(* The commands' processes, and time.                                      *)

HookExits(id) ==
  /\ id \in hookAlive /\ hookAlive' = hookAlive \ {id}
  /\ UNCHANGED <<hookConfig, hookActive, jobs, jobsOpen, hooksClosing, runner, running,
                 stragglers, drain, launched, stopTicks>>

Blocked == \/ runner.pc = "recv" /\ jobs = <<>> /\ jobsOpen
           \/ runner.pc \in {"finish", "last"} /\ ~Finished

Least(a, b) == IF a < b THEN a ELSE b

(* Drop raises the flag and closes the queue within one tick.              *)
HookTick ==
  /\ Blocked /\ hookAlive # {} /\ ~(hooksClosing /\ jobsOpen)
  /\ running' = IF running = NoHook THEN NoHook
                ELSE [running EXCEPT !.age = Least(@ + 1, HookDeadline)]
  /\ drain' = IF drain = NoDrain \/ drain = 0 THEN drain ELSE drain - 1
  /\ stopTicks' = IF hooksClosing THEN Least(stopTicks + 1, StopCap) ELSE 0
  /\ UNCHANGED <<hookConfig, hookActive, jobs, jobsOpen, hooksClosing, runner, stragglers,
                 hookAlive, launched>>

HookThread == HookTake \/ (\E ok \in BOOLEAN : HookSpawn(ok)) \/ HookClosed \/ HookLast \/ HookReap

HookWorld == HookTick \/ \E id \in 1..MaxHooks : HookExits(id)

-----------------------------------------------------------------------------
(* "Commands run on one queue with a bounded ordering deadline"            *)
(* (session_hooks.rs:4): two commands run side by side only when one of    *)
(* them is past its deadline, through fast reconnects and shutdown.        *)
HooksInOrder == Cardinality(hookAlive \ stragglers) <= 1

(* Every start command that was launched is followed by its end command    *)
(* before the server is gone, whenever the session broke off, and no end   *)
(* command is launched twice or early.                                     *)
HooksBalanced ==
  hookConfig = {"start", "end"} =>
    /\ \A i \in DOMAIN launched : launched[i] = IF i % 2 = 1 THEN "start" ELSE "end"
    /\ runner.pc = "ended" => Len(launched) % 2 = 0

(* "A stuck command cannot multiply the stop time by the number of jobs    *)
(* behind it" (session_hooks.rs:132): the command being waited for and one *)
(* shared budget are all that shutdown can cost.                           *)
HooksStopInTime == stopTicks <= 2 * HookDeadline

(* Session commands are launched in the order of the sessions, balanced,   *)
(* and cost shutdown no more than its budget.                              *)
HooksSound ==
  /\ HooksInOrder
  /\ HooksBalanced
  /\ HooksStopInTime
===============================================================================
