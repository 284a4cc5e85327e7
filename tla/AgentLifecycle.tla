--------------------------- MODULE AgentLifecycle ---------------------------
(***************************************************************************)
(* The threads of the agent process: agent/src/agent.c.                    *)
(*                                                                         *)
(*  - the main thread runs leo_agent_start and leo_agent_stop (main);      *)
(*  - the heartbeat, metrics and patch threads sleep on wake_cond between  *)
(*    two reports (bg);                                                    *)
(*  - the WSS thread runs _on_message and its dispatchers (wss);           *)
(*  - one detached thread per accepted command runs _exec_thread or        *)
(*    _inventory_thread (cmd).                                             *)
(*                                                                         *)
(* The connection (module Connection) and the remote desktop session are   *)
(* components of their own: leo_conn_send is only counted here, and        *)
(* leo_rd_stop_all may succeed or fail.  The state field is left out: it   *)
(* is read by leo_agent_get_state alone, which nothing calls.              *)
(***************************************************************************)
EXTENDS Naturals, FiniteSets

\* What a command makes its thread do: one step, a second step only after a
\* success (INSTALL_PKG), a second one only after a failure (REBOOT), a
\* download whose launch is logged from its context (FILE_TRANSFER), or work
\* that has no timeout (COLLECT_INVENTORY, INSTALL_PATCHES on Windows).
Kinds == {"single", "and_then", "or_else", "file", "untimed"}

CONSTANTS
    Cmds,                    \* deliveries of a command to _on_message
    KindsOf,                 \* the kinds each of them may be of
    NoCmd,                   \* the WSS thread is in no dispatcher
    LEO_EXEC_MAX_CONCURRENT  \* execution slots

ASSUME LifecycleAssumption ==
    /\ IsFiniteSet(Cmds)
    /\ KindsOf \in [Cmds -> SUBSET Kinds]
    /\ NoCmd \notin Cmds
    /\ LEO_EXEC_MAX_CONCURRENT \in Nat \ {0}

BgThreads == {"heartbeat", "metrics", "patch"}

VARIABLES
    main,                    \* where leo_agent_start or leo_agent_stop is
    failed,                  \* leo_agent_start could not create a thread
    bg,                      \* where each periodic thread is
    threads_stop, force_heartbeat_pending,
    wss, wss_cmd,            \* where _on_message is, and for which command
    should_stop,             \* leo_conn_destroy has asked the thread to end
    kind, cmd,               \* what each command is, and where its thread is
    hung,                    \* commands whose step has outlasted its deadline
    results,                 \* CMD_RESULT messages submitted per command
    unbuilt,                 \* commands whose CMD_RESULT could not be built
    exec_active_count

mainVars == <<main, failed, should_stop>>
wakeVars == <<bg, threads_stop, force_heartbeat_pending>>
wssVars  == <<wss, wss_cmd>>
answerVars == <<results, unbuilt>>
execVars == <<kind, cmd, hung, answerVars, exec_active_count>>
vars == <<mainVars, wakeVars, wssVars, execVars>>

Init ==
    /\ main = "heartbeat" /\ failed = FALSE
    /\ bg = [t \in BgThreads |-> "absent"]
    /\ threads_stop = FALSE /\ force_heartbeat_pending = FALSE
    /\ wss = "service" /\ wss_cmd = NoCmd
    /\ should_stop = FALSE
    /\ kind = [c \in Cmds |-> "single"]
    /\ cmd = [c \in Cmds |-> "none"]
    /\ hung = {}
    /\ results = [c \in Cmds |-> 0] /\ unbuilt = {}
    /\ exec_active_count = 0

-----------------------------------------------------------------------------
(* The periodic threads *)

\* pthread_cond_broadcast on wake_cond: every waiter tests its condition again.
Broadcast(b) ==
    [t \in BgThreads |-> IF b[t] = "waiting" THEN "enter" ELSE b[t]]

\* The condition that ends _interruptible_sleep early.
WokenEarly(t) ==
    threads_stop \/ (t = "heartbeat" /\ force_heartbeat_pending)

LoopTest(t) ==
    /\ bg[t] = "top"
    /\ bg' = [bg EXCEPT ![t] = IF threads_stop THEN "exited" ELSE "enter"]
    /\ UNCHANGED <<threads_stop, force_heartbeat_pending>>

\* Under wake_mutex: the condition is tested and the thread goes to sleep.
EnterSleep(t) ==
    /\ bg[t] = "enter"
    /\ bg' = [bg EXCEPT ![t] = IF WokenEarly(t) THEN "awake" ELSE "waiting"]
    /\ UNCHANGED <<threads_stop, force_heartbeat_pending>>

\* The interval elapses.
SleepTimeout(t) ==
    /\ bg[t] = "waiting"
    /\ bg' = [bg EXCEPT ![t] = "awake"]
    /\ UNCHANGED <<threads_stop, force_heartbeat_pending>>

\* The patch thread collects only while it is connected.
Turn(t) == CASE t = "heartbeat" -> {"take"}
             [] t = "metrics"   -> {"report"}
             [] t = "patch"     -> {"collect", "top"}

AfterSleep(t) ==
    /\ bg[t] = "awake"
    /\ \E next \in IF threads_stop THEN {"exited"} ELSE Turn(t) :
           bg' = [bg EXCEPT ![t] = next]
    /\ UNCHANGED <<threads_stop, force_heartbeat_pending>>

\* The heartbeat thread consumes a forced heartbeat, under wake_mutex.
TakeForced(t) ==
    /\ bg[t] = "take"
    /\ bg' = [bg EXCEPT ![t] = "report"]
    /\ force_heartbeat_pending' = FALSE
    /\ UNCHANGED threads_stop

\* apt, dnf or Windows Update answers, after a time that nothing bounds, and the
\* patch thread sends what it was told.
PatchesCollected ==
    /\ bg["patch"] = "collect"
    /\ bg' = [bg EXCEPT !["patch"] = "top"]
    /\ UNCHANGED <<threads_stop, force_heartbeat_pending, mainVars, wssVars,
                   execVars>>

\* The heartbeat and metrics threads send, or give up for this turn.
Report(t) ==
    /\ bg[t] = "report"
    /\ bg' = [bg EXCEPT ![t] = "top"]
    /\ UNCHANGED <<threads_stop, force_heartbeat_pending>>

BgStep(t) ==
    /\ \/ LoopTest(t) \/ EnterSleep(t) \/ AfterSleep(t)
       \/ TakeForced(t) \/ Report(t)
    /\ UNCHANGED <<mainVars, wssVars, execVars>>

BgTimeout(t) ==
    SleepTimeout(t) /\ UNCHANGED <<mainVars, wssVars, execVars>>

-----------------------------------------------------------------------------
(* Execution slots *)

SlotsTaken == exec_active_count >= LEO_EXEC_MAX_CONCURRENT

\* Faulty variant: leo_agent_stop is not told.
ReleaseNoSignal ==
    /\ exec_active_count' = exec_active_count - 1
    /\ UNCHANGED main

\* _release_exec_slot: one slot less, and exec_cond is signalled, on which
\* only leo_agent_stop waits.
ReleaseSlot ==
    /\ exec_active_count' = exec_active_count - 1
    /\ main' = IF main = "exec_blocked" THEN "exec_wait" ELSE main

\* A CMD_RESULT is submitted, unless it cannot be built: it does not fit in
\* LEO_MAX_MSG_SIZE once its output is escaped, or an allocation fails.
Answer(c) ==
    \/ results' = [results EXCEPT ![c] = @ + 1] /\ UNCHANGED unbuilt
    \/ unbuilt' = unbuilt \cup {c} /\ UNCHANGED results

\* Faulty variant: both _reserve_exec_slot and its caller answer.
AnswerTwice(c) == results' = [results EXCEPT ![c] = @ + 2] /\ UNCHANGED unbuilt

\* _reserve_exec_slot answers itself when it finds no slot.
AnswerRefused(c) == Answer(c)

-----------------------------------------------------------------------------
(* The WSS thread *)

\* A command whose body is malformed, or that finds no free slot, is answered
\* at once; any other takes a slot.
Receive(c, k) ==
    /\ wss = "service" /\ cmd[c] = "none"
    /\ IF SlotsTaken
       THEN /\ cmd' = [cmd EXCEPT ![c] = "refused"] /\ AnswerRefused(c)
            /\ UNCHANGED <<wssVars, kind, exec_active_count>>
       ELSE /\ cmd' = [cmd EXCEPT ![c] = "reserved"]
            /\ kind' = [kind EXCEPT ![c] = k]
            /\ exec_active_count' = exec_active_count + 1
            /\ wss' = "launch" /\ wss_cmd' = c
            /\ UNCHANGED answerVars
    /\ UNCHANGED <<hung, mainVars, wakeVars>>

ReceiveInvalid(c) ==
    /\ wss = "service" /\ cmd[c] = "none"
    /\ cmd' = [cmd EXCEPT ![c] = "refused"] /\ Answer(c)
    /\ UNCHANGED <<mainVars, wakeVars, wssVars, kind, hung, exec_active_count>>

\* The context is allocated and the detached thread created.
Spawn ==
    /\ wss = "launch"
    /\ cmd' = [cmd EXCEPT ![wss_cmd] = "step1"]
    /\ wss' = IF kind[wss_cmd] = "file" THEN "log" ELSE "service"
    /\ wss_cmd' = IF kind[wss_cmd] = "file" THEN wss_cmd ELSE NoCmd
    /\ UNCHANGED <<mainVars, wakeVars, kind, hung, answerVars, exec_active_count>>

\* Faulty variant: the slot is kept when no thread could be created.
FailSpawnKeepsSlot == UNCHANGED <<exec_active_count, main>>

FailSpawn == ReleaseSlot

\* The allocation or pthread_create fails.
SpawnFails ==
    /\ wss = "launch"
    /\ cmd' = [cmd EXCEPT ![wss_cmd] = "refused"]
    /\ FailSpawn
    /\ Answer(wss_cmd)
    /\ wss' = "service" /\ wss_cmd' = NoCmd
    /\ UNCHANGED <<failed, should_stop, wakeVars, kind, hung>>

\* FILE_TRANSFER logs ctx->file_name once the thread runs.
LogLaunched ==
    /\ wss = "log"
    /\ wss' = "service" /\ wss_cmd' = NoCmd
    /\ UNCHANGED <<mainVars, wakeVars, execVars>>

\* Faulty variant: the heartbeat thread is not woken.
WakeForcedNot == bg

WakeForced == Broadcast(bg)

ForceHeartbeat ==
    /\ wss = "service"
    /\ force_heartbeat_pending' = TRUE
    /\ bg' = WakeForced
    /\ UNCHANGED <<threads_stop, mainVars, wssVars, execVars>>

\* The thread returns between two callbacks once it has been asked to.
WssExit ==
    /\ wss = "service" /\ should_stop
    /\ wss' = "exited"
    /\ UNCHANGED <<wss_cmd, mainVars, wakeVars, execVars>>

-----------------------------------------------------------------------------
(* The thread of a command *)

\* A second step runs after the first for INSTALL_PKG and REBOOT.
AfterStep(c, ok) ==
    IF /\ cmd[c] = "step1"
       /\ \/ kind[c] = "and_then" /\ ok
          \/ kind[c] = "or_else" /\ ~ok
    THEN "step2" ELSE "report"

\* A child process, download or collection ends by itself.
StepEnds(c, ok) ==
    /\ cmd[c] \in {"step1", "step2"}
    /\ cmd' = [cmd EXCEPT ![c] = AfterStep(c, ok)]
    /\ hung' = hung \ {c}
    /\ UNCHANGED <<kind, answerVars, exec_active_count, mainVars, wakeVars, wssVars>>

\* leo_exec_script and leo_exec_argv can outlast timeout_secs (the exceptions of
\* DeadlineEnds in module Executor); leo_file_transfer_run cannot.
StepHangs(c) ==
    /\ cmd[c] \in {"step1", "step2"} /\ kind[c] \in {"single", "and_then", "or_else"}
    /\ hung' = hung \cup {c}
    /\ UNCHANGED <<kind, cmd, answerVars, exec_active_count, mainVars, wakeVars,
                   wssVars>>

\* Faulty variant: the timeout does not cover the second step.
HasTimeoutFirst(c) == kind[c] # "untimed" /\ c \notin hung /\ cmd[c] = "step1"

\* timeout_secs bounds each step, unless the command has none or it hangs.
HasTimeout(c) == kind[c] # "untimed" /\ c \notin hung

StepTimesOut(c) ==
    /\ HasTimeout(c)
    /\ StepEnds(c, FALSE)

SendResult(c) ==
    /\ cmd[c] = "report"
    /\ cmd' = [cmd EXCEPT ![c] = "release"] /\ Answer(c)
    /\ UNCHANGED <<kind, hung, exec_active_count, mainVars, wakeVars, wssVars>>

\* The context is freed, then the slot released.
ThreadEnd(c) ==
    /\ cmd[c] = "release"
    /\ cmd' = [cmd EXCEPT ![c] = "done"]
    /\ ReleaseSlot
    /\ UNCHANGED <<failed, should_stop, kind, hung, answerVars, wakeVars, wssVars>>

ExecStep(c) ==
    StepTimesOut(c) \/ SendResult(c) \/ ThreadEnd(c)

-----------------------------------------------------------------------------
(* The main thread *)

NextOf(t) == CASE t = "heartbeat" -> "metrics"
               [] t = "metrics"   -> "patch"
               [] t = "patch"     -> "run"

\* leo_agent_start creates the next thread; the patch thread returns at once
\* when it cannot allocate its table.
CreateThread(t) ==
    /\ main = t
    /\ \E first \in IF t = "patch" THEN {"top", "exited"} ELSE {"top"} :
           bg' = [bg EXCEPT ![t] = first]
    /\ main' = NextOf(t)
    /\ UNCHANGED <<failed, should_stop, threads_stop, force_heartbeat_pending,
                   wssVars, execVars>>

\* pthread_create fails: the threads that exist are stopped and joined.
CreateFails(t) ==
    /\ main = t
    /\ failed' = TRUE
    /\ threads_stop' = (t # "heartbeat")
    /\ bg' = Broadcast(bg)
    /\ main' = "join"
    /\ UNCHANGED <<should_stop, force_heartbeat_pending, wssVars, execVars>>

StopBegin ==
    /\ main = "run"
    /\ threads_stop' = TRUE
    /\ bg' = Broadcast(bg)
    /\ main' = "join"
    /\ UNCHANGED <<failed, should_stop, force_heartbeat_pending, wssVars, execVars>>

Joined == \A t \in BgThreads : bg[t] \in {"absent", "exited"}

\* The failure path of leo_agent_start waits for no command.
Join ==
    /\ main = "join" /\ Joined
    /\ main' = IF failed THEN "conn_destroy" ELSE "exec_wait"
    /\ UNCHANGED <<failed, should_stop, wakeVars, wssVars, execVars>>

\* Under exec_mutex: no command left, or the wait on exec_cond.
CheckExec ==
    /\ main = "exec_wait"
    /\ main' = IF exec_active_count > 0 THEN "exec_blocked" ELSE "rd_stop"
    /\ UNCHANGED <<failed, should_stop, wakeVars, wssVars, execVars>>

\* The deadline of the wait: the agent is left allocated.
ExecTimeout ==
    /\ main = "exec_blocked"
    /\ main' = "leaked"
    /\ UNCHANGED <<failed, should_stop, wakeVars, wssVars, execVars>>

StopRemoteDesktop ==
    /\ main = "rd_stop"
    /\ main' \in {"conn_destroy", "leaked"}
    /\ UNCHANGED <<failed, should_stop, wakeVars, wssVars, execVars>>

DestroyConn ==
    /\ main = "conn_destroy"
    /\ should_stop' = TRUE
    /\ main' = "conn_wait"
    /\ UNCHANGED <<failed, wakeVars, wssVars, execVars>>

\* leo_conn_destroy returned true: the agent is freed.
Free ==
    /\ main = "conn_wait" /\ wss = "exited"
    /\ main' = "freed"
    /\ UNCHANGED <<failed, should_stop, wakeVars, wssVars, execVars>>

\* leo_conn_destroy returned false: the agent is left allocated.
ConnTimeout ==
    /\ main = "conn_wait"
    /\ main' = "leaked"
    /\ UNCHANGED <<failed, should_stop, wakeVars, wssVars, execVars>>

MainStep ==
    \/ \E t \in BgThreads : CreateThread(t) \/ CreateFails(t)
    \/ Join \/ CheckExec \/ StopRemoteDesktop \/ DestroyConn \/ Free

WssStep ==
    Spawn \/ SpawnFails \/ LogLaunched \/ WssExit

Next ==
    \/ \E t \in BgThreads : BgStep(t) \/ BgTimeout(t)
    \/ PatchesCollected
    \/ \E c \in Cmds : ExecStep(c) \/ StepHangs(c)
    \/ \E c \in Cmds : \E ok \in BOOLEAN : StepEnds(c, ok)
    \/ \E c \in Cmds : ReceiveInvalid(c) \/ \E k \in KindsOf[c] : Receive(c, k)
    \/ ForceHeartbeat
    \/ WssStep
    \/ MainStep
    \/ StopBegin \/ ExecTimeout \/ ConnTimeout

Spec == Init /\ [][Next]_vars

\* Every thread that can run does.  Nothing is assumed of the backend's
\* messages, of the request to stop, of a child process that ends by itself, of
\* the programs the patch thread runs without a timeout, or of the deadlines of
\* the main thread, which it must not need.
Fairness ==
    /\ \A t \in BgThreads : WF_vars(BgStep(t))
    /\ \A c \in Cmds : WF_vars(ExecStep(c))
    /\ WF_vars(WssStep)
    /\ WF_vars(MainStep)

FairSpec == Spec /\ Fairness

-----------------------------------------------------------------------------
(* Properties *)

\* Every field of leo_agent_t that is modelled and every program counter has its
\* type.
TypeOK ==
    /\ main \in BgThreads \cup {"run", "join", "exec_wait", "exec_blocked",
                                "rd_stop", "conn_destroy", "conn_wait",
                                "freed", "leaked"}
    /\ failed \in BOOLEAN
    /\ bg \in [BgThreads -> {"absent", "top", "enter", "waiting", "awake",
                             "take", "collect", "report", "exited"}]
    /\ threads_stop \in BOOLEAN
    /\ force_heartbeat_pending \in BOOLEAN
    /\ wss \in {"service", "launch", "log", "exited"}
    /\ wss_cmd \in Cmds \cup {NoCmd}
    /\ should_stop \in BOOLEAN
    /\ kind \in [Cmds -> Kinds]
    /\ cmd \in [Cmds -> {"none", "refused", "reserved", "step1", "step2",
                         "report", "release", "done"}]
    /\ hung \subseteq Cmds
    /\ results \in [Cmds -> Nat] /\ unbuilt \subseteq Cmds
    /\ exec_active_count \in Nat

Running == {"step1", "step2", "report", "release"}
Holders == {c \in Cmds : cmd[c] \in Running \cup {"reserved"}}

\* Every slot counted in exec_active_count is held by exactly one command, on
\* every path of _reserve_exec_slot, _spawn_detached, _exec_thread and
\* _inventory_thread, and never more than LEO_EXEC_MAX_CONCURRENT are held.
SlotsMatchThreads ==
    /\ exec_active_count = Cardinality(Holders)
    /\ exec_active_count <= LEO_EXEC_MAX_CONCURRENT

\* A command is answered by one CMD_RESULT and no more, and not before it has
\* ended, whichever of the refusals, launch failures and executions of agent.c it
\* goes through; it ends without an answer only when its CMD_RESULT could not be
\* built, which the agent tries once.
AnsweredOnce ==
    \A c \in Cmds :
        results[c] = IF /\ cmd[c] \in {"refused", "release", "done"}
                        /\ c \notin unbuilt
                     THEN 1 ELSE 0

\* leo_agent_stop and the failure paths of leo_agent_start free the agent only
\* when none of the threads they wait for can touch it any more.
JoinedBeforeFree ==
    main = "freed" =>
        /\ \A t \in BgThreads : bg[t] \in {"absent", "exited"}
        /\ wss = "exited"

\* A command ends and gives its slot back, whatever its child processes do,
\* unless it is of a kind that has no timeout or its executor has outlasted the
\* one it has.
CommandsEnd ==
    \A c \in Cmds :
        cmd[c] # "none" ~>
            \/ cmd[c] \in {"refused", "done"}
            \/ kind[c] = "untimed" \/ c \in hung

\* leo_agent_stop returns, woken by the threads it waits for and not by the
\* intervals or its deadlines, unless the patch thread, which it joins without a
\* deadline, waits for apt, dnf or Windows Update, or a command hangs.
StopReturns ==
    main = "join" ~>
        \/ main \in {"freed", "leaked"}
        \/ bg["patch"] = "collect"
        \/ \E c \in Cmds : /\ cmd[c] \in {"step1", "step2"}
                           /\ kind[c] = "untimed" \/ c \in hung

\* A FORCE_HEARTBEAT is taken by the heartbeat thread without waiting for the
\* interval, unless the agent is stopping or could not start.
ForcedIsTaken ==
    force_heartbeat_pending ~>
        ~force_heartbeat_pending \/ threads_stop \/ failed

=============================================================================
