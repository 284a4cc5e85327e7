------------------------ MODULE RemoteDesktopSession ------------------------
(***************************************************************************)
(* The agent's side of a remote desktop session:                           *)
(* agent/src/remote_desktop.c, called from agent/src/agent.c.              *)
(*                                                                         *)
(*  - the WSS thread runs leo_rd_start and leo_rd_stop (wss);              *)
(*  - the main thread runs leo_rd_stop_all in leo_agent_stop (main);       *)
(*  - a detached thread per session runs _rd_session_thread (thread).      *)
(*                                                                         *)
(* g_rd_ctx and g_rd_thread_running have a mutex each; what is done under  *)
(* one of them is one step.  Frames and input events change no state that  *)
(* outlives them and are left out, except for what can end the session.    *)
(***************************************************************************)
EXTENDS Naturals

CONSTANTS
    RdSessions, \* session ids, each sent in one REMOTE_DESKTOP_START
    NULL        \* a NULL g_rd_ctx

ASSUME SessionAssumption == NULL \notin RdSessions

VARIABLES
    g_rd_ctx, g_rd_thread_running,
    wss, started,   \* where the WSS thread is, and the session it starts
    main,           \* where leo_agent_stop is
    thread,         \* where each session thread is
    should_stop,    \* sessions asked to stop
    done,           \* sessions that a callback or the deadline has ended
    held,           \* capture and input handles each session has open
    reports         \* REMOTE_DESKTOP_STATUS messages per session

globals == <<g_rd_ctx, g_rd_thread_running>>
callers == <<wss, started, main>>
session == <<thread, should_stop, done, held, reports>>
rdVars == <<globals, callers, session>>

RdInit ==
    /\ g_rd_ctx = NULL /\ g_rd_thread_running = FALSE
    /\ wss = "idle" /\ started = NULL /\ main = "run"
    /\ thread = [s \in RdSessions |-> "none"]
    /\ should_stop = {} /\ done = {}
    /\ held = [s \in RdSessions |-> {}]
    /\ reports = [s \in RdSessions |-> 0]

-----------------------------------------------------------------------------
(* leo_rd_start *)

\* Faulty variant: the session that is active is not looked at.
MayStartAlways == TRUE

MayStart == g_rd_ctx = NULL

\* Under g_rd_mutex; the allocation or ws_url may also be at fault.
Start(s) ==
    /\ wss = "idle" /\ thread[s] = "none"
    /\ \/ /\ MayStart
          /\ g_rd_ctx' = s
          /\ wss' = "flag" /\ started' = s
          /\ UNCHANGED thread
       \/ /\ thread' = [thread EXCEPT ![s] = "refused"]
          /\ UNCHANGED <<g_rd_ctx, wss, started>>
    /\ UNCHANGED <<g_rd_thread_running, main, should_stop, done, held, reports>>

\* Under g_rd_exit_mutex
StartFlag ==
    /\ wss = "flag"
    /\ g_rd_thread_running' = TRUE
    /\ wss' = "create"
    /\ UNCHANGED <<g_rd_ctx, started, main, session>>

CreateThread ==
    /\ wss = "create"
    /\ thread' = [thread EXCEPT ![started] = "init"]
    /\ wss' = "idle" /\ started' = NULL
    /\ UNCHANGED <<globals, main, should_stop, done, held, reports>>

Withdraw == g_rd_ctx' = NULL

\* pthread_create fails: the two globals are reset, each under its mutex.
CreateFails ==
    /\ wss = "create"
    /\ Withdraw
    /\ thread' = [thread EXCEPT ![started] = "refused"]
    /\ wss' = "unflag" /\ started' = NULL
    /\ UNCHANGED <<g_rd_thread_running, main, should_stop, done, held, reports>>

CreateFailsFlag ==
    /\ wss = "unflag"
    /\ g_rd_thread_running' = FALSE
    /\ wss' = "idle"
    /\ UNCHANGED <<g_rd_ctx, started, main, session>>

-----------------------------------------------------------------------------
(* leo_rd_stop and leo_rd_stop_all *)

ActiveSession == {g_rd_ctx} \ {NULL}

\* REMOTE_DESKTOP_STOP for the active session, or without an id; any other one
\* is ignored.
Stop ==
    /\ wss = "idle" /\ g_rd_ctx # NULL
    /\ should_stop' = should_stop \cup ActiveSession
    /\ wss' = "wait"
    /\ UNCHANGED <<globals, started, main, thread, done, held, reports>>

StopAll ==
    /\ main = "run"
    /\ should_stop' = should_stop \cup ActiveSession
    /\ main' = "wait"
    /\ UNCHANGED <<globals, wss, started, thread, done, held, reports>>

\* _rd_wait_thread_exit: the flag is tested under g_rd_exit_mutex, and again
\* after each wakeup.
WssWait ==
    /\ wss = "wait"
    /\ wss' = IF g_rd_thread_running THEN "blocked" ELSE "idle"
    /\ UNCHANGED <<globals, started, main, session>>

MainWait ==
    /\ main = "wait"
    /\ main' = IF g_rd_thread_running THEN "blocked" ELSE "conn_destroy"
    /\ UNCHANGED <<globals, wss, started, session>>

\* The deadlines: two seconds for the WSS thread, five for the main thread,
\* which then leaves the agent allocated.
WssTimeout ==
    /\ wss = "blocked"
    /\ wss' = "idle"
    /\ UNCHANGED <<globals, started, main, session>>

MainTimeout ==
    /\ main = "blocked"
    /\ main' = "leaked"
    /\ UNCHANGED <<globals, wss, started, session>>

\* leo_conn_destroy ends the WSS thread, then the agent is freed.
WssExit ==
    /\ wss = "idle" /\ main = "conn_destroy"
    /\ wss' = "exited"
    /\ UNCHANGED <<globals, started, main, session>>

Free ==
    /\ main = "conn_destroy" /\ wss = "exited"
    /\ main' = "freed"
    /\ UNCHANGED <<globals, wss, started, session>>

-----------------------------------------------------------------------------
(* _rd_session_thread *)

Report(s) == reports' = [reports EXCEPT ![s] = @ + 1]

\* The encoder, the context and the connection request; each may fail, which is
\* reported at once.
ThreadInit(s) ==
    /\ thread[s] = "init"
    /\ \/ /\ thread' = [thread EXCEPT ![s] = "loop"]
          /\ UNCHANGED reports
       \/ /\ thread' = [thread EXCEPT ![s] = "cleanup"]
          /\ Report(s)
    /\ UNCHANGED <<globals, callers, should_stop, done, held>>

\* CLIENT_ESTABLISHED opens the capture and, in control mode, the input; what
\* fails ends the session.
Established(s) ==
    /\ thread[s] = "loop" /\ s \notin done /\ held[s] = {}
    /\ \/ \E h \in {{"capture"}, {"capture", "input"}} :
             held' = [held EXCEPT ![s] = h] /\ UNCHANGED done
       \/ \E h \in {{}, {"capture"}} :
             held' = [held EXCEPT ![s] = h] /\ done' = done \cup {s}
    /\ UNCHANGED <<globals, callers, thread, should_stop, reports>>

\* A connection error, a closed connection, a stop message of the browser or
\* repeated failures of the capture.
SessionOver(s) ==
    /\ thread[s] = "loop"
    /\ done' = done \cup {s}
    /\ UNCHANGED <<globals, callers, thread, should_stop, held, reports>>

\* Faulty variant: the deadline is not enforced.
ExpiredNot(s) == UNCHANGED done

Expired(s) == done' = done \cup {s}

\* LEO_RD_MAX_SESSION_SEC has passed.
Deadline(s) ==
    /\ thread[s] = "loop" /\ s \notin done
    /\ Expired(s)
    /\ UNCHANGED <<globals, callers, thread, should_stop, held, reports>>

\* Faulty variant: the loop does not test should_stop.
MustEndDone(s) == s \in done

MustEnd(s) == s \in done \cup should_stop

\* The loop is left; the context is destroyed and the end reported.
LeaveLoop(s) ==
    /\ thread[s] = "loop" /\ MustEnd(s)
    /\ thread' = [thread EXCEPT ![s] = "cleanup"]
    /\ Report(s)
    /\ UNCHANGED <<globals, callers, should_stop, done, held>>

\* lws_service reports an error.
ServiceError(s) ==
    /\ thread[s] = "loop"
    /\ thread' = [thread EXCEPT ![s] = "cleanup"]
    /\ Report(s)
    /\ UNCHANGED <<globals, callers, should_stop, done, held>>

\* Faulty variant: the input handle is forgotten.
ReleaseCapture(s) == held' = [held EXCEPT ![s] = @ \ {"capture"}]

Release(s) == held' = [held EXCEPT ![s] = {}]

Cleanup(s) ==
    /\ thread[s] = "cleanup"
    /\ Release(s)
    /\ thread' = [thread EXCEPT ![s] = "clear"]
    /\ UNCHANGED <<globals, callers, should_stop, done, reports>>

\* Under g_rd_mutex; the context of the session is then freed.
ClearContext(s) ==
    /\ thread[s] = "clear"
    /\ g_rd_ctx' = IF g_rd_ctx = s THEN NULL ELSE g_rd_ctx
    /\ thread' = [thread EXCEPT ![s] = "exit"]
    /\ UNCHANGED <<g_rd_thread_running, callers, should_stop, done, held, reports>>

\* Under g_rd_exit_mutex; pthread_cond_signal wakes one of those who wait.
ThreadExit(s) ==
    /\ thread[s] = "exit"
    /\ g_rd_thread_running' = FALSE
    /\ thread' = [thread EXCEPT ![s] = "gone"]
    /\ \/ wss = "blocked" /\ wss' = "wait" /\ UNCHANGED main
       \/ main = "blocked" /\ main' = "wait" /\ UNCHANGED wss
       \/ wss # "blocked" /\ main # "blocked" /\ UNCHANGED <<wss, main>>
    /\ UNCHANGED <<g_rd_ctx, started, should_stop, done, held, reports>>

\* What a session thread does by itself.
ThreadStep(s) ==
    \/ ThreadInit(s) \/ LeaveLoop(s)
    \/ Cleanup(s) \/ ClearContext(s) \/ ThreadExit(s)

WssStep ==
    \/ StartFlag \/ CreateThread \/ CreateFails \/ CreateFailsFlag
    \/ WssWait \/ WssTimeout

RdNext ==
    \/ \E s \in RdSessions : \/ Start(s) \/ ThreadStep(s) \/ Established(s)
                           \/ SessionOver(s) \/ Deadline(s) \/ ServiceError(s)
    \/ WssStep
    \/ Stop \/ StopAll \/ MainWait \/ MainTimeout \/ WssExit \/ Free

RdSpec == RdInit /\ [][RdNext]_rdVars

\* The threads run on: lws_service returns.  Nothing is owed by the backend, the
\* browser or the request to stop, nor is it said that the deadline comes.
RdFairness ==
    /\ \A s \in RdSessions : WF_rdVars(ThreadStep(s))
    /\ WF_rdVars(WssStep)

RdFairSpec == RdSpec /\ RdFairness

-----------------------------------------------------------------------------
(* Properties *)

\* The globals of remote_desktop.c, the handles and the program counters have
\* their types.
RdTypeOK ==
    /\ g_rd_ctx \in RdSessions \cup {NULL}
    /\ g_rd_thread_running \in BOOLEAN
    /\ wss \in {"idle", "flag", "create", "unflag", "wait", "blocked", "exited"}
    /\ started \in RdSessions \cup {NULL}
    /\ main \in {"run", "wait", "blocked", "conn_destroy", "leaked", "freed"}
    /\ thread \in [RdSessions -> {"none", "refused", "init", "loop", "cleanup",
                                  "clear", "exit", "gone"}]
    /\ should_stop \subseteq RdSessions /\ done \subseteq RdSessions
    /\ held \in [RdSessions -> SUBSET {"capture", "input"}]
    /\ reports \in [RdSessions -> Nat]

\* A session that captures, sends or reports.
Active == {"init", "loop", "cleanup", "clear"}

\* At most one session is active, and it is the one in g_rd_ctx: however a start
\* meets the end of the session before, screen and input have one user.
OneSession == \A s \in RdSessions : thread[s] \in Active => g_rd_ctx = s

\* g_rd_ctx never names a session that has no thread and gets none: a start that
\* fails on any path leaves the agent ready for the next one.
ContextHasThread ==
    g_rd_ctx # NULL =>
        \/ thread[g_rd_ctx] \in Active
        \/ wss \in {"flag", "create"} /\ started = g_rd_ctx

\* A session reports its end once, on the failures of its start as after its
\* loop, and has closed capture and input before it lets the next one in.
EndsClean ==
    \A s \in RdSessions :
        /\ reports[s] = IF thread[s] \in {"cleanup", "clear", "exit", "gone"} THEN 1 ELSE 0
        /\ held[s] # {} => thread[s] \in {"loop", "cleanup"}

\* Every session ends and gives its place back, by its deadline if by nothing
\* else.  The deadline is a wall clock time: that it comes is a premise.
SessionsEnd ==
    (\A s \in RdSessions : WF_rdVars(Deadline(s))) =>
        \A s \in RdSessions : g_rd_ctx = s ~> g_rd_ctx # s

\* A session asked to stop ends (or its thread is never created), without waiting
\* for its deadline.
StopEndsSession ==
    \A s \in RdSessions : s \in should_stop ~> thread[s] \in {"gone", "refused"}

=============================================================================
