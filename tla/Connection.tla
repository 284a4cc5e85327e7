----------------------------- MODULE Connection -----------------------------
(***************************************************************************)
(* The agent's persistent WSS connection: agent/src/connection.c.          *)
(*                                                                         *)
(* Three kinds of threads meet on one leo_conn_t:                          *)
(*  - the WSS thread (_lws_thread and the callbacks libwebsockets runs on  *)
(*    it), whose program counter is wss;                                   *)
(*  - the threads that call leo_conn_send (heartbeat, metrics, patches,    *)
(*    command execution), with program counter pc[s];                      *)
(*  - the thread that calls leo_conn_destroy, with program counter dtor.   *)
(*                                                                         *)
(* A lock-protected section is one step.  Everything the code does outside *)
(* a lock is a step of its own: the unlocked test of connected, the read   *)
(* of the lws_ctx pointer and the call made with the pointer read.         *)
(*                                                                         *)
(* libwebsockets is external.  It is modelled by what connection.c relies  *)
(* on: POLLOUT interest (armed) yields one WRITEABLE callback; a call of   *)
(* lws_cancel_service on a live context (cancel) yields one                *)
(* EVENT_WAIT_CANCELLED callback; lws_context_destroy closes an open       *)
(* client socket through its CLOSED callback.                              *)
(***************************************************************************)
EXTENDS Naturals, Sequences

CONSTANTS
    Senders,               \* threads that call leo_conn_send
    WSS,                   \* the WSS thread, as the origin of a message
    NoMsg,                 \* content of a queue slot that was never written
    LEO_SEND_QUEUE_DEPTH,  \* slots of the send queue
    LEO_RECONNECT_INIT,    \* first reconnection delay
    LEO_RECONNECT_STEP,    \* added to the delay after every wait
    LEO_RECONNECT_MAX,     \* largest delay
    MaxSends,              \* bound: calls of leo_conn_send per sender
    MaxReceives,           \* bound: incoming messages that are answered
    MaxContexts            \* bound: libwebsockets contexts created

ASSUME ConnectionAssumption ==
    /\ WSS \notin Senders
    /\ LEO_SEND_QUEUE_DEPTH \in Nat \ {0}
    /\ LEO_RECONNECT_INIT \in Nat
    /\ LEO_RECONNECT_STEP \in Nat
    /\ LEO_RECONNECT_MAX \in Nat
    /\ LEO_RECONNECT_INIT <= LEO_RECONNECT_MAX
    /\ MaxSends \in Nat
    /\ MaxReceives \in Nat
    /\ MaxContexts \in Nat

Depth == LEO_SEND_QUEUE_DEPTH

\* A message is its origin and its rank among the messages of that origin.
Msg == [from : Senders \cup {WSS}, no : 0 .. MaxSends + MaxReceives]
HELLO == [from |-> WSS, no |-> 0]

ASSUME NoMsgAssumption == NoMsg \notin Msg

NULL == 0    \* a NULL lws_ctx; a context is its rank of creation, from 1

VARIABLES
    send_queue,      \* the ring of queued_msg_t
    queue_head, queue_tail, queue_count,
    connected, should_stop, attempt_failed, thread_exited,
    reconnect_delay,
    lws_ctx,         \* the pointer field, NULL or a context
    wsi,             \* is the wsi field non-NULL
    live,            \* the context that exists, NULL if none
    nctx,            \* contexts created so far
    sock,            \* state of the client socket inside libwebsockets
    armed,           \* is WRITEABLE requested for the socket
    cancel,          \* is EVENT_WAIT_CANCELLED due on the live context
    wss,             \* where the WSS thread is
    has_pending,     \* local variable of EVENT_WAIT_CANCELLED
    nrecv,           \* incoming messages answered so far
    pc,              \* where each sender is in leo_conn_send
    ptr,             \* the context pointer a sender has read
    nsent,           \* calls of leo_conn_send made by each sender
    dtor,            \* where leo_conn_destroy is
    dptr,            \* the context pointer leo_conn_destroy has read
    wire             \* frames handed to the network in this session

queueVars == <<send_queue, queue_head, queue_tail, queue_count>>
flagVars  == <<connected, should_stop, attempt_failed, thread_exited>>
lwsVars   == <<lws_ctx, wsi, live, nctx, sock, armed, cancel>>
wssVars   == <<wss, has_pending, nrecv, reconnect_delay>>
sendVars  == <<pc, ptr, nsent>>
dtorVars  == <<dtor, dptr>>
vars == <<queueVars, flagVars, lwsVars, wssVars, sendVars, dtorVars, wire>>

-----------------------------------------------------------------------------
(* The ring buffer *)

QueueFull == queue_count >= Depth

\* The lock-protected part of leo_conn_send once the queue is not full.
Push(m) ==
    /\ send_queue'  = [send_queue EXCEPT ![queue_tail] = m]
    /\ queue_tail'  = (queue_tail + 1) % Depth
    /\ queue_count' = queue_count + 1
    /\ UNCHANGED queue_head

\* Faulty variant: the head index is not advanced.
PopKeepsHead ==
    /\ queue_count' = queue_count - 1
    /\ UNCHANGED <<send_queue, queue_head, queue_tail>>

\* CLIENT_WRITEABLE removes the oldest message.
Pop ==
    /\ queue_head' = (queue_head + 1) % Depth
    /\ queue_count' = queue_count - 1
    /\ UNCHANGED <<send_queue, queue_tail>>

\* Faulty variant: the messages behind the one removed are forgotten.
RemainForgotten == FALSE

\* Messages remain behind the one removed.
Remain == queue_count > 1

\* The messages waiting, oldest first.
Contents ==
    [i \in 1 .. queue_count |-> send_queue[(queue_head + i - 1) % Depth]]

\* leo_conn_send called on the WSS thread itself: the context is the live one
\* and connected is TRUE, so the unlocked reads cannot be stale.
SendOnWssThread(m) ==
    IF QueueFull
    THEN UNCHANGED <<queueVars, cancel>>
    ELSE Push(m) /\ cancel' = TRUE

-----------------------------------------------------------------------------
(* Callers of leo_conn_send on other threads *)

\* Nothing keeps a sender out while leo_conn_destroy runs: it can be anywhere in
\* leo_conn_send, or enter it, until the memory is gone.
Allocated == dtor # "freed"

\* The test of connected, made before the lock is taken.
SendCheck(s) ==
    /\ pc[s] = "idle" /\ Allocated
    /\ nsent[s] < MaxSends
    /\ nsent' = [nsent EXCEPT ![s] = @ + 1]
    /\ pc' = [pc EXCEPT ![s] = IF connected THEN "checked" ELSE "idle"]
    /\ UNCHANGED <<queueVars, flagVars, lwsVars, wssVars, ptr, dtorVars, wire>>

SendEnqueue(s) ==
    /\ pc[s] = "checked" /\ Allocated
    /\ IF QueueFull
       THEN pc' = [pc EXCEPT ![s] = "idle"] /\ UNCHANGED queueVars
       ELSE /\ Push([from |-> s, no |-> nsent[s]])
            /\ pc' = [pc EXCEPT ![s] = "enqueued"]
    /\ UNCHANGED <<flagVars, lwsVars, wssVars, ptr, nsent, dtorVars, wire>>

SendReadContext(s) ==
    /\ pc[s] = "enqueued" /\ Allocated
    /\ ptr' = [ptr EXCEPT ![s] = lws_ctx]
    /\ pc' = [pc EXCEPT ![s] = IF lws_ctx = NULL THEN "idle" ELSE "cancel"]
    /\ UNCHANGED <<queueVars, flagVars, lwsVars, wssVars, nsent, dtorVars, wire>>

\* A call on a context that was destroyed meanwhile is undefined behaviour: it
\* ends the process, or it wakes nobody, the outcome that has a continuation.
SendCancelService(s) ==
    /\ pc[s] = "cancel" /\ Allocated
    /\ cancel' = (cancel \/ ptr[s] = live)
    /\ pc' = [pc EXCEPT ![s] = "idle"]
    /\ ptr' = [ptr EXCEPT ![s] = NULL]
    /\ UNCHANGED <<queueVars, flagVars, lws_ctx, wsi, live, nctx, sock, armed,
                   wssVars, nsent, dtorVars, wire>>

\* A sender that touches the connection once it is freed: undefined behaviour,
\* after which nothing more is known of this thread.
SendFreed(s) ==
    /\ ~Allocated
    /\ \/ pc[s] \in {"checked", "enqueued", "cancel"}
       \/ pc[s] = "idle" /\ nsent[s] < MaxSends
    /\ pc' = [pc EXCEPT ![s] = "undefined"]
    /\ UNCHANGED <<queueVars, flagVars, lwsVars, wssVars, ptr, nsent, dtorVars,
                   wire>>

-----------------------------------------------------------------------------
(* The WSS thread: _lws_thread *)

\* lws_context_destroy: what was due on the context is gone with it.
FreeContext == live' = NULL /\ cancel' = FALSE

\* The body of CLIENT_CLOSED and CLIENT_CONNECTION_ERROR.
EndSession == connected' = FALSE /\ wsi' = FALSE /\ attempt_failed' = TRUE

\* The loop test and the creation of a context, which may fail.
CreateContext ==
    /\ wss = "create"
    /\ \/ /\ should_stop
          /\ wss' = "exiting"
          /\ UNCHANGED lwsVars
       \/ /\ ~should_stop
          /\ wss' = "reconnect"
          /\ UNCHANGED lwsVars
       \/ /\ ~should_stop
          /\ nctx < MaxContexts
          /\ nctx' = nctx + 1
          /\ live' = nctx + 1 /\ lws_ctx' = nctx + 1
          /\ wss' = "connect"
          /\ UNCHANGED <<wsi, sock, armed, cancel>>
    /\ UNCHANGED <<queueVars, flagVars, has_pending, nrecv, reconnect_delay,
                   sendVars, dtorVars, wire>>

\* lws_client_connect_via_info; when it fails the context is destroyed at once.
Connect ==
    /\ wss = "connect"
    /\ attempt_failed' = FALSE
    /\ \/ /\ sock' = "connecting" /\ wss' = "service"
          /\ UNCHANGED <<live, cancel>>
       \/ /\ FreeContext /\ wss' = "clearFailed"
          /\ UNCHANGED sock
    /\ UNCHANGED <<queueVars, connected, should_stop, thread_exited, lws_ctx,
                   wsi, nctx, armed, has_pending, nrecv, reconnect_delay,
                   sendVars, dtorVars, wire>>

ClearFailedContext ==
    /\ wss = "clearFailed"
    /\ lws_ctx' = NULL
    /\ wss' = "reconnect"
    /\ UNCHANGED <<queueVars, flagVars, wsi, live, nctx, sock, armed, cancel,
                   has_pending, nrecv, reconnect_delay, sendVars, dtorVars, wire>>

\* Faulty variant: the service loop does not test should_stop.
MustLeaveIgnoresStop == attempt_failed

MustLeave == attempt_failed \/ should_stop

\* The service loop is left on should_stop or attempt_failed ...
LeaveService ==
    /\ wss = "service" /\ MustLeave
    /\ wss' = "destroy"
    /\ UNCHANGED <<queueVars, flagVars, lwsVars, has_pending, nrecv,
                   reconnect_delay, sendVars, dtorVars, wire>>

\* ... or because lws_service reports an error.
ServiceError ==
    /\ wss = "service"
    /\ wss' = "destroy"
    /\ UNCHANGED <<queueVars, flagVars, lwsVars, has_pending, nrecv,
                   reconnect_delay, sendVars, dtorVars, wire>>

\* lws_context_destroy: an open socket goes through its CLOSED callback.
DestroyContext ==
    /\ wss = "destroy"
    /\ FreeContext /\ armed' = FALSE /\ sock' = "none"
    /\ IF sock = "none"
       THEN UNCHANGED <<connected, wsi, attempt_failed>>
       ELSE EndSession
    /\ wss' = "clear"
    /\ UNCHANGED <<queueVars, should_stop, thread_exited, lws_ctx, nctx,
                   has_pending, nrecv, reconnect_delay, sendVars, dtorVars, wire>>

ClearContext ==
    /\ wss = "clear"
    /\ lws_ctx' = NULL
    /\ connected' = FALSE
    /\ wss' = IF should_stop THEN "exiting" ELSE "reconnect"
    /\ UNCHANGED <<queueVars, should_stop, attempt_failed, thread_exited, wsi,
                   live, nctx, sock, armed, cancel, has_pending, nrecv,
                   reconnect_delay, sendVars, dtorVars, wire>>

\* The end of the wait, and the backoff.
Reconnect ==
    /\ wss = "reconnect"
    /\ reconnect_delay' =
          IF reconnect_delay + LEO_RECONNECT_STEP > LEO_RECONNECT_MAX
          THEN LEO_RECONNECT_MAX
          ELSE reconnect_delay + LEO_RECONNECT_STEP
    /\ wss' = "create"
    /\ UNCHANGED <<queueVars, flagVars, lwsVars, has_pending, nrecv, sendVars,
                   dtorVars, wire>>

\* The wait tests should_stop every 100 ms, so it ends soon after the request
\* however long the delay still is.
ReconnectStopped == should_stop /\ Reconnect

\* The exit flag is set and signalled under exit_mutex; the thread still holds
\* that mutex, so it still uses the connection until it returns.
SignalExit ==
    /\ wss = "exiting"
    /\ thread_exited' = TRUE
    /\ wss' = "returning"
    /\ UNCHANGED <<queueVars, connected, should_stop, attempt_failed, lwsVars,
                   has_pending, nrecv, reconnect_delay, sendVars, dtorVars, wire>>

ThreadReturn ==
    /\ wss = "returning"
    /\ wss' = "exited"
    /\ UNCHANGED <<queueVars, flagVars, lwsVars, has_pending, nrecv,
                   reconnect_delay, sendVars, dtorVars, wire>>

-----------------------------------------------------------------------------
(* Callbacks libwebsockets runs on the WSS thread: _lws_callback *)

\* CLIENT_ESTABLISHED, up to the call of leo_conn_send: senders see connected
\* from here on.
ClientEstablished ==
    /\ wss = "service" /\ sock = "connecting"
    /\ sock' = "open" /\ wsi' = TRUE /\ connected' = TRUE
    /\ reconnect_delay' = LEO_RECONNECT_INIT
    /\ wire' = << >>
    /\ wss' = "established"
    /\ UNCHANGED <<queueVars, should_stop, attempt_failed, thread_exited,
                   lws_ctx, live, nctx, armed, cancel, has_pending, nrecv,
                   sendVars, dtorVars>>

\* CLIENT_ESTABLISHED: HELLO is queued, unless it could not be built; the result
\* of the call is ignored.
EstablishedSendHello ==
    /\ wss = "established"
    /\ SendOnWssThread(HELLO) \/ UNCHANGED <<queueVars, cancel>>
    /\ wss' = "arm"
    /\ UNCHANGED <<flagVars, lws_ctx, wsi, live, nctx, sock, armed, has_pending,
                   nrecv, reconnect_delay, sendVars, dtorVars, wire>>

\* CLIENT_ESTABLISHED: lws_callback_on_writable.
EstablishedArm ==
    /\ wss = "arm"
    /\ armed' = TRUE
    /\ wss' = "service"
    /\ UNCHANGED <<queueVars, flagVars, lws_ctx, wsi, live, nctx, sock, cancel,
                   has_pending, nrecv, reconnect_delay, sendVars, dtorVars, wire>>

\* CLIENT_RECEIVE: a message whose handler answers on this thread (PONG, or the
\* error result of a refused command).
ClientReceive ==
    /\ wss = "service" /\ sock = "open"
    /\ nrecv < MaxReceives
    /\ nrecv' = nrecv + 1
    /\ SendOnWssThread([from |-> WSS, no |-> nrecv + 1])
    /\ UNCHANGED <<flagVars, lws_ctx, wsi, live, nctx, sock, armed, wss,
                   has_pending, reconnect_delay, sendVars, dtorVars, wire>>

\* CLIENT_WRITEABLE: the oldest message leaves the queue even when lws_write
\* fails, and WRITEABLE is requested again while messages remain.
ClientWriteable ==
    /\ wss = "service" /\ sock = "open" /\ armed
    /\ IF queue_count > 0
       THEN /\ wire' \in {Append(wire, send_queue[queue_head]), wire}
            /\ Pop
            /\ armed' = Remain
       ELSE armed' = FALSE /\ UNCHANGED <<queueVars, wire>>
    /\ UNCHANGED <<flagVars, lws_ctx, wsi, live, nctx, sock, cancel, wssVars,
                   sendVars, dtorVars>>

\* EVENT_WAIT_CANCELLED: has_pending is read under the lock ...
EventWaitCancelled ==
    /\ wss = "service" /\ cancel
    /\ cancel' = FALSE
    /\ has_pending' = (queue_count > 0)
    /\ wss' = "waitCancelled"
    /\ UNCHANGED <<queueVars, flagVars, lws_ctx, wsi, live, nctx, sock, armed,
                   nrecv, reconnect_delay, sendVars, dtorVars, wire>>

\* Faulty variant: the wakeup is not relayed to the socket.
RelayNothing == FALSE

RelayWakeup == wsi /\ has_pending

\* ... and used after it is released.
EventWaitCancelledArm ==
    /\ wss = "waitCancelled"
    /\ armed' = (armed \/ RelayWakeup)
    /\ has_pending' = FALSE
    /\ wss' = "service"
    /\ UNCHANGED <<queueVars, flagVars, lws_ctx, wsi, live, nctx, sock, cancel,
                   nrecv, reconnect_delay, sendVars, dtorVars, wire>>

\* CLIENT_CLOSED and CLIENT_CONNECTION_ERROR.
ClientClosed ==
    /\ wss = "service" /\ sock # "none"
    /\ EndSession /\ sock' = "none" /\ armed' = FALSE
    /\ UNCHANGED <<queueVars, should_stop, thread_exited, lws_ctx, live, nctx,
                   cancel, wssVars, sendVars, dtorVars, wire>>

-----------------------------------------------------------------------------
(* leo_conn_destroy *)

\* Senders may be anywhere: leo_conn_destroy waits for the WSS thread only.
DestroyBegin ==
    /\ dtor = "none"
    /\ should_stop' = TRUE
    /\ dtor' = "stop"
    /\ UNCHANGED <<queueVars, connected, attempt_failed, thread_exited, lwsVars,
                   wssVars, sendVars, dptr, wire>>

DestroyReadContext ==
    /\ dtor = "stop"
    /\ dptr' = lws_ctx
    /\ dtor' = IF lws_ctx = NULL THEN "wait" ELSE "cancel"
    /\ UNCHANGED <<queueVars, flagVars, lwsVars, wssVars, sendVars, wire>>

DestroyCancelService ==
    /\ dtor = "cancel"
    /\ cancel' = (cancel \/ dptr = live)
    /\ dptr' = NULL
    /\ dtor' = "wait"
    /\ UNCHANGED <<queueVars, flagVars, lws_ctx, wsi, live, nctx, sock, armed,
                   wssVars, sendVars, wire>>

DestroyExited ==
    /\ dtor = "wait" /\ thread_exited
    /\ dtor' = "join"
    /\ UNCHANGED <<queueVars, flagVars, lwsVars, wssVars, sendVars, dptr, wire>>

\* Faulty variant: the connection is freed after the timeout as well.
DestroyTimeoutFrees ==
    /\ dtor = "wait" /\ ~thread_exited
    /\ dtor' = "freed"
    /\ UNCHANGED <<queueVars, flagVars, lwsVars, wssVars, sendVars, dptr, wire>>

\* Five seconds have passed: the connection is left allocated.
DestroyTimeout ==
    /\ dtor = "wait" /\ ~thread_exited
    /\ dtor' = "leaked"
    /\ UNCHANGED <<queueVars, flagVars, lwsVars, wssVars, sendVars, dptr, wire>>

DestroyJoin ==
    /\ dtor = "join" /\ wss = "exited"
    /\ dtor' = "freed"
    /\ UNCHANGED <<queueVars, flagVars, lwsVars, wssVars, sendVars, dptr, wire>>

-----------------------------------------------------------------------------
\* leo_conn_create
Init ==
    /\ send_queue = [i \in 0 .. Depth - 1 |-> NoMsg]
    /\ queue_head = 0 /\ queue_tail = 0 /\ queue_count = 0
    /\ connected = FALSE /\ should_stop = FALSE
    /\ attempt_failed = FALSE /\ thread_exited = FALSE
    /\ reconnect_delay = LEO_RECONNECT_INIT
    /\ lws_ctx = NULL /\ live = NULL /\ nctx = 0
    /\ wsi = FALSE /\ sock = "none" /\ armed = FALSE /\ cancel = FALSE
    /\ wss = "create" /\ has_pending = FALSE /\ nrecv = 0
    /\ pc = [s \in Senders |-> "idle"]
    /\ ptr = [s \in Senders |-> NULL]
    /\ nsent = [s \in Senders |-> 0]
    /\ dtor = "none" /\ dptr = NULL
    /\ wire = << >>

\* The code of _lws_thread, once entered, always runs on.
ThreadStep ==
    \/ CreateContext \/ Connect \/ ClearFailedContext \/ LeaveService
    \/ DestroyContext \/ ClearContext \/ ReconnectStopped \/ SignalExit
    \/ ThreadReturn

CallbackStep ==
    \/ EstablishedSendHello \/ EstablishedArm
    \/ ClientWriteable \/ EventWaitCancelled \/ EventWaitCancelledArm

\* What the peer, the network and the clock decide.
NetworkStep ==
    \/ ClientEstablished \/ ClientReceive \/ ClientClosed \/ ServiceError
    \/ Reconnect

SendStep(s) == SendEnqueue(s) \/ SendReadContext(s) \/ SendCancelService(s)

DestroyStep ==
    \/ DestroyReadContext \/ DestroyCancelService
    \/ DestroyExited \/ DestroyTimeout \/ DestroyJoin

\* The agent may stop for good: no step is left once the connection is gone.
Next ==
    \/ ThreadStep \/ CallbackStep \/ NetworkStep
    \/ \E s \in Senders : SendCheck(s) \/ SendStep(s) \/ SendFreed(s)
    \/ DestroyBegin \/ DestroyStep

Spec == Init /\ [][Next]_vars

\* The scheduler runs every thread that can run and libwebsockets delivers the
\* callbacks that are due.  Neither the network nor the callers owe anything,
\* and no property may wait for the delay of a reconnection, up to a minute.
Fairness ==
    /\ WF_vars(ThreadStep)
    /\ WF_vars(CallbackStep)
    /\ \A s \in Senders : WF_vars(SendStep(s))
    /\ WF_vars(DestroyStep)

FairSpec == Spec /\ Fairness

-----------------------------------------------------------------------------
(* Properties *)

\* The places of a sender in leo_conn_send.
PcPlaces == {"idle", "checked", "enqueued", "cancel", "undefined"}

\* Every field of leo_conn_t, local variable and program counter has its type.
TypeOK ==
    /\ send_queue \in [0 .. Depth - 1 -> Msg \cup {NoMsg}]
    /\ queue_head \in 0 .. Depth - 1
    /\ queue_tail \in 0 .. Depth - 1
    /\ queue_count \in 0 .. Depth
    /\ connected \in BOOLEAN /\ should_stop \in BOOLEAN
    /\ attempt_failed \in BOOLEAN /\ thread_exited \in BOOLEAN
    /\ reconnect_delay \in 0 .. LEO_RECONNECT_MAX
    /\ lws_ctx \in 0 .. MaxContexts /\ live \in 0 .. MaxContexts
    /\ nctx \in 0 .. MaxContexts
    /\ wsi \in BOOLEAN /\ armed \in BOOLEAN /\ cancel \in BOOLEAN
    /\ sock \in {"none", "connecting", "open"}
    /\ wss \in {"create", "connect", "clearFailed", "service", "established",
                "arm", "waitCancelled", "destroy", "clear", "reconnect",
                "exiting", "returning", "exited"}
    /\ has_pending \in BOOLEAN
    /\ nrecv \in 0 .. MaxReceives
    /\ pc \in [Senders -> PcPlaces]
    /\ ptr \in [Senders -> 0 .. MaxContexts]
    /\ nsent \in [Senders -> 0 .. MaxSends]
    /\ dtor \in {"none", "stop", "cancel", "wait", "join", "freed", "leaked"}
    /\ dptr \in 0 .. MaxContexts
    /\ wire \in Seq(Msg \cup {NoMsg})

\* A sender whose message is queued but who has yet to wake the live context.
WillWake(s) ==
    \/ pc[s] = "enqueued"
    \/ pc[s] = "cancel" /\ ptr[s] = live

\* No lost wakeup: while a session is up and messages wait, somebody is bound to
\* have the socket written: WRITEABLE is requested, or the CLIENT_ESTABLISHED
\* callback is about to request it, or EVENT_WAIT_CANCELLED is due or has seen
\* the messages, or a sender has yet to call lws_cancel_service on this context
\* (leo_conn_send against the two callbacks).
NoLostWakeup ==
    connected /\ queue_count > 0 /\ wss # "destroy" =>
        \/ armed
        \/ wss \in {"established", "arm"}
        \/ cancel
        \/ wss = "waitCancelled" /\ has_pending
        \/ \E s \in Senders : WillWake(s)

\* The connected flag that leo_conn_send tests, the wsi field that
\* EVENT_WAIT_CANCELLED uses and the state of the socket always agree, however
\* the session ends (CLOSED, connection error, lws_context_destroy).
SessionFlagsAgree ==
    /\ connected <=> sock = "open"
    /\ wsi <=> sock = "open"
    /\ armed => sock = "open"
    /\ sock # "none" => live # NULL /\ lws_ctx = live

\* A context is destroyed on every path that leaves it: none survives into the
\* reconnection wait, the next creation or the end of the thread, and the
\* pointer field is NULL there (_lws_thread's goto, break and return paths).
ContextReleased ==
    wss \in {"create", "reconnect", "exiting", "returning", "exited"} =>
        live = NULL /\ lws_ctx = NULL

\* leo_conn_destroy frees the connection only when the WSS thread has returned
\* and its context is gone, whatever senders do meanwhile; on a timeout nothing
\* is freed.  This is what connection.h promises, and no more: it says nothing
\* of a sender that is still inside leo_conn_send.
FreedOnlyAfterExit ==
    dtor = "freed" => wss = "exited" /\ live = NULL /\ ~connected

\* Messages leave in the order leo_conn_send accepted them: the ring buffer, its
\* three indices and the callbacks implement a bounded first-in first-out queue.
Channel == INSTANCE OutChannel WITH queue <- Contents, Capacity <- Depth
ImplementsChannel == Channel!Spec

\* A message that waits while the session is up leaves the queue, or the session
\* ends: nothing stays queued for ever behind a working connection.
QueuedIsWritten ==
    \A s \in Senders : \A n \in 1 .. MaxSends :
        (\E i \in 1 .. queue_count : Contents[i] = [from |-> s, no |-> n])
            ~> \/ ~connected
               \/ ~ \E i \in 1 .. queue_count : Contents[i] = [from |-> s, no |-> n]

\* leo_conn_destroy always returns, and the WSS thread always notices
\* should_stop, wherever it is (in lws_service, in the reconnection wait).
StopCompletes ==
    should_stop ~> thread_exited /\ dtor \in {"freed", "leaked"}
=============================================================================
