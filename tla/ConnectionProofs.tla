-------------------------- MODULE ConnectionProofs --------------------------
(***************************************************************************)
(* Proofs about Connection for every number of senders, every depth of the *)
(* send queue and every bound: types, the absence of lost wakeups, the     *)
(* agreement of the flags with the socket, the release of contexts, and    *)
(* the safety of leo_conn_destroy.                                         *)
(***************************************************************************)
EXTENDS Connection, SequenceTheorems, TLAPS

-----------------------------------------------------------------------------
(* The inductive invariant *)

\* Which context and which socket exist at each place of _lws_thread.
ContextByPlace ==
    /\ wss \in {"connect", "service", "established", "arm", "waitCancelled",
                "destroy"} => live # NULL /\ lws_ctx = live
    /\ wss \in {"clear", "clearFailed"} => live = NULL
    /\ wss \in {"create", "reconnect", "exiting", "returning", "exited"} =>
          live = NULL /\ lws_ctx = NULL
    /\ sock # "none" =>
          wss \in {"service", "established", "arm", "waitCancelled", "destroy"}
    /\ wss \in {"established", "arm"} => sock = "open"

\* The flags follow the socket.
FlagsBySocket ==
    /\ connected <=> sock = "open"
    /\ wsi <=> sock = "open"
    /\ armed => sock = "open"

\* How far leo_conn_destroy may be, given where the WSS thread is.
DestroyByPlace ==
    /\ thread_exited <=> wss \in {"returning", "exited"}
    /\ dtor = "join" => thread_exited
    /\ dtor = "freed" => wss = "exited"

IInv ==
    /\ TypeOK
    /\ ContextByPlace
    /\ FlagsBySocket
    /\ DestroyByPlace
    /\ NoLostWakeup

-----------------------------------------------------------------------------
(* Types *)

\* Remainders by the depth of the ring are ring indices.
LEMMA RingIndex ==
    \A k \in Nat : k % Depth \in 0 .. Depth - 1
BY ConnectionAssumption DEF Depth

\* Queueing a message where there is room keeps the ring well formed and not empty.
LEMMA PushType ==
    ASSUME TypeOK, NEW m \in Msg, ~QueueFull, Push(m)
    PROVE  /\ send_queue' \in [0 .. Depth - 1 -> Msg \cup {NoMsg}]
           /\ queue_head' \in 0 .. Depth - 1
           /\ queue_tail' \in 0 .. Depth - 1
           /\ queue_count' \in 1 .. Depth
<1>1. queue_tail + 1 \in Nat
  BY ConnectionAssumption DEF TypeOK, Depth
<1>2. queue_tail' \in 0 .. Depth - 1
  BY <1>1, RingIndex DEF Push
<1>3. QED
  BY <1>2, ConnectionAssumption DEF TypeOK, Push, QueueFull, Depth

\* The flags, apart from the rest of the types.
FlagTypes ==
    /\ connected \in BOOLEAN /\ should_stop \in BOOLEAN
    /\ attempt_failed \in BOOLEAN /\ thread_exited \in BOOLEAN
    /\ wsi \in BOOLEAN /\ armed \in BOOLEAN /\ cancel \in BOOLEAN
    /\ has_pending \in BOOLEAN

\* The agent starts in IInv.
LEMMA InitIInv == Init => IInv
<1> SUFFICES ASSUME Init PROVE IInv
  OBVIOUS
<1>1. TypeOK
  <2>1. FlagTypes
    BY Zenon DEF Init, FlagTypes
  <2>2. /\ send_queue \in [0 .. Depth - 1 -> Msg \cup {NoMsg}]
        /\ pc \in [Senders -> PcPlaces]
    BY DEF Init, PcPlaces
  <2>3. /\ ptr \in [Senders -> 0 .. MaxContexts]
        /\ nsent \in [Senders -> 0 .. MaxSends]
    BY ConnectionAssumption DEF Init, NULL
  <2>4. /\ queue_head \in 0 .. Depth - 1 /\ queue_tail \in 0 .. Depth - 1
        /\ queue_count \in 0 .. Depth
        /\ reconnect_delay \in 0 .. LEO_RECONNECT_MAX
        /\ lws_ctx \in 0 .. MaxContexts /\ live \in 0 .. MaxContexts
        /\ nctx \in 0 .. MaxContexts /\ nrecv \in 0 .. MaxReceives
        /\ dptr \in 0 .. MaxContexts
    BY ConnectionAssumption DEF Init, NULL, Depth
  <2>5. /\ sock = "none" /\ wss = "create" /\ dtor = "none"
        /\ wire \in Seq(Msg \cup {NoMsg})
    BY DEF Init
  <2>6. QED
    BY <2>1, <2>2, <2>3, <2>4, <2>5, SMTT(60) DEF TypeOK, FlagTypes
<1>2. ContextByPlace /\ FlagsBySocket
  BY DEF Init, ContextByPlace, FlagsBySocket, NULL
<1>3. DestroyByPlace
  BY DEF Init, DestroyByPlace
<1>4. NoLostWakeup
  BY SMTT(60) DEF Init, NoLostWakeup
<1>5. QED
  BY <1>1, <1>2, <1>3, <1>4 DEF IInv

\* Every step keeps the flags Boolean.
LEMMA FlagStep == FlagTypes /\ [Next]_vars => FlagTypes'
<1> SUFFICES ASSUME FlagTypes, [Next]_vars PROVE FlagTypes'
  OBVIOUS
<1> USE DEF FlagTypes, queueVars, flagVars, lwsVars, wssVars
<1>0. CASE UNCHANGED vars
  BY <1>0, Zenon DEF vars
<1>1. CASE CreateContext
  BY <1>1, ZenonT(60) DEF CreateContext
<1>2. CASE Connect
  BY <1>2, Zenon DEF Connect, FreeContext
<1>3. CASE DestroyContext
  BY <1>3, Zenon DEF DestroyContext, FreeContext, EndSession
<1>4. CASE ClearContext \/ SignalExit
  BY <1>4, Zenon DEF ClearContext, SignalExit
<1>5. CASE ClearFailedContext \/ LeaveService \/ ServiceError \/ Reconnect
           \/ ThreadReturn
  <2>1. CASE ClearFailedContext \/ LeaveService
    BY <2>1, ZenonT(60) DEF ClearFailedContext, LeaveService
  <2>2. CASE ServiceError \/ ThreadReturn
    BY <2>2, ZenonT(60) DEF ServiceError, ThreadReturn
  <2>3. CASE Reconnect
    BY <2>3, Zenon DEF Reconnect
  <2>4. QED
    BY <1>5, <2>1, <2>2, <2>3
<1>6. CASE EstablishedSendHello
  BY <1>6, Zenon DEF EstablishedSendHello, SendOnWssThread
<1>7. CASE ClientReceive
  BY <1>7, Zenon DEF ClientReceive, SendOnWssThread
<1>8. CASE ClientWriteable
  <2>1. Remain \in BOOLEAN
    BY DEF Remain
  <2>2. QED
    BY <1>8, <2>1, Zenon DEF ClientWriteable
<1>9. CASE EventWaitCancelled
  <2>1. has_pending' \in BOOLEAN
    BY <1>9 DEF EventWaitCancelled
  <2>2. QED
    BY <1>9, <2>1, Zenon DEF EventWaitCancelled
<1>10. CASE EventWaitCancelledArm
  BY <1>10, Zenon DEF EventWaitCancelledArm
<1>11. CASE EstablishedArm \/ ClientEstablished
  BY <1>11, ZenonT(60) DEF EstablishedArm, ClientEstablished
<1>12. CASE ClientClosed
  BY <1>12, Zenon DEF ClientClosed, EndSession
<1>13. ASSUME NEW s \in Senders, SendCheck(s) \/ SendStep(s) \/ SendFreed(s)
       PROVE  FlagTypes'
  <2>1. CASE SendCheck(s) \/ SendFreed(s)
    BY <2>1, Zenon DEF SendCheck, SendFreed
  <2>2. CASE SendEnqueue(s)
    BY <2>2, Zenon DEF SendEnqueue
  <2>3. CASE SendReadContext(s) \/ SendCancelService(s)
    BY <2>3, ZenonT(60) DEF SendReadContext, SendCancelService
  <2>4. QED
    BY <1>13, <2>1, <2>2, <2>3 DEF SendStep
<1>14. CASE DestroyBegin \/ DestroyStep
  <2>1. CASE DestroyBegin
    BY <2>1, Zenon DEF DestroyBegin
  <2>2. CASE DestroyReadContext \/ DestroyCancelService
    BY <2>2, ZenonT(60) DEF DestroyReadContext, DestroyCancelService
  <2>3. CASE DestroyExited \/ DestroyTimeout \/ DestroyJoin
    BY <2>3, ZenonT(60) DEF DestroyExited, DestroyTimeout, DestroyJoin
  <2>4. QED
    BY <1>14, <2>1, <2>2, <2>3 DEF DestroyStep
<1>15. QED
  BY <1>0, <1>1, <1>2, <1>3, <1>4, <1>5, <1>6, <1>7, <1>8, <1>9, <1>10, <1>11,
     <1>12, <1>13, <1>14
     DEF Next, ThreadStep, CallbackStep, NetworkStep, ReconnectStopped

\* Every step keeps the types.
LEMMA TypeStep == TypeOK /\ [Next]_vars => TypeOK'
<1> SUFFICES ASSUME TypeOK, [Next]_vars PROVE TypeOK'
  OBVIOUS
<1>f. FlagTypes'
  BY FlagStep DEF FlagTypes, TypeOK
<1> USE <1>f, ConnectionAssumption DEF FlagTypes, queueVars, flagVars, lwsVars,
        wssVars, sendVars, dtorVars, NULL, FreeContext, EndSession
<1>0. CASE UNCHANGED vars
  BY <1>0 DEF TypeOK, vars
<1>1. CASE ThreadStep
  <2>1. CASE CreateContext
    <3>1. lws_ctx' \in 0 .. MaxContexts /\ live' \in 0 .. MaxContexts
          /\ nctx' \in 0 .. MaxContexts
      BY <2>1, SMTT(60) DEF CreateContext, TypeOK
    <3>2. QED
      BY <2>1, <3>1, ZenonT(60) DEF CreateContext, TypeOK
  <2>2. CASE Connect
    BY <2>2, SMTT(60) DEF Connect, TypeOK
  <2>3. CASE ClearFailedContext
    BY <2>3 DEF ClearFailedContext, TypeOK
  <2>4. CASE LeaveService
    BY <2>4 DEF LeaveService, TypeOK
  <2>5. CASE DestroyContext
    BY <2>5 DEF DestroyContext, TypeOK
  <2>6. CASE ClearContext
    BY <2>6 DEF ClearContext, TypeOK
  <2>7. CASE ReconnectStopped
    BY <2>7 DEF ReconnectStopped, Reconnect, TypeOK
  <2>8. CASE SignalExit
    BY <2>8 DEF SignalExit, TypeOK
  <2>9. CASE ThreadReturn
    BY <2>9 DEF ThreadReturn, TypeOK
  <2>10. QED
    BY <1>1, <2>1, <2>2, <2>3, <2>4, <2>5, <2>6, <2>7, <2>8, <2>9
       DEF ThreadStep
<1>2. CASE CallbackStep
  <2>1. CASE EstablishedSendHello
    <3>1. HELLO \in Msg
      BY DEF HELLO, Msg
    <3>2. CASE UNCHANGED queueVars
      BY <2>1, <3>2, SMTT(60) DEF EstablishedSendHello, TypeOK
    <3>3. CASE ~QueueFull /\ ~UNCHANGED queueVars
      <4>1. Push(HELLO)
        BY <2>1, <3>3, ZenonT(60) DEF EstablishedSendHello, SendOnWssThread
      <4>2. /\ send_queue' \in [0 .. Depth - 1 -> Msg \cup {NoMsg}]
            /\ queue_head' \in 0 .. Depth - 1
            /\ queue_tail' \in 0 .. Depth - 1
            /\ queue_count' \in 0 .. Depth
        BY <3>1, <3>3, <4>1, PushType, ConnectionAssumption, SMTT(60) DEF Depth
      <4>3. QED
        BY <2>1, <3>3, <4>2, ZenonT(60) DEF EstablishedSendHello, SendOnWssThread, TypeOK
    <3>4. QED
      BY <2>1, <3>2, <3>3, ZenonT(60) DEF EstablishedSendHello, SendOnWssThread
  <2>2. CASE ClientWriteable
    <3>1. queue_head + 1 \in Nat
      BY DEF TypeOK, Depth
    <3>2. (queue_head + 1) % Depth \in 0 .. Depth - 1
      BY <3>1, RingIndex
    <3>3. send_queue[queue_head] \in Msg \cup {NoMsg}
      BY ZenonT(60) DEF TypeOK
    <3>4. Append(wire, send_queue[queue_head]) \in Seq(Msg \cup {NoMsg})
      BY <3>3 DEF TypeOK
    <3>5. wire' \in Seq(Msg \cup {NoMsg})
      BY <2>2, <3>4, ZenonT(60) DEF ClientWriteable, TypeOK
    <3>6. /\ send_queue' = send_queue /\ queue_tail' = queue_tail
          /\ queue_head' \in 0 .. Depth - 1
          /\ queue_count' \in 0 .. Depth
      BY <2>2, <3>2 DEF ClientWriteable, Pop, TypeOK, Depth
    <3>7. QED
      BY <2>2, <3>5, <3>6, ZenonT(60) DEF ClientWriteable, TypeOK
  <2>3. CASE EstablishedArm \/ EventWaitCancelled \/ EventWaitCancelledArm
    BY <2>3, ZenonT(60) DEF EstablishedArm, EventWaitCancelled, EventWaitCancelledArm,
       RelayWakeup, TypeOK
  <2>4. QED
    BY <1>2, <2>1, <2>2, <2>3 DEF CallbackStep
<1>3. CASE NetworkStep
  <2>1. CASE ClientReceive
    <3>1. [from |-> WSS, no |-> nrecv + 1] \in Msg
      BY <2>1 DEF ClientReceive, TypeOK, Msg
    <3>2. CASE QueueFull
      BY <2>1, <3>2 DEF ClientReceive, SendOnWssThread, TypeOK
    <3>3. CASE ~QueueFull
      <4>1. Push([from |-> WSS, no |-> nrecv + 1])
        BY <2>1, <3>3, ZenonT(60) DEF ClientReceive, SendOnWssThread
      <4>2. /\ send_queue' \in [0 .. Depth - 1 -> Msg \cup {NoMsg}]
            /\ queue_head' \in 0 .. Depth - 1
            /\ queue_tail' \in 0 .. Depth - 1
            /\ queue_count' \in 0 .. Depth
        BY <3>1, <3>3, <4>1, PushType, ConnectionAssumption, SMTT(60) DEF Depth
      <4>3. nrecv' \in 0 .. MaxReceives
        BY <2>1, SMTT(60) DEF ClientReceive, TypeOK
      <4>4. QED
        BY <2>1, <3>3, <4>2, <4>3, ZenonT(60) DEF ClientReceive, SendOnWssThread, TypeOK
    <3>4. QED
      BY <3>2, <3>3
  <2>2. CASE ClientEstablished
    BY <2>2 DEF ClientEstablished, TypeOK
  <2>3. CASE ClientClosed
    BY <2>3, SMTT(60) DEF ClientClosed, TypeOK
  <2>4. CASE ServiceError
    BY <2>4 DEF ServiceError, TypeOK
  <2>5. CASE Reconnect
    BY <2>5 DEF Reconnect, TypeOK
  <2>6. QED
    BY <1>3, <2>1, <2>2, <2>3, <2>4, <2>5 DEF NetworkStep
<1>4. ASSUME NEW s \in Senders, SendCheck(s) \/ SendStep(s) \/ SendFreed(s)
      PROVE  TypeOK'
  <2>1. CASE SendEnqueue(s)
    <3>1. [from |-> s, no |-> nsent[s]] \in Msg
      BY SMTT(60) DEF TypeOK, Msg
    <3>2. CASE QueueFull
      <4>1. pc' \in [Senders -> PcPlaces]
        BY <2>1, <3>2, SMTT(60) DEF SendEnqueue, TypeOK, PcPlaces
      <4>2. QED
        BY <2>1, <3>2, <4>1, ZenonT(60) DEF SendEnqueue, TypeOK
    <3>3. CASE ~QueueFull
      <4>1. /\ Push([from |-> s, no |-> nsent[s]])
            /\ pc' = [pc EXCEPT ![s] = "enqueued"]
        BY <2>1, <3>3 DEF SendEnqueue
      <4>2. /\ send_queue' \in [0 .. Depth - 1 -> Msg \cup {NoMsg}]
            /\ queue_head' \in 0 .. Depth - 1
            /\ queue_tail' \in 0 .. Depth - 1
            /\ queue_count' \in 1 .. Depth
        BY <3>1, <3>3, <4>1, PushType
      <4>3. queue_count' \in 0 .. Depth /\ pc' \in [Senders -> PcPlaces]
        BY <4>1, <4>2, ConnectionAssumption DEF TypeOK, Depth, PcPlaces
      <4>4. QED
        BY <2>1, <4>2, <4>3, ZenonT(60) DEF SendEnqueue, TypeOK
    <3>4. QED
      BY <3>2, <3>3
  <2>2. CASE SendCheck(s)
    <3>1. nsent' \in [Senders -> 0 .. MaxSends] /\ pc' \in [Senders -> PcPlaces]
      BY <2>2, SMTT(60) DEF SendCheck, TypeOK, PcPlaces
    <3>2. QED
      BY <2>2, <3>1, ZenonT(60) DEF SendCheck, TypeOK
  <2>3. CASE SendReadContext(s)
    <3>1. ptr' \in [Senders -> 0 .. MaxContexts] /\ pc' \in [Senders -> PcPlaces]
      BY <2>3, SMTT(60) DEF SendReadContext, TypeOK, PcPlaces
    <3>2. QED
      BY <2>3, <3>1, ZenonT(60) DEF SendReadContext, TypeOK
  <2>4. CASE SendCancelService(s)
    <3>1. ptr' \in [Senders -> 0 .. MaxContexts] /\ pc' \in [Senders -> PcPlaces]
      BY <2>4, SMTT(60) DEF SendCancelService, TypeOK, PcPlaces
    <3>2. cancel' \in BOOLEAN
      BY <2>4, ZenonT(60) DEF SendCancelService, TypeOK
    <3>3. QED
      BY <2>4, <3>1, <3>2, ZenonT(60) DEF SendCancelService, TypeOK
  <2>5. CASE SendFreed(s)
    <3>1. pc' \in [Senders -> PcPlaces]
      BY <2>5, SMTT(60) DEF SendFreed, TypeOK, PcPlaces
    <3>2. QED
      BY <2>5, <3>1, ZenonT(60) DEF SendFreed, TypeOK
  <2>6. QED
    BY <1>4, <2>1, <2>2, <2>3, <2>4, <2>5 DEF SendStep
<1>5. CASE DestroyBegin \/ DestroyStep
  <2>1. CASE DestroyBegin
    BY <2>1, SMTT(60) DEF DestroyBegin, TypeOK
  <2>2. CASE DestroyReadContext
    BY <2>2, SMTT(60) DEF DestroyReadContext, TypeOK
  <2>3. CASE DestroyCancelService
    BY <2>3, SMTT(60) DEF DestroyCancelService, TypeOK
  <2>4. CASE DestroyExited \/ DestroyTimeout \/ DestroyJoin
    BY <2>4, ZenonT(60) DEF DestroyExited, DestroyTimeout, DestroyJoin, TypeOK
  <2>5. QED
    BY <1>5, <2>1, <2>2, <2>3, <2>4 DEF DestroyStep
<1>6. QED
  BY <1>0, <1>1, <1>2, <1>3, <1>4, <1>5 DEF Next

\* Contexts and sockets stay where _lws_thread has put them.
LEMMA ContextStep ==
    TypeOK /\ ContextByPlace /\ [Next]_vars => ContextByPlace'
<1> SUFFICES ASSUME TypeOK, ContextByPlace, [Next]_vars
             PROVE  ContextByPlace'
  OBVIOUS
<1> USE DEF TypeOK, ContextByPlace, NULL,
        queueVars, flagVars, lwsVars, wssVars, sendVars, dtorVars
<1>0. CASE UNCHANGED vars
  BY <1>0 DEF vars
<1>1. CASE CreateContext
  BY <1>1, SMTT(60) DEF CreateContext
<1>2. CASE Connect
  BY <1>2, SMTT(60) DEF Connect, FreeContext
<1>3. CASE ClearFailedContext
  BY <1>3, SMTT(60) DEF ClearFailedContext
<1>4. CASE LeaveService \/ ServiceError
  <2>1. CASE LeaveService
    BY <2>1 DEF LeaveService
  <2>2. CASE ServiceError
    BY <2>2 DEF ServiceError
  <2>3. QED
    BY <1>4, <2>1, <2>2
<1>5. CASE DestroyContext
  BY <1>5, SMTT(60) DEF DestroyContext, FreeContext, EndSession
<1>6. CASE ClearContext
  BY <1>6, ZenonT(60) DEF ClearContext
<1>7. CASE Reconnect \/ SignalExit \/ ThreadReturn
  BY <1>7, ZenonT(60) DEF Reconnect, SignalExit, ThreadReturn
<1>8. CASE EstablishedSendHello
  BY <1>8, SMTT(60) DEF EstablishedSendHello, SendOnWssThread
<1>9. CASE EstablishedArm
  BY <1>9, SMTT(60) DEF EstablishedArm
<1>10. CASE ClientWriteable
  BY <1>10, SMTT(60) DEF ClientWriteable, Pop, Remain
<1>11. CASE EventWaitCancelled
  BY <1>11, SMTT(60) DEF EventWaitCancelled
<1>12. CASE EventWaitCancelledArm
  BY <1>12, SMTT(60) DEF EventWaitCancelledArm, RelayWakeup
<1>13. CASE ClientEstablished
  BY <1>13, SMTT(60) DEF ClientEstablished
<1>14. CASE ClientReceive
  BY <1>14, SMTT(60) DEF ClientReceive, SendOnWssThread
<1>15. CASE ClientClosed
  BY <1>15, ZenonT(60) DEF ClientClosed, EndSession
<1>16. ASSUME NEW s \in Senders, SendCheck(s) \/ SendStep(s) \/ SendFreed(s)
       PROVE  ContextByPlace'
  BY <1>16, ZenonT(60) DEF SendCheck, SendStep, SendEnqueue, SendReadContext,
     SendCancelService, SendFreed, Push
<1>17. CASE DestroyBegin \/ DestroyStep
  BY <1>17, ZenonT(60) DEF DestroyBegin, DestroyStep, DestroyReadContext,
     DestroyCancelService, DestroyExited, DestroyTimeout, DestroyJoin
<1>18. QED
  BY <1>0, <1>1, <1>2, <1>3, <1>4, <1>5, <1>6, <1>7, <1>8,
     <1>9, <1>10, <1>11, <1>12, <1>13, <1>14, <1>15, <1>16, <1>17, ZenonT(60)
     DEF Next, ThreadStep, CallbackStep, NetworkStep, ReconnectStopped

\* The flags keep following the socket.
LEMMA SocketStep ==
    FlagTypes /\ ContextByPlace /\ FlagsBySocket /\ [Next]_vars => FlagsBySocket'
<1> SUFFICES ASSUME FlagTypes, ContextByPlace, FlagsBySocket, [Next]_vars
             PROVE  FlagsBySocket'
  BY SMTT(60)
<1> USE DEF ContextByPlace, FlagsBySocket,
        queueVars, flagVars, lwsVars, wssVars, sendVars, dtorVars
<1>0. CASE UNCHANGED vars
  BY <1>0, SMTT(60) DEF vars
<1>1. CASE CreateContext
  BY <1>1, SMTT(60) DEF CreateContext
<1>2. CASE Connect
  BY <1>2 DEF Connect, FreeContext
<1>3. CASE ClearFailedContext
  BY <1>3, SMTT(60) DEF ClearFailedContext
<1>4. CASE LeaveService \/ ServiceError
  BY <1>4 DEF LeaveService, ServiceError
<1>5. CASE DestroyContext
  BY <1>5 DEF DestroyContext, FreeContext, EndSession
<1>6. CASE ClearContext
  BY <1>6, SMTT(60) DEF ClearContext
<1>7. CASE Reconnect \/ SignalExit \/ ThreadReturn
  BY <1>7 DEF Reconnect, SignalExit, ThreadReturn
<1>8. CASE EstablishedSendHello
  BY <1>8 DEF EstablishedSendHello, SendOnWssThread
<1>9. CASE EstablishedArm
  BY <1>9, SMTT(60) DEF EstablishedArm
<1>10. CASE ClientWriteable
  BY <1>10, SMTT(60) DEF ClientWriteable, Pop, Remain
<1>11. CASE EventWaitCancelled
  BY <1>11, SMTT(60) DEF EventWaitCancelled
<1>12. CASE EventWaitCancelledArm
  BY <1>12, ZenonT(60) DEF EventWaitCancelledArm, RelayWakeup
<1>13. CASE ClientEstablished
  BY <1>13 DEF ClientEstablished
<1>14. CASE ClientReceive
  BY <1>14, SMTT(60) DEF ClientReceive, SendOnWssThread
<1>15. CASE ClientClosed
  BY <1>15, ZenonT(60) DEF ClientClosed, EndSession
<1>16. ASSUME NEW s \in Senders, SendCheck(s) \/ SendStep(s) \/ SendFreed(s)
       PROVE  FlagsBySocket'
  <2>1. CASE SendCheck(s) \/ SendFreed(s)
    BY <2>1 DEF SendCheck, SendFreed
  <2>2. CASE SendEnqueue(s)
    BY <2>2 DEF SendEnqueue, Push
  <2>3. CASE SendReadContext(s)
    BY <2>3 DEF SendReadContext
  <2>4. CASE SendCancelService(s)
    BY <2>4 DEF SendCancelService
  <2>5. QED
    BY <1>16, <2>1, <2>2, <2>3, <2>4, ZenonT(60) DEF SendStep
<1>17. CASE DestroyBegin \/ DestroyStep
  <2>1. CASE DestroyBegin
    BY <2>1 DEF DestroyBegin
  <2>2. CASE DestroyReadContext
    BY <2>2 DEF DestroyReadContext
  <2>3. CASE DestroyCancelService
    BY <2>3 DEF DestroyCancelService
  <2>4. CASE DestroyExited \/ DestroyTimeout
    BY <2>4 DEF DestroyExited, DestroyTimeout
  <2>5. CASE DestroyJoin
    BY <2>5 DEF DestroyJoin
  <2>6. QED
    BY <1>17, <2>1, <2>2, <2>3, <2>4, <2>5, ZenonT(60) DEF DestroyStep
<1>18. QED
  BY <1>0, <1>1, <1>2, <1>3, <1>4, <1>5, <1>6, <1>7, <1>8,
     <1>9, <1>10, <1>11, <1>12, <1>13, <1>14, <1>15, <1>16, <1>17, ZenonT(60)
     DEF Next, ThreadStep, CallbackStep, NetworkStep, ReconnectStopped

\* leo_conn_destroy stays behind the WSS thread.
LEMMA DestroyOrder ==
    TypeOK /\ DestroyByPlace /\ [Next]_vars => DestroyByPlace'
<1> SUFFICES ASSUME TypeOK, DestroyByPlace, [Next]_vars
             PROVE  DestroyByPlace'
  OBVIOUS
<1> USE DEF TypeOK, DestroyByPlace,
        queueVars, flagVars, lwsVars, wssVars, sendVars, dtorVars
<1>0. CASE UNCHANGED vars
  BY <1>0, ZenonT(60) DEF vars
<1>1. CASE CreateContext
  BY <1>1, ZenonT(60) DEF CreateContext
<1>2. CASE Connect
  BY <1>2, ZenonT(60) DEF Connect, FreeContext
<1>3. CASE ClearFailedContext
  BY <1>3, ZenonT(60) DEF ClearFailedContext
<1>4. CASE LeaveService \/ ServiceError
  <2>1. CASE LeaveService
    BY <2>1 DEF LeaveService
  <2>2. CASE ServiceError
    BY <2>2 DEF ServiceError
  <2>3. QED
    BY <1>4, <2>1, <2>2
<1>5. CASE DestroyContext
  BY <1>5, ZenonT(60) DEF DestroyContext, FreeContext, EndSession
<1>6. CASE ClearContext
  BY <1>6, ZenonT(60) DEF ClearContext
<1>7. CASE Reconnect \/ SignalExit \/ ThreadReturn
  <2>1. CASE Reconnect
    BY <2>1 DEF Reconnect
  <2>2. CASE SignalExit
    BY <2>2 DEF SignalExit
  <2>3. CASE ThreadReturn
    BY <2>3 DEF ThreadReturn
  <2>4. QED
    BY <1>7, <2>1, <2>2, <2>3
<1>8. CASE EstablishedSendHello
  BY <1>8, ZenonT(60) DEF EstablishedSendHello, SendOnWssThread
<1>9. CASE EstablishedArm
  BY <1>9, ZenonT(60) DEF EstablishedArm
<1>10. CASE ClientWriteable
  BY <1>10, ZenonT(60) DEF ClientWriteable, Pop, Remain
<1>11. CASE EventWaitCancelled
  BY <1>11, ZenonT(60) DEF EventWaitCancelled
<1>12. CASE EventWaitCancelledArm
  BY <1>12, ZenonT(60) DEF EventWaitCancelledArm, RelayWakeup
<1>13. CASE ClientEstablished
  BY <1>13, ZenonT(60) DEF ClientEstablished
<1>14. CASE ClientReceive
  BY <1>14, ZenonT(60) DEF ClientReceive, SendOnWssThread
<1>15. CASE ClientClosed
  BY <1>15, ZenonT(60) DEF ClientClosed, EndSession
<1>16. ASSUME NEW s \in Senders, SendCheck(s) \/ SendStep(s) \/ SendFreed(s)
       PROVE  DestroyByPlace'
  <2>1. CASE SendCheck(s) \/ SendFreed(s)
    BY <2>1 DEF SendCheck, SendFreed
  <2>2. CASE SendEnqueue(s)
    BY <2>2 DEF SendEnqueue, Push
  <2>3. CASE SendReadContext(s)
    BY <2>3 DEF SendReadContext
  <2>4. CASE SendCancelService(s)
    BY <2>4 DEF SendCancelService
  <2>5. QED
    BY <1>16, <2>1, <2>2, <2>3, <2>4, ZenonT(60) DEF SendStep
<1>17. CASE DestroyBegin \/ DestroyStep
  <2>1. CASE DestroyBegin
    BY <2>1 DEF DestroyBegin
  <2>2. CASE DestroyReadContext
    BY <2>2 DEF DestroyReadContext
  <2>3. CASE DestroyCancelService
    BY <2>3 DEF DestroyCancelService
  <2>4. CASE DestroyExited \/ DestroyTimeout
    BY <2>4 DEF DestroyExited, DestroyTimeout
  <2>5. CASE DestroyJoin
    BY <2>5 DEF DestroyJoin
  <2>6. QED
    BY <1>17, <2>1, <2>2, <2>3, <2>4, <2>5, ZenonT(60) DEF DestroyStep
<1>18. QED
  BY <1>0, <1>1, <1>2, <1>3, <1>4, <1>5, <1>6, <1>7, <1>8,
     <1>9, <1>10, <1>11, <1>12, <1>13, <1>14, <1>15, <1>16, <1>17, ZenonT(60)
     DEF Next, ThreadStep, CallbackStep, NetworkStep, ReconnectStopped

\* No step of any thread loses a wakeup.
LEMMA WakeupStep ==
    TypeOK /\ ContextByPlace /\ FlagsBySocket /\ DestroyByPlace /\ NoLostWakeup
        /\ [Next]_vars => NoLostWakeup'
<1> SUFFICES ASSUME TypeOK, ContextByPlace, FlagsBySocket, DestroyByPlace,
                    NoLostWakeup, [Next]_vars
             PROVE  NoLostWakeup'
  BY ZenonT(60)
<1> USE DEF TypeOK, ContextByPlace, FlagsBySocket, NoLostWakeup, WillWake, NULL,
        queueVars, flagVars, lwsVars, wssVars, sendVars, dtorVars
<1>0. CASE UNCHANGED vars
  BY <1>0, ZenonT(60) DEF vars
<1>1. CASE ThreadStep \/ ServiceError \/ Reconnect
  BY <1>1, ZenonT(60) DEF ThreadStep, CreateContext, Connect, ClearFailedContext,
     LeaveService, ServiceError, DestroyContext, ClearContext,
     ReconnectStopped, Reconnect, SignalExit, ThreadReturn, FreeContext, EndSession
<1>2. CASE EstablishedSendHello \/ EstablishedArm \/ ClientEstablished
  BY <1>2, ZenonT(60) DEF EstablishedSendHello, EstablishedArm, ClientEstablished
<1>3. CASE ClientWriteable
  <2>1. CASE queue_count > 1
    BY <1>3, <2>1, ZenonT(60) DEF ClientWriteable, Remain
  <2>2. CASE ~(queue_count > 1)
    <3>1. queue_count' = 0
      BY <1>3, <2>2, ConnectionAssumption DEF ClientWriteable, Pop, Depth
    <3>2. QED
      BY <3>1
  <2>3. QED
    BY <2>1, <2>2, ZenonT(60)
<1>4. CASE EventWaitCancelled
  BY <1>4, ZenonT(60) DEF EventWaitCancelled
<1>5. CASE EventWaitCancelledArm
  BY <1>5, ZenonT(60) DEF EventWaitCancelledArm, RelayWakeup
<1>6. CASE ClientReceive
  BY <1>6, ZenonT(60) DEF ClientReceive, SendOnWssThread
<1>7. CASE ClientClosed
  BY <1>7, ZenonT(60) DEF ClientClosed, EndSession
<1>8. ASSUME NEW s \in Senders, SendCheck(s) \/ SendStep(s) \/ SendFreed(s)
      PROVE  NoLostWakeup'
  <2>1. CASE SendCheck(s)
    BY <2>1, ZenonT(60) DEF SendCheck
  <2>2. CASE SendEnqueue(s)
    BY <2>2, ZenonT(60) DEF SendEnqueue
  <2>3. CASE SendReadContext(s)
    BY <2>3, ZenonT(60) DEF SendReadContext
  <2>4. CASE SendCancelService(s)
    BY <2>4, ZenonT(60) DEF SendCancelService
  <2>5. CASE SendFreed(s)
    <3>1. ~connected'
      BY <2>5 DEF SendFreed, Allocated, DestroyByPlace
    <3>2. QED
      BY <3>1
  <2>6. QED
    BY <1>8, <2>1, <2>2, <2>3, <2>4, <2>5, ZenonT(60) DEF SendStep
<1>9. CASE DestroyBegin \/ DestroyStep
  BY <1>9, ZenonT(60) DEF DestroyBegin, DestroyStep, DestroyReadContext,
     DestroyCancelService, DestroyExited, DestroyTimeout, DestroyJoin
<1>10. QED
  BY <1>0, <1>1, <1>2, <1>3, <1>4, <1>5, <1>6, <1>7, <1>8, <1>9, ZenonT(60)
     DEF Next, ThreadStep, CallbackStep, NetworkStep, ReconnectStopped

-----------------------------------------------------------------------------
(* The theorems *)

\* The conjunction is an invariant of leo_conn_t.
THEOREM Invariance == Spec => []IInv
<1>1. IInv /\ [Next]_vars => IInv'
  BY TypeStep, ContextStep, SocketStep, DestroyOrder, WakeupStep, ZenonT(60)
     DEF IInv, FlagTypes, TypeOK
<1>2. QED
  BY InitIInv, <1>1, PTL DEF Spec

\* Every field and program counter of the connection keeps its type; in
\* particular the ring indices stay in the ring.
THEOREM TypeCorrect == Spec => []TypeOK
<1>1. IInv => TypeOK
  BY DEF IInv
<1>2. QED
  BY Invariance, <1>1, PTL

\* However senders and callbacks interleave, a message that waits behind a
\* working session has somebody bound to have it written.
THEOREM NoWakeupIsLost == Spec => []NoLostWakeup
<1>1. IInv => NoLostWakeup
  BY DEF IInv
<1>2. QED
  BY Invariance, <1>1, PTL

\* connected, wsi and the socket agree on every path that ends a session.
THEOREM FlagsAgree == Spec => []SessionFlagsAgree
<1>1. IInv => SessionFlagsAgree
  BY DEF IInv, ContextByPlace, FlagsBySocket, SessionFlagsAgree
<1>2. QED
  BY Invariance, <1>1, PTL

\* No libwebsockets context survives the attempt it was created for.
THEOREM ContextsReleased == Spec => []ContextReleased
<1>1. IInv => ContextReleased
  BY DEF IInv, ContextByPlace, ContextReleased
<1>2. QED
  BY Invariance, <1>1, PTL

\* leo_conn_destroy never frees a connection its thread still uses, whatever
\* other threads do inside leo_conn_send.
THEOREM SafeDestroy == Spec => []FreedOnlyAfterExit
<1>1. IInv => FreedOnlyAfterExit
  BY DEF IInv, DestroyByPlace, ContextByPlace, FlagsBySocket, FreedOnlyAfterExit
<1>2. QED
  BY Invariance, <1>1, PTL

-----------------------------------------------------------------------------
(* The ring buffer is a queue *)

\* The remainder below one turn of the ring, and in the second.
LEMMA ModSmall ==
    ASSUME NEW D \in Nat \ {0}, NEW k \in 0 .. D - 1
    PROVE  k % D = k
BY Z3

\* An index one turn past the end of the ring wraps by its depth.
LEMMA ModWrap ==
    ASSUME NEW D \in Nat \ {0}, NEW k \in D .. 2 * D - 1
    PROVE  k % D = k - D
BY Z3

\* One turn of the ring.
LEMMA Wrap ==
    ASSUME NEW k \in 0 .. 2 * Depth - 1
    PROVE  k % Depth = IF k < Depth THEN k ELSE k - Depth
<1>1. Depth \in Nat \ {0}
  BY ConnectionAssumption DEF Depth
<1>2. CASE k < Depth
  BY <1>1, <1>2, ModSmall
<1>3. CASE ~(k < Depth)
  BY <1>1, <1>3, ModWrap
<1>4. QED
  BY <1>2, <1>3

\* The tail index is where the oldest message and the count say.
RingShape == queue_tail = (queue_head + queue_count) % Depth

\* Contents is a sequence as long as the count.
LEMMA ContentsSeq ==
    ASSUME TypeOK
    PROVE  /\ Contents \in Seq(Msg \cup {NoMsg})
           /\ Len(Contents) = queue_count
           /\ DOMAIN Contents = 1 .. queue_count
           /\ \A i \in 1 .. queue_count :
                 /\ (queue_head + i - 1) % Depth \in 0 .. Depth - 1
                 /\ Contents[i] = send_queue[(queue_head + i - 1) % Depth]
<1>1. queue_count \in Nat /\ queue_head \in Nat
  BY ConnectionAssumption DEF TypeOK, Depth
<1>2. \A i \in 1 .. queue_count : (queue_head + i - 1) % Depth \in 0 .. Depth - 1
  <2>1. \A i \in 1 .. queue_count : queue_head + i - 1 \in Nat
    BY <1>1, SMTT(60)
  <2>2. QED
    BY <2>1, RingIndex
<1>3. \A i \in 1 .. queue_count :
         send_queue[(queue_head + i - 1) % Depth] \in Msg \cup {NoMsg}
  BY <1>2, ZenonT(60) DEF TypeOK
<1>4. QED
  BY <1>1, <1>2, <1>3, SMTT(60) DEF Contents

\* Two offsets within one turn of the ring name two slots.
LEMMA SlotsDistinct ==
    ASSUME NEW h \in 0 .. Depth - 1, NEW i \in Nat, NEW j \in 0 .. Depth - 1,
           i < j
    PROVE  (h + i) % Depth # (h + j) % Depth
<1>1. Depth \in Nat \ {0}
  BY ConnectionAssumption DEF Depth
<1>2. h + i \in 0 .. 2 * Depth - 1 /\ h + j \in 0 .. 2 * Depth - 1
  BY <1>1
<1>3. QED
  BY <1>1, <1>2, Wrap

\* Push appends: the slot written is none of the slots in use.
LEMMA PushContents ==
    ASSUME TypeOK, RingShape, NEW m \in Msg, ~QueueFull, Push(m)
    PROVE  /\ Contents' = Append(Contents, m)
           /\ Len(Contents) < Depth
           /\ RingShape'
<1>1. /\ Depth \in Nat \ {0} /\ queue_count \in 0 .. Depth - 1
      /\ queue_head \in 0 .. Depth - 1 /\ queue_tail \in 0 .. Depth - 1
      /\ queue_head' = queue_head /\ queue_count' = queue_count + 1
      /\ send_queue' = [send_queue EXCEPT ![queue_tail] = m]
  BY ConnectionAssumption DEF TypeOK, Depth, QueueFull, Push
<1>2. Contents' = [i \in 1 .. queue_count + 1 |->
                      send_queue'[(queue_head + i - 1) % Depth]]
  BY <1>1 DEF Contents
<1>3. ASSUME NEW i \in 1 .. queue_count
      PROVE  Contents'[i] = Contents[i]
  <2>1. (queue_head + (i - 1)) % Depth # (queue_head + queue_count) % Depth
    BY <1>1, SlotsDistinct
  <2>2. queue_head + (i - 1) = queue_head + i - 1
    BY <1>1
  <2>3. (queue_head + i - 1) % Depth # queue_tail
    BY <2>1, <2>2, ZenonT(60) DEF RingShape
  <2>4. send_queue'[(queue_head + i - 1) % Depth]
            = send_queue[(queue_head + i - 1) % Depth]
    BY <1>1, <2>3, ContentsSeq, ZenonT(60) DEF TypeOK
  <2>5. QED
    BY <1>1, <1>2, <2>4, ContentsSeq, SMTT(60)
<1>4. Contents'[queue_count + 1] = m
  <2>1. queue_head + (queue_count + 1) - 1 = queue_head + queue_count
    BY <1>1, SMTT(60)
  <2>2. send_queue'[(queue_head + queue_count) % Depth] = m
    BY <1>1, ZenonT(60) DEF RingShape, TypeOK
  <2>3. QED
    BY <1>1, <1>2, <2>1, <2>2
<1>5. Contents' = Append(Contents, m)
  <2>1. Contents \in Seq(Msg \cup {NoMsg}) /\ Len(Contents) = queue_count
    BY ContentsSeq, SMTT(60)
  <2>2. /\ Append(Contents, m) \in Seq(Msg \cup {NoMsg})
        /\ Len(Append(Contents, m)) = queue_count + 1
        /\ \A i \in 1 .. queue_count : Append(Contents, m)[i] = Contents[i]
        /\ Append(Contents, m)[queue_count + 1] = m
    BY <2>1, AppendProperties, SMTT(60)
  <2>3. \A i \in 1 .. queue_count + 1 : Contents'[i] = Append(Contents, m)[i]
    BY <1>1, <1>3, <1>4, <2>2, SMTT(60)
  <2>4. \A i \in 1 .. queue_count + 1 : Contents'[i] \in Msg \cup {NoMsg}
    BY <1>1, <1>3, <1>4, <2>1, SMTT(60)
  <2>5. Contents' \in Seq(Msg \cup {NoMsg}) /\ Len(Contents') = queue_count + 1
    BY <1>1, <1>2, <2>4, SMTT(60)
  <2>6. QED
    BY <2>2, <2>3, <2>5, SeqEqual, SMTT(60)
<1>6. RingShape'
  <2>1. (queue_tail + 1) % Depth = (queue_head + queue_count + 1) % Depth
    BY <1>1, Wrap, SMTT(60) DEF RingShape
  <2>2. QED
    BY <1>1, <2>1 DEF RingShape, Push
<1>7. QED
  BY <1>1, <1>5, <1>6, ContentsSeq

\* Pop removes the oldest message.
LEMMA PopContents ==
    ASSUME TypeOK, RingShape, queue_count > 0, Pop
    PROVE  /\ Contents # << >>
           /\ Head(Contents) = send_queue[queue_head]
           /\ Contents' = Tail(Contents)
           /\ RingShape'
<1>1. /\ Depth \in Nat \ {0} /\ queue_count \in 1 .. Depth
      /\ queue_head \in 0 .. Depth - 1 /\ queue_tail \in 0 .. Depth - 1
      /\ queue_head' = (queue_head + 1) % Depth /\ queue_count' = queue_count - 1
      /\ queue_tail' = queue_tail /\ send_queue' = send_queue
  BY ConnectionAssumption, SMTT(60) DEF TypeOK, Depth, Pop
<1>2. Contents # << >> /\ Head(Contents) = send_queue[queue_head]
  <2>1. (queue_head + 1 - 1) % Depth = queue_head
    BY <1>1, Wrap
  <2>2. QED
    BY <1>1, <2>1, ContentsSeq
<1>3. \A i \in 1 .. queue_count :
         (queue_head' + i - 1) % Depth = (queue_head + i) % Depth
  BY <1>1, Wrap, SMTT(60)
<1>4. Contents' = [i \in 1 .. queue_count - 1 |->
                      send_queue[(queue_head' + i - 1) % Depth]]
  BY <1>1 DEF Contents
<1>5. \A i \in 1 .. queue_count - 1 : Contents'[i] = Contents[i + 1]
  <2> TAKE i \in 1 .. queue_count - 1
  <2>1. Contents'[i] = send_queue[(queue_head + i) % Depth]
    BY <1>1, <1>3, <1>4
  <2>2. i + 1 \in 1 .. queue_count /\ queue_head + (i + 1) - 1 = queue_head + i
    BY <1>1, SMTT(60)
  <2>3. QED
    BY <2>1, <2>2, ContentsSeq
<1>6. Contents' = Tail(Contents)
  <2>1. /\ Contents \in Seq(Msg \cup {NoMsg}) /\ Len(Contents) = queue_count
    BY ContentsSeq
  <2>2. /\ Tail(Contents) \in Seq(Msg \cup {NoMsg})
        /\ Len(Tail(Contents)) = queue_count - 1
        /\ \A i \in 1 .. queue_count - 1 : Tail(Contents)[i] = Contents[i + 1]
    BY <1>2, <2>1, HeadTailProperties, SMTT(60)
  <2>3. \A i \in 1 .. queue_count - 1 : Contents'[i] \in Msg \cup {NoMsg}
    BY <1>1, <1>5, <2>1, SMTT(60)
  <2>4. Contents' \in Seq(Msg \cup {NoMsg}) /\ Len(Contents') = queue_count - 1
    BY <1>1, <1>4, <2>3, SMTT(60)
  <2>5. QED
    BY <1>5, <2>2, <2>4, SeqEqual, SMTT(60)
<1>7. RingShape'
  <2>1. queue_head' + queue_count' = queue_head' + queue_count - 1
    BY <1>1, Wrap, ZenonT(60)
  <2>2. QED
    BY <1>1, <1>3, <2>1 DEF RingShape
<1>8. QED
  BY <1>2, <1>6, <1>7

\* Every step is a step of OutChannel, or one it does not see.
LEMMA ChannelStep ==
    TypeOK /\ RingShape /\ [Next]_vars
        => RingShape' /\ [Channel!Next]_<<Contents, wire>>
<1> SUFFICES ASSUME TypeOK, RingShape, [Next]_vars
             PROVE  RingShape' /\ [Channel!Next]_<<Contents, wire>>
  BY ZenonT(60)
<1> DEFINE Goal == RingShape' /\ [Channel!Next]_<<Contents, wire>>
<1>1. ASSUME UNCHANGED queueVars, UNCHANGED wire
      PROVE  Goal
  <2>1. Contents' = Contents /\ RingShape'
    BY <1>1 DEF queueVars, Contents, RingShape
  <2>2. QED
    BY <1>1, <2>1, SMTT(60)
<1>2. ASSUME NEW m \in Msg, ~QueueFull, Push(m), UNCHANGED wire
      PROVE  Goal
  <2>1. /\ Contents' = Append(Contents, m)
        /\ Len(Contents) < Depth
        /\ RingShape'
    BY <1>2, PushContents
  <2>2. Channel!Accept
    BY <1>2, <2>1 DEF Channel!Accept
  <2>3. QED
    BY <2>1, <2>2 DEF Channel!Next
<1>3. ASSUME NEW m \in Msg, SendOnWssThread(m), UNCHANGED wire
      PROVE  Goal
  BY <1>1, <1>2, <1>3 DEF SendOnWssThread
<1>4. CASE ClientWriteable
  <2>1. CASE queue_count > 0
    <3>1. Pop /\ wire' \in {Append(wire, send_queue[queue_head]), wire}
      BY <1>4, <2>1 DEF ClientWriteable
    <3>2. /\ Contents # << >>
          /\ Head(Contents) = send_queue[queue_head]
          /\ Contents' = Tail(Contents)
          /\ RingShape'
      BY <2>1, <3>1, PopContents, SMTT(60)
    <3>3. Channel!Transmit \/ Channel!Lose
      BY <3>1, <3>2, SMTT(60) DEF Channel!Transmit, Channel!Lose
    <3>4. QED
      BY <3>2, <3>3, SMTT(60) DEF Channel!Next
  <2>2. CASE ~(queue_count > 0)
    BY <1>1, <1>4, <2>2 DEF ClientWriteable
  <2>3. QED
    BY <2>1, <2>2
<1>5. CASE ClientEstablished
  <2>1. UNCHANGED queueVars /\ wire' = << >>
    BY <1>5 DEF ClientEstablished
  <2>2. Contents' = Contents /\ RingShape'
    BY <2>1, SMTT(60) DEF queueVars, Contents, RingShape
  <2>3. QED
    BY <2>1, <2>2, SMTT(60) DEF Channel!Next, Channel!NewSession
<1>6. CASE EstablishedSendHello
  <2>1. HELLO \in Msg
    BY ConnectionAssumption, SMTT(60) DEF HELLO, Msg
  <2>2. QED
    BY <1>1, <1>3, <1>6, <2>1, ZenonT(60) DEF EstablishedSendHello
<1>7. CASE ClientReceive
  <2>1. [from |-> WSS, no |-> nrecv + 1] \in Msg
    BY <1>7, ConnectionAssumption, SMTT(60) DEF ClientReceive, TypeOK, Msg
  <2>2. QED
    BY <1>3, <1>7, <2>1, ZenonT(60) DEF ClientReceive
<1>8. ASSUME NEW s \in Senders, SendEnqueue(s)
      PROVE  Goal
  <2>1. [from |-> s, no |-> nsent[s]] \in Msg
    BY ConnectionAssumption, SMTT(60) DEF TypeOK, Msg
  <2>2. QED
    BY <1>1, <1>2, <1>8, <2>1, ZenonT(60) DEF SendEnqueue
<1>9. CASE ThreadStep
  BY <1>1, <1>9, ZenonT(60) DEF ThreadStep, CreateContext, Connect, ClearFailedContext,
     LeaveService, DestroyContext, ClearContext, ReconnectStopped,
     Reconnect, SignalExit, ThreadReturn
<1>10. CASE EstablishedArm \/ EventWaitCancelled \/ EventWaitCancelledArm
            \/ ClientClosed \/ ServiceError \/ Reconnect
  BY <1>1, <1>10, ZenonT(60) DEF EstablishedArm, EventWaitCancelled, EventWaitCancelledArm,
     ClientClosed, ServiceError, Reconnect
<1>11. ASSUME NEW s \in Senders,
              SendCheck(s) \/ SendReadContext(s) \/ SendCancelService(s)
                 \/ SendFreed(s)
       PROVE  Goal
  BY <1>1, <1>11, ZenonT(60) DEF SendCheck, SendReadContext, SendCancelService,
     SendFreed
<1>12. CASE DestroyBegin \/ DestroyStep
  BY <1>1, <1>12, ZenonT(60) DEF DestroyBegin, DestroyStep, DestroyReadContext,
     DestroyCancelService, DestroyExited, DestroyTimeout, DestroyJoin
<1>13. CASE UNCHANGED vars
  BY <1>1, <1>13 DEF vars
<1>14. QED
  BY <1>4, <1>5, <1>6, <1>7, <1>8, <1>9, <1>10, <1>11, <1>12, <1>13, SMTT(60)
     DEF Next, CallbackStep, NetworkStep, SendStep

\* The send queue of connection.c implements OutChannel: whatever the threads
\* do, messages are accepted and leave in the order of a bounded queue.
THEOREM ConnectionIsChannel == Spec => ImplementsChannel
<1>1. Init => RingShape /\ Channel!Init
  <2> SUFFICES ASSUME Init PROVE RingShape /\ Channel!Init
    OBVIOUS
  <2>1. Depth \in Nat \ {0}
    BY ConnectionAssumption, ZenonT(60) DEF Depth
  <2>2. RingShape
    BY <2>1, Wrap, SMTT(60) DEF Init, RingShape
  <2>3. Contents = << >>
    BY DEF Init, Contents
  <2>4. QED
    BY <2>2, <2>3 DEF Init, Channel!Init
<1>2. QED
  BY TypeCorrect, ChannelStep, <1>1, PTL
     DEF Spec, ImplementsChannel, Channel!Spec
=============================================================================
