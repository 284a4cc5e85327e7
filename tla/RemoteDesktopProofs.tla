------------------------ MODULE RemoteDesktopProofs ------------------------
(***************************************************************************)
(* Proofs about remote desktop sessions, for any number of them: the relay *)
(* of the server (Relay), then the agent's side (RemoteDesktopSession).    *)
(*                                                                         *)
(* As long as the server has neither restarted nor failed to write an end, *)
(* a session that was announced is in the registry until its end begins    *)
(* (Announced), so StopSession only finds it unknown once it is ending     *)
(* (StopFound); before it is announced nothing can end it (Unannounced).   *)
(* A row that has ended therefore belongs to a session whose end has begun *)
(* (RowEnds), which the registry and attach know of (EndLeaves).           *)
(*                                                                         *)
(* On the agent, that one session is active at a time is inductive once it *)
(* is known that the session leo_rd_start has put in g_rd_ctx is not yet   *)
(* running and stays there until its thread is created (Starting).         *)
(***************************************************************************)
EXTENDS Relay, RemoteDesktopSession, TLAPS

-----------------------------------------------------------------------------
(* The relay *)

Unannounced(s) ==
    creator[s] \in {"idle", "create", "register"} =>
        /\ ending[s] = "no" /\ timer[s] = "off" /\ stop[s] = "idle"
        /\ s \notin registered \cup pump \cup offline
        /\ row[s] # "ended"
        /\ \A d \in Sides : handler[s][d] = "idle"

Announced(s) ==
    creator[s] \in {"send", "sent", "end", "failed"} => s \in registered \/ ending[s] # "no"

StopFound(s) ==
    /\ stop[s] # "idle" => creator[s] = "sent"
    /\ stop[s] = "mark" => ending[s] # "no"

RowEnds(s) == row[s] = "ended" => ending[s] # "no"

EndLeaves(s) ==
    /\ ending[s] # "no" => s \notin registered
    /\ ending[s] \in {"mark", "done"} => open[s] = {}

Sound(s) == Unannounced(s) /\ Announced(s) /\ StopFound(s) /\ RowEnds(s) /\ EndLeaves(s)

SoundUntilFailure == failures = 0 => \A s \in Sessions : Sound(s)

IInv == TypeOK /\ SoundUntilFailure

\* A server with no sessions satisfies the inductive invariant.
LEMMA InitInv == Init => IInv
  <1> SUFFICES ASSUME Init PROVE IInv
    OBVIOUS
  <1>1. TypeOK
    BY RelayAssumption DEF Init, TypeOK, Sides
  <1>2. SoundUntilFailure
    BY DEF Init, SoundUntilFailure, Sound, Unannounced, Announced, StopFound, RowEnds, EndLeaves
  <1> QED
    BY <1>1, <1>2 DEF IInv

\* The body of end keeps the types of what it writes.
LEMMA EndTypes ==
    ASSUME TypeOK, NEW s \in Sessions, EndBegins(s)
    PROVE  /\ registered' \subseteq Sessions
           /\ ending' \in [Sessions -> {"no", "close", "mark", "done"}]
  BY ZenonT(60) DEF TypeOK, EndBegins

\* MarkEnded keeps every row in one of its states.
LEMMA MarkTypes ==
    ASSUME TypeOK, NEW s \in Sessions, MarkEnded(s)
    PROVE  row' \in [Sessions -> {"none", "pending", "active", "ended"}]
  BY DEF TypeOK, MarkEnded

\* attach keeps the types of the live session.
LEMMA AttachTypes ==
    ASSUME TypeOK, NEW s \in Sessions, NEW d \in Sides, Attach(s, d)
    PROVE  TypeOK'
  <1> USE DEF TypeOK
  <1>1. handler' \in [Sessions -> [Sides -> {"idle", "attach", "done"}]]
    BY DEF Attach
  <1>2. UNCHANGED <<row, expired, consumed, creator, offline, stop, failures>>
    BY DEF Attach, table
  <1>3. CASE Refused(s)
    BY <1>1, <1>2, <1>3 DEF Attach, live
  <1>4. CASE ~Refused(s)
    <2>1. /\ registered' = registered \cup {s} /\ pump' \in {pump, pump \cup {s}}
          /\ ending' = [ending EXCEPT ![s] = "no"]
          /\ timer' \in {timer, [timer EXCEPT ![s] = "armed"]}
          /\ slot' = [slot EXCEPT ![s] = @ \cup {d}]
          /\ open' = [open EXCEPT ![s] = @ \cup {d}]
      BY <1>4, Zenon DEF Attach, Arm, Keep
    <2>2. /\ registered' \subseteq Sessions /\ pump' \subseteq Sessions
          /\ timer' \in [Sessions -> {"off", "armed", "end", "done"}]
          /\ ending' \in [Sessions -> {"no", "close", "mark", "done"}]
      BY <2>1, ZenonT(60)
    <2>3. slot' \in [Sessions -> SUBSET Sides] /\ open' \in [Sessions -> SUBSET Sides]
      BY <2>1
    <2>4. \A t \in Sessions : open'[t] \subseteq slot'[t]
      BY <2>1
    <2> QED
      BY <1>1, <1>2, <2>2, <2>3, <2>4
  <1> QED
    BY <1>3, <1>4

\* Every step of the relay and its handlers keeps the types.
LEMMA TypeStep == TypeOK /\ Next => TypeOK'
  <1> SUFFICES ASSUME TypeOK, Next PROVE TypeOK'
    OBVIOUS
  <1> USE RelayAssumption
  <1>1. ASSUME NEW s \in Sessions,
               \/ CheckActive(s) \/ Create(s) \/ Register(s) \/ SendStart(s)
               \/ Expire(s) \/ TimerFires(s) \/ StopFinds(s) \/ StopLookup(s)
        PROVE  TypeOK'
    <2>1. CASE CheckActive(s)
      BY <2>1 DEF TypeOK, CheckActive, table, live, enders
    <2>2. CASE Create(s)
      BY <2>2, ZenonT(60) DEF TypeOK, Create, live, enders
    <2>3. CASE Register(s)
      BY <2>3 DEF TypeOK, Register, Arm, table
    <2>4. CASE SendStart(s)
      BY <2>4 DEF TypeOK, SendStart, table, live, enders
    <2>5. CASE Expire(s)
      BY <2>5 DEF TypeOK, Expire, live, enders
    <2>6. CASE TimerFires(s)
      BY <2>6 DEF TypeOK, TimerFires, table, live
    <2>7. CASE StopFinds(s)
      BY <2>7 DEF TypeOK, StopFinds, table, live
    <2>8. CASE StopLookup(s)
      BY <2>8 DEF TypeOK, StopLookup, table, live
    <2> QED
      BY <1>1, <2>1, <2>2, <2>3, <2>4, <2>5, <2>6, <2>7, <2>8
  <1>2. ASSUME NEW s \in Sessions, EndCloses(s) PROVE TypeOK'
    BY <1>2 DEF TypeOK, EndCloses, table
  <1>3. ASSUME NEW s \in Sessions, EndMarks(s) PROVE TypeOK'
    <2>1. row' \in [Sessions -> {"none", "pending", "active", "ended"}]
      BY <1>3, MarkTypes DEF EndMarks, TypeOK
    <2>2. failures' \in 0 .. MaxFailures
      BY <1>3 DEF EndMarks, TypeOK
    <2> QED
      BY <1>3, <2>1, <2>2, ZenonT(60) DEF TypeOK, EndMarks, live
  <1>4. ASSUME NEW s \in Sessions, StopMarks(s) PROVE TypeOK'
    <2>1. row' \in [Sessions -> {"none", "pending", "active", "ended"}]
      BY <1>4, MarkTypes DEF StopMarks, TypeOK
    <2>2. failures' \in 0 .. MaxFailures
      BY <1>4 DEF StopMarks, TypeOK
    <2> QED
      BY <1>4, <2>1, <2>2, ZenonT(60) DEF TypeOK, StopMarks, live
  <1>5. ASSUME NEW s \in Sessions,
               CreatorEnds(s) \/ TimerEnds(s) \/ PumpEnds(s) \/ OfflineEnds(s) \/ StopEnds(s)
        PROVE  TypeOK'
    <2>1. /\ registered' \subseteq Sessions
          /\ ending' \in [Sessions -> {"no", "close", "mark", "done"}]
      BY <1>5, EndTypes DEF CreatorEnds, TimerEnds, PumpEnds, OfflineEnds, StopEnds, TypeOK
    <2>2. CASE CreatorEnds(s)
      BY <2>1, <2>2 DEF TypeOK, CreatorEnds, table
    <2>3. CASE TimerEnds(s)
      BY <2>1, <2>3 DEF TypeOK, TimerEnds, table
    <2>4. CASE PumpEnds(s)
      BY <2>1, <2>4 DEF TypeOK, PumpEnds, table
    <2>5. CASE OfflineEnds(s)
      BY <2>1, <2>5 DEF TypeOK, OfflineEnds, table
    <2>6. CASE StopEnds(s)
      BY <2>1, <2>6 DEF TypeOK, StopEnds, table
    <2> QED
      BY <1>5, <2>2, <2>3, <2>4, <2>5, <2>6
  <1>6. ASSUME NEW s \in Sessions, NEW d \in Sides, Consume(s, d) PROVE TypeOK'
    BY <1>6 DEF TypeOK, Consume, ConsumeToken, live, enders
  <1>7. ASSUME NEW s \in Sessions, NEW d \in Sides, PeerCloses(s, d) PROVE TypeOK'
    BY <1>7 DEF TypeOK, PeerCloses, table, enders
  <1>8. CASE AgentOffline
    BY <1>8 DEF TypeOK, AgentOffline, table, live
  <1>9. CASE Crash
    BY <1>9 DEF TypeOK, Crash, table
  <1> QED
    BY <1>1, <1>2, <1>3, <1>4, <1>5, <1>6, <1>7, <1>8, <1>9, AttachTypes DEF Next, ServerStep

\* Failures are counted: a step that ends with none began with none.
LEMMA FailuresGrow ==
    ASSUME TypeOK, Next, failures' = 0
    PROVE  failures = 0 /\ ~Crash
  <1>1. failures \in Nat
    BY RelayAssumption DEF TypeOK
  <1>2. failures' = failures \/ failures' = failures + 1
    <2>1. ASSUME NEW s \in Sessions, EndMarks(s) \/ StopMarks(s)
          PROVE  failures' = failures \/ failures' = failures + 1
      BY <2>1 DEF EndMarks, StopMarks
    <2>2. ASSUME NEW s \in Sessions,
                 \/ CheckActive(s) \/ Create(s) \/ Register(s) \/ SendStart(s)
                 \/ Expire(s) \/ TimerFires(s) \/ StopFinds(s) \/ StopLookup(s)
          PROVE  failures' = failures
      BY <2>2 DEF CheckActive, Create, Register, SendStart, Expire, TimerFires, StopFinds,
         StopLookup
    <2>3. ASSUME NEW s \in Sessions,
                 \/ EndCloses(s) \/ CreatorEnds(s) \/ TimerEnds(s) \/ PumpEnds(s)
                 \/ OfflineEnds(s) \/ StopEnds(s)
          PROVE  failures' = failures
      BY <2>3 DEF EndCloses, CreatorEnds, TimerEnds, PumpEnds, OfflineEnds, StopEnds
    <2>4. ASSUME NEW s \in Sessions, NEW d \in Sides,
                 Consume(s, d) \/ PeerCloses(s, d) \/ Attach(s, d)
          PROVE  failures' = failures
      BY <2>4 DEF Consume, PeerCloses, Attach
    <2>5. CASE AgentOffline \/ Crash
      BY <2>5 DEF AgentOffline, Crash
    <2> QED
      BY <2>1, <2>2, <2>3, <2>4, <2>5 DEF Next, ServerStep
  <1>3. failures' # failures + 1
    BY <1>1, SMTT(60)
  <1> QED
    BY <1>2, <1>3 DEF Crash

\* The steps that bring a session to its announcement.
LEMMA CreatorSound ==
    ASSUME TypeOK, NEW s \in Sessions, NEW t \in Sessions, Sound(t),
           CheckActive(s) \/ Create(s) \/ Register(s) \/ SendStart(s) \/ Expire(s)
    PROVE  Sound(t)'
  <1> USE DEF Sound, Unannounced, Announced, StopFound, RowEnds, EndLeaves
  <1>1. CASE CheckActive(s)
    BY <1>1 DEF TypeOK, CheckActive, table, live, enders
  <1>2. CASE Create(s)
    BY <1>2 DEF TypeOK, Create, live, enders
  <1>3. CASE Register(s)
    BY <1>3 DEF TypeOK, Register, Arm, table
  <1>4. CASE SendStart(s)
    BY <1>4 DEF TypeOK, SendStart, table, live, enders
  <1>5. CASE Expire(s)
    BY <1>5, ZenonT(60) DEF TypeOK, Expire, live, enders
  <1> QED
    BY <1>1, <1>2, <1>3, <1>4, <1>5

\* The callers of end, and its body.
LEMMA EnderSound ==
    ASSUME TypeOK, NEW s \in Sessions, NEW t \in Sessions, Sound(s), Sound(t), failures' = failures,
           \/ CreatorEnds(s) \/ TimerEnds(s) \/ PumpEnds(s) \/ OfflineEnds(s) \/ StopEnds(s)
           \/ EndCloses(s) \/ EndMarks(s)
           \/ TimerFires(s) \/ StopFinds(s) \/ StopLookup(s) \/ StopMarks(s)
    PROVE  Sound(t)'
  <1> USE DEF Sound, Unannounced, Announced, StopFound, RowEnds, EndLeaves
  <1>1. CASE CreatorEnds(s)
    BY <1>1, SMTT(60) DEF TypeOK, CreatorEnds, EndBegins, table
  <1>2. CASE TimerEnds(s)
    BY <1>2, SMTT(60) DEF TypeOK, TimerEnds, EndBegins, table
  <1>3. CASE PumpEnds(s)
    BY <1>3, SMTT(60) DEF TypeOK, PumpEnds, EndBegins, table
  <1>4. CASE OfflineEnds(s)
    BY <1>4, SMTT(60) DEF TypeOK, OfflineEnds, EndBegins, table
  <1>5. CASE StopEnds(s)
    BY <1>5, SMTT(60) DEF TypeOK, StopEnds, EndBegins, table
  <1>6. CASE EndCloses(s)
    BY <1>6, SMTT(60) DEF TypeOK, EndCloses, table
  <1>7. CASE EndMarks(s)
    BY <1>7, SMTT(60) DEF TypeOK, EndMarks, MarkEnded, live
  <1>8. CASE TimerFires(s)
    BY <1>8, SMTT(60) DEF TypeOK, TimerFires, table, live
  <1>9. CASE StopFinds(s) \/ StopLookup(s)
    BY <1>9, SMTT(60) DEF TypeOK, StopFinds, StopLookup, table, live
  <1>10. CASE StopMarks(s)
    BY <1>10, ZenonT(60) DEF TypeOK, StopMarks, MarkEnded, live
  <1> QED
    BY <1>1, <1>2, <1>3, <1>4, <1>5, <1>6, <1>7, <1>8, <1>9, <1>10, ZenonT(60)

\* The handlers of the two WebSocket routes, and their peers.
LEMMA HandlerSound ==
    ASSUME TypeOK, NEW s \in Sessions, NEW d \in Sides, NEW t \in Sessions, Sound(s), Sound(t),
           Consume(s, d) \/ Attach(s, d) \/ PeerCloses(s, d)
    PROVE  Sound(t)'
  <1> USE DEF Sound, Unannounced, Announced, StopFound, RowEnds, EndLeaves
  <1>1. CASE Consume(s, d)
    BY <1>1, SMTT(60) DEF TypeOK, Consume, ConsumeToken, Valid, live, enders
  <1>2. CASE Attach(s, d) /\ Refused(s)
    BY <1>2, ZenonT(60) DEF TypeOK, Attach, table, live
  <1>3. CASE Attach(s, d) /\ ~Refused(s)
    <2>1. /\ registered' = registered \cup {s} /\ pump' \in {pump, pump \cup {s}}
          /\ ending' = [ending EXCEPT ![s] = "no"]
          /\ timer' \in {timer, [timer EXCEPT ![s] = "armed"]}
          /\ open' = [open EXCEPT ![s] = @ \cup {d}]
          /\ handler' = [handler EXCEPT ![s][d] = "done"]
      BY <1>3, ZenonT(60) DEF Attach, Arm
    <2>3. UNCHANGED <<row, creator, offline, stop>>
      BY <1>3, SMTT(60) DEF Attach, table
    <2>2. ending[s] = "no" /\ handler[s][d] = "attach"
      BY <1>3, SMTT(60) DEF Attach, Refused
    <2> QED
      BY <2>1, <2>2, <2>3 DEF TypeOK
  <1>4. CASE PeerCloses(s, d)
    BY <1>4 DEF TypeOK, PeerCloses, table, enders
  <1> QED
    BY <1>1, <1>2, <1>3, <1>4, ZenonT(60)

\* Every step keeps the sessions sound as long as nothing has failed.
LEMMA SoundStep == TypeOK /\ SoundUntilFailure /\ Next => SoundUntilFailure'
  <1> SUFFICES ASSUME TypeOK, SoundUntilFailure, Next, failures' = 0, NEW t \in Sessions
               PROVE  Sound(t)'
    BY DEF SoundUntilFailure
  <1>1. failures = 0 /\ ~Crash
    BY FailuresGrow
  <1>2. \A s \in Sessions : Sound(s)
    BY <1>1 DEF SoundUntilFailure
  <1>3. CASE AgentOffline
    BY <1>2, <1>3 DEF AgentOffline, table, live, Sound, Unannounced, Announced, StopFound,
       RowEnds, EndLeaves
  <1> QED
    BY <1>1, <1>2, <1>3, CreatorSound, EnderSound, HandlerSound DEF Next, ServerStep

\* Every step keeps the inductive invariant.
LEMMA StepInv == IInv /\ [Next]_vars => IInv'
  <1> SUFFICES ASSUME IInv, [Next]_vars PROVE IInv'
    OBVIOUS
  <1>1. CASE Next
    BY <1>1, TypeStep, SoundStep DEF IInv
  <1>2. CASE UNCHANGED vars
    <2>1. TypeOK'
      BY <1>2 DEF IInv, TypeOK, vars, table, live, enders
    <2>2. SoundUntilFailure'
      BY <1>2 DEF IInv, SoundUntilFailure, Sound, Unannounced, Announced, StopFound, RowEnds,
         EndLeaves, vars, table, live, enders
    <2> QED
      BY <2>1, <2>2 DEF IInv
  <1> QED
    BY <1>1, <1>2

\* The inductive invariant holds in every reachable state.
LEMMA Inductive == Spec => []IInv
  BY InitInv, StepInv, PTL DEF Spec

\* The variables of the relay keep their types; every open connection is known to
\* its session.
THEOREM TypeCorrect == Spec => []TypeOK
  <1>1. IInv => TypeOK
    BY DEF IInv
  <1> QED
    BY <1>1, Inductive, PTL

\* Until the server restarts, a session that has ended in the table is out of the
\* relay and its connections are closed or being closed: Register and the
\* tombstones of attach leave no window in which a late upgrade revives it.
THEOREM EndIsFinal == Spec => []EndedStaysEnded
  <1>1. IInv => EndedStaysEnded
    BY ZenonT(60) DEF IInv, TypeOK, SoundUntilFailure, Sound, RowEnds, EndLeaves, EndedStaysEnded
  <1> QED
    BY <1>1, Inductive, PTL

-----------------------------------------------------------------------------
(* The agent *)

\* Between the first section of leo_rd_start and pthread_create.
Starting ==
    wss \in {"flag", "create"} =>
        started \in RdSessions /\ g_rd_ctx = started /\ thread[started] = "none"

\* Without the flag and the sessions' reports, on which no step depends.
AgentWords ==
    /\ g_rd_ctx \in RdSessions \cup {NULL}
    /\ wss \in {"idle", "flag", "create", "unflag", "wait", "blocked", "exited"}
    /\ started \in RdSessions \cup {NULL}
    /\ main \in {"run", "wait", "blocked", "conn_destroy", "leaked", "freed"}
    /\ thread \in [RdSessions -> {"none", "refused", "init", "loop", "cleanup",
                                  "clear", "exit", "gone"}]
    /\ should_stop \subseteq RdSessions /\ done \subseteq RdSessions

Slot == AgentWords /\ Starting /\ OneSession /\ ContextHasThread

AgentEnds ==
    /\ held \in [RdSessions -> SUBSET {"capture", "input"}]
    /\ reports \in [RdSessions -> Nat]
    /\ EndsClean

AgentInv == g_rd_thread_running \in BOOLEAN /\ Slot /\ AgentEnds

\* An agent with no session satisfies the inductive invariant.
LEMMA AgentInit == RdInit => AgentInv
  <1> SUFFICES ASSUME RdInit PROVE AgentInv
    OBVIOUS
  <1>1. g_rd_thread_running \in BOOLEAN
    BY ZenonT(60) DEF RdInit
  <1>2. Slot
    BY DEF RdInit, Slot, AgentWords, Starting, OneSession, ContextHasThread,
       Active
  <1>3. AgentEnds
    BY DEF RdInit, AgentEnds, EndsClean
  <1> QED
    BY <1>1, <1>2, <1>3 DEF AgentInv

\* The flag stays a Boolean.
LEMMA FlagStep ==
    g_rd_thread_running \in BOOLEAN /\ RdNext => g_rd_thread_running' \in BOOLEAN
  BY ZenonT(60) DEF RdNext, ThreadStep, WssStep, Start, StartFlag,
     CreateThread, CreateFails, CreateFailsFlag, Stop, StopAll, WssWait,
     MainWait, WssTimeout, MainTimeout, WssExit, Free, ThreadInit, Established,
     SessionOver, Deadline, LeaveLoop, ServiceError, Cleanup, ClearContext,
     ThreadExit, globals

\* Each step of the callers keeps the place of the session consistent.
LEMMA CallerSlot ==
    ASSUME Slot,
           \/ \E s \in RdSessions : Start(s)
           \/ WssStep
           \/ Stop \/ StopAll
           \/ MainWait \/ MainTimeout \/ WssExit \/ Free
    PROVE  Slot'
  <1> USE SessionAssumption
     DEF Slot, AgentWords, Starting, OneSession, ContextHasThread, Active
  <1>1. ASSUME NEW s \in RdSessions, Start(s) PROVE Slot'
    BY <1>1 DEF Start, MayStart
  <1>2. CASE StartFlag
    BY <1>2 DEF StartFlag, session
  <1>3. CASE CreateThread
    BY <1>3 DEF CreateThread, globals
  <1>4. CASE CreateFails
    BY <1>4 DEF CreateFails, Withdraw
  <1>5. CASE CreateFailsFlag \/ WssWait \/ WssTimeout \/ WssExit
    BY <1>5 DEF CreateFailsFlag, WssWait, WssTimeout, WssExit, session,
       globals
  <1>6. CASE Stop
    BY <1>6 DEF Stop, ActiveSession, globals
  <1>7. CASE StopAll
    BY <1>7 DEF StopAll, ActiveSession, globals
  <1>8. CASE MainWait \/ MainTimeout \/ Free
    BY <1>8 DEF MainWait, MainTimeout, Free, session, globals
  <1> QED
    BY <1>1, <1>2, <1>3, <1>4, <1>5, <1>6, <1>7, <1>8 DEF WssStep

\* So does each step of a session thread.
LEMMA ThreadSlot ==
    ASSUME Slot, NEW s \in RdSessions,
           \/ ThreadStep(s) \/ Established(s) \/ SessionOver(s)
           \/ Deadline(s) \/ ServiceError(s)
    PROVE  Slot'
  <1> USE SessionAssumption
     DEF Slot, AgentWords, Starting, OneSession, ContextHasThread, Active
  <1>1. CASE ThreadInit(s) \/ LeaveLoop(s) \/ ServiceError(s)
    BY <1>1 DEF ThreadInit, LeaveLoop, ServiceError, globals, callers
  <1>2. CASE Cleanup(s)
    BY <1>2 DEF Cleanup, globals, callers
  <1>3. CASE ClearContext(s)
    BY <1>3 DEF ClearContext, callers
  <1>4. CASE ThreadExit(s)
    BY <1>4 DEF ThreadExit
  <1>5. CASE Established(s) \/ SessionOver(s) \/ Deadline(s)
    BY <1>5 DEF Established, SessionOver, Deadline, Expired, globals, callers
  <1> QED
    BY <1>1, <1>2, <1>3, <1>4, <1>5 DEF ThreadStep

\* Handles and reports follow the thread of their session.
LEMMA AgentEndsStep ==
    ASSUME Slot, AgentEnds, RdNext
    PROVE  AgentEnds'
  <1> USE DEF Slot, AgentWords, AgentEnds, EndsClean
  <1>1. ASSUME NEW s \in RdSessions, Start(s) PROVE AgentEnds'
    BY <1>1 DEF Start
  <1>2. CASE CreateThread \/ CreateFails
    BY <1>2 DEF CreateThread, CreateFails, Starting
  <1>3. CASE StartFlag \/ CreateFailsFlag \/ WssWait \/ WssTimeout
    BY <1>3 DEF StartFlag, CreateFailsFlag, WssWait, WssTimeout, session
  <1>4. CASE \/ Stop \/ StopAll
             \/ MainWait \/ MainTimeout \/ WssExit \/ Free
    BY <1>4 DEF Stop, StopAll, MainWait, MainTimeout, WssExit, Free, session
  <1>5. ASSUME NEW s \in RdSessions,
               ThreadInit(s) \/ LeaveLoop(s) \/ ServiceError(s)
        PROVE  AgentEnds'
    BY <1>5 DEF ThreadInit, LeaveLoop, ServiceError, Report
  <1>6. ASSUME NEW s \in RdSessions, Established(s) PROVE AgentEnds'
    BY <1>6 DEF Established
  <1>7. ASSUME NEW s \in RdSessions, SessionOver(s) \/ Deadline(s) PROVE AgentEnds'
    BY <1>7 DEF SessionOver, Deadline
  <1>8. ASSUME NEW s \in RdSessions, Cleanup(s) PROVE AgentEnds'
    BY <1>8 DEF Cleanup, Release
  <1>9. ASSUME NEW s \in RdSessions, ClearContext(s) \/ ThreadExit(s) PROVE AgentEnds'
    BY <1>9 DEF ClearContext, ThreadExit
  <1> QED
    BY <1>1, <1>2, <1>3, <1>4, <1>5, <1>6, <1>7, <1>8, <1>9 DEF RdNext, WssStep,
       ThreadStep

\* Every step of the agent and its session threads keeps the inductive invariant.
LEMMA AgentStep == AgentInv /\ [RdNext]_rdVars => AgentInv'
  <1> SUFFICES ASSUME AgentInv, [RdNext]_rdVars PROVE AgentInv'
    OBVIOUS
  <1>1. CASE RdNext
    <2>1. Slot'
      BY <1>1, CallerSlot, ThreadSlot DEF AgentInv, RdNext
    <2> QED
      BY <1>1, <2>1, FlagStep, AgentEndsStep DEF AgentInv
  <1>2. CASE UNCHANGED rdVars
    <2>1. (g_rd_thread_running \in BOOLEAN)'
      BY <1>2 DEF AgentInv, rdVars, globals
    <2>2. Slot'
      BY <1>2 DEF AgentInv, Slot, AgentWords, Starting, OneSession,
         ContextHasThread, rdVars, globals, callers, session
    <2>3. AgentEnds'
      BY <1>2 DEF AgentInv, AgentEnds, EndsClean, rdVars, session
    <2> QED
      BY <2>1, <2>2, <2>3 DEF AgentInv
  <1> QED
    BY <1>1, <1>2

\* The inductive invariant holds in every reachable state.
LEMMA AgentInductive == RdSpec => []AgentInv
  BY AgentInit, AgentStep, PTL DEF RdSpec

\* Every variable of the agent's session code keeps its type.
THEOREM AgentTypes == RdSpec => []RdTypeOK
  <1>1. AgentInv => RdTypeOK
    BY DEF AgentInv, Slot, AgentWords, AgentEnds, RdTypeOK
  <1> QED
    BY <1>1, AgentInductive, PTL

\* leo_rd_start never lets a second session capture the screen or inject input,
\* however it meets the end of the one before.
THEOREM OneAtATime == RdSpec => []OneSession
  <1>1. AgentInv => OneSession
    BY DEF AgentInv, Slot
  <1> QED
    BY <1>1, AgentInductive, PTL

\* g_rd_ctx is never left behind by a start that failed or a thread that ended.
THEOREM PlaceIsNeverLost == RdSpec => []ContextHasThread
  <1>1. AgentInv => ContextHasThread
    BY DEF AgentInv, Slot
  <1> QED
    BY <1>1, AgentInductive, PTL

\* A session thread reports its end exactly once and closes what it opened.
THEOREM SessionsEndClean == RdSpec => []EndsClean
  <1>1. AgentInv => EndsClean
    BY DEF AgentInv, AgentEnds
  <1> QED
    BY <1>1, AgentInductive, PTL
=============================================================================
