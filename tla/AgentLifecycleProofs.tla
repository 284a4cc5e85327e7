------------------------ MODULE AgentLifecycleProofs ------------------------
(***************************************************************************)
(* Proofs of the safety properties of AgentLifecycle, for every finite set *)
(* of commands and every number of execution slots.                        *)
(*                                                                         *)
(* The inductive invariant has three parts.  Flags types the Boolean       *)
(* fields.  ExecInv ties the slot counter and the answers to where each    *)
(* command is; it needs the fact that the WSS thread holds the slot of the *)
(* command it is launching.  StopInv says that the periodic threads stay   *)
(* ended from the join of leo_agent_stop on.                               *)
(***************************************************************************)
EXTENDS AgentLifecycle, FiniteSetTheorems, TLAPS

Flags ==
    /\ failed \in BOOLEAN
    /\ threads_stop \in BOOLEAN
    /\ force_heartbeat_pending \in BOOLEAN
    /\ should_stop \in BOOLEAN

ExecType ==
    /\ wss \in {"service", "launch", "log", "exited"}
    /\ wss_cmd \in Cmds \cup {NoCmd}
    /\ kind \in [Cmds -> Kinds]
    /\ cmd \in [Cmds -> {"none", "refused", "reserved", "step1", "step2",
                         "report", "release", "done"}]
    /\ hung \subseteq Cmds
    /\ results \in [Cmds -> Nat] /\ unbuilt \subseteq Cmds
    /\ exec_active_count \in Nat

\* The command a dispatcher works on: it holds a slot until it is launched.
Launching ==
    /\ wss \in {"launch", "log"} => wss_cmd \in Cmds
    /\ wss = "launch" => cmd[wss_cmd] = "reserved"

\* A CMD_RESULT is built, or cannot be, only as the command ends.
UnbuiltEnded ==
    \A c \in unbuilt : cmd[c] \in {"refused", "release", "done"}

Answers == AnsweredOnce /\ UnbuiltEnded

ExecInv == ExecType /\ Launching /\ SlotsMatchThreads /\ Answers

Ended == {"absent", "exited"}
AfterJoin == {"exec_wait", "exec_blocked", "rd_stop", "conn_destroy",
              "conn_wait", "freed"}

StopInv ==
    /\ main \in BgThreads \cup {"run", "join", "leaked"} \cup AfterJoin
    /\ bg \in [BgThreads -> {"absent", "top", "enter", "waiting", "awake",
                             "take", "collect", "report", "exited"}]
    /\ main \in AfterJoin => \A t \in BgThreads : bg[t] \in Ended
    /\ main = "freed" => wss = "exited"

IInv == Flags /\ ExecInv /\ StopInv

-----------------------------------------------------------------------------
(* Counting the holders of a slot *)

\* The commands that hold a slot form a finite set.
LEMMA HoldersFinite == IsFiniteSet(Holders)
  BY LifecycleAssumption, FS_Subset DEF Holders

\* A slot that is held is counted.
LEMMA HeldIsCounted ==
    ASSUME SlotsMatchThreads, NEW c \in Cmds, c \in Holders
    PROVE  exec_active_count >= 1
  <1>1. Cardinality(Holders) # 0
    BY HoldersFinite, FS_EmptySet
  <1> QED
    BY <1>1, HoldersFinite, FS_CardinalityType DEF SlotsMatchThreads

\* Taking a slot (_reserve_exec_slot) keeps the count right.
LEMMA TakeSlot ==
    ASSUME SlotsMatchThreads, ~SlotsTaken, NEW c \in Cmds, c \notin Holders,
           Holders' = Holders \cup {c},
           exec_active_count' = exec_active_count + 1
    PROVE  SlotsMatchThreads'
  <1>1. Cardinality(Holders \cup {c}) = Cardinality(Holders) + 1
    BY HoldersFinite, FS_AddElement
  <1>2. Cardinality(Holders) \in Nat
    BY HoldersFinite, FS_CardinalityType
  <1> QED
    BY <1>1, <1>2, LifecycleAssumption DEF SlotsMatchThreads, SlotsTaken

\* Giving a slot back (_release_exec_slot) keeps the count right.
LEMMA GiveSlotBack ==
    ASSUME SlotsMatchThreads, NEW c \in Cmds, c \in Holders,
           Holders' = Holders \ {c},
           exec_active_count' = exec_active_count - 1
    PROVE  SlotsMatchThreads'
  <1>1. Cardinality(Holders \ {c}) = Cardinality(Holders) - 1
    BY HoldersFinite, FS_RemoveElement, ZenonT(60)
  <1>2. Cardinality(Holders) \in Nat
    BY HoldersFinite, FS_CardinalityType
  <1> QED
    BY <1>1, <1>2, LifecycleAssumption DEF SlotsMatchThreads

-----------------------------------------------------------------------------
(* The parts of the invariant *)

\* The Boolean fields of the agent stay Boolean.
LEMMA FlagsStep == Flags /\ Next => Flags'
  <1> SUFFICES ASSUME Flags, Next PROVE Flags'
    OBVIOUS
  <1>1. ASSUME NEW t \in BgThreads, BgStep(t) \/ BgTimeout(t) PROVE Flags'
    BY <1>1, Zenon DEF Flags, BgStep, BgTimeout, LoopTest, EnterSleep, AfterSleep,
       TakeForced, Report, SleepTimeout, mainVars
  <1>2. ASSUME NEW c \in Cmds,
               ExecStep(c) \/ StepHangs(c) \/ \E ok \in BOOLEAN : StepEnds(c, ok)
        PROVE  Flags'
    BY <1>2, Zenon DEF Flags, ExecStep, StepTimesOut, StepEnds, StepHangs, SendResult,
       ThreadEnd, mainVars, wakeVars
  <1>3. ASSUME NEW c \in Cmds, ReceiveInvalid(c) \/ \E k \in KindsOf[c] : Receive(c, k)
        PROVE  Flags'
    BY <1>3, Zenon DEF Flags, ReceiveInvalid, Receive, mainVars, wakeVars
  <1>4. CASE ForceHeartbeat
    BY <1>4, Zenon DEF Flags, ForceHeartbeat, mainVars
  <1>5. CASE WssStep
    BY <1>5, Zenon DEF Flags, WssStep, Spawn, SpawnFails, LogLaunched, WssExit, mainVars, wakeVars
  <1>6. ASSUME NEW t \in BgThreads, CreateThread(t) \/ CreateFails(t) PROVE Flags'
    <2>1. (t # "heartbeat") \in BOOLEAN
      OBVIOUS
    <2> QED
      BY <1>6, <2>1, Zenon DEF Flags, CreateThread, CreateFails
  <1>7. CASE Join \/ CheckExec \/ StopRemoteDesktop \/ DestroyConn \/ Free
    BY <1>7, Zenon DEF Flags, Join, CheckExec, StopRemoteDesktop, DestroyConn, Free, wakeVars
  <1>8. CASE StopBegin \/ ExecTimeout \/ ConnTimeout \/ PatchesCollected
    BY <1>8, Zenon DEF Flags, StopBegin, ExecTimeout, ConnTimeout, PatchesCollected,
       wakeVars, mainVars
  <1> QED
    BY <1>1, <1>2, <1>3, <1>4, <1>5, <1>6, <1>7, <1>8 DEF Next, MainStep

\* Steps that touch neither the commands nor the WSS thread keep ExecInv.
LEMMA ExecUntouched ==
    ExecInv /\ UNCHANGED <<wssVars, execVars>> => ExecInv'
  BY DEF ExecInv, ExecType, Launching, SlotsMatchThreads, SlotsTaken, Holders,
     Answers, AnsweredOnce, UnbuiltEnded, wssVars, execVars, answerVars

\* Reserving, launching, running, answering and releasing keep the slot
\* counter and the answers right.
LEMMA ExecInvStep == ExecInv /\ Next => ExecInv'
  <1> SUFFICES ASSUME ExecInv, Next PROVE ExecInv'
    OBVIOUS
  <1> USE DEF ExecInv
  <1>1. ASSUME NEW c \in Cmds, NEW k \in KindsOf[c], Receive(c, k) PROVE ExecInv'
    <2>0. k \in Kinds
      BY LifecycleAssumption
    <2>1. CASE SlotsTaken
      <3>1. ExecType' /\ Launching' /\ Answers'
        BY <1>1, <2>0, <2>1 DEF Receive, ExecType, Launching, Answers, AnsweredOnce, UnbuiltEnded, answerVars, AnswerRefused, Answer, wssVars
      <3>2. Holders' = Holders
        BY <1>1, <2>1 DEF Receive, ExecType, Holders, Running
      <3> QED
        BY <1>1, <2>1, <3>1, <3>2 DEF Receive, SlotsMatchThreads
    <2>2. CASE ~SlotsTaken
      <3>1. ExecType' /\ Launching' /\ Answers'
        BY <1>1, <2>0, <2>2 DEF Receive, ExecType, Launching, Answers, AnsweredOnce, UnbuiltEnded, answerVars
      <3>2. Holders' = Holders \cup {c} /\ c \notin Holders
        BY <1>1, <2>2 DEF Receive, ExecType, Holders, Running
      <3> QED
        BY <1>1, <2>2, <3>1, <3>2, TakeSlot DEF Receive
    <2> QED
      BY <2>1, <2>2
  <1>2. ASSUME NEW c \in Cmds, ReceiveInvalid(c) PROVE ExecInv'
    <2>1. ExecType' /\ Launching' /\ Answers'
      BY <1>2 DEF ReceiveInvalid, ExecType, Launching, Answers, AnsweredOnce, UnbuiltEnded, answerVars, Answer, wssVars
    <2>2. Holders' = Holders
      BY <1>2 DEF ReceiveInvalid, ExecType, Holders, Running
    <2> QED
      BY <1>2, <2>1, <2>2 DEF ReceiveInvalid, SlotsMatchThreads
  <1>3. CASE Spawn
    <2>1. ExecType' /\ Launching' /\ Answers'
      BY <1>3 DEF Spawn, ExecType, Launching, Answers, AnsweredOnce, UnbuiltEnded, answerVars
    <2>2. Holders' = Holders
      BY <1>3 DEF Spawn, ExecType, Launching, Holders, Running
    <2> QED
      BY <1>3, <2>1, <2>2 DEF Spawn, SlotsMatchThreads
  <1>4. CASE SpawnFails
    <2>1. wss_cmd \in Holders
      BY <1>4 DEF SpawnFails, Launching, Holders
    <2>2. exec_active_count - 1 \in Nat
      BY <2>1, HeldIsCounted DEF Holders, ExecType
    <2>3. ExecType' /\ Launching' /\ Answers'
      BY <1>4, <2>2 DEF SpawnFails, FailSpawn, ReleaseSlot, ExecType, Launching, Answers, AnsweredOnce, UnbuiltEnded, answerVars, Answer
    <2>4. Holders' = Holders \ {wss_cmd}
      BY <1>4 DEF SpawnFails, ExecType, Holders, Running
    <2> QED
      BY <1>4, <2>1, <2>3, <2>4, GiveSlotBack DEF SpawnFails, FailSpawn, ReleaseSlot, Holders
  <1>5. CASE LogLaunched \/ WssExit
    <2>1. ExecType' /\ Launching' /\ Answers'
      BY <1>5 DEF LogLaunched, WssExit, ExecType, Launching, Answers, AnsweredOnce, UnbuiltEnded, answerVars, execVars
    <2>2. Holders' = Holders /\ UNCHANGED exec_active_count
      BY <1>5 DEF LogLaunched, WssExit, Holders, execVars
    <2> QED
      BY <2>1, <2>2 DEF SlotsMatchThreads
  <1>6. ASSUME NEW c \in Cmds, NEW ok \in BOOLEAN, StepEnds(c, ok) PROVE ExecInv'
    <2>1. AfterStep(c, ok) \in {"step2", "report"}
      BY DEF AfterStep
    <2>2. ExecType' /\ Launching' /\ Answers'
      BY <1>6, <2>1 DEF StepEnds, ExecType, Launching, Answers, AnsweredOnce, UnbuiltEnded, answerVars, wssVars
    <2>3. Holders' = Holders
      BY <1>6, <2>1 DEF StepEnds, ExecType, Holders, Running
    <2> QED
      BY <1>6, <2>2, <2>3 DEF StepEnds, SlotsMatchThreads
  <1>7. ASSUME NEW c \in Cmds, SendResult(c) PROVE ExecInv'
    <2>1. ExecType' /\ Launching' /\ Answers'
      BY <1>7 DEF SendResult, ExecType, Launching, Answers, AnsweredOnce, UnbuiltEnded, answerVars, Answer, wssVars
    <2>2. Holders' = Holders
      BY <1>7 DEF SendResult, ExecType, Holders, Running
    <2> QED
      BY <1>7, <2>1, <2>2 DEF SendResult, SlotsMatchThreads
  <1>8. ASSUME NEW c \in Cmds, ThreadEnd(c) PROVE ExecInv'
    <2>1. c \in Holders
      BY <1>8 DEF ThreadEnd, Holders, Running
    <2>2. exec_active_count - 1 \in Nat
      BY <2>1, HeldIsCounted DEF ExecType
    <2>3. ExecType' /\ Launching' /\ Answers'
      BY <1>8, <2>2 DEF ThreadEnd, ReleaseSlot, ExecType, Launching, Answers, AnsweredOnce, UnbuiltEnded, answerVars, wssVars
    <2>4. Holders' = Holders \ {c}
      BY <1>8 DEF ThreadEnd, ExecType, Holders, Running
    <2> QED
      BY <1>8, <2>1, <2>3, <2>4, GiveSlotBack DEF ThreadEnd, ReleaseSlot
  <1>9. ASSUME NEW c \in Cmds, ExecStep(c) PROVE ExecInv'
    BY <1>6, <1>7, <1>8, <1>9, ZenonT(60) DEF ExecStep, StepTimesOut
  <1>10. ASSUME NEW c \in Cmds, StepHangs(c) PROVE ExecInv'
    <2>1. ExecType' /\ Launching' /\ Answers'
      BY <1>10 DEF StepHangs, ExecType, Launching, Answers, AnsweredOnce, UnbuiltEnded,
         answerVars, wssVars
    <2>2. Holders' = Holders /\ UNCHANGED exec_active_count
      BY <1>10 DEF StepHangs, Holders
    <2> QED
      BY <2>1, <2>2 DEF SlotsMatchThreads
  <1>11. ASSUME NEW t \in BgThreads,
                BgStep(t) \/ BgTimeout(t) \/ CreateThread(t) \/ CreateFails(t)
         PROVE  ExecInv'
    BY <1>11, ExecUntouched DEF BgStep, BgTimeout, CreateThread, CreateFails
  <1>12. CASE \/ ForceHeartbeat \/ Join \/ CheckExec \/ StopRemoteDesktop
              \/ DestroyConn \/ Free \/ StopBegin \/ ExecTimeout \/ ConnTimeout
              \/ PatchesCollected
    BY <1>12, ExecUntouched DEF PatchesCollected, ForceHeartbeat, Join, CheckExec, StopRemoteDesktop,
       DestroyConn, Free, StopBegin, ExecTimeout, ConnTimeout
  <1> QED
    BY <1>1, <1>2, <1>3, <1>4, <1>5, <1>6, <1>9, <1>10, <1>11, <1>12
       DEF Next, MainStep, WssStep

\* From the join on no periodic thread runs, and the agent is freed only once
\* the WSS thread has ended.
LEMMA StopInvStep == ExecType /\ StopInv /\ Next => StopInv'
  <1> SUFFICES ASSUME ExecType, StopInv, Next PROVE StopInv'
    OBVIOUS
  <1> USE DEF StopInv, Ended, AfterJoin, BgThreads
  <1>1. ASSUME NEW t \in BgThreads, BgStep(t) \/ BgTimeout(t) PROVE StopInv'
    <2>1. \/ LoopTest(t) \/ EnterSleep(t) \/ AfterSleep(t)
          \/ TakeForced(t) \/ Report(t) \/ SleepTimeout(t)
      BY <1>1 DEF BgStep, BgTimeout
    <2>2. /\ bg[t] \notin Ended
          /\ \E q \in {"exited", "enter", "awake", "waiting", "take", "collect",
                      "report", "top"} :
                bg' = [bg EXCEPT ![t] = q]
      BY <2>1 DEF LoopTest, EnterSleep, AfterSleep, Turn, TakeForced, Report, SleepTimeout
    <2>3. UNCHANGED <<main, wss>>
      BY <1>1, SMTT(60) DEF BgStep, BgTimeout, mainVars, wssVars
    <2> QED
      BY <2>2, <2>3
  <1>2. ASSUME NEW c \in Cmds,
               \/ ExecStep(c) \/ ReceiveInvalid(c) \/ StepHangs(c)
               \/ \E ok \in BOOLEAN : StepEnds(c, ok)
               \/ \E k \in KindsOf[c] : Receive(c, k)
        PROVE  StopInv'
    BY <1>2, ZenonT(60) DEF ExecStep, StepTimesOut, StepEnds, StepHangs, SendResult, ThreadEnd, ReleaseSlot,
       ReceiveInvalid, Receive, mainVars, wakeVars, wssVars
  <1>3. CASE ForceHeartbeat
    BY <1>3 DEF ForceHeartbeat, WakeForced, Broadcast, mainVars, wssVars
  <1>4. CASE WssStep
    BY <1>4 DEF WssStep, Spawn, SpawnFails, FailSpawn, ReleaseSlot, LogLaunched, WssExit,
       mainVars, wakeVars, wssVars
  <1>5. ASSUME NEW t \in BgThreads, CreateThread(t) PROVE StopInv'
    BY <1>5 DEF CreateThread, NextOf, wssVars
  <1>6. ASSUME NEW t \in BgThreads, CreateFails(t) PROVE StopInv'
    BY <1>6 DEF CreateFails, Broadcast, wssVars
  <1>7. CASE Join
    BY <1>7 DEF Join, Joined, wakeVars, wssVars
  <1>8. CASE CheckExec \/ StopRemoteDesktop \/ DestroyConn \/ Free \/ ExecTimeout \/ ConnTimeout
    BY <1>8 DEF CheckExec, StopRemoteDesktop, DestroyConn, Free, ExecTimeout, ConnTimeout,
       wakeVars, wssVars
  <1>9. CASE StopBegin
    BY <1>9 DEF StopBegin, Broadcast, wssVars
  <1>10. CASE PatchesCollected
    BY <1>10 DEF PatchesCollected, mainVars, wssVars
  <1> QED
    BY <1>1, <1>2, <1>3, <1>4, <1>5, <1>6, <1>7, <1>8, <1>9, <1>10 DEF Next, MainStep

-----------------------------------------------------------------------------
(* The theorems *)

\* leo_agent_start establishes the inductive invariant and every step of every
\* thread keeps it.
THEOREM Invariance == Spec => []IInv
  <1>1. Init => IInv
    <2> SUFFICES ASSUME Init PROVE IInv
      OBVIOUS
    <2>1. Holders = {}
      BY DEF Init, Holders, Running
    <2>2. SlotsMatchThreads
      BY <2>1, FS_EmptySet, LifecycleAssumption DEF Init, SlotsMatchThreads
    <2>3. Flags
      BY ZenonT(60) DEF Init, Flags
    <2>4. ExecType /\ Launching /\ Answers
      BY DEF Init, ExecType, Launching, Answers, AnsweredOnce, UnbuiltEnded, answerVars, Kinds
    <2>5. StopInv
      BY DEF Init, StopInv, AfterJoin, BgThreads
    <2> QED
      BY <2>2, <2>3, <2>4, <2>5 DEF IInv, ExecInv
  <1>2. IInv /\ [Next]_vars => IInv'
    <2> SUFFICES ASSUME IInv, [Next]_vars PROVE IInv'
      OBVIOUS
    <2>1. CASE Next
      BY <2>1, FlagsStep, ExecInvStep, StopInvStep DEF IInv, ExecInv
    <2>2. CASE UNCHANGED vars
      <3>1. ExecInv'
        BY <2>2, ExecUntouched DEF IInv, vars
      <3>2. Flags' /\ StopInv'
        BY <2>2 DEF IInv, Flags, StopInv, vars, mainVars, wakeVars, wssVars
      <3> QED
        BY <3>1, <3>2 DEF IInv
    <2> QED
      BY <2>1, <2>2
  <1> QED
    BY <1>1, <1>2, PTL DEF Spec

\* Every field and program counter of the agent keeps its type.
THEOREM TypeCorrect == Spec => []TypeOK
  <1>1. IInv => TypeOK
    BY DEF IInv, Flags, ExecInv, ExecType, StopInv, AfterJoin, TypeOK
  <1> QED
    BY <1>1, Invariance, PTL

\* exec_active_count counts exactly the commands that hold a slot, and never
\* exceeds LEO_EXEC_MAX_CONCURRENT, for any number of commands and slots.
THEOREM SlotsCounted == Spec => []SlotsMatchThreads
  <1>1. IInv => SlotsMatchThreads
    BY DEF IInv, ExecInv
  <1> QED
    BY <1>1, Invariance, PTL

\* Every command is answered exactly once, or not at all when its answer cannot
\* be built, on every path of the dispatchers and of the execution threads.
THEOREM OneAnswer == Spec => []AnsweredOnce
  <1>1. IInv => AnsweredOnce
    BY DEF IInv, ExecInv, Answers
  <1> QED
    BY <1>1, Invariance, PTL

\* The agent is freed only when the periodic threads and the WSS thread have
\* ended.
THEOREM FreedAfterJoin == Spec => []JoinedBeforeFree
  <1>1. IInv => JoinedBeforeFree
    BY DEF IInv, StopInv, AfterJoin, Ended, JoinedBeforeFree
  <1> QED
    BY <1>1, Invariance, PTL

=============================================================================
