---------------------------- MODULE ServerProofs ----------------------------
(***************************************************************************)
(* Proofs about two parts of the server: the registry of agent connections *)
(* (Hub), for any agents, any number of connections per agent and any      *)
(* callers; and the scheduler, one of these callers (Schedules), for any   *)
(* agents, periods, edits and faults.                                      *)
(*                                                                         *)
(* OpenIffRegistered is inductive once it is known that a connection that  *)
(* has not been registered yet has no channel (Unborn) and that a client   *)
(* is registered under its own agent (Owned).  That no channel is closed   *)
(* twice follows: only registered channels are closed.                     *)
(*                                                                         *)
(* OnePerDate rests on where the date of the row is between two firings:   *)
(* past every date that was fired, unless the row is gone, disabled or has *)
(* the zero time (Ahead); and during a firing on which agents have had     *)
(* their command (Firing).                                                 *)
(***************************************************************************)
EXTENDS Hub, Schedules, TLAPS

-----------------------------------------------------------------------------
(* The registry of connections *)

Owned == \A a \in Agents : clients[a] # NoConn => AgentOf[clients[a]] = a
Unborn == \A c \in Conns : reader[c] \in {"none", "verified"} => chan[c] = "absent"

\* The registry proper: what Register, Unregister and Disconnect work on.
Registry ==
    /\ clients \in [Agents -> Conns \cup {NoConn}]
    /\ chan \in [Conns -> {"absent", "open", "closed"}]
    /\ reader \in [Conns -> {"none", "verified", "reading", "ack",
                             "unregister", "offline", "done"}]
    /\ panic \in {"none", "close of closed channel", "send on closed channel"}
    /\ OpenIffRegistered /\ ClosedOnce /\ Unborn /\ Owned

Others ==
    /\ buffered \in [Conns -> 0 .. sendChanSize]
    /\ writer \in [Conns -> {"none", "running", "done"}]
    /\ target \in [Callers -> Conns \cup {NoConn}]
    /\ nsends \in [Callers -> 0 .. MaxSends]
    /\ revoke \in [Agents -> {"idle", "disconnect", "offline", "done"}]
    /\ status \in [Agents -> {"online", "offline"}]

Flags ==
    /\ sock \in [Conns -> BOOLEAN]
    /\ hello \in [Conns -> BOOLEAN]
    /\ revoked \in [Agents -> BOOLEAN]

IInv == Flags /\ Registry /\ Others

\* The Boolean tables keep their types.
LEMMA FlagsStep == Flags /\ Next => Flags'
  <1> SUFFICES ASSUME Flags, Next PROVE Flags'
    OBVIOUS
  <1> USE DEF Flags
  <1>1. ASSUME NEW c \in Conns,
               \/ Handshake(c) \/ HandleHello(c) \/ HandleHeartbeat(c)
               \/ WriteBatch(c) \/ WriterEnds(c) \/ Break(c)
        PROVE  Flags'
    BY <1>1, ZenonT(60) DEF Handshake, HandleHello, HandleHeartbeat, WriteBatch, WriterEnds, Break,
       dbVars, connVars
  <1>2. ASSUME NEW c \in Conns, ReaderStep(c) PROVE Flags'
    BY <1>2, ZenonT(60) DEF ReaderStep, Register, SendHelloAck, ReadError, Unregister,
       UnregisterMarkOffline, dbVars
  <1>3. ASSUME NEW s \in Callers, SendToClient(s) \/ \E a \in Agents : Lookup(s, a)
        PROVE  Flags'
    BY <1>3 DEF SendToClient, Lookup, dbVars, connVars
  <1>4. ASSUME NEW a \in Agents, RevokeUpdate(a) \/ Disconnect(a) \/ DisconnectMarkOffline(a)
        PROVE  Flags'
    BY <1>4, ZenonT(60) DEF RevokeUpdate, Disconnect, DisconnectMarkOffline, connVars
  <1> QED
    BY <1>1, <1>2, <1>3, <1>4 DEF Next

\* What the registry says of the connection it holds for an agent.
LEMMA Registered ==
    ASSUME Registry, NEW a \in Agents, clients[a] # NoConn
    PROVE  /\ clients[a] \in Conns
           /\ AgentOf[clients[a]] = a
           /\ chan[clients[a]] = "open"
  <1>1. clients[a] \in Conns
    BY DEF Registry
  <1>2. AgentOf[clients[a]] = a
    BY DEF Registry, Owned
  <1>3. clients[AgentOf[clients[a]]] = clients[a]
    BY <1>2
  <1> QED
    BY <1>1, <1>2, <1>3 DEF Registry, OpenIffRegistered

\* Steps that neither register, unregister nor close anything.
LEMMA RegistryKept ==
    ASSUME Registry, UNCHANGED <<clients, chan>>,
           NEW c \in Conns,
           NEW q \in {"verified", "reading", "ack", "unregister", "offline", "done"},
           reader' = [reader EXCEPT ![c] = q] \/ reader' = reader,
           q = "verified" => reader[c] = "none",
           panic' \in {panic, "send on closed channel"}
    PROVE  Registry'
  <1>1. /\ reader' \in [Conns -> {"none", "verified", "reading", "ack",
                                  "unregister", "offline", "done"}]
        /\ panic' \in {"none", "close of closed channel", "send on closed channel"}
        /\ ClosedOnce'
    BY DEF Registry, ClosedOnce
  <1>2. Unborn'
    BY DEF Registry, Unborn
  <1>3. OpenIffRegistered' /\ Owned'
    BY DEF Registry, OpenIffRegistered, Owned
  <1> QED
    BY <1>1, <1>2, <1>3 DEF Registry

\* Removing the connection registered for an agent and closing its channel,
\* as Unregister and Disconnect do.
LEMMA RegistryRemoved ==
    ASSUME Registry, NEW a \in Agents, clients[a] # NoConn,
           clients' = [clients EXCEPT ![a] = NoConn],
           Close(clients[a]),
           \/ reader' = reader
           \/ \E c \in Conns : reader' = [reader EXCEPT ![c] = "offline"]
    PROVE  Registry'
  <1> DEFINE old == clients[a]
  <1>1. old \in Conns /\ AgentOf[old] = a /\ chan[old] = "open"
    BY Registered
  <1>2. panic' = panic /\ chan' = [chan EXCEPT ![old] = "closed"]
    BY <1>1 DEF Close
  <1>3. /\ clients' \in [Agents -> Conns \cup {NoConn}]
        /\ chan' \in [Conns -> {"absent", "open", "closed"}]
        /\ reader' \in [Conns -> {"none", "verified", "reading", "ack",
                                  "unregister", "offline", "done"}]
    BY <1>1, <1>2 DEF Registry
  <1>4. ASSUME NEW x \in Conns PROVE chan'[x] = "open" <=> clients'[AgentOf[x]] = x
    <2>1. CASE x = old
      BY <1>1, <1>2, <2>1, HubAssumption DEF Registry
    <2>2. CASE x # old
      <3>1. chan'[x] = chan[x]
        BY <1>2, <2>2 DEF Registry
      <3>2. AgentOf[x] \in Agents /\ (chan[x] = "open" <=> clients[AgentOf[x]] = x)
        BY HubAssumption DEF Registry, OpenIffRegistered
      <3>3. clients'[AgentOf[x]] = IF AgentOf[x] = a THEN NoConn ELSE clients[AgentOf[x]]
        BY <3>2 DEF Registry
      <3> QED
        BY <2>2, <3>1, <3>2, <3>3, HubAssumption
    <2> QED
      BY <2>1, <2>2
  <1>5. Unborn'
    BY <1>1, <1>2 DEF Registry, Unborn
  <1>6. Owned'
    BY DEF Registry, Owned
  <1> QED
    BY <1>2, <1>3, <1>4, <1>5, <1>6 DEF Registry, OpenIffRegistered, ClosedOnce

\* Register opens the channel of the newcomer and closes the one it replaces.
LEMMA RegistryReplaced ==
    ASSUME Registry, NEW c \in Conns, Register(c)
    PROVE  Registry'
  <1> DEFINE a == AgentOf[c]
             old == clients[a]
  <1>1. a \in Agents /\ old # c
    BY HubAssumption, ZenonT(60) DEF Register, Registry, Unborn, OpenIffRegistered
  <1>2. old # NoConn => old \in Conns /\ AgentOf[old] = a /\ chan[old] = "open"
    BY <1>1, Registered
  <1>3. /\ chan' \in [Conns -> {"absent", "open", "closed"}]
        /\ \A x \in Conns : chan'[x] = IF x = c THEN "open"
                                       ELSE IF x = old THEN "closed" ELSE chan[x]
        /\ panic' = panic
    BY <1>2 DEF Register, Replace, Registry
  <1>4. /\ clients' \in [Agents -> Conns \cup {NoConn}]
        /\ \A b \in Agents : clients'[b] = IF b = a THEN c ELSE clients[b]
        /\ reader' \in [Conns -> {"none", "verified", "reading", "ack",
                                  "unregister", "offline", "done"}]
        /\ \A x \in Conns : reader'[x] = IF x = c THEN "reading" ELSE reader[x]
    BY <1>1 DEF Register, Registry
  <1>5. ASSUME NEW x \in Conns PROVE chan'[x] = "open" <=> clients'[AgentOf[x]] = x
    <2>1. AgentOf[x] \in Agents /\ (chan[x] = "open" <=> clients[AgentOf[x]] = x)
      BY HubAssumption, ZenonT(60) DEF Registry, OpenIffRegistered
    <2> QED
      BY <1>1, <1>2, <1>3, <1>4, <2>1, HubAssumption
  <1>6. ASSUME NEW x \in Conns, reader'[x] \in {"none", "verified"}
        PROVE  chan'[x] = "absent"
    <2>1. x # c /\ chan[x] = "absent"
      BY <1>4, <1>6 DEF Registry, Unborn
    <2>2. x # old
      BY <1>2, <2>1, HubAssumption
    <2> QED
      BY <1>3, <2>1, <2>2
  <1>7. Owned'
    BY <1>1, <1>4 DEF Registry, Owned
  <1> QED
    BY <1>3, <1>4, <1>5, <1>6, <1>7 DEF Registry, OpenIffRegistered, ClosedOnce, Unborn

\* Register, Unregister, Disconnect and the pumps keep the channels and the
\* registry in step.
LEMMA RegistryStep == Registry /\ Next => Registry'
  <1> SUFFICES ASSUME Registry, Next PROVE Registry'
    OBVIOUS
  <1>1. ASSUME NEW c \in Conns, Register(c) PROVE Registry'
    BY <1>1, RegistryReplaced
  <1>2. ASSUME NEW c \in Conns, Unregister(c) PROVE Registry'
    <2>1. AgentOf[c] \in Agents /\ c # NoConn
      BY HubAssumption
    <2>2. CASE WasCurrent(c)
      BY <1>2, <2>1, <2>2, RegistryRemoved DEF Unregister, WasCurrent
    <2>3. CASE ~WasCurrent(c)
      BY <1>2, <2>3, RegistryKept DEF Unregister
    <2> QED
      BY <2>2, <2>3
  <1>3. ASSUME NEW a \in Agents, Disconnect(a) PROVE Registry'
    <2>1. CASE clients[a] = NoConn
      <3>1. UNCHANGED <<clients, chan, panic, reader>>
        BY <1>3, <2>1 DEF Disconnect
      <3> QED
        BY <3>1 DEF Registry, OpenIffRegistered, ClosedOnce, Unborn, Owned
    <2>2. CASE clients[a] # NoConn
      BY <1>3, <2>2, RegistryRemoved DEF Disconnect
    <2> QED
      BY <2>1, <2>2
  <1>4. ASSUME NEW c \in Conns,
               \/ Handshake(c) \/ HandleHello(c) \/ HandleHeartbeat(c) \/ ReadError(c)
               \/ UnregisterMarkOffline(c) \/ WriteBatch(c) \/ WriterEnds(c) \/ Break(c)
        PROVE  Registry'
    BY <1>4, RegistryKept DEF Handshake, HandleHello, HandleHeartbeat, ReadError,
       UnregisterMarkOffline, WriteBatch, WriterEnds, Break, connVars
  <1>5. ASSUME NEW c \in Conns, SendHelloAck(c) PROVE Registry'
    BY <1>5, RegistryKept DEF SendHelloAck, Send
  <1>6. ASSUME UNCHANGED <<clients, chan, reader>>,
               panic' \in {panic, "send on closed channel"}
        PROVE  Registry'
    BY <1>6 DEF Registry, OpenIffRegistered, ClosedOnce, Unborn, Owned
  <1>7. ASSUME NEW s \in Callers, SendToClient(s) \/ \E a \in Agents : Lookup(s, a)
        PROVE  Registry'
    BY <1>6, <1>7 DEF SendToClient, Send, Lookup, connVars
  <1>8. ASSUME NEW a \in Agents, RevokeUpdate(a) \/ DisconnectMarkOffline(a) PROVE Registry'
    BY <1>6, <1>8 DEF RevokeUpdate, DisconnectMarkOffline, connVars
  <1> QED
    BY <1>1, <1>2, <1>3, <1>4, <1>5, <1>7, <1>8 DEF Next, ReaderStep

\* The remaining fields keep their types; a channel never holds more messages
\* than its capacity.
LEMMA OthersStep == Registry /\ Others /\ Next => Others'
  <1> SUFFICES ASSUME Registry, Others, Next PROVE Others'
    OBVIOUS
  <1> USE HubAssumption DEF Others
  <1>1. ASSUME NEW c \in Conns,
               \/ Handshake(c) \/ HandleHello(c) \/ HandleHeartbeat(c)
               \/ WriteBatch(c) \/ WriterEnds(c) \/ Break(c)
        PROVE  Others'
    BY <1>1 DEF Handshake, HandleHello, HandleHeartbeat, WriteBatch, WriterEnds, Break,
       callVars, dbVars, connVars
  <1>2. ASSUME NEW c \in Conns,
               Register(c) \/ ReadError(c) \/ Unregister(c) \/ UnregisterMarkOffline(c)
        PROVE  Others'
    BY <1>2 DEF Register, ReadError, Unregister, UnregisterMarkOffline, callVars, dbVars
  <1>3. ASSUME NEW c \in Conns, Send(c) PROVE buffered' \in [Conns -> 0 .. sendChanSize]
    <2>1. CASE chan[c] = "open" /\ buffered[c] < sendChanSize
      <3>1. buffered[c] + 1 \in 0 .. sendChanSize
        BY <2>1
      <3>2. buffered' = [buffered EXCEPT ![c] = buffered[c] + 1]
        BY <1>3, <2>1 DEF Send
      <3> QED
        BY <3>1, <3>2
    <2>2. CASE ~(chan[c] = "open" /\ buffered[c] < sendChanSize)
      BY <1>3, <2>2, Zenon DEF Send
    <2> QED
      BY <2>1, <2>2
  <1>4. ASSUME NEW c \in Conns, SendHelloAck(c) PROVE Others'
    <2>1. buffered' \in [Conns -> 0 .. sendChanSize]
      BY <1>3, <1>4 DEF SendHelloAck
    <2> QED
      BY <1>4, <2>1, SMTT(60) DEF SendHelloAck, callVars, dbVars
  <1>5. ASSUME NEW s \in Callers, SendToClient(s) PROVE Others'
    <2>1. target[s] \in Conns
      BY <1>5 DEF SendToClient
    <2>2. buffered' \in [Conns -> 0 .. sendChanSize]
      BY <1>3, <1>5, <2>1 DEF SendToClient
    <2> QED
      BY <1>5, <2>2 DEF SendToClient, dbVars
  <1>6. ASSUME NEW s \in Callers, NEW a \in Agents, Lookup(s, a) PROVE Others'
    <2>1. nsends[s] + 1 \in 0 .. MaxSends
      BY <1>6 DEF Lookup
    <2>2. nsends' \in [Callers -> 0 .. MaxSends]
      BY <1>6, <2>1 DEF Lookup
    <2>3. target' \in [Callers -> Conns \cup {NoConn}]
      BY <1>6 DEF Lookup, Registry
    <2> QED
      BY <1>6, <2>2, <2>3 DEF Lookup, connVars, dbVars
  <1>7. ASSUME NEW a \in Agents, RevokeUpdate(a) \/ Disconnect(a) \/ DisconnectMarkOffline(a)
        PROVE  Others'
    BY <1>7 DEF RevokeUpdate, Disconnect, DisconnectMarkOffline, connVars, callVars
  <1> QED
    BY <1>1, <1>2, <1>4, <1>5, <1>6, <1>7 DEF Next, ReaderStep

-----------------------------------------------------------------------------
(* The theorems *)

\* The Hub starts empty and every step of every goroutine keeps the invariant.
THEOREM Invariance == Spec => []IInv
  <1>1. Init => IInv
    BY HubAssumption DEF Init, IInv, Flags, Registry, Others, OpenIffRegistered,
       ClosedOnce, Unborn, Owned
  <1>2. IInv /\ [Next]_vars => IInv'
    <2> SUFFICES ASSUME IInv, [Next]_vars PROVE IInv'
      OBVIOUS
    <2>1. CASE Next
      BY <2>1, FlagsStep, RegistryStep, OthersStep DEF IInv
    <2>2. CASE UNCHANGED vars
      <3>1. Flags'
        BY <2>2 DEF IInv, Flags, vars, connVars, dbVars
      <3>2. Registry'
        BY <2>2 DEF IInv, Registry, OpenIffRegistered, ClosedOnce, Unborn, Owned, vars, connVars
      <3>3. Others'
        BY <2>2 DEF IInv, Others, vars, connVars, callVars, dbVars
      <3> QED
        BY <3>1, <3>2, <3>3 DEF IInv
    <2> QED
      BY <2>1, <2>2
  <1> QED
    BY <1>1, <1>2, PTL DEF Spec

\* Every field of the Hub and of its clients keeps its type.
THEOREM TypeCorrect == Spec => []TypeOK
  <1>1. IInv => TypeOK
    BY DEF IInv, Flags, Registry, Others, TypeOK
  <1> QED
    BY <1>1, Invariance, PTL

\* A send channel is open exactly while its connection is registered, for any
\* number of connections that replace each other.
THEOREM ChannelsFollowRegistry == Spec => []OpenIffRegistered
  <1>1. IInv => OpenIffRegistered
    BY DEF IInv, Registry
  <1> QED
    BY <1>1, Invariance, PTL

\* No channel is closed twice, so neither Register, Unregister nor Disconnect
\* can panic.
THEOREM NoDoubleClose == Spec => []ClosedOnce
  <1>1. IInv => ClosedOnce
    BY DEF IInv, Registry
  <1> QED
    BY <1>1, Invariance, PTL

-----------------------------------------------------------------------------
(* The scheduler *)

\* What the row may hold: also an expression that is no longer accepted.
Stored == Modes \cup {Invalid}

\* Dates, and the modes they are computed with.  What has been fired, or is
\* being fired, was due.
Dated ==
    /\ now \in Nat /\ next \in Nat /\ faults \in Nat
    /\ mode \in Stored /\ edit.mode \in Stored
    /\ d.mode \in Stored /\ d.due \in 0 .. now
    /\ \A c \in fired : c[2] \in 0 .. now

Ahead ==
    sched = "idle" => ~exists \/ ~enabled \/ next = 0 \/ \A c \in fired : c[2] < next

Firing ==
    (sched # "idle" /\ d.due # 0) =>
        \A c \in fired :
            c[2] < d.due \/ (c[2] = d.due /\ sched = "create" /\ c[1] \notin targets)

Undisturbed == disturbed \/ (Ahead /\ Firing /\ OnePerDate)

\* The dates that Create, Update and advanceNextRun compute are later than now,
\* or the zero time of an expression without a date.
LEMMA LaterDates ==
    ASSUME now \in Nat, NEW m \in Modes
    PROVE  /\ m # Once => NextDate(m) \in Nat
           /\ m \notin {Once, Impossible} => NextDate(m) > now
           /\ \A t \in Dates(m) : t \in Nat /\ (m # Impossible => t > now)
  BY SchedulesAssumption DEF Modes, NextDate, Dates

\* A schedule that was just created, or was there before, has a date and has not
\* been fired.
LEMMA FirstDates == ScheduleInit => Dated /\ Undisturbed
  <1> SUFFICES ASSUME ScheduleInit PROVE Dated /\ Undisturbed
    OBVIOUS
  <1>1. now = 1 /\ now \in Nat
    BY DEF ScheduleInit
  <1>2. mode \in Stored /\ next \in Nat
    <2>1. CASE mode \in Modes /\ next \in Dates(mode)
      BY <1>1, <2>1, LaterDates DEF Stored
    <2>2. CASE mode = Invalid /\ next \in Dates(Once)
      BY <1>1, <2>2, LaterDates DEF Stored, Modes
    <2> QED
      BY <2>1, <2>2 DEF ScheduleInit
  <1>3. Once \in Stored
    BY DEF Stored, Modes
  <1>4. Dated
    BY <1>1, <1>2, <1>3 DEF ScheduleInit, Dated, NoRow
  <1> QED
    BY <1>4 DEF ScheduleInit, Undisturbed, Ahead, Firing, OnePerDate

\* Dates stay dates, and the clock passes what was fired.
LEMMA DatedStep ==
    ASSUME Dated, ScheduleNext
    PROVE  Dated'
  <1>1. CASE Tick
    BY <1>1 DEF Tick, Dated, row, scheduler, handler, history
  <1>2. CASE Poll
    BY <1>2 DEF Poll, Due, Dated, row, handler, history
  <1>3. CASE ResolveTargets
    BY <1>3 DEF ResolveTargets, Dated, row, handler, history
  <1>4. ASSUME NEW a \in TargetAgents, CreateCommand(a) PROVE Dated'
    BY <1>4 DEF CreateCommand, Dated, row, handler
  <1>5. CASE AdvanceNextRun
    <2>1. next' \in Nat
      BY <1>5, LaterDates DEF AdvanceNextRun, Advance, Dated, Stored
    <2> QED
      BY <1>5, <2>1 DEF AdvanceNextRun, Dated, NoRow, Stored, Modes, handler
  <1>6. CASE ServerCrash
    BY <1>6 DEF ServerCrash, Dated, NoRow, Stored, Modes, row
  <1>7. CASE UpdateRead
    BY <1>7 DEF UpdateRead, Dated, row, scheduler, history
  <1>8. CASE UpdateWrite
    <2>1. next' \in Nat /\ mode' \in Stored
      BY <1>8, LaterDates DEF UpdateWrite, Dated, Stored, Modes
    <2> QED
      BY <1>8, <2>1 DEF UpdateWrite, Dated, scheduler
  <1>9. CASE DeleteSchedule
    BY <1>9 DEF DeleteSchedule, Dated, scheduler, handler, history
  <1> QED
    BY <1>1, <1>2, <1>3, <1>4, <1>5, <1>6, <1>7, <1>8, <1>9 DEF ScheduleNext, Fire

\* Until a fault or an edit meets a firing, each date is fired at most once.
LEMMA UndisturbedStep ==
    ASSUME Dated, Undisturbed, ScheduleNext
    PROVE  Undisturbed'
  <1>1. CASE Tick \/ UpdateRead
    <2>1. UNCHANGED <<sched, exists, enabled, next, d, targets, fired, twice, disturbed>>
      BY <1>1, Zenon DEF Tick, UpdateRead, row, scheduler, history
    <2> QED
      BY <2>1 DEF Undisturbed, Ahead, Firing, OnePerDate
  <1>2. CASE Poll
    <2>1. sched = "idle" /\ exists /\ enabled /\ sched' # "idle" /\ d'.due = next
      BY <1>2 DEF Poll, Due
    <2>2. UNCHANGED <<fired, twice, disturbed>>
      BY <1>2, Zenon DEF Poll, history
    <2> QED
      BY <2>1, <2>2 DEF Undisturbed, Ahead, Firing, OnePerDate
  <1>3. CASE ResolveTargets
    <2>1. sched = "fire" /\ sched' = "create" /\ UNCHANGED <<d, fired, twice, disturbed>>
      BY <1>3, Zenon DEF ResolveTargets, history
    <2> QED
      BY <2>1 DEF Undisturbed, Ahead, Firing, OnePerDate
  <1>4. ASSUME NEW a \in TargetAgents, CreateCommand(a) PROVE Undisturbed'
    <2>1. /\ sched = "create" /\ a \in targets /\ targets' = targets \ {a}
          /\ UNCHANGED <<sched, d, disturbed>>
      BY <1>4, Zenon DEF CreateCommand
    <2>2. CASE UNCHANGED <<fired, twice>>
      BY <2>1, <2>2 DEF Undisturbed, Ahead, Firing, OnePerDate
    <2>3. CASE /\ fired' = fired \cup {<<a, d.due>>}
               /\ twice' = IF <<a, d.due>> \in fired THEN twice \cup {<<a, d.due>>} ELSE twice
      <3>1. CASE disturbed
        BY <2>1, <3>1 DEF Undisturbed
      <3>2. CASE ~disturbed
        <4>1. d.due # 0 => <<a, d.due>> \notin fired
          BY <2>1, <3>2 DEF Undisturbed, Firing, Dated
        <4>2. OnePerDate'
          BY <2>1, <2>3, <3>2, <4>1 DEF Undisturbed, OnePerDate
        <4>3. Firing'
          BY <2>1, <2>3, <3>2 DEF Undisturbed, Firing, Dated
        <4> QED
          BY <2>1, <4>2, <4>3 DEF Undisturbed, Ahead
      <3> QED
        BY <3>1, <3>2
    <2> QED
      BY <1>4, <2>2, <2>3 DEF CreateCommand
  <1>5. CASE AdvanceNextRun
    <2>1. sched' = "idle" /\ UNCHANGED <<now, exists, fired, twice>>
      BY <1>5, Zenon DEF AdvanceNextRun
    <2>2. CASE disturbed'
      BY <2>2 DEF Undisturbed
    <2>3. CASE ~disturbed'
      <3>1. ~disturbed /\ (~exists \/ Advance)
        <4>1. CASE exists /\ Advance /\ disturbed' = (disturbed \/ editing)
          BY <2>3, <4>1, Zenon
        <4>2. CASE ~exists /\ disturbed' = disturbed
          BY <2>3, <4>2
        <4> QED
          BY <1>5, <2>3, <4>1, <4>2 DEF AdvanceNextRun
      <3>2. CASE Advance
        <4>1. ~enabled' \/ next' = 0 \/ next' > now
          BY <3>2, LaterDates DEF Advance, Dated, Stored, NextDate
        <4>2. \A c \in fired' : c[2] \in 0 .. now
          BY <2>1 DEF Dated
        <4>3. next' \in Nat
          BY DatedStep DEF Dated
        <4>4. now \in Nat
          BY DEF Dated
        <4> QED
          BY <2>1, <2>3, <3>1, <4>1, <4>2, <4>3, <4>4
             DEF Undisturbed, Ahead, Firing, OnePerDate
      <3>3. CASE ~exists
        BY <2>1, <2>3, <3>1, <3>3 DEF Undisturbed, Ahead, Firing, OnePerDate
      <3> QED
        BY <3>1, <3>2, <3>3
    <2> QED
      BY <2>2, <2>3
  <1>6. CASE ServerCrash
    BY <1>6 DEF ServerCrash, Undisturbed
  <1>7. CASE UpdateWrite
    <2>1. UNCHANGED <<now, exists, sched, d, targets, fired, twice>>
      BY <1>7, Zenon DEF UpdateWrite, scheduler
    <2>2. CASE disturbed'
      BY <2>2 DEF Undisturbed
    <2>3. CASE ~disturbed'
      <3>1. ~disturbed /\ sched = "idle" /\ ~(enabled' /\ ~enabled)
        BY <1>7, <2>3, Zenon DEF UpdateWrite
      <3>2. UNCHANGED next \/ next' > now
        BY <1>7, LaterDates DEF UpdateWrite, Dated
      <3>3. (\A c \in fired : c[2] \in 0 .. now) /\ now \in Nat
        BY DEF Dated
      <3>4. next' \in Nat
        BY DatedStep DEF Dated
      <3>5. CASE UNCHANGED next
        BY <2>1, <2>3, <3>1, <3>5 DEF Undisturbed, Ahead, Firing, OnePerDate
      <3>6. CASE next' > now
        BY <2>1, <2>3, <3>1, <3>3, <3>4, <3>6
           DEF Undisturbed, Ahead, Firing, OnePerDate
      <3> QED
        BY <3>2, <3>5, <3>6
    <2> QED
      BY <2>2, <2>3
  <1>8. CASE DeleteSchedule
    <2>1. exists' = FALSE /\ UNCHANGED <<sched, d, targets, fired, twice, disturbed>>
      BY <1>8, Zenon DEF DeleteSchedule, scheduler, history
    <2> QED
      BY <2>1 DEF Undisturbed, Ahead, Firing, OnePerDate
  <1> QED
    BY <1>1, <1>2, <1>3, <1>4, <1>5, <1>6, <1>7, <1>8 DEF ScheduleNext, Fire

\* The dates of a schedule, for any clock, agents, edits and faults.
LEMMA ScheduleInvariance == ScheduleSpec => [](Dated /\ Undisturbed)
  <1>1. Dated /\ Undisturbed /\ [ScheduleNext]_scheduleVars => (Dated /\ Undisturbed)'
    <2> SUFFICES ASSUME Dated, Undisturbed, [ScheduleNext]_scheduleVars
                 PROVE  (Dated /\ Undisturbed)'
      OBVIOUS
    <2>1. CASE ScheduleNext
      BY <2>1, DatedStep, UndisturbedStep
    <2>2. CASE UNCHANGED scheduleVars
      BY <2>2 DEF Dated, Undisturbed, Ahead, Firing, OnePerDate, scheduleVars,
         row, scheduler, handler, history
    <2> QED
      BY <2>1, <2>2
  <1> QED
    BY <1>1, FirstDates, PTL DEF ScheduleSpec

\* fireSchedule creates at most one command per agent and date: a second one
\* takes a fault or an edit during a firing, or an expression without a date.
THEOREM OneCommandPerDate == ScheduleSpec => []OnePerDate
  <1>1. Dated /\ Undisturbed => OnePerDate
    BY DEF Undisturbed, OnePerDate
  <1> QED
    BY <1>1, ScheduleInvariance, PTL

\* advanceNextRun leaves a schedule that is not due, whatever Update and Delete
\* did to the row since it was read.
THEOREM FiringEndsNotDue == ScheduleSpec => NotDueAfterFiring
  <1>1. Dated /\ [ScheduleNext]_scheduleVars =>
            [(AdvanceNextRun /\ faults' = faults /\ d.mode # Impossible)
                => ~Due']_scheduleVars
    <2> SUFFICES ASSUME Dated, AdvanceNextRun, faults' = faults, d.mode # Impossible
                 PROVE  ~Due'
      OBVIOUS
    <2>1. CASE exists /\ Advance
      <3>1. ~enabled' \/ next' > now
        BY <2>1, LaterDates DEF Advance, Dated, Stored
      <3>2. now' = now /\ now \in Nat /\ next' \in Nat
        BY <2>1, LaterDates DEF AdvanceNextRun, Advance, Dated, Stored
      <3> QED
        BY <3>1, <3>2 DEF Due
    <2>2. CASE ~exists
      BY <2>2 DEF AdvanceNextRun, Due
    <2>3. faults' # faults + 1
      BY DEF Dated
    <2> QED
      BY <2>1, <2>2, <2>3 DEF AdvanceNextRun
  <1> QED
    BY <1>1, ScheduleInvariance, PTL DEF ScheduleSpec, NotDueAfterFiring
=============================================================================
