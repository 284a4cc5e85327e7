----------------------- MODULE CommandDeliveryProofs ------------------------
(***************************************************************************)
(* Proofs about the delivery of commands, for any number of commands,      *)
(* connections and failures.                                               *)
(*                                                                         *)
(* A send that has been tried stays so (TriedStays).  It has been tried    *)
(* for whatever is about to be marked as sent, by the creator              *)
(* (CreatorTried) or by the redelivery (ReaderTried).  NoneForgotten       *)
(* needs one more fact: a creator about to send to a connection that is no *)
(* longer the current one will panic, and then the redelivery has its      *)
(* command (LateSend).                                                     *)
(*                                                                         *)
(* MarkedNotResent follows from the types: a copy is made only by a        *)
(* creator that is not done or by a redelivery that has it on its list.    *)
(*                                                                         *)
(* CopiesBounded counts: only the copies in the channel of the one open    *)
(* connection can still be received, and with those received they are no   *)
(* more than the sends that have been used up, the creator's and one per   *)
(* redelivery (Bounded).                                                   *)
(***************************************************************************)
EXTENDS CommandDelivery, FiniteSetTheorems, TLAPS

CreatorTried == \A c \in Cmds : creator[c] = "mark" => Tried(c)

ReaderTried ==
    \A k \in Conns : reader[k] = "mark" =>
        \A c \in toSend[k] : (\A d \in toSend[k] : c <= d) => Tried(c)

Past == {"redeliver", "mark", "served"}

\* The redelivery on k has the command, or a send of it has been tried.
Served(k, c) == c \in toSend[k] \/ Tried(c)

LateSend ==
    \A k \in Conns : \A c \in Cmds :
        /\ current = k /\ reader[k] \in Past
        /\ status[c] = "pending" /\ ~sent_at[c]
        /\ creator[c] = "send" /\ target[c] # k
        => Served(k, c)

\* TypeOK without the Boolean table.
Types ==
    /\ status \in [Cmds -> {"none", "pending", "closed"}]
    /\ creator \in [Cmds -> {"none", "inserted", "lookup", "send", "mark", "done"}]
    /\ target \in [Cmds -> Conns \cup {NoConn}]
    /\ current \in Conns \cup {NoConn}
    /\ reader \in [Conns -> Reading \cup {"none", "select", "redeliver", "mark", "ended"}]
    /\ toSend \in [Conns -> SUBSET Cmds]
    /\ send \in [Conns -> Seq(Messages)]
    /\ \A k \in Conns : Len(send[k]) <= sendChanSize
    /\ link \in [Conns -> {"none", "open", "broken"}]
    /\ received \in [Cmds -> Nat]
    /\ lost \subseteq Cmds
    /\ failures \in 0 .. MaxFailures

Flags == sent_at \in [Cmds -> BOOLEAN]

\* SendToAgent uses a client that it has found.
TargetKnown == \A c \in Cmds : creator[c] = "send" => target[c] \in Conns

Tries == TargetKnown /\ CreatorTried /\ ReaderTried

IInv == Flags /\ Types /\ Tries /\ NoneForgotten /\ LateSend

-----------------------------------------------------------------------------
(* Facts about the data *)

\* Connections are numbered from 1, so none of them is NoConn.
LEMMA ConnsAreNot0 == \A k \in Conns : k # NoConn /\ k \in Nat
  BY DeliveryAssumption DEF Conns, NoConn

\* Append adds its message and keeps the others.
LEMMA OfAppend ==
    ASSUME NEW s \in Seq(Messages), NEW m \in Messages
    PROVE  Of(Append(s, m)) = Of(s) \cup {m}
  <1> DEFINE n == Len(s)
             u == Append(s, m)
  <1>1. n \in Nat /\ DOMAIN s = 1 .. n
    OBVIOUS
  <1>2. DOMAIN u = 1 .. n + 1 /\ u[n + 1] = m /\ \A i \in 1 .. n : u[i] = s[i]
    OBVIOUS
  <1> HIDE DEF n, u
  <1>3. Of(u) \subseteq Of(s) \cup {m}
    BY <1>1, <1>2 DEF Of
  <1>4. Of(s) \subseteq Of(u)
    BY <1>1, <1>2 DEF Of
  <1>5. m \in Of(u)
    BY <1>1, <1>2 DEF Of
  <1> QED
    BY <1>3, <1>4, <1>5 DEF u

\* The UPDATE of sent_at touches one command and never clears it.
LEMMA MarkEffect ==
    ASSUME Flags, NEW c \in Cmds, sent_at' \in {[sent_at EXCEPT ![c] = TRUE], sent_at}
    PROVE  /\ Flags'
           /\ \A d \in Cmds : sent_at[d] => sent_at'[d]
           /\ \A d \in Cmds : sent_at'[d] => sent_at[d] \/ d = c
  <1>1. CASE sent_at' = [sent_at EXCEPT ![c] = TRUE]
    BY <1>1 DEF Flags
  <1>2. CASE sent_at' = sent_at
    BY <1>2 DEF Flags
  <1> QED
    BY <1>1, <1>2

\* Client.Send: the message is in the channel or counted as lost.
LEMMA EnqueueEffect ==
    ASSUME Types, NEW k \in Conns, NEW m \in Messages, Enqueue(k, m)
    PROVE  /\ send' \in [Conns -> Seq(Messages)]
           /\ \A j \in Conns : Len(send'[j]) <= sendChanSize
           /\ lost' \subseteq Cmds /\ lost \subseteq lost'
           /\ \A j \in Conns : Of(send[j]) \subseteq Of(send'[j])
           /\ m \in Cmds => m \in lost' \/ m \in Of(send'[k])
  <1>1. CASE Len(send[k]) < sendChanSize
    <2>1. send' = [send EXCEPT ![k] = Append(@, m)] /\ lost' = lost
      BY <1>1 DEF Enqueue
    <2>2. send'[k] = Append(send[k], m) /\ \A j \in Conns : j # k => send'[j] = send[j]
      BY <2>1 DEF Types
    <2>3. send[k] \in Seq(Messages) /\ Append(send[k], m) \in Seq(Messages)
      BY DEF Types
    <2>4. send' \in [Conns -> Seq(Messages)]
      BY <2>1, <2>3 DEF Types
    <2>5. Len(send'[k]) <= sendChanSize
      <3>1. Len(send'[k]) = Len(send[k]) + 1
        BY <2>2, <2>3
      <3>2. Len(send[k]) \in Nat
        BY <2>3
      <3> QED
        BY <1>1, <3>1, <3>2, DeliveryAssumption
    <2>6. Of(send'[k]) = Of(send[k]) \cup {m}
      BY <2>2, <2>3, OfAppend
    <2> QED
      BY <2>1, <2>2, <2>4, <2>5, <2>6 DEF Types
  <1>2. CASE ~(Len(send[k]) < sendChanSize)
    <2>1. send' = send /\ lost' = lost \cup ({m} \cap Cmds)
      BY <1>2 DEF Enqueue, Lose
    <2> QED
      BY <2>1 DEF Types
  <1> QED
    BY <1>1, <1>2, ZenonT(60)

-----------------------------------------------------------------------------
(* Types *)

\* Every step keeps the sent_at marks Boolean.
LEMMA FlagsStep == Flags /\ Next => Flags'
  <1> SUFFICES ASSUME Flags, Next PROVE Flags'
    OBVIOUS
  <1>1. ASSUME NEW c \in Cmds, Mark(c) PROVE Flags'
    BY <1>1, MarkEffect DEF Mark
  <1>3. ASSUME NEW k \in Conns, MarkRedelivered(k) PROVE Flags'
    <2>1. PICK c \in toSend[k] : sent_at' \in {[sent_at EXCEPT ![c] = TRUE], sent_at}
      BY <1>3 DEF MarkRedelivered
    <2>2. CASE c \in Cmds
      BY <2>1, <2>2, MarkEffect
    <2>3. CASE c \notin Cmds
      BY <2>1, <2>3 DEF Flags
    <2> QED
      BY <2>2, <2>3
  <1>4. ASSUME NEW c \in Cmds,
               Insert(c) \/ CheckConnected(c) \/ Lookup(c) \/ SendCommand(c)
        PROVE  sent_at' = sent_at
    BY <1>4 DEF Insert, CheckConnected, Lookup, SendCommand, dbVars
  <1>5. ASSUME NEW k \in Conns,
               \/ Register(k) \/ HandleHello(k) \/ Select(k) \/ Redeliver(k) \/ RedeliveryEnds(k)
               \/ ReadError(k) \/ HandleCmdResult(k) \/ WriteBatch(k) \/ Break(k)
        PROVE  sent_at' = sent_at
    BY <1>5 DEF Register, HandleHello, Select, Redeliver, RedeliveryEnds, ReadError,
       HandleCmdResult, WriteBatch, Break, dbVars
  <1>6. CASE Crash
    BY <1>6 DEF Crash, dbVars, Flags
  <1> QED
    BY <1>1, <1>3, <1>4, <1>5, <1>6 DEF Next, CreatorStep, ReaderStep, Flags

\* What WritePump and the parser do to a channel.
LEMMA BatchEffect ==
    ASSUME Types, NEW k \in Conns, WriteBatch(k)
    PROVE  /\ send' \in [Conns -> Seq(Messages)]
           /\ \A j \in Conns : Len(send'[j]) <= sendChanSize
           /\ \A j \in Conns : j # k => send'[j] = send[j]
           /\ received' \in [Cmds -> Nat]
           /\ lost' \subseteq Cmds /\ lost \subseteq lost'
           /\ \A c \in Cmds : received'[c] >= received[c]
           /\ \A c \in Cmds \cap Of(send[k]) : received'[c] > 0 \/ c \in lost'
  <1> DEFINE taken == IF link[k] = "open" THEN Parsed(send[k]) ELSE {}
  <1>1. /\ send' = [send EXCEPT ![k] = << >>]
        /\ received' = [c \in Cmds |-> received[c] + (IF c \in taken THEN 1 ELSE 0)]
        /\ lost' = lost \cup ((Of(send[k]) \ taken) \cap Cmds)
    BY DEF WriteBatch, Lose
  <1> HIDE DEF taken
  <1>2. /\ send' \in [Conns -> Seq(Messages)]
        /\ \A j \in Conns : Len(send'[j]) <= sendChanSize
        /\ \A j \in Conns : j # k => send'[j] = send[j]
    BY <1>1, DeliveryAssumption DEF Types
  <1>3. /\ received' \in [Cmds -> Nat]
        /\ \A c \in Cmds : received'[c] >= received[c]
        /\ \A c \in Cmds : c \in taken => received'[c] > 0
    BY <1>1 DEF Types
  <1>4. /\ lost' \subseteq Cmds /\ lost \subseteq lost'
        /\ \A c \in Cmds \cap Of(send[k]) : c \in taken \/ c \in lost'
    BY <1>1, SMTT(60) DEF Types
  <1> QED
    BY <1>2, <1>3, <1>4

\* The steps of a command's creator keep the types.
LEMMA CreatorTypes ==
    ASSUME Types, NEW c \in Cmds, Insert(c) \/ CreatorStep(c)
    PROVE  Types'
  <1> USE DEF Types
  <1>1. CASE Insert(c)
    BY <1>1 DEF Insert, connVars
  <1>2. CASE CheckConnected(c)
    BY <1>2 DEF CheckConnected, AfterCheck, dbVars, connVars
  <1>3. CASE Lookup(c)
    BY <1>3 DEF Lookup, Lose, dbVars, connVars
  <1>4. CASE SendCommand(c)
    <2>1. /\ creator' \in [Cmds -> {"none", "inserted", "lookup", "send", "mark", "done"}]
          /\ target' \in [Cmds -> Conns \cup {NoConn}]
          /\ UNCHANGED <<status, current, reader, toSend, link, received, failures>>
      BY <1>4, ZenonT(60) DEF SendCommand, dbVars
    <2>2. CASE target[c] = current /\ current \in Conns
      <3>1. Enqueue(current, c) /\ c \in Messages
        BY <1>4, <2>2 DEF SendCommand, Messages
      <3> HIDE DEF Types
      <3>2. /\ send' \in [Conns -> Seq(Messages)]
            /\ \A j \in Conns : Len(send'[j]) <= sendChanSize
            /\ lost' \subseteq Cmds
        BY <2>2, <3>1, EnqueueEffect
      <3> QED
        BY <2>1, <3>2 DEF Types
    <2>3. CASE target[c] = current /\ current \notin Conns
      <3>1. Enqueue(current, c)
        BY <1>4, <2>3 DEF SendCommand
      <3>2. send' = send
        BY <2>3, <3>1 DEF Enqueue, Lose
      <3>3. lost' \subseteq Cmds
        BY <3>1 DEF Enqueue, Lose
      <3> QED
        BY <2>1, <3>2, <3>3
    <2>4. CASE target[c] # current
      BY <1>4, <2>1, <2>4 DEF SendCommand
    <2> QED
      BY <2>2, <2>3, <2>4
  <1>5. CASE Mark(c)
    BY <1>5 DEF Mark, connVars
  <1> QED
    BY <1>1, <1>2, <1>3, <1>4, <1>5, ZenonT(60) DEF CreatorStep

\* The steps of a connection keep the types.
LEMMA ConnTypes ==
    ASSUME Types, NEW k \in Conns,
           Register(k) \/ HandleHello(k) \/ ReaderStep(k) \/ WriteBatch(k) \/ Break(k)
    PROVE  Types'
  <1> USE DeliveryAssumption DEF Reading
  <1>1. CASE Register(k)
    BY <1>1 DEF Types, Register, dbVars, apiVars
  <1>2. CASE HandleHello(k)
    <2>1. /\ reader' \in [Conns -> Reading \cup {"none", "select", "redeliver", "mark", "ended"}]
          /\ UNCHANGED <<status, creator, target, current, toSend, link, received, failures>>
      BY <1>2, ZenonT(60) DEF Types, HandleHello, dbVars, apiVars
    <2>2. CASE k = current
      <3>1. Enqueue(k, HELLO_ACK) /\ HELLO_ACK \in Messages
        BY <1>2, <2>2 DEF HandleHello, Messages
      <3> QED
        BY <2>1, <3>1, EnqueueEffect DEF Types
    <2>3. CASE k # current
      BY <1>2, <2>1, <2>3 DEF Types, HandleHello
    <2> QED
      BY <2>2, <2>3
  <1>3. CASE Select(k)
    <2>1. Unsent \subseteq Cmds
      BY DEF Unsent
    <2>2. toSend' \in {toSend, [toSend EXCEPT ![k] = Unsent]}
      BY <1>3 DEF Select
    <2> QED
      BY <1>3, <2>1, <2>2, ZenonT(60) DEF Types, Select, dbVars, apiVars
  <1>4. CASE Redeliver(k)
    <2>1. /\ reader' \in [Conns -> Reading \cup {"none", "select", "redeliver", "mark", "ended"}]
          /\ UNCHANGED <<status, creator, target, current, toSend, link, received, failures>>
      BY <1>4, ZenonT(60) DEF Types, Redeliver, dbVars, apiVars
    <2>2. CASE k = current
      <3>1. PICK c \in toSend[k] : Enqueue(k, c)
        BY <1>4, <2>2 DEF Redeliver
      <3>2. c \in Messages
        BY DEF Types, Messages
      <3> QED
        BY <2>1, <3>1, <3>2, EnqueueEffect DEF Types
    <2>3. CASE k # current
      BY <1>4, <2>1, <2>3 DEF Types, Redeliver
    <2> QED
      BY <2>2, <2>3
  <1>5. CASE MarkRedelivered(k)
    BY <1>5 DEF Types, MarkRedelivered, Rest, apiVars
  <1>6. CASE RedeliveryEnds(k)
    BY <1>6 DEF Types, RedeliveryEnds, dbVars, apiVars
  <1>7. CASE ReadError(k)
    BY <1>7 DEF Types, ReadError, dbVars, apiVars
  <1>8. CASE HandleCmdResult(k)
    BY <1>8, SMTT(60) DEF Types, HandleCmdResult, apiVars, connVars
  <1>9. CASE WriteBatch(k)
    BY <1>9, BatchEffect, ZenonT(60) DEF Types, WriteBatch, dbVars, apiVars
  <1>10. CASE Break(k)
    BY <1>10 DEF Types, Break, dbVars, apiVars, connVars
  <1> QED
    BY <1>1, <1>2, <1>3, <1>4, <1>5, <1>6, <1>7, <1>8, <1>9, <1>10 DEF ReaderStep

\* Every step keeps the types.
LEMMA TypesStep == Types /\ Next => Types'
  <1> SUFFICES ASSUME Types, Next PROVE Types'
    OBVIOUS
  <1>1. CASE Crash
    BY <1>1, DeliveryAssumption DEF Types, Crash, Lose, Reading, dbVars
  <1> QED
    BY <1>1, CreatorTypes, ConnTypes DEF Next

-----------------------------------------------------------------------------
(* Handing over *)

\* A send that has been tried leaves its trace for ever.
LEMMA TriedStays ==
    ASSUME Types, Types', Next, NEW c \in Cmds, Tried(c)
    PROVE  Tried(c)'
  <1> DEFINE Keeps == /\ \A k \in Conns : Of(send[k]) \subseteq Of(send'[k])
                      /\ received' = received /\ lost \subseteq lost'
  <1>1. ASSUME Keeps PROVE Tried(c)'
    BY <1>1 DEF Tried, Underway
  <1>2. ASSUME UNCHANGED <<send, received, lost>> PROVE Tried(c)'
    BY <1>2 DEF Tried, Underway
  <1> HIDE DEF Keeps
  <1>3. ASSUME NEW d \in Cmds, Insert(d) \/ CheckConnected(d) \/ Mark(d) PROVE Tried(c)'
    BY <1>2, <1>3 DEF Insert, CheckConnected, Mark, connVars
  <1>4. ASSUME NEW d \in Cmds, Lookup(d) PROVE Tried(c)'
    BY <1>1, <1>4 DEF Keeps, Lookup, Lose, connVars
  <1>5. ASSUME NEW d \in Cmds, SendCommand(d) PROVE Tried(c)'
    <2>1. received' = received /\ d \in Messages
      BY <1>5 DEF SendCommand, Messages
    <2>2. CASE target[d] = current /\ current \in Conns
      <3>1. Enqueue(current, d)
        BY <1>5, <2>2 DEF SendCommand
      <3> QED
        BY <1>1, <2>1, <2>2, <3>1, EnqueueEffect, ZenonT(60) DEF Keeps
    <2>3. CASE target[d] = current /\ current \notin Conns
      <3>1. Enqueue(current, d)
        BY <1>5, <2>3 DEF SendCommand
      <3>2. send' = send /\ lost \subseteq lost'
        BY <2>3, <3>1 DEF Enqueue, Lose, Types
      <3> QED
        BY <1>1, <2>1, <3>2 DEF Keeps
    <2>4. CASE target[d] # current
      BY <1>2, <1>5, <2>4 DEF SendCommand
    <2> QED
      BY <2>2, <2>3, <2>4
  <1>6. ASSUME NEW k \in Conns, HandleHello(k) PROVE Tried(c)'
    <2>1. CASE k = current
      <3>1. Enqueue(k, HELLO_ACK) /\ HELLO_ACK \in Messages /\ received' = received
        BY <1>6, <2>1 DEF HandleHello, Messages
      <3> QED
        BY <1>1, <3>1, EnqueueEffect, ZenonT(60) DEF Keeps
    <2>2. CASE k # current
      BY <1>2, <1>6, <2>2 DEF HandleHello
    <2> QED
      BY <2>1, <2>2
  <1>7. ASSUME NEW k \in Conns, Redeliver(k) PROVE Tried(c)'
    <2>1. CASE k = current
      <3>1. PICK d \in toSend[k] : Enqueue(k, d)
        BY <1>7, <2>1 DEF Redeliver
      <3>2. d \in Messages /\ received' = received
        BY <1>7 DEF Redeliver, Types, Messages
      <3> QED
        BY <1>1, <3>1, <3>2, EnqueueEffect, ZenonT(60) DEF Keeps
    <2>2. CASE k # current
      BY <1>2, <1>7, <2>2, ZenonT(60) DEF Redeliver
    <2> QED
      BY <2>1, <2>2
  <1>8. ASSUME NEW k \in Conns,
               \/ Register(k) \/ Select(k) \/ MarkRedelivered(k) \/ RedeliveryEnds(k)
               \/ ReadError(k) \/ HandleCmdResult(k) \/ Break(k)
        PROVE  Tried(c)'
    BY <1>2, <1>8, SMTT(60) DEF Register, Select, MarkRedelivered, RedeliveryEnds, ReadError,
       HandleCmdResult, Break, connVars
  <1>9. ASSUME NEW k \in Conns, WriteBatch(k) PROVE Tried(c)'
    <2>1. CASE c \in Of(send[k])
      BY <1>9, <2>1, BatchEffect, SMTT(60) DEF Tried
    <2>2. CASE received[c] > 0
      <3>1. received'[c] >= received[c] /\ received[c] \in Nat /\ received'[c] \in Nat
        BY <1>9, BatchEffect, ZenonT(60) DEF Types
      <3> QED
        BY <2>2, <3>1, SMTT(60) DEF Tried
    <2>3. CASE c \in lost
      BY <1>9, <2>3, BatchEffect DEF Tried
    <2>4. CASE \E j \in Conns \ {k} : c \in Of(send[j])
      BY <1>9, <2>4, BatchEffect DEF Tried, Underway
    <2> QED
      BY <2>1, <2>2, <2>3, <2>4, ZenonT(60) DEF Tried, Underway
  <1>10. CASE Crash
    BY <1>10, SMTT(60) DEF Crash, Lose, Tried, Underway
  <1> QED
    BY <1>3, <1>4, <1>5, <1>6, <1>7, <1>8, <1>9, <1>10 DEF Next, CreatorStep, ReaderStep

\* The tables are functions of the commands and of the connections.
LEMMA Tables ==
    ASSUME Types
    PROVE  /\ DOMAIN status = Cmds /\ DOMAIN creator = Cmds /\ DOMAIN target = Cmds
           /\ DOMAIN reader = Conns /\ DOMAIN toSend = Conns
  BY ZenonT(60) DEF Types

\* Every step keeps what the creator and the redelivery say of the sends tried.
LEMMA TriesStep ==
    ASSUME Flags, Types, Types', Tries, Next
    PROVE  Tries'
  <1>1. \A c \in Cmds : Tried(c) => Tried(c)'
    BY TriedStays, SMTT(60)
  <1>0. \A j \in Conns : toSend[j] \subseteq Cmds
    BY ZenonT(60) DEF Types
  <1> USE DEF Tries, TargetKnown, CreatorTried, ReaderTried
  <1> HIDE DEF Tried
  <1>2. ASSUME NEW c \in Cmds, Insert(c) \/ CheckConnected(c)
        PROVE  Tries'
    BY <1>1, <1>2, SMTT(60) DEF Types, Insert, CheckConnected, AfterCheck, dbVars, connVars
  <1>3. ASSUME NEW c \in Cmds, Lookup(c) PROVE Tries'
    <2>1. current = NoConn => Tried(c)'
      BY <1>3, ZenonT(60) DEF Lookup, Lose, Tried
    <2>2. /\ creator' = [creator EXCEPT ![c] = IF current = NoConn THEN "mark" ELSE "send"]
          /\ target' = [target EXCEPT ![c] = current]
      BY <1>3 DEF Lookup
    <2>3. UNCHANGED <<sent_at, reader, toSend>>
      BY <1>3, SMTT(60) DEF Lookup, dbVars, connVars
    <2>4. /\ creator'[c] = IF current = NoConn THEN "mark" ELSE "send"
          /\ target'[c] = current
          /\ \A d \in Cmds \ {c} : creator'[d] = creator[d] /\ target'[d] = target[d]
      BY <2>2, Tables, ZenonT(60)
    <2>5. TargetKnown'
      BY <2>4, ZenonT(60) DEF Types
    <2>6. CreatorTried'
      BY <1>1, <2>1, <2>4, ZenonT(60)
    <2> QED
      BY <1>0, <1>1, <2>3, <2>5, <2>6, ZenonT(60)
  <1>4. ASSUME NEW c \in Cmds, SendCommand(c) PROVE Tries'
    <2>1. UNCHANGED <<sent_at, reader, toSend>>
      BY <1>4, SMTT(60) DEF SendCommand, dbVars
    <2>2. ASSUME target[c] = current PROVE Tried(c)'
      <3>1. Enqueue(current, c) /\ c \in Messages
        BY <1>4, <2>2, SMTT(60) DEF SendCommand, Messages
      <3>2. CASE current \in Conns
        BY <3>1, <3>2, EnqueueEffect, SMTT(60) DEF Tried, Underway
      <3> QED
        BY <1>4, <2>2, <3>2, SMTT(60) DEF SendCommand
    <2>3. /\ target' = [target EXCEPT ![c] = NoConn]
          /\ creator' = [creator EXCEPT ![c] = IF target[c] = current THEN "mark" ELSE "done"]
      BY <1>4, ZenonT(60) DEF SendCommand
    <2>4. /\ creator'[c] = IF target[c] = current THEN "mark" ELSE "done"
          /\ \A d \in Cmds \ {c} : creator'[d] = creator[d] /\ target'[d] = target[d]
      BY <2>3, Tables, ZenonT(60)
    <2>5. TargetKnown' /\ CreatorTried'
      BY <1>1, <2>2, <2>4, ZenonT(60)
    <2> QED
      BY <1>0, <1>1, <2>1, <2>5, ZenonT(60)
  <1>5. ASSUME NEW c \in Cmds, Mark(c) PROVE Tries'
    <2>2. creator[c] = "mark" /\ creator' = [creator EXCEPT ![c] = "done"] /\ target' = target
      BY <1>5 DEF Mark
    <2>3. UNCHANGED <<reader, toSend>>
      BY <1>5, SMTT(60) DEF Mark, connVars
    <2>4. /\ creator'[c] = "done"
          /\ \A d \in Cmds \ {c} : creator'[d] = creator[d]
      BY <2>2, Tables, ZenonT(60)
    <2>5. TargetKnown' /\ CreatorTried'
      BY <1>1, <2>2, <2>4, ZenonT(60)
    <2> QED
      BY <1>0, <1>1, <2>3, <2>5, ZenonT(60)
  <1>6. ASSUME NEW k \in Conns, Register(k) \/ HandleHello(k) \/ RedeliveryEnds(k) \/ ReadError(k)
        PROVE  Tries'
    <2>1. UNCHANGED <<sent_at, creator, target, toSend>>
      BY <1>6, ZenonT(60) DEF Register, HandleHello, RedeliveryEnds, ReadError, dbVars, apiVars
    <2>2. \E q \in {"reading", "select", "ended", "served"} : reader' = [reader EXCEPT ![k] = q]
      BY <1>6, ZenonT(60) DEF Register, HandleHello, RedeliveryEnds, ReadError
    <2>3. \A j \in Conns : reader'[j] = "mark" => reader[j] = "mark"
      BY <2>2, Tables, ZenonT(60)
    <2> QED
      BY <1>0, <1>1, <2>1, <2>3, ZenonT(60)
  <1>7. ASSUME NEW k \in Conns, Select(k) PROVE Tries'
    <2>1. UNCHANGED <<sent_at, creator, target>>
      BY <1>7, SMTT(60) DEF Select, dbVars, apiVars
    <2>2. \A j \in Conns : reader'[j] = "mark" => reader[j] = "mark" /\ toSend'[j] = toSend[j]
      BY <1>7, SMTT(60) DEF Types, Select
    <2> QED
      BY <1>1, <2>1, <2>2, ZenonT(60) DEF Types
  <1>8. ASSUME NEW k \in Conns, Redeliver(k) PROVE Tries'
    <2>1. UNCHANGED <<sent_at, creator, target, toSend>>
      BY <1>8, ZenonT(60) DEF Redeliver, dbVars, apiVars
    <2>2. PICK c \in toSend[k] :
             /\ \A d \in toSend[k] : c <= d
             /\ IF k = current
                THEN Enqueue(k, c) /\ reader' = [reader EXCEPT ![k] = "mark"]
                ELSE reader' = [reader EXCEPT ![k] = "ended"] /\ UNCHANGED <<send, lost>>
      BY <1>8, SMTT(60) DEF Redeliver
    <2>3. c \in Cmds /\ c \in Messages /\ toSend[k] \subseteq Cmds
      BY SMTT(60) DEF Types, Messages
    <2>4. k = current => Tried(c)'
      BY <2>2, <2>3, EnqueueEffect, ZenonT(60) DEF Tried, Underway
    <2>5. \A b \in toSend[k] : (\A d \in toSend[k] : b <= d) => b = c
      <3>1. \A a, b \in Cmds : a <= b /\ b <= a => a = b
        BY DeliveryAssumption, SMTT(60) DEF Cmds
      <3> QED
        BY <2>2, <2>3, <3>1, ZenonT(60)
    <2>6. \A j \in Conns : reader'[j] = "mark" => (j = k /\ k = current) \/ reader[j] = "mark"
      BY <2>2, Tables, ZenonT(60)
    <2>7. ASSUME NEW j \in Conns, reader'[j] = "mark", NEW b \in toSend'[j],
                 \A d \in toSend'[j] : b <= d
          PROVE  Tried(b)'
      <3>1. b \in Cmds /\ toSend' = toSend
        BY <2>1, ZenonT(60) DEF Types
      <3>2. CASE j = k /\ k = current
        BY <2>4, <2>5, <2>7, <3>1, <3>2, ZenonT(60)
      <3>3. CASE reader[j] = "mark"
        BY <1>1, <2>7, <3>1, <3>3, ZenonT(60)
      <3> QED
        BY <2>6, <2>7, <3>2, <3>3, ZenonT(60)
    <2> QED
      BY <1>1, <2>1, <2>7, ZenonT(60) DEF Types
  <1>9. ASSUME NEW k \in Conns, MarkRedelivered(k) PROVE Tries'
    <2>1. PICK c \in toSend[k] :
             /\ \A d \in toSend[k] : c <= d
             /\ sent_at' \in {[sent_at EXCEPT ![c] = TRUE], sent_at}
             /\ toSend' = [toSend EXCEPT ![k] = toSend[k] \ {c}]
      BY <1>9, ZenonT(60) DEF MarkRedelivered, Rest
    <2>2. /\ reader[k] = "mark" /\ reader' = [reader EXCEPT ![k] = "redeliver"]
          /\ creator' = creator /\ target' = target
      BY <1>9 DEF MarkRedelivered, apiVars
    <2>3. c \in Cmds /\ Tried(c)
      BY <2>1, <2>2, ZenonT(60) DEF Types
    <2>5. \A j \in Conns : reader'[j] = "mark" => reader[j] = "mark" /\ toSend'[j] = toSend[j]
      BY <2>1, <2>2, ZenonT(60) DEF Types
    <2>7. ReaderTried'
      BY <1>0, <1>1, <2>5, ZenonT(60)
    <2> QED
      BY <1>1, <2>2, <2>7, ZenonT(60)
  <1>10. ASSUME NEW k \in Conns, HandleCmdResult(k) \/ WriteBatch(k) \/ Break(k) PROVE Tries'
    <2>1. UNCHANGED <<sent_at, creator, target, reader, toSend>>
      BY <1>10, ZenonT(60) DEF HandleCmdResult, WriteBatch, Break, dbVars, apiVars, connVars
    <2> QED
      BY <1>0, <1>1, <2>1, ZenonT(60)
  <1>11. CASE Crash
    BY <1>1, <1>11, SMTT(60) DEF Types, Crash, dbVars
  <1> QED
    BY <1>2, <1>3, <1>4, <1>5, <1>6, <1>7, <1>8, <1>9, <1>10, <1>11, ZenonT(60)
       DEF Next, CreatorStep, ReaderStep

-----------------------------------------------------------------------------
(* NoneForgotten *)

Waits(c) == creator[c] \in {"inserted", "lookup", "send", "mark"}

\* NoneForgotten and LateSend for one command and one connection.
Covered(k, c) ==
    current = k /\ reader[k] \in Past /\ status[c] = "pending" /\ ~sent_at[c] =>
        /\ Waits(c) \/ Served(k, c)
        /\ creator[c] = "send" /\ target[c] # k => Served(k, c)

\* NoneForgotten and LateSend, taken together, are Covered for every connection and command.
LEMMA CoveredIs == (NoneForgotten /\ LateSend) <=> \A k \in Conns, c \in Cmds : Covered(k, c)
  BY ZenonT(60) DEF NoneForgotten, LateSend, Covered, Waits, Served, Past

\* A command that the redelivery has stays with it, or a send of it is tried.
LEMMA ServedStays ==
    ASSUME Types, Types', Tries, Next, NEW k \in Conns, NEW c \in Cmds, Served(k, c),
           current' = k, reader[k] \in Past
    PROVE  Served(k, c)'
  <1>1. CASE Tried(c)
    BY <1>1, TriedStays, SMTT(60) DEF Served
  <1>2. CASE c \in toSend[k] /\ ~Tried(c)
    <2>1. ASSUME NEW j \in Conns, MarkRedelivered(j) PROVE c \in toSend'[k]
      <3>1. PICK d \in toSend[j] :
               /\ \A e \in toSend[j] : d <= e
               /\ toSend' = [toSend EXCEPT ![j] = toSend[j] \ {d}]
        BY <2>1, ZenonT(60) DEF MarkRedelivered, Rest
      <3>2. reader[j] = "mark"
        BY <2>1 DEF MarkRedelivered
      <3>3. Tried(d)
        BY <3>1, <3>2 DEF Tries, ReaderTried
      <3>4. d # c
        BY <3>3, <1>2
      <3> QED
        BY <1>2, <3>1, <3>4 DEF Types
    <2>2. ASSUME NEW j \in Conns, Select(j) PROVE c \in toSend'[k]
      <3>1. reader[j] = "select" /\ toSend' \in {toSend, [toSend EXCEPT ![j] = Unsent]}
        BY <2>2 DEF Select
      <3>2. j # k
        BY <3>1 DEF Past
      <3> QED
        BY <1>2, <3>1, <3>2 DEF Types
    <2>3. CASE Crash
      BY <2>3, ConnsAreNot0 DEF Crash
    <2>4. ASSUME NEW d \in Cmds, Insert(d) \/ CreatorStep(d) PROVE toSend' = toSend
      BY <2>4, ZenonT(60) DEF Insert, CreatorStep, CheckConnected, Lookup, SendCommand, Mark, connVars
    <2>5. ASSUME NEW j \in Conns,
                 \/ Register(j) \/ HandleHello(j) \/ Redeliver(j) \/ RedeliveryEnds(j)
                 \/ ReadError(j) \/ HandleCmdResult(j) \/ WriteBatch(j) \/ Break(j)
          PROVE  toSend' = toSend
      BY <2>5, ZenonT(60) DEF Register, HandleHello, Redeliver, RedeliveryEnds, ReadError, HandleCmdResult,
         WriteBatch, Break, connVars
    <2> QED
      BY <1>2, <2>1, <2>2, <2>3, <2>4, <2>5, ZenonT(60) DEF Next, ReaderStep, Served
  <1> QED
    BY <1>1, <1>2 DEF Served

\* The creator of a command never leaves it to nobody.
LEMMA CreatorCovers ==
    ASSUME Flags, Types, Types', Tries, Next, NEW k \in Conns, NEW c \in Cmds, Covered(k, c),
           NEW d \in Cmds, Insert(d) \/ CreatorStep(d)
    PROVE  Covered(k, c)'
  <1> SUFFICES ASSUME current' = k, reader'[k] \in Past, status'[c] = "pending", ~sent_at'[c]
               PROVE  /\ Waits(c)' \/ Served(k, c)'
                      /\ creator'[c] = "send" /\ target'[c] # k => Served(k, c)'
    BY ZenonT(60) DEF Covered
  <1>1. UNCHANGED <<current, reader>>
    BY ZenonT(60) DEF Insert, CreatorStep, CheckConnected, Lookup, SendCommand, Mark, connVars
  <1>2. Served(k, c) => Served(k, c)'
    BY <1>1, ServedStays, ZenonT(60)
  <1>3. Tried(c) => Served(k, c)'
    BY TriedStays, SMTT(60) DEF Served
  <1>4. CASE Insert(d)
    <2>1. CASE c = d
      BY <1>4, <2>1, SMTT(60) DEF Insert, Types, Waits
    <2>2. CASE c # d
      <3>1. /\ creator'[c] = creator[c] /\ status'[c] = status[c]
            /\ target' = target /\ sent_at' = sent_at
        BY <1>4, <2>2, Tables, ZenonT(60) DEF Insert
      <3> QED
        BY <1>1, <1>2, <3>1, ZenonT(60) DEF Waits, Covered
    <2> QED
      BY <2>1, <2>2, SMTT(60)
  <1>5. CASE CheckConnected(d)
    <2>1. /\ status' = status /\ sent_at' = sent_at /\ target' = target
          /\ creator[d] = "inserted" /\ creator' = [creator EXCEPT ![d] = AfterCheck]
      BY <1>5, ZenonT(60) DEF CheckConnected, dbVars
    <2>2. AfterCheck = "lookup"
      BY <1>1, ConnsAreNot0, ZenonT(60) DEF AfterCheck
    <2>3. creator'[d] = "lookup" /\ (c # d => creator'[c] = creator[c])
      BY <2>1, <2>2, Tables, ZenonT(60)
    <2> QED
      BY <1>1, <1>2, <2>1, <2>3, ZenonT(60) DEF Waits, Covered
  <1>6. CASE Lookup(d)
    BY <1>1, <1>2, <1>6, ConnsAreNot0, ZenonT(60) DEF Lookup, Types, Waits, Covered, dbVars
  <1>7. CASE SendCommand(d)
    <2>1. /\ status' = status /\ sent_at' = sent_at /\ creator[d] = "send"
          /\ target' = [target EXCEPT ![d] = NoConn]
          /\ creator' = [creator EXCEPT ![d] = IF target[d] = current THEN "mark" ELSE "done"]
      BY <1>7, ZenonT(60) DEF SendCommand, dbVars
    <2>2. /\ creator'[d] = IF target[d] = current THEN "mark" ELSE "done"
          /\ c # d => creator'[c] = creator[c] /\ target'[c] = target[c]
      BY <2>1, Tables, ZenonT(60)
    <2>3. CASE c = d
      <3>1. CASE target[d] = current
        BY <2>2, <2>3, <3>1, ZenonT(60) DEF Waits
      <3>2. CASE target[d] # current
        <4>1. Served(k, c)
          BY <1>1, <2>1, <2>3, <3>2, ZenonT(60) DEF Covered
        <4> QED
          BY <1>2, <4>1
      <3> QED
        BY <3>1, <3>2
    <2>4. CASE c # d
      BY <1>1, <1>2, <2>1, <2>2, <2>4, ZenonT(60) DEF Waits, Covered
    <2> QED
      BY <2>3, <2>4, ZenonT(60)
  <1>8. CASE Mark(d)
    <2>1. ~sent_at[c]
      BY <1>8, MarkEffect, SMTT(60) DEF Mark
    <2>2. c = d => Served(k, c)'
      BY <1>3, <1>8, ZenonT(60) DEF Mark, Tries, CreatorTried
    <2>3. creator' = [creator EXCEPT ![d] = "done"] /\ status' = status /\ target' = target
      BY <1>8, SMTT(60) DEF Mark
    <2>4. creator'[d] = "done" /\ (c # d => creator'[c] = creator[c])
      BY <2>3, Tables, ZenonT(60)
    <2> QED
      BY <1>1, <1>2, <2>1, <2>2, <2>3, <2>4, ZenonT(60) DEF Waits, Covered
  <1> QED
    BY <1>4, <1>5, <1>6, <1>7, <1>8, ZenonT(60) DEF CreatorStep

\* Nor does a connection: a redelivery that starts has read every unsent command.
LEMMA ConnCovers ==
    ASSUME Flags, Types, Types', Tries, Next, NEW k \in Conns, NEW c \in Cmds, Covered(k, c),
           NEW j \in Conns,
           Register(j) \/ HandleHello(j) \/ ReaderStep(j) \/ WriteBatch(j) \/ Break(j)
    PROVE  Covered(k, c)'
  <1> SUFFICES ASSUME current' = k, reader'[k] \in Past, status'[c] = "pending", ~sent_at'[c]
               PROVE  /\ Waits(c)' \/ Served(k, c)'
                      /\ creator'[c] = "send" /\ target'[c] # k => Served(k, c)'
    BY ZenonT(60) DEF Covered
  <1>1. UNCHANGED <<creator, target>>
    BY ZenonT(60) DEF Register, HandleHello, ReaderStep, Select, Redeliver, MarkRedelivered,
       RedeliveryEnds, ReadError, HandleCmdResult, WriteBatch, Break, apiVars
  <1>2. ASSUME current = k, reader[k] \in Past, status[c] = "pending", ~sent_at[c]
        PROVE  /\ Waits(c)' \/ Served(k, c)'
               /\ creator'[c] = "send" /\ target'[c] # k => Served(k, c)'
    <2>1. Served(k, c) => Served(k, c)'
      BY <1>2, ServedStays, ZenonT(60)
    <2>2. Waits(c) => Waits(c)'
      BY <1>1, SMTT(60) DEF Waits
    <2> QED
      BY <1>1, <1>2, <2>1, <2>2, ZenonT(60) DEF Covered
  <1>3. ASSUME Select(j), j = k PROVE Served(k, c)'
    <2>1. toSend' = [toSend EXCEPT ![k] = Unsent]
      <3>1. reader' # [reader EXCEPT ![k] = "gaveUp"]
        BY Tables, ZenonT(60) DEF Past
      <3> QED
        BY <1>3, <3>1, ZenonT(60) DEF Select
    <2>2. c \in Unsent
      BY <1>3, ZenonT(60) DEF Select, dbVars, Unsent
    <2> QED
      BY <2>1, <2>2, Tables, ZenonT(60) DEF Served
  <1>4. CASE Select(j)
    <2>1. ASSUME j # k PROVE current = k /\ reader[k] \in Past /\ status[c] = "pending" /\ ~sent_at[c]
      <3>1. /\ current' = current /\ status' = status /\ sent_at' = sent_at
            /\ \E q : reader' = [reader EXCEPT ![j] = q]
        BY <1>4, ZenonT(60) DEF Select, dbVars
      <3> QED
        BY <2>1, <3>1, Tables, ZenonT(60)
    <2> QED
      BY <1>2, <1>3, <1>4, <2>1, ZenonT(60)
  <1>5. CASE Register(j)
    <2>1. j = k /\ reader' = [reader EXCEPT ![j] = "reading"]
      BY <1>5, ZenonT(60) DEF Register
    <2>2. k \in DOMAIN reader
      BY ZenonT(60) DEF Types
    <2>3. reader'[k] = "reading"
      BY <2>1, <2>2, ZenonT(60)
    <2> QED
      BY <2>3, ZenonT(60) DEF Past
  <1>6. CASE HandleHello(j) \/ Redeliver(j) \/ RedeliveryEnds(j)
    <2>1. reader[k] \in Past
      <3>1. CASE HandleHello(j)
        <4>1. \E q \in {"select", "ended"} : reader' = [reader EXCEPT ![j] = q]
          BY <3>1, ZenonT(60) DEF HandleHello
        <4> QED
          BY <4>1, Tables, ZenonT(60) DEF Past
      <3>2. CASE Redeliver(j) \/ RedeliveryEnds(j)
        <4>1. reader[j] = "redeliver" /\ \E q : reader' = [reader EXCEPT ![j] = q]
          BY <3>2, ZenonT(60) DEF Redeliver, RedeliveryEnds
        <4> QED
          BY <4>1, Tables, ZenonT(60) DEF Past
      <3> QED
        BY <1>6, <3>1, <3>2
    <2> QED
      BY <1>2, <1>6, <2>1, ZenonT(60) DEF HandleHello, Redeliver, RedeliveryEnds, dbVars
  <1>7. CASE MarkRedelivered(j)
    <2>1. reader[k] \in Past /\ current = k /\ status[c] = "pending"
      BY <1>7, ZenonT(60) DEF MarkRedelivered, Types, Past
    <2>2. ~sent_at[c]
      BY <1>7, MarkEffect, ZenonT(60) DEF MarkRedelivered, Types
    <2> QED
      BY <1>2, <2>1, <2>2, ZenonT(60)
  <1>8. CASE ReadError(j)
    <2>1. reader[k] \in Past /\ current = k /\ status[c] = "pending"
      <3>1. /\ status' = status /\ reader' = [reader EXCEPT ![j] = "ended"]
            /\ current' = IF current = j THEN NoConn ELSE current
        BY <1>8, ZenonT(60) DEF ReadError, dbVars
      <3>2. k # NoConn
        BY ConnsAreNot0
      <3>3. j # k
        BY <3>1, Tables, ZenonT(60) DEF Past
      <3> QED
        BY <3>1, <3>2, <3>3, Tables, ZenonT(60)
    <2> QED
      BY <1>2, <1>8, <2>1, ZenonT(60) DEF ReadError, dbVars
  <1>9. CASE HandleCmdResult(j)
    <2>1. status[c] = "pending"
      <3>1. PICK d \in Cmds : status' = [status EXCEPT ![d] = "closed"]
        BY <1>9, ZenonT(60) DEF HandleCmdResult
      <3> QED
        BY <3>1, Tables, ZenonT(60)
    <2> QED
      BY <1>2, <1>9, <2>1, ZenonT(60) DEF HandleCmdResult, connVars
  <1>10. CASE WriteBatch(j) \/ Break(j)
    BY <1>2, <1>10, ZenonT(60) DEF WriteBatch, Break, connVars, dbVars
  <1> QED
    BY <1>4, <1>5, <1>6, <1>7, <1>8, <1>9, <1>10, ZenonT(60) DEF ReaderStep

\* A server with no commands and no connections satisfies the inductive invariant.
LEMMA InitInv == Init => IInv
  <1> SUFFICES ASSUME Init PROVE IInv
    OBVIOUS
  <1>1. Flags
    BY DEF Init, Flags
  <1>2. Types
    BY DeliveryAssumption DEF Init, Types
  <1>3. Tries
    BY SMTT(60) DEF Init, Tries, TargetKnown, CreatorTried, ReaderTried
  <1>4. NoneForgotten /\ LateSend
    BY DEF Init, NoneForgotten, LateSend
  <1> QED
    BY <1>1, <1>2, <1>3, <1>4 DEF IInv

\* Every step keeps the inductive invariant.
LEMMA StepInv == IInv /\ [Next]_vars => IInv'
  <1> SUFFICES ASSUME IInv, [Next]_vars PROVE IInv'
    OBVIOUS
  <1>1. CASE Next
    <2>1. Flags' /\ Types'
      BY <1>1, FlagsStep, TypesStep DEF IInv
    <2>2. Tries'
      BY <1>1, <2>1, TriesStep DEF IInv
    <2>3. \A k \in Conns, c \in Cmds : Covered(k, c)
      BY CoveredIs, SMTT(60) DEF IInv
    <2>4. ASSUME NEW k \in Conns, NEW c \in Cmds PROVE Covered(k, c)'
      <3>1. CASE Crash
        BY <3>1, ConnsAreNot0, ZenonT(60) DEF Crash, Covered
      <3> QED
        BY <1>1, <2>1, <2>3, <3>1, CreatorCovers, ConnCovers, ZenonT(60) DEF IInv, Next
    <2>5. (NoneForgotten /\ LateSend)'
      BY <2>4, ZenonT(60) DEF NoneForgotten, LateSend, Covered, Waits, Served, Past
    <2> QED
      BY <2>1, <2>2, <2>5 DEF IInv
  <1>2. CASE UNCHANGED vars
    <2>1. \A c \in Cmds : Tried(c)' <=> Tried(c)
      BY <1>2, SMTT(60) DEF vars, connVars, Tried, Underway
    <2>2. Flags' /\ Types'
      BY <1>2, ZenonT(60) DEF IInv, Flags, Types, vars, dbVars, apiVars, connVars
    <2>3. Tries'
      BY <1>2, <2>1, ZenonT(60) DEF IInv, Types, Tries, TargetKnown, CreatorTried, ReaderTried,
         vars, dbVars, apiVars, connVars
    <2>4. (NoneForgotten /\ LateSend)'
      BY <1>2, <2>1, ZenonT(60) DEF IInv, NoneForgotten, LateSend, Served, vars, dbVars, apiVars, connVars
    <2> QED
      BY <2>2, <2>3, <2>4 DEF IInv
  <1> QED
    BY <1>1, <1>2

\* The inductive invariant holds in every reachable state.
LEMMA Inductive == Spec => []IInv
  BY InitInv, StepInv, PTL DEF Spec

\* The state keeps its types and no send channel exceeds its capacity.
THEOREM TypeCorrect == Spec => []TypeOK
  <1>1. IInv => TypeOK
    BY DEF IInv, Flags, Types, TypeOK
  <1> QED
    BY <1>1, Inductive, PTL

\* After the redelivery has read the table, every unsent command of the connected
\* agent has somebody who sends it, or a send of it has been tried.
THEOREM NoCommandForgotten == Spec => []NoneForgotten
  <1>1. IInv => NoneForgotten
    BY DEF IInv
  <1> QED
    BY <1>1, Inductive, PTL

-----------------------------------------------------------------------------
(* Marked for good *)

\* A channel that does not change has no command appended to it.
LEMMA NoAppend ==
    ASSUME NEW s \in Seq(Messages), NEW m \in Messages
    PROVE  /\ s # Append(s, m)
           /\ << >> # Append(s, m)
           /\ \A d \in Messages : Append(s, d) = Append(s, m) => d = m
  <1>1. /\ Len(Append(s, m)) = Len(s) + 1 /\ Len(s) \in Nat
        /\ Append(s, m)[Len(s) + 1] = m
    OBVIOUS
  <1>2. \A d \in Messages : Append(s, d)[Len(s) + 1] = d
    OBVIOUS
  <1> QED
    BY <1>1, <1>2

\* Client.Send of another message makes no copy of the command.
LEMMA EnqueueOther ==
    ASSUME Types, NEW k \in Conns, NEW m \in Messages, Enqueue(k, m),
           NEW c \in Cmds, c # m, NEW j \in Conns
    PROVE  send'[j] # Append(send[j], c)
  <1>1. c \in Messages /\ send[j] \in Seq(Messages)
    BY ZenonT(60) DEF Types, Messages
  <1>2. send'[j] = send[j] \/ send'[j] = Append(send[j], m)
    BY SMTT(60) DEF Enqueue, Types
  <1> QED
    BY <1>1, <1>2, NoAppend, ZenonT(60)

\* No step makes a copy of a settled command.
LEMMA SettledSends ==
    ASSUME Types, Next, NEW c \in Cmds, Settled(c), NEW j \in Conns
    PROVE  send'[j] # Append(send[j], c)
  <1>0. /\ c \in Messages /\ c # HELLO_ACK /\ HELLO_ACK \in Messages
        /\ send[j] \in Seq(Messages)
    BY DeliveryAssumption DEF Types, Messages, Cmds, HELLO_ACK
  <1>1. ASSUME UNCHANGED send PROVE send'[j] # Append(send[j], c)
    BY <1>0, <1>1, NoAppend, ZenonT(60)
  <1>2. ASSUME NEW d \in Cmds, Insert(d) \/ CreatorStep(d)
        PROVE  send'[j] # Append(send[j], c)
    <2>1. CASE SendCommand(d)
      <3>1. d # c
        BY <2>1, ZenonT(60) DEF SendCommand, Settled
      <3>2. CASE target[d] = current /\ current \in Conns
        BY <2>1, <3>1, <3>2, EnqueueOther, ZenonT(60) DEF SendCommand, Messages
      <3>3. CASE target[d] = current /\ current \notin Conns
        <4>1. Enqueue(current, d) /\ j # current /\ DOMAIN send = Conns
          BY <2>1, <3>3, ZenonT(60) DEF SendCommand, Types
        <4>2. send'[j] = send[j]
          BY <4>1, SMTT(60) DEF Enqueue
        <4> QED
          BY <1>0, <4>2, NoAppend, ZenonT(60)
      <3>4. CASE target[d] # current
        BY <1>1, <2>1, <3>4, ZenonT(60) DEF SendCommand
      <3> QED
        BY <3>2, <3>3, <3>4
    <2>2. CASE Insert(d) \/ CheckConnected(d) \/ Lookup(d) \/ Mark(d)
      BY <1>1, <2>2, ZenonT(60) DEF Insert, CheckConnected, Lookup, Mark, connVars
    <2> QED
      BY <1>2, <2>1, <2>2 DEF CreatorStep
  <1>3. ASSUME NEW k \in Conns, HandleHello(k) PROVE send'[j] # Append(send[j], c)
    <2>1. CASE k = current
      BY <1>0, <1>3, <2>1, EnqueueOther, ZenonT(60) DEF HandleHello
    <2>2. CASE k # current
      BY <1>1, <1>3, <2>2, ZenonT(60) DEF HandleHello
    <2> QED
      BY <2>1, <2>2
  <1>4. ASSUME NEW k \in Conns, Redeliver(k) PROVE send'[j] # Append(send[j], c)
    <2>1. PICK d \in toSend[k] :
             IF k = current THEN Enqueue(k, d) ELSE UNCHANGED <<send, lost>>
      BY <1>4, ZenonT(60) DEF Redeliver
    <2>2. d # c /\ d \in Messages
      BY <2>1, ZenonT(60) DEF Settled, Types, Messages
    <2>3. CASE k = current
      BY <2>1, <2>2, <2>3, EnqueueOther, ZenonT(60)
    <2>4. CASE k # current
      BY <1>1, <2>1, <2>4, ZenonT(60)
    <2> QED
      BY <2>3, <2>4
  <1>5. ASSUME NEW k \in Conns, WriteBatch(k) PROVE send'[j] # Append(send[j], c)
    <2>1. send'[j] = send[j] \/ send'[j] = << >>
      BY <1>5, SMTT(60) DEF WriteBatch, Types
    <2> QED
      BY <1>0, <2>1, NoAppend, ZenonT(60)
  <1>6. CASE Crash
    <2>1. send'[j] = << >>
      BY <1>6, SMTT(60) DEF Crash
    <2> QED
      BY <1>0, <2>1, NoAppend, ZenonT(60)
  <1>7. ASSUME NEW k \in Conns,
               \/ Register(k) \/ Select(k) \/ MarkRedelivered(k) \/ RedeliveryEnds(k)
               \/ ReadError(k) \/ HandleCmdResult(k) \/ Break(k)
        PROVE  send'[j] # Append(send[j], c)
    BY <1>1, <1>7, ZenonT(60) DEF Register, Select, MarkRedelivered, RedeliveryEnds,
       ReadError, HandleCmdResult, Break, connVars
  <1> QED
    BY <1>2, <1>3, <1>4, <1>5, <1>6, <1>7, ZenonT(60) DEF Next, ReaderStep

\* No step unsettles a command.
LEMMA SettledStays ==
    ASSUME Flags, Types, Next, NEW c \in Cmds, Settled(c)
    PROVE  Settled(c)'
  <1>1. ASSUME NEW d \in Cmds, Insert(d) \/ CreatorStep(d) PROVE Settled(c)'
    <2>1. d # c
      BY <1>1, ZenonT(60) DEF Settled, CreatorStep, Insert, CheckConnected, Lookup,
         SendCommand, Mark
    <2>2. toSend' = toSend /\ creator'[c] = creator[c]
      BY <1>1, <2>1, Tables, ZenonT(60) DEF CreatorStep, Insert, CheckConnected, Lookup,
         SendCommand, Mark, connVars
    <2>3. sent_at'[c]
      <3>1. CASE Mark(d)
        BY <3>1, MarkEffect, ZenonT(60) DEF Mark, Settled
      <3>2. CASE ~Mark(d)
        BY <1>1, <3>2, ZenonT(60) DEF CreatorStep, Insert, CheckConnected, Lookup,
           SendCommand, dbVars, Settled
      <3> QED
        BY <3>1, <3>2
    <2> QED
      BY <2>2, <2>3, ZenonT(60) DEF Settled
  <1>2. ASSUME NEW k \in Conns, Select(k) PROVE Settled(c)'
    <2>1. c \notin Unsent
      BY DEF Unsent, Settled
    <2>2. \A j \in Conns : c \notin toSend'[j]
      BY <1>2, <2>1, Tables, ZenonT(60) DEF Select, Settled
    <2> QED
      BY <1>2, <2>2, ZenonT(60) DEF Select, Settled, dbVars, apiVars
  <1>3. ASSUME NEW k \in Conns, MarkRedelivered(k) PROVE Settled(c)'
    <2>1. PICK d \in toSend[k] :
             /\ sent_at' \in {[sent_at EXCEPT ![d] = TRUE], sent_at}
             /\ toSend' = [toSend EXCEPT ![k] = toSend[k] \ {d}]
      BY <1>3, ZenonT(60) DEF MarkRedelivered, Rest
    <2>2. d \in Cmds
      BY <2>1, ZenonT(60) DEF Types
    <2>3. sent_at'[c]
      BY <2>1, <2>2, MarkEffect, ZenonT(60) DEF Settled
    <2>4. \A j \in Conns : c \notin toSend'[j]
      BY <2>1, Tables, ZenonT(60) DEF Settled
    <2> QED
      BY <1>3, <2>3, <2>4, ZenonT(60) DEF MarkRedelivered, Settled, apiVars
  <1>4. ASSUME NEW k \in Conns,
               \/ Register(k) \/ HandleHello(k) \/ Redeliver(k) \/ RedeliveryEnds(k)
               \/ ReadError(k) \/ HandleCmdResult(k) \/ WriteBatch(k) \/ Break(k)
        PROVE  Settled(c)'
    <2>1. UNCHANGED <<sent_at, creator, toSend>>
      BY <1>4, ZenonT(60) DEF Register, HandleHello, Redeliver, RedeliveryEnds,
         ReadError, HandleCmdResult, WriteBatch, Break, dbVars, apiVars, connVars
    <2> QED
      BY <2>1, ZenonT(60) DEF Settled
  <1>5. CASE Crash
    <2>1. creator'[c] = "done" /\ sent_at' = sent_at
      BY <1>5, SMTT(60) DEF Crash, Settled, dbVars
    <2>2. \A j \in Conns : toSend'[j] = {}
      BY <1>5, ZenonT(60) DEF Crash
    <2> QED
      BY <2>1, <2>2, ZenonT(60) DEF Settled
  <1> QED
    BY <1>1, <1>2, <1>3, <1>4, <1>5, ZenonT(60) DEF Next, ReaderStep

\* Once a command is marked and nobody who read it before is left, no
\* reconnection, redelivery or restart makes another copy of it.
THEOREM MarkedForGood == Spec => MarkedNotResent
  <1>1. IInv /\ [Next]_vars =>
           [\A c \in Cmds : Settled(c) =>
               /\ Settled(c)'
               /\ \A k \in Conns : send'[k] # Append(send[k], c)]_vars
    BY SettledStays, SettledSends, ZenonT(60) DEF IInv
  <1> QED
    BY <1>1, Inductive, PTL DEF Spec, MarkedNotResent

-----------------------------------------------------------------------------
(* How many copies of a command there are *)

\* The copies of message m in a channel.
Count(s, m) == Cardinality({i \in 1 .. Len(s) : s[i] = m})

\* The redelivery on k may still send the command.
Ahead(k, c) ==
    \/ reader[k] \in {"none", "reading", "select"}
    \/ reader[k] = "redeliver" /\ c \in toSend[k]
    \/ reader[k] = "mark" /\ c \in toSend[k] /\ \E d \in toSend[k] : d < c

Used(c) == {k \in Conns : ~Ahead(k, c)}

Spent(c) == IF creator[c] \in {"mark", "done"} THEN 1 ELSE 0

\* The sends that there have been, or will never be.
Budget(c) == Spent(c) + Cardinality(Used(c))

\* A copy that was received, or can still be, has been sent.
Bounded(c) ==
    /\ received[c] <= Budget(c)
    /\ \A k \in Conns : link[k] = "open" => received[c] + Count(send[k], c) <= Budget(c)

OneOpen == \A j, k \in Conns : link[j] = "open" /\ link[k] = "open" => j = k

\* A connection that was never opened has no reader and no messages.
Opened ==
    \A k \in Conns : link[k] = "none" => current # k /\ reader[k] = "none" /\ send[k] = << >>

CopiesInv == IInv /\ OneOpen /\ Opened /\ \A c \in Cmds : Bounded(c)

\* A number of copies is a number.
LEMMA CountType ==
    ASSUME NEW s \in Seq(Messages), NEW m
    PROVE  /\ IsFiniteSet({i \in 1 .. Len(s) : s[i] = m})
           /\ Count(s, m) \in Nat
  <1> DEFINE I == {i \in 1 .. Len(s) : s[i] = m}
  <1>1. 1 \in Int /\ Len(s) \in Int
    OBVIOUS
  <1>2. IsFiniteSet(1 .. Len(s))
    BY <1>1, FS_Interval
  <1>3. I \in SUBSET (1 .. Len(s))
    OBVIOUS
  <1> HIDE DEF I
  <1>4. IsFiniteSet(I)
    BY <1>2, <1>3, FS_Subset, Zenon
  <1>5. Cardinality(I) \in Nat
    BY <1>4, FS_CardinalityType
  <1> QED
    BY <1>4, <1>5 DEF I, Count

\* There are no copies in an empty channel.
LEMMA CountEmpty == \A m : Count(<< >>, m) = 0
  <1> TAKE m
  <1>1. {i \in 1 .. Len(<< >>) : << >>[i] = m} = {}
    OBVIOUS
  <1> QED
    BY <1>1, FS_EmptySet DEF Count

\* Append adds a copy of its message and none of another.
LEMMA CountAppend ==
    ASSUME NEW s \in Seq(Messages), NEW x \in Messages, NEW m
    PROVE  Count(Append(s, x), m) = IF x = m THEN Count(s, m) + 1 ELSE Count(s, m)
  <1> DEFINE n == Len(s)
             u == Append(s, x)
             I == {i \in 1 .. n : s[i] = m}
             J == {i \in 1 .. Len(u) : u[i] = m}
  <1>1. n \in Nat /\ Len(u) = n + 1 /\ u[n + 1] = x /\ \A i \in 1 .. n : u[i] = s[i]
    OBVIOUS
  <1>2. IsFiniteSet(I)
    BY CountType, Zenon
  <1>3. Count(s, m) = Cardinality(I) /\ Count(u, m) = Cardinality(J)
    BY DEF Count
  <1> HIDE DEF u, n
  <1>4. n + 1 \notin I
    BY <1>1
  <1>5. CASE x = m
    <2>1. J = I \cup {n + 1}
      BY <1>1, <1>5
    <2> HIDE DEF I, J
    <2>2. Cardinality(I \cup {n + 1}) = Cardinality(I) + 1
      BY <1>2, <1>4, FS_AddElement, Zenon
    <2> QED
      BY <1>3, <1>5, <2>1, <2>2 DEF u
  <1>6. CASE x # m
    <2>1. J = I
      BY <1>1, <1>6
    <2> HIDE DEF I, J
    <2> QED
      BY <1>3, <1>6, <2>1 DEF u
  <1> QED
    BY <1>5, <1>6

\* The first message of a channel is one of its copies.
LEMMA CountHead ==
    ASSUME NEW s \in Seq(Messages), s # << >>
    PROVE  Count(s, Head(s)) >= 1
  <1> DEFINE I == {i \in 1 .. Len(s) : s[i] = Head(s)}
  <1>1. 1 \in I
    OBVIOUS
  <1>2. IsFiniteSet(I) /\ Count(s, Head(s)) \in Nat
    BY CountType, Zenon
  <1>3. Count(s, Head(s)) = Cardinality(I)
    BY DEF Count
  <1> HIDE DEF I
  <1>4. Cardinality(I) # 0
    BY <1>1, <1>2, FS_EmptySet
  <1> QED
    BY <1>2, <1>3, <1>4

\* A redelivery that will not send a command any more never does.
LEMMA UsedStep ==
    ASSUME Types, Opened, Next, NEW k \in Conns, NEW c \in Cmds, Ahead(k, c)'
    PROVE  Ahead(k, c)
  <1>1. ASSUME UNCHANGED <<reader, toSend>> PROVE Ahead(k, c)
    BY <1>1 DEF Ahead
  <1>2. ASSUME NEW j \in Conns, NEW v, reader' = [reader EXCEPT ![j] = v], toSend' = toSend, j # k
        PROVE  Ahead(k, c)
    <2>1. reader'[k] = reader[k]
      BY <1>2 DEF Types
    <2> QED
      BY <1>2, <2>1 DEF Ahead
  <1>3. ASSUME NEW d \in Cmds, Insert(d) \/ CreatorStep(d) PROVE Ahead(k, c)
    BY <1>1, <1>3 DEF Insert, CreatorStep, CheckConnected, Lookup, SendCommand, Mark, connVars
  <1>4. ASSUME NEW j \in Conns, HandleCmdResult(j) \/ WriteBatch(j) \/ Break(j) PROVE Ahead(k, c)
    BY <1>1, <1>4 DEF HandleCmdResult, WriteBatch, Break, connVars
  <1>5. ASSUME NEW j \in Conns, Register(j) PROVE Ahead(k, c)
    <2>1. CASE j = k
      <3>1. reader[k] = "none"
        BY <1>5, <2>1 DEF Register, Opened
      <3> QED
        BY <3>1 DEF Ahead
    <2> QED
      BY <1>2, <1>5, <2>1, Zenon DEF Register
  <1>6. ASSUME NEW j \in Conns, HandleHello(j) \/ RedeliveryEnds(j) \/ ReadError(j)
        PROVE  Ahead(k, c)
    <2>1. toSend' = toSend /\ \E v : reader' = [reader EXCEPT ![j] = v]
      BY <1>6 DEF HandleHello, RedeliveryEnds, ReadError
    <2>2. CASE j = k
      <3>1. CASE HandleHello(k)
        BY <3>1 DEF HandleHello, Ahead
      <3>2. CASE RedeliveryEnds(k) \/ ReadError(k)
        <4>1. reader'[k] \in {"served", "ended"}
          BY <3>2 DEF RedeliveryEnds, ReadError, Types
        <4> QED
          BY <4>1 DEF Ahead
      <3> QED
        BY <1>6, <2>2, <3>1, <3>2
    <2> QED
      BY <1>2, <2>1, <2>2, Zenon
  <1>7. ASSUME NEW j \in Conns, Select(j) PROVE Ahead(k, c)
    <2>1. CASE j = k
      BY <1>7, <2>1 DEF Select, Ahead
    <2>2. CASE j # k
      <3>1. reader'[k] = reader[k] /\ toSend'[k] = toSend[k]
        BY <1>7, <2>2 DEF Select, Types
      <3> QED
        BY <3>1 DEF Ahead
    <2> QED
      BY <2>1, <2>2
  <1>8. ASSUME NEW j \in Conns, Redeliver(j) PROVE Ahead(k, c)
    <2>1. toSend' = toSend /\ reader[j] = "redeliver"
          /\ \E v \in {"mark", "ended"} : reader' = [reader EXCEPT ![j] = v]
      BY <1>8 DEF Redeliver
    <2>2. CASE j = k
      <3>1. reader'[k] \in {"mark", "ended"}
        BY <2>1, <2>2 DEF Types
      <3> QED
        BY <2>1, <2>2, <3>1 DEF Ahead
    <2> QED
      BY <1>2, <2>1, <2>2, Zenon
  <1>9. ASSUME NEW j \in Conns, MarkRedelivered(j) PROVE Ahead(k, c)
    <2>1. PICK d \in toSend[j] : /\ \A e \in toSend[j] : d <= e
                                 /\ toSend' = [toSend EXCEPT ![j] = Rest(j, d)]
      BY <1>9, Zenon DEF MarkRedelivered
    <2>2. reader[j] = "mark" /\ reader' = [reader EXCEPT ![j] = "redeliver"]
      BY <1>9 DEF MarkRedelivered
    <2>3. CASE j = k
      <3>1. reader'[k] = "redeliver" /\ toSend'[k] = toSend[k] \ {d} /\ toSend[k] \subseteq Cmds
        BY <2>1, <2>2, <2>3 DEF Types, Rest
      <3>2. c \in toSend[k] /\ c # d
        BY <3>1 DEF Ahead
      <3>3. d < c
        BY <2>1, <2>3, <3>1, <3>2 DEF Cmds
      <3> QED
        BY <2>1, <2>2, <2>3, <3>2, <3>3 DEF Ahead
    <2>4. CASE j # k
      <3>1. reader'[k] = reader[k] /\ toSend'[k] = toSend[k]
        BY <2>1, <2>2, <2>4 DEF Types
      <3> QED
        BY <3>1 DEF Ahead
    <2> QED
      BY <2>3, <2>4
  <1>10. CASE Crash
    <2>1. reader'[k] = IF reader[k] = "none" THEN "none" ELSE "ended"
      BY <1>10 DEF Crash
    <2> QED
      BY <2>1 DEF Ahead
  <1> QED
    BY <1>3, <1>4, <1>5, <1>6, <1>7, <1>8, <1>9, <1>10, Zenon DEF Next, ReaderStep

\* A set of connections is finite.
LEMMA UsedFinite == \A c : IsFiniteSet(Used(c)) /\ Cardinality(Used(c)) \in Nat
  <1> TAKE c
  <1>1. IsFiniteSet(Conns)
    BY DeliveryAssumption, FS_Interval DEF Conns
  <1>2. Used(c) \in SUBSET Conns
    BY DEF Used
  <1>3. IsFiniteSet(Used(c))
    BY <1>1, <1>2, FS_Subset
  <1> QED
    BY <1>3, FS_CardinalityType

\* What a creator has sent, or will never send, stays so.
LEMMA SpentStep ==
    ASSUME Types, Next, NEW c \in Cmds
    PROVE  Spent(c) <= Spent(c)' /\ Spent(c) \in Nat /\ Spent(c)' \in Nat
  <1>1. ASSUME creator[c] \in {"mark", "done"} PROVE creator'[c] \in {"mark", "done"}
    <2>1. ASSUME UNCHANGED creator PROVE creator'[c] \in {"mark", "done"}
      BY <1>1, <2>1
    <2>2. ASSUME NEW d \in Cmds, Insert(d) \/ CreatorStep(d)
          PROVE  creator'[c] \in {"mark", "done"}
      <3>1. \E v : creator' = [creator EXCEPT ![d] = v]
        BY <2>2 DEF Insert, CreatorStep, CheckConnected, Lookup, SendCommand, Mark
      <3>2. CASE c # d
        BY <1>1, <3>1, <3>2 DEF Types
      <3>3. CASE c = d
        <4>1. Mark(c)
          BY <1>1, <2>2, <3>3 DEF Insert, CreatorStep, CheckConnected, Lookup, SendCommand
        <4> QED
          BY <4>1 DEF Mark, Types
      <3> QED
        BY <3>2, <3>3
    <2>3. ASSUME NEW k \in Conns,
                 Register(k) \/ HandleHello(k) \/ ReaderStep(k) \/ WriteBatch(k) \/ Break(k)
          PROVE  UNCHANGED creator
      BY <2>3 DEF Register, HandleHello, ReaderStep, Select, Redeliver, MarkRedelivered,
         RedeliveryEnds, ReadError, HandleCmdResult, WriteBatch, Break, apiVars
    <2>4. CASE Crash
      BY <1>1, <2>4 DEF Crash
    <2> QED
      BY <2>1, <2>2, <2>3, <2>4, Zenon DEF Next
  <1> QED
    BY <1>1 DEF Spent

\* The budget never shrinks, and grows with a redelivery.
LEMMA BudgetStep ==
    ASSUME Types, Opened, Next, NEW c \in Cmds
    PROVE  /\ Budget(c) \in Nat /\ Budget(c)' \in Nat /\ Budget(c) <= Budget(c)'
           /\ (\E k \in Conns : Ahead(k, c) /\ ~Ahead(k, c)') => Budget(c) + 1 <= Budget(c)'
           /\ Spent(c) + 1 <= Spent(c)' => Budget(c) + 1 <= Budget(c)'
  <1> DEFINE U == Used(c)
             V == Used(c)'
  <1>1. IsFiniteSet(U) /\ Cardinality(U) \in Nat
    BY UsedFinite
  <1>2. IsFiniteSet(V) /\ Cardinality(V) \in Nat
    <2>1. IsFiniteSet(Conns)
      BY DeliveryAssumption, FS_Interval DEF Conns
    <2>2. V \in SUBSET Conns
      BY DEF Used
    <2> HIDE DEF V
    <2>3. IsFiniteSet(V)
      BY <2>1, <2>2, FS_Subset
    <2> QED
      BY <2>3, FS_CardinalityType
  <1>3. U \in SUBSET V
    BY UsedStep DEF Used
  <1>4. Spent(c) <= Spent(c)' /\ Spent(c) \in Nat /\ Spent(c)' \in Nat
    BY SpentStep
  <1>5. Budget(c) = Spent(c) + Cardinality(U) /\ Budget(c)' = Spent(c)' + Cardinality(V)
    BY DEF Budget
  <1>6. ASSUME NEW k \in Conns, Ahead(k, c), ~Ahead(k, c)' PROVE U # V
    BY <1>6 DEF Used
  <1> HIDE DEF U, V
  <1>7. Cardinality(U) <= Cardinality(V) /\ (Cardinality(V) = Cardinality(U) => V = U)
    BY <1>2, <1>3, FS_Subset
  <1>8. U # V => Cardinality(U) + 1 <= Cardinality(V)
    BY <1>1, <1>2, <1>7
  <1>9. (\E k \in Conns : Ahead(k, c) /\ ~Ahead(k, c)') => U # V
    BY <1>6, Zenon
  <1> QED
    BY <1>1, <1>2, <1>4, <1>5, <1>7, <1>8, <1>9

\* The agent opens no connection while it has one.
LEMMA OneOpenStep ==
    ASSUME Types, OneOpen, Next
    PROVE  OneOpen'
  <1>1. ASSUME UNCHANGED link PROVE OneOpen'
    BY <1>1 DEF OneOpen
  <1>2. ASSUME NEW k \in Conns, Register(k) PROVE OneOpen'
    <2>1. \A j \in Conns : link'[j] = "open" => j = k
      BY <1>2 DEF Register, Types
    <2> QED
      BY <2>1 DEF OneOpen
  <1>3. ASSUME NEW k \in Conns, Break(k) PROVE OneOpen'
    <2>1. \A j \in Conns : link'[j] = "open" => link[j] = "open"
      BY <1>3 DEF Break, Types
    <2> QED
      BY <2>1 DEF OneOpen
  <1>4. CASE Crash
    <2>1. \A j \in Conns : link'[j] # "open"
      BY <1>4 DEF Crash
    <2> QED
      BY <2>1 DEF OneOpen
  <1>5. ASSUME NEW c \in Cmds, Insert(c) \/ CreatorStep(c) PROVE UNCHANGED link
    BY <1>5 DEF Insert, CreatorStep, CheckConnected, Lookup, SendCommand, Mark
  <1>6. ASSUME NEW k \in Conns, HandleHello(k) \/ ReaderStep(k) \/ WriteBatch(k)
        PROVE  UNCHANGED link
    BY <1>6 DEF HandleHello, ReaderStep, Select, Redeliver, MarkRedelivered, RedeliveryEnds,
       ReadError, HandleCmdResult, WriteBatch
  <1> QED
    BY <1>1, <1>2, <1>3, <1>4, <1>5, <1>6, Zenon DEF Next

\* Client.Send changes no other channel and adds at most one copy of its message.
LEMMA EnqueueCounts ==
    ASSUME Types, NEW k \in Conns, NEW m \in Messages, Enqueue(k, m)
    PROVE  /\ \A j \in Conns : j # k => send'[j] = send[j]
           /\ \A x : x # m => Count(send'[k], x) = Count(send[k], x)
           /\ Count(send'[k], m) <= Count(send[k], m) + 1
  <1>1. send[k] \in Seq(Messages) /\ \A x : Count(send[k], x) \in Nat
    <2>1. send[k] \in Seq(Messages)
      BY DEF Types
    <2> QED
      BY <2>1, CountType, Zenon
  <1>2. CASE Len(send[k]) < sendChanSize
    <2>1. send' = [send EXCEPT ![k] = Append(@, m)]
      BY <1>2 DEF Enqueue
    <2>2. send'[k] = Append(send[k], m) /\ \A j \in Conns : j # k => send'[j] = send[j]
      BY <2>1 DEF Types
    <2>3. \A x : Count(Append(send[k], m), x)
                     = IF m = x THEN Count(send[k], x) + 1 ELSE Count(send[k], x)
      BY <1>1, CountAppend
    <2> QED
      BY <1>1, <2>2, <2>3
  <1>3. CASE ~(Len(send[k]) < sendChanSize)
    <2>1. send' = send
      BY <1>3 DEF Enqueue
    <2> QED
      BY <1>1, <2>1
  <1> QED
    BY <1>2, <1>3

\* A connection that was never opened is never used.
LEMMA OpenedStep ==
    ASSUME Types, Types', TargetKnown, Opened, Next
    PROVE  Opened'
  <1> SUFFICES ASSUME NEW k \in Conns, link'[k] = "none"
               PROVE  current' # k /\ reader'[k] = "none" /\ send'[k] = << >>
    BY DEF Opened
  <1>1. ASSUME link[k] = "none" PROVE current # k /\ reader[k] = "none" /\ send[k] = << >>
    BY <1>1 DEF Opened
  <1>2. ASSUME NEW c \in Cmds, Insert(c) \/ CheckConnected(c) \/ Lookup(c) \/ Mark(c)
        PROVE  UNCHANGED <<link, current, reader, send>>
    BY <1>2 DEF Insert, CheckConnected, Lookup, Mark, connVars
  <1>3. ASSUME NEW c \in Cmds, SendCommand(c)
        PROVE  link' = link /\ current' = current /\ reader' = reader
               /\ (k # current => send'[k] = send[k])
    <2>1. CASE target[c] = current
      <3>1. current \in Conns /\ c \in Messages /\ Enqueue(current, c)
        BY <1>3, <2>1 DEF SendCommand, TargetKnown, Messages
      <3>2. k # current => send'[k] = send[k]
        BY <3>1, EnqueueCounts
      <3> QED
        BY <1>3, <3>2 DEF SendCommand
    <2>2. CASE target[c] # current
      BY <1>3, <2>2 DEF SendCommand
    <2> QED
      BY <2>1, <2>2
  <1>4. ASSUME NEW j \in Conns, Register(j)
        PROVE  j # k /\ link'[k] = link[k] /\ current' # k /\ reader'[k] = reader[k] /\ send' = send
    BY <1>4 DEF Register, Types
  <1>5. ASSUME NEW j \in Conns,
               \/ HandleHello(j) \/ Select(j) \/ Redeliver(j) \/ MarkRedelivered(j)
               \/ RedeliveryEnds(j) \/ ReadError(j)
        PROVE  /\ reader[j] # "none" /\ link' = link
               /\ current' \in {current, NoConn} /\ (k # j => reader'[k] = reader[k])
    BY <1>5 DEF HandleHello, Select, Redeliver, MarkRedelivered, RedeliveryEnds, ReadError, Types,
       Reading
  <1>6. ASSUME NEW j \in Conns, HandleHello(j) \/ Redeliver(j), k # current
        PROVE  send'[k] = send[k]
    <2>1. CASE j = current
      <3>1. \E m \in Messages : Enqueue(j, m)
        BY <1>6, <2>1 DEF HandleHello, Redeliver, Types, Messages
      <3> QED
        BY <1>6, <2>1, <3>1, EnqueueCounts, Zenon
    <2>2. CASE j # current
      BY <1>6, <2>2 DEF HandleHello, Redeliver
    <2> QED
      BY <2>1, <2>2
  <1>7. ASSUME NEW j \in Conns,
               Select(j) \/ MarkRedelivered(j) \/ RedeliveryEnds(j) \/ ReadError(j)
        PROVE  UNCHANGED send
    BY <1>7, Zenon DEF Select, MarkRedelivered, RedeliveryEnds, ReadError
  <1>8. ASSUME NEW j \in Conns, HandleCmdResult(j) PROVE UNCHANGED <<link, current, reader, send>>
    BY <1>8, Zenon DEF HandleCmdResult, connVars
  <1>9. ASSUME NEW j \in Conns, WriteBatch(j)
        PROVE  UNCHANGED <<link, current, reader>> /\ send'[k] \in {send[k], << >>}
    BY <1>9 DEF WriteBatch, Types
  <1>10. ASSUME NEW j \in Conns, Break(j)
         PROVE  UNCHANGED <<current, reader, send>> /\ link[k] = "none"
    BY <1>10 DEF Break, connVars, Types
  <1>11. CASE Crash
    <2>1. link[k] = "none" /\ current' = NoConn /\ send'[k] = << >>
      BY <1>11 DEF Crash
    <2>2. reader'[k] = "none"
      BY <1>1, <1>11, <2>1 DEF Crash
    <2> QED
      BY <2>1, <2>2, ConnsAreNot0
  <1>12. ASSUME NEW c \in Cmds, Insert(c) \/ CreatorStep(c)
         PROVE  current' # k /\ reader'[k] = "none" /\ send'[k] = << >>
    BY <1>1, <1>2, <1>3, <1>12 DEF CreatorStep
  <1>13. ASSUME NEW j \in Conns,
                Register(j) \/ HandleHello(j) \/ ReaderStep(j) \/ WriteBatch(j) \/ Break(j)
         PROVE  current' # k /\ reader'[k] = "none" /\ send'[k] = << >>
    <2>1. CASE Register(j)
      BY <1>1, <1>4, <2>1
    <2>2. CASE HandleHello(j) \/ Redeliver(j)
      BY <1>1, <1>5, <1>6, <2>2, ConnsAreNot0
    <2>3. CASE Select(j) \/ MarkRedelivered(j) \/ RedeliveryEnds(j) \/ ReadError(j)
      BY <1>1, <1>5, <1>7, <2>3, ConnsAreNot0
    <2>4. CASE HandleCmdResult(j) \/ WriteBatch(j) \/ Break(j)
      BY <1>1, <1>8, <1>9, <1>10, <2>4
    <2> QED
      BY <1>13, <2>1, <2>2, <2>3, <2>4 DEF ReaderStep
  <1> QED
    BY <1>11, <1>12, <1>13, Zenon DEF Next

\* Copies are only made by the sends of the budget, and only those on the open
\* connection can still be received.
LEMMA BoundedStep ==
    ASSUME Types, Types', TargetKnown, OneOpen, Opened, Next, NEW c \in Cmds, Bounded(c)
    PROVE  Bounded(c)'
  <1> DEFINE N(k) == Count(send[k], c)
             M(k) == Count(send'[k], c)
  <1>1. Budget(c) \in Nat /\ Budget(c)' \in Nat /\ Budget(c) <= Budget(c)'
    BY BudgetStep
  <1>2. received[c] \in Nat /\ received'[c] \in Nat
    BY DEF Types
  <1>3. \A k \in Conns : N(k) \in Nat /\ M(k) \in Nat
    <2>1. \A k \in Conns : send[k] \in Seq(Messages) /\ send'[k] \in Seq(Messages)
      BY DEF Types
    <2> QED
      BY <2>1, CountType, Zenon
  <1>4. /\ received[c] <= Budget(c)
        /\ \A k \in Conns : link[k] = "open" => received[c] + N(k) <= Budget(c)
    BY DEF Bounded
  <1>5. SUFFICES /\ received'[c] <= Budget(c)'
                 /\ \A k \in Conns : link'[k] = "open" => received'[c] + M(k) <= Budget(c)'
    BY DEF Bounded
  <1> DEFINE Goal == /\ received'[c] <= Budget(c)'
                     /\ \A k \in Conns : link'[k] = "open" => received'[c] + M(k) <= Budget(c)'
  <1>6. ASSUME received' = received, \A k \in Conns : link'[k] = "open" => link[k] = "open",
               UNCHANGED send
        PROVE  Goal
    <2>1. \A k \in Conns : M(k) = N(k)
      BY <1>6
    <2> HIDE DEF N, M
    <2> QED
      BY <1>1, <1>2, <1>3, <1>4, <1>6, <2>1
  <1>7. ASSUME NEW k \in Conns, NEW m \in Messages, Enqueue(k, m),
               received' = received, link' = link, m = c => Budget(c) + 1 <= Budget(c)'
        PROVE  Goal
    <2>1. /\ \A j \in Conns : j # k => M(j) = N(j)
          /\ m # c => M(k) = N(k)
          /\ m = c => M(k) <= N(k) + 1
      BY <1>7, EnqueueCounts
    <2> HIDE DEF N, M
    <2>2. CASE m = c
      BY <1>1, <1>2, <1>3, <1>4, <1>7, <2>1, <2>2
    <2>3. CASE m # c
      BY <1>1, <1>2, <1>3, <1>4, <1>7, <2>1, <2>3
    <2> QED
      BY <2>2, <2>3
  <1>8. ASSUME NEW d \in Cmds, Insert(d) \/ CheckConnected(d) \/ Lookup(d) \/ Mark(d) PROVE Goal
    <2>1. received' = received /\ link' = link /\ send' = send
      BY <1>8 DEF Insert, CheckConnected, Lookup, Mark, connVars
    <2> HIDE DEF Goal
    <2> QED
      BY <1>6, <2>1
  <1>9. ASSUME NEW d \in Cmds, SendCommand(d) PROVE Goal
    <2>1. received' = received /\ link' = link
      BY <1>9 DEF SendCommand
    <2>2. CASE target[d] = current
      <3>1. current \in Conns /\ d \in Messages /\ Enqueue(current, d)
        BY <1>9, <2>2 DEF SendCommand, TargetKnown, Messages
      <3>2. ASSUME d = c PROVE Budget(c) + 1 <= Budget(c)'
        <4>1. creator[c] = "send" /\ creator'[c] = "mark"
          BY <1>9, <2>2, <3>2 DEF SendCommand, Types
        <4>2. Spent(c) + 1 <= Spent(c)'
          BY <4>1 DEF Spent
        <4> QED
          BY <4>2, BudgetStep
      <3> HIDE DEF Goal
      <3> QED
        BY <1>7, <2>1, <3>1, <3>2
    <2>3. CASE target[d] # current
      <3>1. send' = send
        BY <1>9, <2>3 DEF SendCommand
      <3> HIDE DEF Goal
      <3> QED
        BY <1>6, <2>1, <3>1
    <2> QED
      BY <2>2, <2>3
  <1>10. ASSUME NEW j \in Conns, Register(j) PROVE Goal
    <2>1. received' = received /\ send' = send /\ link[j] = "none"
      BY <1>10 DEF Register
    <2>2. \A k \in Conns : link'[k] = "open" => k = j
      BY <1>10 DEF Register, Types
    <2>3. M(j) = 0
      BY <2>1, CountEmpty DEF Opened
    <2> HIDE DEF M
    <2> QED
      BY <1>1, <1>2, <1>4, <2>1, <2>2, <2>3
  <1>11. ASSUME NEW j \in Conns, HandleHello(j) PROVE Goal
    <2>1. received' = received /\ link' = link
      BY <1>11 DEF HandleHello
    <2>2. HELLO_ACK # c /\ HELLO_ACK \in Messages
      BY DEF HELLO_ACK, Cmds, Messages
    <2>3. CASE j = current
      <3>1. Enqueue(j, HELLO_ACK)
        BY <1>11, <2>3 DEF HandleHello
      <3> HIDE DEF Goal
      <3> QED
        BY <1>7, <2>1, <2>2, <3>1
    <2>4. CASE j # current
      <3>1. send' = send
        BY <1>11, <2>4 DEF HandleHello
      <3> HIDE DEF Goal
      <3> QED
        BY <1>6, <2>1, <3>1
    <2> QED
      BY <2>3, <2>4
  <1>12. ASSUME NEW j \in Conns, Redeliver(j) PROVE Goal
    <2>1. received' = received /\ link' = link /\ toSend' = toSend /\ reader[j] = "redeliver"
      BY <1>12 DEF Redeliver
    <2>2. CASE j = current
      <3>1. PICK d \in toSend[j] : /\ \A e \in toSend[j] : d <= e
                                   /\ Enqueue(j, d) /\ reader' = [reader EXCEPT ![j] = "mark"]
        BY <1>12, <2>2 DEF Redeliver
      <3>2. d \in Messages /\ d \in Cmds /\ toSend[j] \subseteq Cmds /\ reader'[j] = "mark"
        BY <3>1 DEF Types, Messages
      <3>3. ASSUME d = c PROVE Budget(c) + 1 <= Budget(c)'
        <4>1. Ahead(j, c)
          BY <2>1, <3>1, <3>3 DEF Ahead
        <4>2. \A e \in toSend[j] : ~(e < c)
          BY <3>1, <3>2, <3>3 DEF Cmds
        <4>3. ~Ahead(j, c)'
          BY <2>1, <3>2, <4>2 DEF Ahead
        <4> QED
          BY <4>1, <4>3, BudgetStep
      <3> HIDE DEF Goal
      <3> QED
        BY <1>7, <2>1, <3>1, <3>2, <3>3
    <2>3. CASE j # current
      <3>1. send' = send
        BY <1>12, <2>3 DEF Redeliver
      <3> HIDE DEF Goal
      <3> QED
        BY <1>6, <2>1, <3>1
    <2> QED
      BY <2>2, <2>3
  <1>13. ASSUME NEW j \in Conns,
                \/ Select(j) \/ MarkRedelivered(j) \/ RedeliveryEnds(j) \/ ReadError(j)
                \/ HandleCmdResult(j)
         PROVE  Goal
    <2>1. received' = received /\ link' = link /\ send' = send
      BY <1>13 DEF Select, MarkRedelivered, RedeliveryEnds, ReadError, HandleCmdResult, connVars
    <2> HIDE DEF Goal
    <2> QED
      BY <1>6, <2>1
  <1>14. ASSUME NEW j \in Conns, WriteBatch(j) PROVE Goal
    <2> DEFINE taken == IF link[j] = "open" THEN Parsed(send[j]) ELSE {}
    <2>1. /\ send' = [send EXCEPT ![j] = << >>] /\ link' = link /\ send[j] # << >>
          /\ received' = [d \in Cmds |-> received[d] + (IF d \in taken THEN 1 ELSE 0)]
      BY <1>14, Zenon DEF WriteBatch
    <2>2. CASE link[j] = "open"
      <3>1. \A k \in Conns : link'[k] = "open" => k = j
        BY <2>1, <2>2 DEF OneOpen
      <3>2. M(j) = 0
        BY <2>1, CountEmpty DEF Types
      <3>3. c \in taken => N(j) >= 1
        <4>1. send[j] \in Seq(Messages)
          BY DEF Types
        <4>2. Count(send[j], Head(send[j])) >= 1
          BY <2>1, <4>1, CountHead
        <4>3. c \in taken => c = Head(send[j])
          BY <2>2 DEF Parsed
        <4> HIDE DEF taken
        <4> QED
          BY <4>2, <4>3
      <3> HIDE DEF taken, N, M
      <3>4. received'[c] = received[c] + (IF c \in taken THEN 1 ELSE 0)
        BY <2>1
      <3>5. received[c] + N(j) <= Budget(c) /\ N(j) \in Nat
        BY <1>3, <1>4, <2>2
      <3>6. received'[c] <= received[c] + N(j)
        BY <1>2, <3>3, <3>4, <3>5
      <3>7. received'[c] <= Budget(c)'
        BY <1>1, <1>2, <3>5, <3>6
      <3>8. received'[c] + M(j) <= Budget(c)'
        BY <1>2, <3>2, <3>7
      <3> QED
        BY <3>1, <3>7, <3>8, Zenon
    <2>3. CASE link[j] # "open"
      <3>1. received'[c] = received[c]
        BY <1>2, <2>1, <2>3
      <3>2. \A k \in Conns : link'[k] = "open" => link[k] = "open" /\ k # j
        BY <2>1, <2>3
      <3>3. \A k \in Conns : k # j => M(k) = N(k)
        BY <2>1 DEF Types
      <3> HIDE DEF N, M, taken
      <3> QED
        BY <1>1, <1>2, <1>3, <1>4, <3>1, <3>2, <3>3
    <2> QED
      BY <2>2, <2>3
  <1>15. ASSUME NEW j \in Conns, Break(j) PROVE Goal
    <2>1. received' = received /\ send' = send
      BY <1>15 DEF Break, connVars
    <2>2. \A k \in Conns : link'[k] = "open" => link[k] = "open"
      BY <1>15 DEF Break, Types
    <2> HIDE DEF Goal
    <2> QED
      BY <1>6, <2>1, <2>2
  <1>16. ASSUME Crash PROVE Goal
    <2>1. received' = received /\ \A k \in Conns : link'[k] # "open"
      BY <1>16 DEF Crash
    <2> HIDE DEF M
    <2> QED
      BY <1>1, <1>2, <1>4, <2>1
  <1> HIDE DEF Goal
  <1>17. ASSUME NEW d \in Cmds, Insert(d) \/ CreatorStep(d) PROVE Goal
    BY <1>8, <1>9, <1>17, Zenon DEF CreatorStep
  <1>18. ASSUME NEW j \in Conns,
                Register(j) \/ HandleHello(j) \/ ReaderStep(j) \/ WriteBatch(j) \/ Break(j)
         PROVE  Goal
    BY <1>10, <1>11, <1>12, <1>13, <1>14, <1>15, <1>18, Zenon DEF ReaderStep
  <1>19. Goal
    BY <1>16, <1>17, <1>18, Zenon DEF Next
  <1> QED
    BY <1>19, Zenon DEF Goal

\* Initially there are no copies, and no connections.
LEMMA CopiesInit == Init => CopiesInv
  <1> SUFFICES ASSUME Init PROVE CopiesInv
    OBVIOUS
  <1>1. IInv
    BY InitInv
  <1>2. OneOpen /\ Opened
    BY ConnsAreNot0 DEF Init, OneOpen, Opened
  <1>3. ASSUME NEW c \in Cmds PROVE Bounded(c)
    <2>1. Cardinality(Used(c)) \in Nat /\ Spent(c) \in Nat
      BY UsedFinite DEF Spent
    <2>2. received[c] = 0 /\ \A k \in Conns : link[k] # "open"
      BY DEF Init
    <2> QED
      BY <2>1, <2>2 DEF Bounded, Budget
  <1> QED
    BY <1>1, <1>2, <1>3 DEF CopiesInv

\* Every step keeps the bound on the copies.
LEMMA CopiesStep == CopiesInv /\ [Next]_vars => CopiesInv'
  <1> SUFFICES ASSUME CopiesInv, [Next]_vars PROVE CopiesInv'
    OBVIOUS
  <1>1. IInv'
    BY StepInv DEF CopiesInv
  <1>2. Types /\ Types' /\ TargetKnown
    BY <1>1 DEF CopiesInv, IInv, Tries
  <1>3. OneOpen /\ Opened /\ \A c \in Cmds : Bounded(c)
    BY DEF CopiesInv
  <1>4. CASE Next
    <2>1. OneOpen'
      BY <1>2, <1>3, <1>4, OneOpenStep
    <2>2. Opened'
      BY <1>2, <1>3, <1>4, OpenedStep
    <2>3. ASSUME NEW c \in Cmds PROVE Bounded(c)'
      BY <1>2, <1>3, <1>4, BoundedStep
    <2> QED
      BY <1>1, <2>1, <2>2, <2>3 DEF CopiesInv
  <1>5. CASE UNCHANGED vars
    <2>1. UNCHANGED <<creator, current, reader, toSend, send, link, received>>
      BY <1>5 DEF vars, apiVars, connVars
    <2>2. OneOpen' /\ Opened'
      BY <1>3, <2>1 DEF OneOpen, Opened
    <2>3. ASSUME NEW c \in Cmds PROVE Bounded(c)'
      <3>1. Used(c)' = Used(c) /\ Spent(c)' = Spent(c)
        BY <2>1 DEF Used, Ahead, Spent
      <3>2. Budget(c)' = Budget(c)
        BY <3>1 DEF Budget
      <3> QED
        BY <1>3, <2>1, <3>2 DEF Bounded
    <2> QED
      BY <1>1, <2>2, <2>3 DEF CopiesInv
  <1> QED
    BY <1>4, <1>5

\* Whatever the number of commands, connections and failures, the agent takes at
\* most one copy of a command besides its creator's per connection it opens.
THEOREM CopiesStayBounded == Spec => []CopiesBounded
  <1>1. ASSUME CopiesInv PROVE CopiesBounded
    <2> SUFFICES ASSUME NEW c \in Cmds
                 PROVE  received[c] <= 1 + Cardinality({k \in Conns : link[k] # "none"})
      BY DEF CopiesBounded
    <2> DEFINE L == {k \in Conns : link[k] # "none"}
    <2>1. IsFiniteSet(Conns)
      BY DeliveryAssumption, FS_Interval DEF Conns
    <2>2. L \in SUBSET Conns
      OBVIOUS
    <2>3. Used(c) \in SUBSET L
      BY <1>1 DEF CopiesInv, Opened, Used, Ahead
    <2>4. received[c] <= Spent(c) + Cardinality(Used(c)) /\ received[c] \in Nat
      BY <1>1 DEF CopiesInv, Bounded, Budget, IInv, Types
    <2>5. Spent(c) \in {0, 1}
      BY DEF Spent
    <2> HIDE DEF L
    <2>6. IsFiniteSet(L)
      BY <2>1, <2>2, FS_Subset
    <2>7. Cardinality(Used(c)) <= Cardinality(L)
      BY <2>3, <2>6, FS_Subset
    <2>8. Cardinality(Used(c)) \in Nat /\ Cardinality(L) \in Nat
      BY <2>6, UsedFinite, FS_CardinalityType
    <2> QED
      BY <2>4, <2>5, <2>7, <2>8 DEF L
  <1> QED
    BY <1>1, CopiesInit, CopiesStep, PTL DEF Spec
=============================================================================
