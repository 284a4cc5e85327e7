-------------------------- MODULE CommandDelivery ---------------------------
(***************************************************************************)
(* The way of a command from the REST API or the scheduler to one agent    *)
(* and of its result back, across reconnections and restarts:              *)
(* CreateAndDispatchCommand (handlers/agent_handler.go), SendToAgent and   *)
(* the send channels (websocket/hub.go, client.go), the redelivery after a *)
(* HELLO and CMD_RESULT (websocket/dispatcher.go), and the agent's parser  *)
(* (agent/src/protocol.c).                                                 *)
(*                                                                         *)
(* Every command has the goroutine that creates it; every connection has   *)
(* its ReadPump (reader) and its WritePump.  Each database statement and   *)
(* each use of a channel is a step.  The Hub is module Hub: here a send    *)
(* channel is open exactly while its connection is the registered one,     *)
(* which is what Hub's OpenIffRegistered establishes.                      *)
(***************************************************************************)
EXTENDS Naturals, Sequences, FiniteSets

CONSTANTS
    NumCmds,        \* commands, numbered by created_at
    NumConns,       \* connections of the agent, numbered by their opening
    sendChanSize,   \* capacity of a send channel
    MaxFailures      \* bound: broken connections and server restarts

ASSUME DeliveryAssumption ==
    /\ NumCmds \in Nat
    /\ NumConns \in Nat
    /\ sendChanSize \in Nat \ {0}
    /\ MaxFailures \in Nat

Cmds == 1 .. NumCmds
HELLO_ACK == 0
Conns == 1 .. NumConns
NoConn == 0
Messages == Cmds \cup {HELLO_ACK}

VARIABLES
    status,     \* commands.status: "none" before the INSERT, "closed" for
                \* success and failed
    sent_at,    \* is commands.sent_at set
    creator,    \* where CreateAndDispatchCommand is
    target,     \* the client that SendToAgent has looked up
    current,    \* the connection registered in the Hub
    reader,     \* where ReadPump and its handlers are
    toSend,     \* what redeliverPendingCommands has yet to send
    send,       \* the send channels
    link,       \* the network connections
    received,   \* times the agent has taken each command
    lost,       \* commands of which a copy was lost, or a send had no effect
    failures

dbVars    == <<status, sent_at>>
apiVars   == <<creator, target>>
connVars  == <<current, reader, toSend, send>>
vars == <<dbVars, apiVars, connVars, link, received, lost, failures>>

Init ==
    /\ status = [c \in Cmds |-> "none"]
    /\ sent_at = [c \in Cmds |-> FALSE]
    /\ creator = [c \in Cmds |-> "none"]
    /\ target = [c \in Cmds |-> NoConn]
    /\ current = NoConn
    /\ reader = [k \in Conns |-> "none"]
    /\ toSend = [k \in Conns |-> {}]
    /\ send = [k \in Conns |-> << >>]
    /\ link = [k \in Conns |-> "none"]
    /\ received = [c \in Cmds |-> 0]
    /\ lost = {}
    /\ failures = 0

\* The messages of a sequence.
Of(s) == {s[i] : i \in DOMAIN s}

\* The copies of the commands in ms are lost.
Lose(ms) == lost' = lost \cup (ms \cap Cmds)

-----------------------------------------------------------------------------
(* CreateAndDispatchCommand *)

Insert(c) ==
    /\ creator[c] = "none"
    /\ \A d \in Cmds : d < c => creator[d] # "none"
    /\ status' = [status EXCEPT ![c] = "pending"]
    /\ creator' = [creator EXCEPT ![c] = "inserted"]
    /\ UNCHANGED <<sent_at, target, connVars, link, received, lost, failures>>

AfterCheck == IF current = NoConn THEN "done" ELSE "lookup"

\* IsConnected
CheckConnected(c) ==
    /\ creator[c] = "inserted"
    /\ creator' = [creator EXCEPT ![c] = AfterCheck]
    /\ UNCHANGED <<dbVars, target, connVars, link, received, lost, failures>>

\* SendToAgent, under the lock.  Its result is not used: when nobody is connected
\* any more nothing is sent, and the command is marked all the same.
Lookup(c) ==
    /\ creator[c] = "lookup"
    /\ target' = [target EXCEPT ![c] = current]
    /\ creator' = [creator EXCEPT ![c] = IF current = NoConn THEN "mark" ELSE "send"]
    /\ Lose(IF current = NoConn THEN {c} ELSE {})
    /\ UNCHANGED <<dbVars, connVars, link, received, failures>>

\* Client.Send of message m to connection k, whose channel is open; a full channel
\* drops it, and the result is used by no caller.
Enqueue(k, m) ==
    IF Len(send[k]) < sendChanSize
    THEN send' = [send EXCEPT ![k] = Append(@, m)] /\ UNCHANGED lost
    ELSE Lose({m}) /\ UNCHANGED send

\* SendToAgent, after the lock: a send on a channel that was closed meanwhile
\* panics and ends the goroutine before it marks the command (and, in the
\* scheduler, the process: Crash).
SendCommand(c) ==
    /\ creator[c] = "send"
    /\ IF target[c] = current
       THEN Enqueue(current, c) /\ creator' = [creator EXCEPT ![c] = "mark"]
       ELSE creator' = [creator EXCEPT ![c] = "done"] /\ UNCHANGED <<send, lost>>
    /\ target' = [target EXCEPT ![c] = NoConn]
    /\ UNCHANGED <<dbVars, current, reader, toSend, link, received, failures>>

\* The UPDATE of sent_at, whose failure is ignored.
Mark(c) ==
    /\ creator[c] = "mark"
    /\ sent_at' \in {[sent_at EXCEPT ![c] = TRUE], sent_at}
    /\ creator' = [creator EXCEPT ![c] = "done"]
    /\ UNCHANGED <<status, target, connVars, link, received, lost, failures>>

CreatorStep(c) == CheckConnected(c) \/ Lookup(c) \/ SendCommand(c) \/ Mark(c)

-----------------------------------------------------------------------------
(* Connections and the redelivery *)

\* The agent opens a connection once its previous one is gone on its side; the
\* Hub registers it in the place of the one it may still hold.
Register(k) ==
    /\ link[k] = "none"
    /\ \A j \in Conns : link[j] # "open" /\ (j < k => link[j] # "none")
    /\ link' = [link EXCEPT ![k] = "open"]
    /\ current' = k
    /\ reader' = [reader EXCEPT ![k] = "reading"]
    /\ UNCHANGED <<dbVars, apiVars, toSend, send, received, lost, failures>>

\* handleHello acknowledges; a send on a closed channel ends the goroutine, whose
\* deferred Unregister finds another connection registered.
HandleHello(k) ==
    /\ reader[k] = "reading" /\ link[k] = "open"
    /\ IF k = current
       THEN Enqueue(k, HELLO_ACK) /\ reader' = [reader EXCEPT ![k] = "select"]
       ELSE reader' = [reader EXCEPT ![k] = "ended"] /\ UNCHANGED <<send, lost>>
    /\ UNCHANGED <<dbVars, apiVars, current, toSend, link, received, failures>>

\* Faulty variant: the query does not look at sent_at.
UnsentPending == {c \in Cmds : status[c] = "pending"}

Unsent == {c \in Cmds : status[c] = "pending" /\ ~sent_at[c]}

\* redeliverPendingCommands reads what was never sent; on an error, also of one
\* row (after which rows.Err reports it), it gives up.
Select(k) ==
    /\ reader[k] = "select"
    /\ \/ /\ toSend' = [toSend EXCEPT ![k] = Unsent]
          /\ reader' = [reader EXCEPT ![k] = "redeliver"]
       \/ /\ reader' = [reader EXCEPT ![k] = "gaveUp"]
          /\ UNCHANGED toSend
    /\ UNCHANGED <<dbVars, apiVars, current, send, link, received, lost, failures>>

\* The oldest command is sent; the result of Send is not used.
Redeliver(k) ==
    /\ reader[k] = "redeliver"
    /\ \E c \in toSend[k] :
          /\ \A d \in toSend[k] : c <= d
          /\ IF k = current
             THEN Enqueue(k, c) /\ reader' = [reader EXCEPT ![k] = "mark"]
             ELSE reader' = [reader EXCEPT ![k] = "ended"] /\ UNCHANGED <<send, lost>>
    /\ UNCHANGED <<dbVars, apiVars, current, toSend, link, received, failures>>

\* Faulty variant: the loop ends after the first command.
RestOnlyOne(k, c) == {}

\* Faulty variant: the command stays on the list.
RestAll(k, c) == toSend[k]

Rest(k, c) == toSend[k] \ {c}

\* The UPDATE of sent_at; an error is logged and the loop goes on.
MarkRedelivered(k) ==
    /\ reader[k] = "mark"
    /\ \E c \in toSend[k] :
          /\ \A d \in toSend[k] : c <= d
          /\ sent_at' \in {[sent_at EXCEPT ![c] = TRUE], sent_at}
          /\ toSend' = [toSend EXCEPT ![k] = Rest(k, c)]
    /\ reader' = [reader EXCEPT ![k] = "redeliver"]
    /\ UNCHANGED <<status, apiVars, current, send, link, received, lost, failures>>

RedeliveryEnds(k) ==
    /\ reader[k] = "redeliver" /\ toSend[k] = {}
    /\ reader' = [reader EXCEPT ![k] = "served"]
    /\ UNCHANGED <<dbVars, apiVars, current, toSend, send, link, received, lost, failures>>

Reading == {"reading", "served", "gaveUp"}

\* ReadPump notices that the connection is gone, and unregisters it.
ReadError(k) ==
    /\ reader[k] \in Reading /\ link[k] = "broken"
    /\ reader' = [reader EXCEPT ![k] = "ended"]
    /\ current' = IF current = k THEN NoConn ELSE current
    /\ UNCHANGED <<dbVars, apiVars, toSend, send, link, received, lost, failures>>

\* handleCmdResult: an execution has ended and its CMD_RESULT sets the status,
\* whatever it was.  A result that never comes stands for one that was lost.
HandleCmdResult(k) ==
    /\ reader[k] \in Reading
    /\ \E c \in Cmds :
          /\ received[c] > 0
          /\ status' = [status EXCEPT ![c] = "closed"]
    /\ UNCHANGED <<sent_at, apiVars, connVars, link, received, lost, failures>>

\* leo_proto_parse returns the first JSON value of a WebSocket message.
Parsed(f) == {Head(f)} \cap Cmds

\* WritePump puts all that the channel holds in one WebSocket message, and the
\* agent parses it.  Both are one step: a message that breaks with its
\* connection is one that is written just after.
WriteBatch(k) ==
    /\ send[k] # << >>
    /\ send' = [send EXCEPT ![k] = << >>]
    /\ LET taken == IF link[k] = "open" THEN Parsed(send[k]) ELSE {}
       IN  /\ received' = [c \in Cmds |-> received[c] + (IF c \in taken THEN 1 ELSE 0)]
           /\ Lose(Of(send[k]) \ taken)
    /\ UNCHANGED <<dbVars, apiVars, current, reader, toSend, link, failures>>

ReaderStep(k) ==
    \/ Select(k) \/ Redeliver(k) \/ MarkRedelivered(k) \/ RedeliveryEnds(k)
    \/ ReadError(k) \/ HandleCmdResult(k)

-----------------------------------------------------------------------------
(* Failures *)

Break(k) ==
    /\ link[k] = "open"
    /\ failures < MaxFailures
    /\ failures' = failures + 1
    /\ link' = [link EXCEPT ![k] = "broken"]
    /\ UNCHANGED <<dbVars, apiVars, connVars, received, lost>>

\* The server stops between any two steps and starts again: the database is all
\* that remains.
Crash ==
    /\ failures < MaxFailures
    /\ failures' = failures + 1
    /\ creator' = [c \in Cmds |-> IF creator[c] = "none" THEN "none" ELSE "done"]
    /\ current' = NoConn
    /\ reader' = [k \in Conns |-> IF reader[k] = "none" THEN "none" ELSE "ended"]
    /\ toSend' = [k \in Conns |-> {}]
    /\ send' = [k \in Conns |-> << >>]
    /\ link' = [k \in Conns |-> IF link[k] = "open" THEN "broken" ELSE link[k]]
    /\ Lose(UNION {Of(send[k]) : k \in Conns})
    /\ target' = [c \in Cmds |-> NoConn]
    /\ UNCHANGED <<dbVars, received>>

Next ==
    \/ \E c \in Cmds : Insert(c) \/ CreatorStep(c)
    \/ \E k \in Conns : \/ Register(k) \/ HandleHello(k) \/ ReaderStep(k)
                        \/ WriteBatch(k) \/ Break(k)
    \/ Crash

Spec == Init /\ [][Next]_vars

-----------------------------------------------------------------------------
(* Properties *)

\* The types; no send channel holds more than its capacity, however many commands
\* a redelivery has.
TypeOK ==
    /\ status \in [Cmds -> {"none", "pending", "closed"}]
    /\ sent_at \in [Cmds -> BOOLEAN]
    /\ creator \in [Cmds -> {"none", "inserted", "lookup", "send", "mark", "done"}]
    /\ target \in [Cmds -> Conns \cup {NoConn}]
    /\ current \in Conns \cup {NoConn}
    /\ reader \in [Conns -> Reading \cup {"none", "select", "redeliver", "mark", "ended"}]
    /\ toSend \in [Conns -> SUBSET Cmds]
    /\ send \in [Conns -> Seq(Messages)]
    /\ \A k \in Conns : Len(send[k]) <= sendChanSize
    /\ link \in [Conns -> {"none", "open", "broken"}]
    /\ received \in [Cmds -> Nat]
    /\ lost \subseteq Cmds
    /\ failures \in 0 .. MaxFailures

\* A copy of the command is in a channel.
Underway(c) == \E k \in Conns : c \in Of(send[k])

\* A send of the command has been tried: its copy is underway, was received or was
\* lost, or the send had no effect.
Tried(c) == Underway(c) \/ received[c] > 0 \/ c \in lost

\* Nobody is left who would send the command: it is marked, its creator is done
\* and no redelivery has it on its list.
Settled(c) ==
    /\ sent_at[c] /\ creator[c] = "done"
    /\ \A k \in Conns : c \notin toSend[k]

\* A command is marked for good: once those who had read it before are done, no
\* reconnection and no restart makes another copy of it (the SELECT of
\* redeliverPendingCommands against the two UPDATEs of sent_at).
MarkedNotResent ==
    [][\A c \in Cmds : Settled(c) =>
          /\ Settled(c)'
          /\ \A k \in Conns : send'[k] # Append(send[k], c)]_vars

\* Once redeliverPendingCommands has read the table, no unsent command of a
\* connected agent waits for nobody: its creator is still to send it, or it is
\* on the list, or a send of it has already been tried and only the UPDATE of
\* sent_at failed (IsConnected in CreateAndDispatchCommand against Register and
\* the SELECT of the redelivery).
NoneForgotten ==
    \A k \in Conns : \A c \in Cmds :
        /\ current = k /\ reader[k] \in {"redeliver", "mark", "served"}
        /\ status[c] = "pending" /\ ~sent_at[c]
        => \/ creator[c] \in {"inserted", "lookup", "send", "mark"}
           \/ c \in toSend[k]
           \/ Tried(c)

\* The price of redelivery: besides the copy its creator sends, the agent takes
\* at most one copy of a command per connection it opens.
CopiesBounded ==
    \A c \in Cmds :
        received[c] <= 1 + Cardinality({k \in Conns : link[k] # "none"})

\* "redélivrance automatique à la reconnexion" (scheduler.go:8): as long as
\* no connection breaks, a command marked as sent is underway or received.
SentReachesAgent ==
    (\A k \in Conns : link[k] # "broken") =>
        \A c \in Cmds : sent_at[c] => Underway(c) \/ received[c] > 0

=============================================================================
