-------------------------------- MODULE Hub ---------------------------------
(***************************************************************************)
(* The backend's registry of agent connections:                            *)
(* backend/internal/infrastructure/websocket/hub.go and client.go, the     *)
(* handshake of interfaces/ws/agent_ws_handler.go that feeds it, and the   *)
(* status it writes through the dispatcher.                                *)
(*                                                                         *)
(* A connection has two goroutines: the HTTP handler that becomes ReadPump *)
(* (reader) and WritePump (writer).  Callers are the goroutines that reach *)
(* an agent through SendToAgent: HTTP handlers and the scheduler.  What is *)
(* done under the Hub's mutex is one step; a client pointer that is read   *)
(* under the mutex and used after it is kept in target.                    *)
(***************************************************************************)
EXTENDS Naturals

CONSTANTS
    Agents,
    Conns,          \* WebSocket connections, each opened at most once
    AgentOf,        \* the agent whose certificate a connection presents
    NoConn,
    Callers,        \* goroutines that call SendToAgent
    sendChanSize,   \* capacity of a client's send channel
    MaxSends        \* bound: calls of SendToAgent per caller

ASSUME HubAssumption ==
    /\ AgentOf \in [Conns -> Agents]
    /\ NoConn \notin Conns
    /\ sendChanSize \in Nat \ {0}
    /\ MaxSends \in Nat

VARIABLES
    clients,    \* Hub.clients
    chan,       \* the send channel of each client: absent, open or closed
    buffered,   \* messages in the channel
    sock,       \* is the WebSocket up
    reader,     \* where ServeHTTP / ReadPump is
    writer,     \* where WritePump is
    target,     \* the client a caller has looked up
    nsends,     \* calls of SendToAgent made by each caller
    revoke,     \* where RevokeCertificate is, per agent
    revoked,    \* agent_certificates.revoked_at is set
    status,     \* agents.status
    hello,      \* connections whose HELLO has been handled
    panic       \* "none", or the run-time panic that has happened

connVars == <<chan, buffered, sock, reader, writer, hello>>
callVars == <<target, nsends>>
dbVars   == <<revoke, revoked, status>>
vars == <<clients, connVars, callVars, dbVars, panic>>

Init ==
    /\ clients = [a \in Agents |-> NoConn]
    /\ chan = [c \in Conns |-> "absent"]
    /\ buffered = [c \in Conns |-> 0]
    /\ sock = [c \in Conns |-> FALSE]
    /\ reader = [c \in Conns |-> "none"]
    /\ writer = [c \in Conns |-> "none"]
    /\ hello = [c \in Conns |-> FALSE]
    /\ target = [s \in Callers |-> NoConn]
    /\ nsends = [s \in Callers |-> 0]
    /\ revoke = [a \in Agents |-> "idle"]
    /\ revoked = [a \in Agents |-> FALSE]
    /\ status = [a \in Agents |-> "offline"]
    /\ panic = "none"

-----------------------------------------------------------------------------
(* Channel operations *)

\* close(c.send), which panics on a closed channel.
Close(c) ==
    /\ chan' = [chan EXCEPT ![c] = "closed"]
    /\ panic' = IF chan[c] = "closed" THEN "close of closed channel" ELSE panic

\* Client.Send: non-blocking, drops the message when the channel is full; a
\* send on a closed channel panics.
Send(c) ==
    /\ buffered' = IF chan[c] = "open" /\ buffered[c] < sendChanSize
                   THEN [buffered EXCEPT ![c] = @ + 1] ELSE buffered
    /\ panic' = IF chan[c] = "closed" THEN "send on closed channel" ELSE panic

-----------------------------------------------------------------------------
(* ServeHTTP and ReadPump *)

\* extractIdentityFromCert has accepted the certificate.
Handshake(c) ==
    /\ reader[c] = "none" /\ ~revoked[AgentOf[c]]
    /\ reader' = [reader EXCEPT ![c] = "verified"]
    /\ sock' = [sock EXCEPT ![c] = TRUE]
    /\ UNCHANGED <<clients, chan, buffered, writer, hello, callVars, dbVars, panic>>

\* Faulty variant: the channel of the connection replaced is left open.
ReplaceKeepsOld(c, old) ==
    /\ chan' = [chan EXCEPT ![c] = "open"]
    /\ UNCHANGED panic

\* The channel of the connection replaced is closed.
Replace(c, old) ==
    /\ chan' = [x \in Conns |-> IF x = c THEN "open"
                                ELSE IF x = old THEN "closed" ELSE chan[x]]
    /\ panic' = IF old # NoConn /\ chan[old] = "closed"
                THEN "close of closed channel" ELSE panic

\* Register, then the two pumps start.
Register(c) ==
    /\ reader[c] = "verified"
    /\ Replace(c, clients[AgentOf[c]])
    /\ clients' = [clients EXCEPT ![AgentOf[c]] = c]
    /\ reader' = [reader EXCEPT ![c] = "reading"]
    /\ writer' = [writer EXCEPT ![c] = "running"]
    /\ UNCHANGED <<buffered, sock, hello, callVars, dbVars>>

\* handleHello sets the agent online, then acknowledges.
HandleHello(c) ==
    /\ reader[c] = "reading" /\ sock[c]
    /\ status' = [status EXCEPT ![AgentOf[c]] = "online"]
    /\ hello' = [hello EXCEPT ![c] = TRUE]
    /\ reader' = [reader EXCEPT ![c] = "ack"]
    /\ UNCHANGED <<clients, chan, buffered, sock, writer, callVars, revoke, revoked, panic>>

\* A panic in the handler's goroutine still runs the deferred Unregister.
SendHelloAck(c) ==
    /\ reader[c] = "ack"
    /\ Send(c)
    /\ reader' = [reader EXCEPT ![c] = IF chan[c] = "closed" THEN "unregister" ELSE "reading"]
    /\ UNCHANGED <<clients, chan, sock, writer, hello, callVars, dbVars>>

HandleHeartbeat(c) ==
    /\ reader[c] = "reading" /\ sock[c]
    /\ status' = [status EXCEPT ![AgentOf[c]] = "online"]
    /\ UNCHANGED <<clients, connVars, callVars, revoke, revoked, panic>>

\* ReadMessage fails: the deferred function runs.
ReadError(c) ==
    /\ reader[c] = "reading" /\ ~sock[c]
    /\ reader' = [reader EXCEPT ![c] = "unregister"]
    /\ UNCHANGED <<clients, chan, buffered, sock, writer, hello, callVars, dbVars, panic>>

\* Faulty variant: a client that has not said HELLO is not recognised.
WasCurrentHello(c) == clients[AgentOf[c]] = c /\ hello[c]

WasCurrent(c) == clients[AgentOf[c]] = c

\* Unregister, under the mutex.
Unregister(c) ==
    /\ reader[c] = "unregister"
    /\ IF WasCurrent(c)
       THEN /\ Close(c)
            /\ clients' = [clients EXCEPT ![AgentOf[c]] = NoConn]
            /\ reader' = [reader EXCEPT ![c] = "offline"]
            /\ UNCHANGED sock
       ELSE /\ reader' = [reader EXCEPT ![c] = "done"]
            /\ sock' = [sock EXCEPT ![c] = FALSE]
            /\ UNCHANGED <<clients, chan, panic>>
    /\ UNCHANGED <<buffered, writer, hello, callVars, dbVars>>

\* MarkOffline, after the mutex has been released, then conn.Close.
UnregisterMarkOffline(c) ==
    /\ reader[c] = "offline"
    /\ status' = [status EXCEPT ![AgentOf[c]] = "offline"]
    /\ reader' = [reader EXCEPT ![c] = "done"]
    /\ sock' = [sock EXCEPT ![c] = FALSE]
    /\ UNCHANGED <<clients, chan, buffered, writer, hello, callVars, revoke, revoked, panic>>

ReaderStep(c) ==
    \/ Register(c) \/ SendHelloAck(c) \/ ReadError(c)
    \/ Unregister(c) \/ UnregisterMarkOffline(c)

-----------------------------------------------------------------------------
(* WritePump *)

\* One message and all those behind it leave in one frame.
WriteBatch(c) ==
    /\ writer[c] = "running" /\ buffered[c] > 0 /\ sock[c]
    /\ buffered' = [buffered EXCEPT ![c] = 0]
    /\ UNCHANGED <<clients, chan, sock, reader, writer, hello, callVars, dbVars, panic>>

\* Faulty variant: a closed channel is not noticed.
SeesCloseNever(c) == FALSE

\* The channel is closed and drained.
SeesClose(c) == chan[c] = "closed" /\ buffered[c] = 0

\* The pump ends on a closed channel or on a write or ping that fails.
WriterEnds(c) ==
    /\ writer[c] = "running"
    /\ SeesClose(c) \/ ~sock[c]
    /\ writer' = [writer EXCEPT ![c] = "done"]
    /\ sock' = [sock EXCEPT ![c] = FALSE]
    /\ UNCHANGED <<clients, chan, buffered, reader, hello, callVars, dbVars, panic>>

\* The network or the agent ends the connection, or the read deadline passes.
Break(c) ==
    /\ sock[c]
    /\ sock' = [sock EXCEPT ![c] = FALSE]
    /\ UNCHANGED <<clients, chan, buffered, reader, writer, hello, callVars, dbVars, panic>>

-----------------------------------------------------------------------------
(* SendToAgent and RevokeCertificate *)

\* The lookup under the read lock; nothing follows when it finds nobody.
Lookup(s, a) ==
    /\ target[s] = NoConn /\ nsends[s] < MaxSends
    /\ target' = [target EXCEPT ![s] = clients[a]]
    /\ nsends' = [nsends EXCEPT ![s] = @ + 1]
    /\ UNCHANGED <<clients, connVars, dbVars, panic>>

\* client.Send, after the lock has been released.
SendToClient(s) ==
    /\ target[s] # NoConn
    /\ Send(target[s])
    /\ target' = [target EXCEPT ![s] = NoConn]
    /\ UNCHANGED <<clients, chan, sock, reader, writer, hello, nsends, dbVars>>

RevokeUpdate(a) ==
    /\ revoke[a] = "idle"
    /\ revoked' = [revoked EXCEPT ![a] = TRUE]
    /\ revoke' = [revoke EXCEPT ![a] = "disconnect"]
    /\ UNCHANGED <<clients, connVars, callVars, status, panic>>

\* Disconnect, under the mutex.
Disconnect(a) ==
    /\ revoke[a] = "disconnect"
    /\ IF clients[a] # NoConn
       THEN /\ Close(clients[a])
            /\ clients' = [clients EXCEPT ![a] = NoConn]
            /\ revoke' = [revoke EXCEPT ![a] = "offline"]
       ELSE /\ revoke' = [revoke EXCEPT ![a] = "done"]
            /\ UNCHANGED <<clients, chan, panic>>
    /\ UNCHANGED <<buffered, sock, reader, writer, hello, callVars, revoked, status>>

DisconnectMarkOffline(a) ==
    /\ revoke[a] = "offline"
    /\ status' = [status EXCEPT ![a] = "offline"]
    /\ revoke' = [revoke EXCEPT ![a] = "done"]
    /\ UNCHANGED <<clients, connVars, callVars, revoked, panic>>

-----------------------------------------------------------------------------
Next ==
    \/ \E c \in Conns :
          \/ Handshake(c) \/ HandleHello(c) \/ HandleHeartbeat(c)
          \/ ReaderStep(c) \/ WriteBatch(c) \/ WriterEnds(c) \/ Break(c)
    \/ \E s \in Callers : SendToClient(s) \/ \E a \in Agents : Lookup(s, a)
    \/ \E a \in Agents : RevokeUpdate(a) \/ Disconnect(a) \/ DisconnectMarkOffline(a)

Spec == Init /\ [][Next]_vars

\* The goroutines of a connection run; nothing is assumed of the network.
Fairness ==
    /\ \A c \in Conns : WF_vars(ReaderStep(c))
    /\ \A c \in Conns : WF_vars(WriteBatch(c)) /\ WF_vars(WriterEnds(c))

FairSpec == Spec /\ Fairness

-----------------------------------------------------------------------------
(* Properties *)

\* The types; no send channel holds more than its capacity (Client.Send drops the
\* message instead).
TypeOK ==
    /\ clients \in [Agents -> Conns \cup {NoConn}]
    /\ chan \in [Conns -> {"absent", "open", "closed"}]
    /\ buffered \in [Conns -> 0 .. sendChanSize]
    /\ sock \in [Conns -> BOOLEAN]
    /\ reader \in [Conns -> {"none", "verified", "reading", "ack",
                             "unregister", "offline", "done"}]
    /\ writer \in [Conns -> {"none", "running", "done"}]
    /\ hello \in [Conns -> BOOLEAN]
    /\ target \in [Callers -> Conns \cup {NoConn}]
    /\ nsends \in [Callers -> 0 .. MaxSends]
    /\ revoke \in [Agents -> {"idle", "disconnect", "offline", "done"}]
    /\ revoked \in [Agents -> BOOLEAN]
    /\ status \in [Agents -> {"online", "offline"}]
    /\ panic \in {"none", "close of closed channel", "send on closed channel"}

\* The send channel of a connection is open exactly while the connection is
\* the one registered for its agent: whatever order Register, Unregister and
\* Disconnect come in, a newcomer is never unregistered by the deferred
\* Unregister of the connection it replaced.
OpenIffRegistered ==
    \A c \in Conns : chan[c] = "open" <=> clients[AgentOf[c]] = c

\* No path of Register, Unregister and Disconnect closes a channel twice.
ClosedOnce == panic # "close of closed channel"

\* Hub says it is thread-safe: SendToAgent and HELLO never send on a channel
\* that another goroutine has closed.
NoSendOnClosed == panic # "send on closed channel"

\* A connection whose channel the Hub has closed goes away: both pumps end and
\* the socket is closed.
ClosedGoesAway ==
    \A c \in Conns :
        chan[c] = "closed" ~> reader[c] = "done" /\ writer[c] = "done" /\ ~sock[c]

\* An agent whose connections have all ended is not left registered.
GoneIsUnregistered ==
    \A c \in Conns : reader[c] = "reading" /\ ~sock[c] ~> clients[AgentOf[c]] # c

=============================================================================
