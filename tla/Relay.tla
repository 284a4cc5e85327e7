-------------------------------- MODULE Relay --------------------------------
(***************************************************************************)
(* The backend's side of the remote desktop: RemoteDesktopHandler,         *)
(* RemoteDesktopWSHandler, the Relay and the remote_desktop_sessions table *)
(* (backend/internal/infrastructure/remotedesktop/relay.go and callers).   *)
(*                                                                         *)
(* A session is created by a request, then joined once by the agent and    *)
(* once by the browser, each in a goroutine of its own (handler).  Several *)
(* goroutines may end it; endOnce lets one of them run the body of end     *)
(* (ending).  A section under Relay.mu is one step, and so is a statement  *)
(* of the database.  The modelled sessions are those of one agent.         *)
(*                                                                         *)
(* The tombstone of a session stands for five minutes, longer than its     *)
(* tokens are valid; it is taken to outlast the upgrades in flight, so     *)
(* endedSessions holds exactly the sessions with ending # "no".            *)
(***************************************************************************)
EXTENDS Naturals

CONSTANTS
    Sessions,
    MaxFailures     \* bound on failed MarkEnded updates and server crashes

ASSUME RelayAssumption == MaxFailures \in Nat

Sides == {"agent", "viewer"}

VARIABLES
    row,        \* status in the table, "none" before the INSERT
    expired,    \* sessions past expires_at
    consumed,   \* sides whose token is consumed (..._connected_at not NULL)
    creator,    \* where createSession is
    handler,    \* where the WebSocket handler of each side is
    registered, \* keys of Relay.sessions
    slot,       \* the connections set in the liveSession
    open,       \* those of them that are open
    timer,      \* where waitPairTimeout is
    pump,       \* sessions with a pump
    offline,    \* sessions EndSessionsForAgent has yet to end
    stop,       \* where StopSession is
    ending,     \* where the body of end is
    failures

table == <<row, expired, consumed>>
live == <<registered, slot, open, pump>>
enders == <<timer, offline, stop, ending>>
vars == <<table, creator, handler, live, enders, failures>>

Init ==
    /\ row = [s \in Sessions |-> "none"]
    /\ expired = {}
    /\ consumed = [s \in Sessions |-> {}]
    /\ creator = [s \in Sessions |-> "idle"]
    /\ handler = [s \in Sessions |-> [d \in Sides |-> "idle"]]
    /\ registered = {} /\ pump = {} /\ offline = {}
    /\ slot = [s \in Sessions |-> {}]
    /\ open = [s \in Sessions |-> {}]
    /\ timer = [s \in Sessions |-> "off"]
    /\ stop = [s \in Sessions |-> "idle"]
    /\ ending = [s \in Sessions |-> "no"]
    /\ failures = 0

-----------------------------------------------------------------------------
(* The repository *)

\* ActiveForAgent returns such a session.
Blocking(s) == row[s] = "active" \/ (row[s] = "pending" /\ s \notin expired)

\* MarkEnded: nothing happens to a row that has ended.
MarkEnded(s) ==
    row' = IF row[s] = "none" THEN row ELSE [row EXCEPT ![s] = "ended"]

Valid(s, d) == row[s] \notin {"none", "ended"} /\ d \notin consumed[s] /\ s \notin expired

\* consumeToken, one UPDATE: the status depends on the other side.
ConsumeToken(s, d) ==
    /\ Valid(s, d)
    /\ consumed' = [consumed EXCEPT ![s] = @ \cup {d}]
    /\ row' = IF consumed[s] # {} THEN [row EXCEPT ![s] = "active"] ELSE row

Expire(s) ==
    /\ row[s] # "none" /\ s \notin expired
    /\ expired' = expired \cup {s}
    /\ UNCHANGED <<row, consumed, creator, handler, live, enders, failures>>

-----------------------------------------------------------------------------
(* createSession *)

\* ActiveForAgent finds no session.
CheckActive(s) ==
    /\ creator[s] = "idle"
    /\ \A t \in Sessions : ~Blocking(t)
    /\ creator' = [creator EXCEPT ![s] = "create"]
    /\ UNCHANGED <<table, handler, live, enders, failures>>

\* The INSERT; when it fails the session never existed.
Create(s) ==
    /\ creator[s] = "create"
    /\ \/ /\ row' = [row EXCEPT ![s] = "pending"]
          /\ creator' = [creator EXCEPT ![s] = "register"]
       \/ UNCHANGED row /\ creator' = [creator EXCEPT ![s] = "idle"]
    /\ UNCHANGED <<expired, consumed, handler, live, enders, failures>>

\* Faulty variant: the pairing is not timed.
ArmNot(s) == UNCHANGED timer

Arm(s) == timer' = [timer EXCEPT ![s] = "armed"]

Register(s) ==
    /\ creator[s] = "register"
    /\ registered' = registered \cup {s}
    /\ Arm(s)
    /\ creator' = [creator EXCEPT ![s] = "send"]
    /\ UNCHANGED <<table, handler, slot, open, pump, offline, stop, ending, failures>>

\* SendToAgent queues the START message, or the agent is gone.
SendStart(s) ==
    /\ creator[s] = "send"
    /\ \E outcome \in {"sent", "end"} : creator' = [creator EXCEPT ![s] = outcome]
    /\ UNCHANGED <<table, handler, live, enders, failures>>

-----------------------------------------------------------------------------
(* Ending a session *)

\* The first section of end, run by the first caller only: all that come later,
\* with the same liveSession, find endOnce done.
EndBegins(s) ==
    IF ending[s] = "no"
    THEN /\ registered' = registered \ {s}
         /\ ending' = [ending EXCEPT ![s] = "close"]
    ELSE UNCHANGED <<registered, ending>>

EndCloses(s) ==
    /\ ending[s] = "close"
    /\ open' = [open EXCEPT ![s] = {}]
    /\ ending' = [ending EXCEPT ![s] = "mark"]
    /\ UNCHANGED <<table, creator, handler, registered, slot, pump, timer, offline, stop, failures>>

\* A failed update is only logged.
EndMarks(s) ==
    /\ ending[s] = "mark"
    /\ ending' = [ending EXCEPT ![s] = "done"]
    /\ \/ MarkEnded(s) /\ UNCHANGED failures
       \/ failures < MaxFailures /\ failures' = failures + 1 /\ UNCHANGED row
    /\ UNCHANGED <<expired, consumed, creator, handler, live, timer, offline, stop>>

\* createSession ends the session it could not announce.
CreatorEnds(s) ==
    /\ creator[s] = "end"
    /\ IF s \in registered THEN EndBegins(s) ELSE UNCHANGED <<registered, ending>>
    /\ creator' = [creator EXCEPT ![s] = "failed"]
    /\ UNCHANGED <<table, handler, slot, open, pump, timer, offline, stop, failures>>

\* waitPairTimeout, after its sleep
TimerFires(s) ==
    /\ timer[s] = "armed"
    /\ timer' = [timer EXCEPT ![s] =
                    IF s \in registered /\ slot[s] # Sides THEN "end" ELSE "done"]
    /\ UNCHANGED <<table, creator, handler, live, offline, stop, ending, failures>>

TimerEnds(s) ==
    /\ timer[s] = "end"
    /\ EndBegins(s)
    /\ timer' = [timer EXCEPT ![s] = "done"]
    /\ UNCHANGED <<table, creator, handler, slot, open, pump, offline, stop, failures>>

\* Faulty variant: only the loop that reads from the agent is waited for.
CopyDoneAgent(s) == "agent" \notin open[s]

CopyDone(s) == open[s] # Sides

\* One of the copyOne loops has lost its connection.
PumpEnds(s) ==
    /\ s \in pump /\ CopyDone(s)
    /\ EndBegins(s)
    /\ pump' = pump \ {s}
    /\ UNCHANGED <<table, creator, handler, slot, open, timer, offline, stop, failures>>

\* EndSessionsForAgent, called by MarkOffline, collects the sessions and then
\* ends them.
AgentOffline ==
    /\ offline = {} /\ registered # {}
    /\ offline' = registered
    /\ UNCHANGED <<table, creator, handler, live, timer, stop, ending, failures>>

OfflineEnds(s) ==
    /\ s \in offline
    /\ EndBegins(s)
    /\ offline' = offline \ {s}
    /\ UNCHANGED <<table, creator, handler, slot, open, pump, timer, stop, failures>>

\* StopSession: FindByID, then EndSession or, for a session unknown to the
\* relay, MarkEnded.
StopFinds(s) ==
    /\ stop[s] = "idle" /\ creator[s] = "sent" /\ row[s] # "ended"
    /\ stop' = [stop EXCEPT ![s] = "lookup"]
    /\ UNCHANGED <<table, creator, handler, live, timer, offline, ending, failures>>

StopLookup(s) ==
    /\ stop[s] = "lookup"
    /\ stop' = [stop EXCEPT ![s] = IF s \in registered THEN "end" ELSE "mark"]
    /\ UNCHANGED <<table, creator, handler, live, timer, offline, ending, failures>>

StopEnds(s) ==
    /\ stop[s] = "end"
    /\ EndBegins(s)
    /\ stop' = [stop EXCEPT ![s] = "idle"]
    /\ UNCHANGED <<table, creator, handler, slot, open, pump, timer, offline, failures>>

StopMarks(s) ==
    /\ stop[s] = "mark"
    /\ stop' = [stop EXCEPT ![s] = "idle"]
    /\ \/ MarkEnded(s) /\ UNCHANGED failures
       \/ failures < MaxFailures /\ failures' = failures + 1 /\ UNCHANGED row
    /\ UNCHANGED <<expired, consumed, creator, handler, live, timer, offline, ending>>

-----------------------------------------------------------------------------
(* ServeViewerWS and RemoteDesktopWSHandler.ServeHTTP *)

\* The token is consumed; the session may not be of this agent, or the upgrade
\* may fail.
Consume(s, d) ==
    /\ creator[s] = "sent" /\ handler[s][d] = "idle"
    /\ ConsumeToken(s, d)
    /\ \E outcome \in {"attach", "done"} : handler' = [handler EXCEPT ![s][d] = outcome]
    /\ UNCHANGED <<expired, creator, live, enders, failures>>

\* Faulty variant: the tombstones are not looked at.
RefusedNever(s) == FALSE

Refused(s) == ending[s] # "no"

Keep(s, d) == slot' = [slot EXCEPT ![s] = @ \cup {d}]

\* attach: a session that has ended is refused and its connection closed, one
\* that the relay does not know (after a restart) is added.
Attach(s, d) ==
    /\ handler[s][d] = "attach"
    /\ handler' = [handler EXCEPT ![s][d] = "done"]
    /\ IF Refused(s)
       THEN UNCHANGED <<live, timer, ending>>
       ELSE /\ registered' = registered \cup {s}
            /\ Keep(s, d)
            /\ open' = [open EXCEPT ![s] = @ \cup {d}]
            /\ IF slot[s] \cup {d} = Sides
               THEN pump' = pump \cup {s} /\ UNCHANGED timer
               ELSE UNCHANGED pump /\ IF s \in registered THEN UNCHANGED timer ELSE Arm(s)
            /\ ending' = [ending EXCEPT ![s] = "no"]
    /\ UNCHANGED <<table, creator, offline, stop, failures>>

\* The agent or the browser closes its connection, or it breaks.
PeerCloses(s, d) ==
    /\ d \in open[s]
    /\ open' = [open EXCEPT ![s] = @ \ {d}]
    /\ UNCHANGED <<table, creator, handler, registered, slot, pump, enders, failures>>

\* The server restarts: only the table remains.  The peers keep the tokens they
\* have not used.
Crash ==
    /\ failures < MaxFailures
    /\ failures' = failures + 1
    /\ registered' = {} /\ pump' = {} /\ offline' = {}
    /\ slot' = [s \in Sessions |-> {}]
    /\ open' = [s \in Sessions |-> {}]
    /\ timer' = [s \in Sessions |-> "off"]
    /\ stop' = [s \in Sessions |-> "idle"]
    /\ ending' = [s \in Sessions |-> "no"]
    /\ creator' = [s \in Sessions |-> IF creator[s] \in {"idle", "sent"} THEN creator[s] ELSE "failed"]
    /\ handler' = [s \in Sessions |-> [d \in Sides |->
                      IF handler[s][d] = "attach" THEN "done" ELSE handler[s][d]]]
    /\ UNCHANGED table

-----------------------------------------------------------------------------

\* What the goroutines of the server owe a session.
ServerStep(s) ==
    \/ Create(s) \/ Register(s) \/ SendStart(s) \/ CreatorEnds(s)
    \/ EndCloses(s) \/ EndMarks(s) \/ TimerEnds(s)
    \/ PumpEnds(s) \/ OfflineEnds(s) \/ StopLookup(s) \/ StopEnds(s) \/ StopMarks(s)
    \/ \E d \in Sides : Attach(s, d)

Next ==
    \/ \E s \in Sessions :
          \/ CheckActive(s) \/ StopFinds(s) \/ Expire(s) \/ TimerFires(s)
          \/ ServerStep(s)
          \/ \E d \in Sides : Consume(s, d) \/ PeerCloses(s, d)
    \/ AgentOffline \/ Crash

Spec == Init /\ [][Next]_vars

\* Goroutines are scheduled and sleeps end; no request or peer is owed.
Fairness ==
    \A s \in Sessions : WF_vars(ServerStep(s)) /\ WF_vars(TimerFires(s))

FairSpec == Spec /\ Fairness

-----------------------------------------------------------------------------
(* Properties *)

\* The types; an open connection is one that the session knows of and can close.
TypeOK ==
    /\ row \in [Sessions -> {"none", "pending", "active", "ended"}]
    /\ expired \subseteq Sessions
    /\ consumed \in [Sessions -> SUBSET Sides]
    /\ creator \in [Sessions -> {"idle", "create", "register", "send", "sent", "end", "failed"}]
    /\ handler \in [Sessions -> [Sides -> {"idle", "attach", "done"}]]
    /\ registered \subseteq Sessions /\ pump \subseteq Sessions /\ offline \subseteq Sessions
    /\ slot \in [Sessions -> SUBSET Sides] /\ open \in [Sessions -> SUBSET Sides]
    /\ \A s \in Sessions : open[s] \subseteq slot[s]
    /\ timer \in [Sessions -> {"off", "armed", "end", "done"}]
    /\ stop \in [Sessions -> {"idle", "lookup", "end", "mark"}]
    /\ ending \in [Sessions -> {"no", "close", "mark", "done"}]
    /\ failures \in 0..MaxFailures

\* A session that has ended in the table is not in the relay, nor does it get a connection back,
\* however the stop meets the upgrades: "cela ferme la fenêtre où un STOP pouvait
\* marquer la session terminée en base avant le premier upgrade, puis laisser
\* AttachAgent/AttachViewer la remettre en circulation" (relay.go:113).  It may
\* after a restart, when the relay has forgotten the session.
EndedStaysEnded ==
    \A s \in Sessions :
        row[s] = "ended" /\ failures = 0 =>
            s \notin registered /\ (open[s] = {} \/ ending[s] = "close")

\* A connection never stays alone: the other side comes or it is closed, by the
\* pump once the session was paired and by the timer otherwise, and also in a
\* session that was added after a restart.
NoLoneConnection ==
    \A s \in Sessions : Sides # open[s] /\ open[s] # {} ~> open[s] \in {{}, Sides}

\* A session stops blocking its agent, given that the agent's own session ends
\* (RemoteDesktopSession!SessionsEnd) and that the server neither crashed nor
\* failed to write the end.
Unblocks ==
    (\A s \in Sessions : WF_vars(PeerCloses(s, "agent"))) =>
        \A s \in Sessions : Blocking(s) ~> ~Blocking(s) \/ failures > 0
=============================================================================
