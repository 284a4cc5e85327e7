----------------------------- MODULE OutChannel -----------------------------
(***************************************************************************)
(* What the agent's outgoing path promises to its callers: a bounded queue *)
(* of accepted messages that leave in the order they were accepted, each   *)
(* at most once, onto the wire of the session of the moment.  A message    *)
(* may be lost on its way out; it is never reordered, duplicated or        *)
(* altered.                                                                *)
(***************************************************************************)
EXTENDS Naturals, Sequences

CONSTANTS Msg, Capacity
VARIABLES queue, wire

Init == queue = << >> /\ wire = << >>

\* The result LEO_OK of leo_conn_send.
Accept ==
    /\ Len(queue) < Capacity
    /\ \E m \in Msg : queue' = Append(queue, m)
    /\ UNCHANGED wire

Transmit ==
    /\ queue # << >>
    /\ queue' = Tail(queue)
    /\ wire' = Append(wire, Head(queue))

\* lws_write failed.
Lose ==
    /\ queue # << >>
    /\ queue' = Tail(queue)
    /\ UNCHANGED wire

\* A new session begins with an empty wire; the queue is kept.
NewSession == wire' = << >> /\ UNCHANGED queue

Next == Accept \/ Transmit \/ Lose \/ NewSession

Spec == Init /\ [][Next]_<<queue, wire>>
=============================================================================
