------------------------------- MODULE MCHub --------------------------------
EXTENDS Hub, TLC

CONSTANTS a1, c1, c2, s1

\* Two connections of one agent.
OneAgentOf == [c \in Conns |-> a1]
=============================================================================
