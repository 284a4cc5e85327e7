-------------------------- MODULE MCAgentLifecycle --------------------------
EXTENDS AgentLifecycle, TLC

CONSTANTS c1, c2

\* A command of several kinds and a REBOOT, which compete for the slot; a script
\* goes the way of a REBOOT whose first step succeeds.
MCKindsOf == c1 :> {"and_then", "file", "untimed"} @@ c2 :> {"or_else"}
=============================================================================
