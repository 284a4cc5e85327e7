----------------------------- MODULE MCSchedules -----------------------------
EXTENDS Schedules, TLC

CONSTANTS a1, a2
=============================================================================
