------------------------------ MODULE MCExecutor ------------------------------
EXTENDS Executor, CommandLine

\* When CreateProcess is called on Windows, the program gets the arguments it
\* was meant to get, spaces, quotes and backslashes included: the command line
\* _build_cmdline made of them splits into the same vector.
ArgumentsArrive == (Windows /\ call = "start") => RoundTrips
=============================================================================
