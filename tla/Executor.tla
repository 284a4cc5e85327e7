------------------------------ MODULE Executor ------------------------------
(***************************************************************************)
(* One execution of a child process: leo_exec_script and leo_exec_argv     *)
(* (agent/src/executor.h) and the two _run_child behind them, with select  *)
(* on Linux and with two reader threads on Windows.                        *)
(*                                                                         *)
(* The child writes to two pipes, may close them, may leave a descendant   *)
(* that still holds them (the heir) and ends by itself, or never.  The     *)
(* pipes are inheritable, so a process that another thread of the agent    *)
(* starts meanwhile may hold them as well (the stranger).  Output is       *)
(* counted, not represented, and only the child writes.  The deadline      *)
(* passes at any moment (_clamp_timeout gives a command one).  A killed    *)
(* process is taken to end within the five seconds _run_child waits for it *)
(* on Windows.                                                             *)
(***************************************************************************)
EXTENDS Naturals

CONSTANTS
    MaxOutput,   \* bound: what the child writes to one pipe
    PipeSize,    \* what a pipe holds before its writer blocks
    BufSize      \* LEO_EXEC_STDOUT_MAX - 1, LEO_EXEC_STDERR_MAX - 1

ASSUME ExecutorAssumption ==
    MaxOutput \in Nat /\ PipeSize \in Nat \ {0} /\ BufSize \in Nat \ {0}

Streams == {"stdout", "stderr"}

VARIABLES
    platform,    \* the implementation that is built
    kind,        \* leo_exec_script or leo_exec_argv
    call,        \* where the call is
    ret, exit_code,
    tmpfile,     \* the temporary file exists
    timeUp,      \* the deadline has passed
    reader,      \* the reader threads (Windows)
    ready,       \* the descriptors select has returned (Linux)
    buf,         \* bytes in the buffers of the result
    pipe,        \* bytes in the pipes
    todo,        \* bytes the child has yet to write
    writers,     \* processes that hold the write ends
    child, killed, endless, heir

caller == <<call, ret, exit_code, tmpfile, reader, ready, buf>>
process == <<todo, writers, child, killed, endless, heir>>
fixed == <<platform, kind>>
vars == <<fixed, caller, timeUp, pipe, process>>

Linux == platform = "linux"
Windows == platform = "windows"

Zero == [s \in Streams |-> 0]

Init ==
    /\ platform \in {"linux", "windows"} /\ kind \in {"script", "argv"}
    /\ call = "idle" /\ ret = "none" /\ exit_code = "none"
    /\ tmpfile = FALSE /\ timeUp = FALSE
    /\ reader = [s \in Streams |-> "none"] /\ ready = {}
    /\ buf = Zero /\ pipe = Zero
    /\ todo \in [Streams -> 0 .. MaxOutput]
    /\ writers = {} /\ child = "none" /\ killed = FALSE
    /\ endless \in BOOLEAN /\ heir = "no"

-----------------------------------------------------------------------------
(* leo_exec_script, leo_exec_argv *)

Fail(code) == ret' = code /\ call' = "cleanup"

\* _interpreter_allowed: the whitelist comes before anything is created.
RefuseInterpreter == kind = "script" /\ Fail("PROTOCOL") /\ UNCHANGED tmpfile

\* _write_script_tmp: a failed write removes the file.
WriteScript ==
    /\ kind = "script"
    /\ \/ tmpfile' = TRUE /\ call' = "start" /\ UNCHANGED ret
       \/ Fail("SYSTEM") /\ UNCHANGED tmpfile

\* leo_exec_argv starts the child at once.
RunArgv == kind = "argv" /\ call' = "start" /\ UNCHANGED <<ret, tmpfile>>

\* On Windows the command line may be too long, once the temporary file is
\* there.
RefuseCmdline == Windows /\ Fail("SYSTEM") /\ tmpfile' = (kind = "script")

Prepare ==
    /\ call = "idle"
    /\ RefuseInterpreter \/ WriteScript \/ RunArgv \/ RefuseCmdline
    /\ UNCHANGED <<fixed, exit_code, reader, ready, buf, timeUp, pipe, process>>

\* Faulty variant: the caller keeps its copies of the write ends.
SpawnKeepingEnds ==
    /\ child' = "running"
    /\ writers' = {"child", "caller"}

\* The child holds the write ends, the caller closes its own.  Neither pipe() nor
\* CreatePipe keeps them from a process started between the two by another thread.
Spawn ==
    /\ child' = "running"
    /\ \E w \in {{}, {"stranger"}} : writers' = {"child"} \cup w

\* On Windows each reader thread may fail to start.
StartReaders == reader' \in [Streams -> {"none", "reading"}]

\* A pipe, fork or CreateProcess fails, or the child starts.
StartChild ==
    /\ call = "start"
    /\ \/ /\ Fail("SYSTEM") /\ UNCHANGED <<child, writers, reader>>
       \/ /\ Linux /\ Spawn /\ call' = "loop" /\ UNCHANGED <<ret, reader>>
       \/ /\ Windows /\ Spawn /\ call' = "wait" /\ UNCHANGED ret
          /\ StartReaders
    /\ UNCHANGED <<fixed, exit_code, tmpfile, ready, buf, timeUp, pipe,
                   todo, killed, endless, heir>>

\* unlink or DeleteFileA, whatever the outcome.
Cleanup ==
    /\ call = "cleanup"
    /\ call' = "returned"
    /\ tmpfile' = FALSE
    /\ UNCHANGED <<fixed, ret, exit_code, reader, ready, buf, timeUp, pipe, process>>

-----------------------------------------------------------------------------
(* _run_child on Linux *)

Least(a, b) == IF a < b THEN a ELSE b

\* Faulty variant: the size of the buffer is not looked at.
DrainedAll(s) == pipe[s]

\* _drain_fd: nothing is read for a full buffer.
Drained(s) == Least(pipe[s], BufSize - buf[s])

Drain(fds) ==
    /\ buf' = [s \in Streams |-> IF s \in fds THEN buf[s] + Drained(s) ELSE buf[s]]
    /\ pipe' = [s \in Streams |-> IF s \in fds THEN pipe[s] - Drained(s) ELSE pipe[s]]

Readable(s) == pipe[s] > 0 \/ writers = {}

\* Faulty variant: the child is not killed.
WaitOnTimeout ==
    /\ timeUp
    /\ ret' = "TIMEOUT" /\ call' = "reap" /\ UNCHANGED killed

\* SIGKILL, and the result will be LEO_ERR_TIMEOUT.
KillOnTimeout ==
    /\ timeUp
    /\ killed' = TRUE /\ ret' = "TIMEOUT" /\ call' = "reap"

\* The remaining time is computed at the top of the loop.
LoopTop ==
    /\ call = "loop"
    /\ \/ KillOnTimeout
       \/ ~timeUp /\ call' = "select" /\ UNCHANGED <<killed, ret>>
    /\ UNCHANGED <<fixed, exit_code, tmpfile, reader, ready, buf, timeUp, pipe,
                   todo, writers, child, endless, heir>>

\* select returns descriptors, or 0 after the time that remained.  (After EINTR
\* it is called again.)
Select ==
    /\ call = "select"
    /\ \/ /\ \E s \in Streams : Readable(s)
          /\ ready' = {s \in Streams : Readable(s)}
          /\ call' = "drain" /\ UNCHANGED <<ret, killed>>
       \/ /\ \A s \in Streams : ~Readable(s)
          /\ KillOnTimeout /\ UNCHANGED ready
    /\ UNCHANGED <<fixed, exit_code, tmpfile, reader, buf, timeUp, pipe,
                   todo, writers, child, endless, heir>>

\* select fails: the child will be waited for and is not killed.
SelectFails ==
    /\ call = "select"
    /\ ret' = "SYSTEM" /\ call' = "reap"
    /\ UNCHANGED <<fixed, exit_code, tmpfile, reader, ready, buf, timeUp, pipe, process>>

DrainReady ==
    /\ call = "drain"
    /\ Drain(ready)
    /\ ready' = {}
    /\ call' = "poll"
    /\ UNCHANGED <<fixed, ret, exit_code, tmpfile, reader, timeUp, process>>

\* Faulty variant: the pipes are not read again once the child has ended.
PollNoDrain ==
    /\ call = "poll"
    /\ IF child = "dead"
       THEN /\ child' = "reaped" /\ exit_code' = "child"
            /\ Fail("OK")
       ELSE call' = "loop" /\ UNCHANGED <<child, exit_code, ret>>
    /\ UNCHANGED <<fixed, tmpfile, reader, ready, buf, pipe, timeUp,
                   todo, writers, killed, endless, heir>>

\* waitpid with WNOHANG: when the child has ended, what is left in the pipes
\* is read, once.
PollChild ==
    /\ call = "poll"
    /\ IF child = "dead"
       THEN /\ Drain(Streams)
            /\ child' = "reaped" /\ exit_code' = "child"
            /\ Fail("OK")
       ELSE call' = "loop" /\ UNCHANGED <<child, exit_code, ret, buf, pipe>>
    /\ UNCHANGED <<fixed, tmpfile, reader, ready, timeUp,
                   todo, writers, killed, endless, heir>>

\* Faulty variant: the caller does not wait for what it killed.
ReapNot ==
    /\ call = "reap"
    /\ call' = "cleanup"
    /\ UNCHANGED <<fixed, ret, exit_code, tmpfile, reader, ready, buf, timeUp, pipe, process>>

\* The blocking waitpid after a timeout or an error.
Reap ==
    /\ call = "reap" /\ child = "dead"
    /\ child' = "reaped" /\ exit_code' = "child"
    /\ call' = "cleanup"
    /\ UNCHANGED <<fixed, ret, tmpfile, reader, ready, buf, timeUp, pipe,
                   todo, writers, killed, endless, heir>>

-----------------------------------------------------------------------------
(* _run_child on Windows *)

\* _reader_thread: reads until ReadFile fails at the end of file, keeps what fits.
ReaderStep(s) ==
    /\ reader[s] = "reading"
    /\ \/ /\ pipe[s] > 0
          /\ buf' = [buf EXCEPT ![s] = Least(BufSize, @ + pipe[s])]
          /\ pipe' = [pipe EXCEPT ![s] = 0]
          /\ UNCHANGED reader
       \/ /\ pipe[s] = 0 /\ writers = {}
          /\ reader' = [reader EXCEPT ![s] = "done"]
          /\ UNCHANGED <<buf, pipe>>
    /\ UNCHANGED <<fixed, call, ret, exit_code, tmpfile, ready, timeUp, process>>

\* ReadFile succeeds with n = 0, which a write of no bytes gives at any time: the
\* thread ends as if it had seen the end of file.
ReadsNothing(s) ==
    /\ reader[s] = "reading"
    /\ reader' = [reader EXCEPT ![s] = "stopped"]
    /\ UNCHANGED <<fixed, call, ret, exit_code, tmpfile, ready, buf, timeUp, pipe, process>>

\* WaitForSingleObject: the process has ended, or is terminated.
WaitProcess ==
    /\ call = "wait"
    /\ \/ child = "dead" /\ ret' = "OK" /\ UNCHANGED killed
       \/ child # "dead" /\ timeUp /\ killed' = TRUE /\ ret' = "TIMEOUT"
    /\ call' = "join"
    /\ UNCHANGED <<fixed, exit_code, tmpfile, reader, ready, buf, timeUp, pipe,
                   todo, writers, child, endless, heir>>

\* Both threads are joined, then the exit code is read.
JoinReaders ==
    /\ call = "join" /\ child = "dead"
    /\ \A s \in Streams : reader[s] # "reading"
    /\ child' = "reaped" /\ exit_code' = "child"
    /\ call' = "cleanup"
    /\ UNCHANGED <<fixed, ret, tmpfile, reader, ready, buf, timeUp, pipe,
                   todo, writers, killed, endless, heir>>

-----------------------------------------------------------------------------
(* The child and the clock: external *)

ChildWrite(s) ==
    /\ child = "running" /\ "child" \in writers
    /\ todo[s] > 0 /\ pipe[s] < PipeSize
    /\ todo' = [todo EXCEPT ![s] = @ - 1]
    /\ pipe' = [pipe EXCEPT ![s] = @ + 1]
    /\ UNCHANGED <<fixed, caller, timeUp, writers, child, killed, endless, heir>>

\* It ends once it has written everything, or when it is killed.
ChildEnd ==
    /\ child = "running"
    /\ killed \/ (~endless /\ todo = Zero)
    /\ child' = "dead"
    /\ writers' = writers \ {"child"}
    /\ UNCHANGED <<fixed, caller, timeUp, pipe, todo, killed, endless, heir>>

ChildCloses ==
    /\ child = "running" /\ "child" \in writers /\ todo = Zero
    /\ writers' = writers \ {"child"}
    /\ UNCHANGED <<fixed, caller, timeUp, pipe, todo, child, killed, endless, heir>>

ChildForks ==
    /\ child = "running" /\ "child" \in writers /\ heir = "no"
    /\ heir' = "alive"
    /\ writers' = writers \cup {"heir"}
    /\ UNCHANGED <<fixed, caller, timeUp, pipe, todo, child, killed, endless>>

HeirEnds ==
    /\ heir = "alive"
    /\ heir' = "gone"
    /\ writers' = writers \ {"heir"}
    /\ UNCHANGED <<fixed, caller, timeUp, pipe, todo, child, killed, endless>>

StrangerEnds ==
    /\ "stranger" \in writers
    /\ writers' = writers \ {"stranger"}
    /\ UNCHANGED <<fixed, caller, timeUp, pipe, todo, child, killed, endless, heir>>

Deadline ==
    /\ call \in {"loop", "select", "drain", "poll", "wait"} /\ ~timeUp
    /\ timeUp' = TRUE
    /\ UNCHANGED <<fixed, caller, pipe, process>>

-----------------------------------------------------------------------------
CallerStep ==
    \/ Prepare \/ StartChild \/ Cleanup
    \/ LoopTop \/ Select \/ DrainReady \/ PollChild \/ Reap
    \/ WaitProcess \/ JoinReaders

ChildStep == ChildEnd \/ \E s \in Streams : ChildWrite(s)

Next ==
    \/ CallerStep \/ SelectFails
    \/ \E s \in Streams : ReaderStep(s) \/ ReadsNothing(s)
    \/ ChildStep \/ ChildCloses \/ ChildForks \/ HeirEnds \/ StrangerEnds \/ Deadline

Spec == Init /\ [][Next]_vars

\* The threads of the agent and the child are scheduled.  Nothing obliges the
\* deadline to pass, select to fail, the heir or the stranger to end, or an endless
\* child to stop.
FairSpec ==
    /\ Spec
    /\ WF_vars(CallerStep) /\ WF_vars(ChildStep)
    /\ \A s \in Streams : WF_vars(ReaderStep(s))

-----------------------------------------------------------------------------
TypeOK ==
    /\ platform \in {"linux", "windows"} /\ kind \in {"script", "argv"}
    /\ call \in {"idle", "start", "loop", "select", "drain", "poll", "reap",
                 "wait", "join", "cleanup", "returned"}
    /\ ret \in {"none", "OK", "PROTOCOL", "SYSTEM", "TIMEOUT"}
    /\ exit_code \in {"none", "child"}
    /\ tmpfile \in BOOLEAN /\ timeUp \in BOOLEAN
    /\ reader \in [Streams -> {"none", "reading", "stopped", "done"}]
    /\ ready \subseteq Streams
    /\ buf \in [Streams -> 0 .. BufSize]
    /\ pipe \in [Streams -> 0 .. PipeSize]
    /\ todo \in [Streams -> 0 .. MaxOutput]
    /\ writers \subseteq {"caller", "child", "heir", "stranger"}
    /\ child \in {"none", "running", "dead", "reaped"}
    /\ killed \in BOOLEAN /\ endless \in BOOLEAN
    /\ heir \in {"no", "alive", "gone"}

\* On return the child has been waited for, its readers joined and the
\* temporary file removed, on every path of _run_child and leo_exec_script.
CleanReturn ==
    call = "returned" =>
        /\ child \in {"none", "reaped"} /\ ~tmpfile
        /\ \A s \in Streams : reader[s] # "reading"

\* LEO_OK is only said of a child that ended by itself, and with all its
\* output: nothing the child wrote between the last read and its end is left
\* in a pipe, except for a full buffer and, on Windows, for a reader that never
\* started or that a write of no bytes has stopped.
TruthfulResult ==
    (call = "returned" /\ ret = "OK") =>
        /\ ~killed /\ exit_code = "child"
        /\ \A s \in Streams : pipe[s] > 0 =>
               buf[s] = BufSize \/ (Windows /\ reader[s] \in {"none", "stopped"})

Waiting == call \in {"loop", "select", "drain", "poll", "reap", "wait", "join"}

\* Somebody other than the child and the caller holds the write ends.
HeldElsewhere == writers \cap {"heir", "stranger"} # {}

\* Once the deadline has passed the call returns, however the child behaves;
\* except after an error of select (the child is then waited for but not
\* killed) and, on Windows, while another process holds the pipes.
DeadlineEnds ==
    (timeUp /\ Waiting) ~>
        (call = "returned" \/ ret = "SYSTEM" \/ (Windows /\ HeldElsewhere))

\* What the child writes can never fill a pipe that nobody reads.  On Linux
\* nothing is read for a full buffer, so the rest must fit in the pipe.
Fits ==
    \A s \in Streams :
        IF Linux THEN buf[s] + pipe[s] + todo[s] <= BufSize + PipeSize
                 ELSE reader[s] # "none"

\* A child that ends while no other process holds its pipes is answered without
\* waiting for the deadline, provided its output fits: on Linux it is the end of
\* file that wakes select.  An error of select, or a reader that a write of no
\* bytes has stopped, are the other exceptions.
EndIsNoticed ==
    (Waiting /\ ~endless /\ Fits) ~>
        \/ call = "returned" \/ timeUp \/ HeldElsewhere \/ ret = "SYSTEM"
        \/ \E s \in Streams : reader[s] = "stopped"
=============================================================================
