--------------------------- MODULE ExecutorProofs ---------------------------
(***************************************************************************)
(* Proofs about the execution of a child process, on both platforms and    *)
(* for any sizes of the pipes, of the buffers and of the output.           *)
(*                                                                         *)
(* What is known of the child, of the result and of the readers follows    *)
(* from where the call is (Places).  A reader that is done has seen the    *)
(* end of its pipe, which is final (Finished); and once a result is        *)
(* LEO_OK, what is left in a pipe did not fit, or its reader had stopped   *)
(* (Emptied).                                                              *)
(*                                                                         *)
(* The second half is about the command line a program gets on Windows:    *)
(* by induction over an argument, what has been written of it is read      *)
(* back but for the backslashes that wait; by induction over the vector,   *)
(* all arguments are.  The induction principles come first, stated for     *)
(* sets, and with them what Fold computes.                                 *)
(***************************************************************************)
EXTENDS MCExecutor, WellFoundedInduction, TLAPS

NoReader == \A s \in Streams : reader[s] = "none"

Born == child \in {"running", "dead"}

Places ==
    /\ call \in {"idle", "start"} => child = "none" /\ ret = "none" /\ ~killed /\ NoReader
    /\ call \in {"loop", "select", "drain", "poll"} =>
          Linux /\ Born /\ ret = "none" /\ ~killed
    /\ call = "reap" => Linux /\ Born /\ ret \in {"TIMEOUT", "SYSTEM"}
    /\ call = "wait" => Windows /\ Born /\ ret = "none" /\ ~killed
    /\ call = "join" => /\ Windows /\ Born /\ ret \in {"OK", "TIMEOUT"}
                        /\ ret = "OK" => ~killed /\ child = "dead"
    /\ call \in {"cleanup", "returned"} =>
          /\ child \in {"none", "reaped"}
          /\ \A s \in Streams : reader[s] # "reading"
          /\ ret = "OK" => ~killed /\ exit_code = "child"
    /\ call = "returned" => ~tmpfile
    /\ Linux => NoReader

Finished == \A s \in Streams : reader[s] = "done" => pipe[s] = 0 /\ writers = {}

Emptied ==
    (call \in {"cleanup", "returned"} /\ ret = "OK") =>
        \A s \in Streams : pipe[s] > 0 =>
            buf[s] = BufSize \/ (Windows /\ reader[s] \in {"none", "stopped"})

IInv == TypeOK /\ Places /\ Finished /\ Emptied

-----------------------------------------------------------------------------
(* Types *)

Flags ==
    /\ tmpfile \in BOOLEAN /\ timeUp \in BOOLEAN
    /\ killed \in BOOLEAN /\ endless \in BOOLEAN

Amounts ==
    /\ buf \in [Streams -> 0 .. BufSize]
    /\ pipe \in [Streams -> 0 .. PipeSize]
    /\ todo \in [Streams -> 0 .. MaxOutput]

Words ==
    /\ platform \in {"linux", "windows"} /\ kind \in {"script", "argv"}
    /\ call \in {"idle", "start", "loop", "select", "drain", "poll", "reap",
                 "wait", "join", "cleanup", "returned"}
    /\ ret \in {"none", "OK", "PROTOCOL", "SYSTEM", "TIMEOUT"}
    /\ exit_code \in {"none", "child"}
    /\ child \in {"none", "running", "dead", "reaped"}
    /\ heir \in {"no", "alive", "gone"}

Ends ==
    /\ reader \in [Streams -> {"none", "reading", "stopped", "done"}]
    /\ ready \subseteq Streams
    /\ writers \subseteq {"caller", "child", "heir", "stranger"}

\* The four parts of the type invariant.
LEMMA TypeParts == TypeOK <=> Flags /\ Amounts /\ Words /\ Ends
  BY Zenon DEF TypeOK, Flags, Amounts, Words, Ends

\* What _drain_fd reads fits in the buffer and comes from the pipe.
LEMMA DrainedFits ==
    ASSUME Amounts, NEW s \in Streams
    PROVE  /\ Drained(s) \in Nat
           /\ buf[s] + Drained(s) \in 0 .. BufSize
           /\ pipe[s] - Drained(s) \in 0 .. PipeSize
           /\ pipe[s] - Drained(s) > 0 => buf[s] + Drained(s) = BufSize
  <1>1. buf[s] \in 0 .. BufSize /\ pipe[s] \in 0 .. PipeSize
    BY DEF Amounts
  <1> QED
    BY <1>1, ExecutorAssumption DEF Drained, Least

\* Reading any set of descriptors keeps the buffers within their bounds.
LEMMA DrainTypes ==
    ASSUME Amounts, NEW fds, Drain(fds), UNCHANGED todo
    PROVE  Amounts'
  <1>1. \A s \in Streams : buf'[s] \in 0 .. BufSize /\ pipe'[s] \in 0 .. PipeSize
    BY DrainedFits DEF Drain, Amounts
  <1>2. /\ buf' = [s \in Streams |-> buf'[s]]
        /\ pipe' = [s \in Streams |-> pipe'[s]]
    BY DEF Drain
  <1> QED
    BY <1>1, <1>2 DEF Amounts

\* The Boolean variables keep their types.
LEMMA FlagsStep == Flags /\ Next => Flags'
  <1> SUFFICES ASSUME Flags, Next PROVE Flags'
    OBVIOUS
  <1> USE DEF Flags, process
  <1>1. CASE Prepare \/ StartChild \/ Cleanup
    BY <1>1, ZenonT(60) DEF Prepare, RefuseInterpreter, WriteScript, RunArgv, RefuseCmdline, Fail,
       StartChild, Cleanup
  <1>2. CASE LoopTop \/ Select \/ SelectFails \/ DrainReady \/ PollChild \/ Reap
    BY <1>2, ZenonT(60) DEF LoopTop, Select, SelectFails, KillOnTimeout, DrainReady, PollChild,
       Reap
  <1>3. CASE WaitProcess \/ JoinReaders \/ \E s \in Streams : ReaderStep(s) \/ ReadsNothing(s)
    BY <1>3, ZenonT(60) DEF WaitProcess, JoinReaders, ReaderStep, ReadsNothing
  <1>4. CASE ChildStep \/ ChildCloses \/ ChildForks \/ HeirEnds \/ StrangerEnds \/ Deadline
    BY <1>4, ZenonT(60) DEF ChildStep, ChildEnd, ChildWrite, ChildCloses, ChildForks, HeirEnds,
       StrangerEnds,
       Deadline, caller
  <1> QED
    BY <1>1, <1>2, <1>3, <1>4 DEF Next, CallerStep

\* No pipe and no buffer takes more than it holds.
LEMMA AmountsStep == Amounts /\ Next => Amounts'
  <1> SUFFICES ASSUME Amounts, Next PROVE Amounts'
    OBVIOUS
  <1>1. ASSUME UNCHANGED <<buf, pipe, todo>> PROVE Amounts'
    BY <1>1 DEF Amounts
  <1>2. CASE Prepare \/ StartChild \/ Cleanup
    BY <1>1, <1>2, ZenonT(60) DEF Prepare, StartChild, Cleanup, process
  <1>3. CASE LoopTop \/ Select \/ SelectFails \/ Reap \/ WaitProcess \/ JoinReaders
    BY <1>1, <1>3, ZenonT(60) DEF LoopTop, Select, SelectFails, Reap, WaitProcess, JoinReaders,
       process
  <1>4. CASE DrainReady
    BY <1>4, DrainTypes DEF DrainReady, process
  <1>5. CASE PollChild
    BY <1>1, <1>5, DrainTypes DEF PollChild
  <1>6. ASSUME NEW s \in Streams, ReaderStep(s) PROVE Amounts'
    <2>1. CASE UNCHANGED <<buf, pipe>>
      BY <1>1, <1>6, <2>1 DEF ReaderStep, process
    <2>2. CASE /\ buf' = [buf EXCEPT ![s] = Least(BufSize, @ + pipe[s])]
               /\ pipe' = [pipe EXCEPT ![s] = 0]
      <3>1. buf[s] \in 0 .. BufSize /\ pipe[s] \in 0 .. PipeSize
        BY DEF Amounts
      <3>2. Least(BufSize, buf[s] + pipe[s]) \in 0 .. BufSize /\ 0 \in 0 .. PipeSize
        BY <3>1, ExecutorAssumption DEF Least
      <3>3. todo' = todo
        BY <1>6 DEF ReaderStep, process
      <3> QED
        BY <2>2, <3>2, <3>3 DEF Amounts
    <2> QED
      BY <1>6, <2>1, <2>2 DEF ReaderStep
  <1>7. ASSUME NEW s \in Streams, ChildWrite(s) PROVE Amounts'
    <2>1. todo[s] - 1 \in 0 .. MaxOutput /\ pipe[s] + 1 \in 0 .. PipeSize
      BY <1>7, ExecutorAssumption DEF ChildWrite, Amounts
    <2> QED
      BY <1>7, <2>1 DEF ChildWrite, Amounts, caller
  <1>8. ASSUME NEW s \in Streams, ReadsNothing(s) PROVE Amounts'
    BY <1>1, <1>8 DEF ReadsNothing, process
  <1>9. CASE ChildEnd \/ ChildCloses \/ ChildForks \/ HeirEnds \/ StrangerEnds \/ Deadline
    BY <1>1, <1>9, ZenonT(60) DEF ChildEnd, ChildCloses, ChildForks, HeirEnds, StrangerEnds,
       Deadline, caller,
       process
  <1> QED
    BY <1>2, <1>3, <1>4, <1>5, <1>6, <1>7, <1>8, <1>9 DEF Next, CallerStep, ChildStep

\* The places, results and names keep their types.
LEMMA WordsStep == Words /\ Next => Words'
  <1> SUFFICES ASSUME Words, Next PROVE Words'
    OBVIOUS
  <1> USE DEF Words, fixed
  <1>1. CASE Prepare
    BY <1>1 DEF Prepare, RefuseInterpreter, WriteScript, RunArgv, RefuseCmdline, Fail, process
  <1>2. CASE StartChild \/ Cleanup
    BY <1>2 DEF StartChild, Fail, Spawn, Cleanup, process
  <1>3. CASE LoopTop \/ Select \/ SelectFails
    BY <1>3 DEF LoopTop, Select, SelectFails, KillOnTimeout, process
  <1>4. CASE DrainReady \/ PollChild
    BY <1>4 DEF DrainReady, PollChild, Fail, process
  <1>5. CASE Reap \/ WaitProcess \/ JoinReaders
    BY <1>5 DEF Reap, WaitProcess, JoinReaders
  <1>6. ASSUME NEW s \in Streams, ReaderStep(s) \/ ReadsNothing(s) \/ ChildWrite(s) PROVE Words'
    BY <1>6 DEF ReaderStep, ReadsNothing, ChildWrite, caller, process
  <1>7. CASE ChildEnd \/ ChildCloses \/ ChildForks \/ HeirEnds \/ StrangerEnds \/ Deadline
    BY <1>7 DEF ChildEnd, ChildCloses, ChildForks, HeirEnds, StrangerEnds, Deadline, caller,
       process
  <1> QED
    BY <1>1, <1>2, <1>3, <1>4, <1>5, <1>6, <1>7 DEF Next, CallerStep, ChildStep

\* So do the readers and the sets of descriptors and of processes.
LEMMA EndsStep == Ends /\ Next => Ends'
  <1> SUFFICES ASSUME Ends, Next PROVE Ends'
    OBVIOUS
  <1> USE DEF Ends
  <1>1. CASE Prepare \/ Cleanup \/ LoopTop \/ PollChild
    BY <1>1, ZenonT(60) DEF Prepare, Cleanup, LoopTop, PollChild, process
  <1>2. CASE StartChild
    BY <1>2, Zenon DEF StartChild, Spawn, StartReaders
  <1>3. CASE Select \/ SelectFails \/ DrainReady
    BY <1>3, Zenon DEF Select, SelectFails, DrainReady, process
  <1>4. CASE Reap \/ WaitProcess \/ JoinReaders
    BY <1>4, ZenonT(60) DEF Reap, WaitProcess, JoinReaders
  <1>5. ASSUME NEW s \in Streams, ReaderStep(s) \/ ReadsNothing(s) PROVE Ends'
    BY <1>5, ZenonT(30) DEF ReaderStep, ReadsNothing, process
  <1>6. CASE ChildStep \/ ChildCloses \/ ChildForks \/ HeirEnds \/ StrangerEnds \/ Deadline
    BY <1>6 DEF ChildStep, ChildEnd, ChildWrite, ChildCloses, ChildForks, HeirEnds,
       StrangerEnds, Deadline, caller,
       process
  <1> QED
    BY <1>1, <1>2, <1>3, <1>4, <1>5, <1>6 DEF Next, CallerStep

-----------------------------------------------------------------------------
(* Where the call is *)

\* A step that leaves the call where it is, and the child born if it was.
LEMMA SamePlace ==
    ASSUME Places, UNCHANGED <<platform, call, ret, exit_code, killed, tmpfile>>,
           \/ child' = child
           \/ call \notin {"idle", "start", "cleanup", "returned"} /\ child' = "dead",
           \/ reader' = reader
           \/ \E s \in Streams : /\ reader[s] = "reading"
                                 /\ \E v \in {"done", "stopped"} :
                                       reader' = [reader EXCEPT ![s] = v],
           Ends
    PROVE  Places'
  <1>1. \A s \in Streams : reader[s] = "none" => reader'[s] = "none"
    BY DEF Ends
  <1>2. \A s \in Streams : reader[s] # "reading" => reader'[s] # "reading"
    BY DEF Ends
  <1>3. NoReader => NoReader'
    BY <1>1 DEF NoReader
  <1>4. child' = child \/ (call \notin {"idle", "start", "cleanup", "returned"} /\ child' = "dead")
    OBVIOUS
  <1> HIDE DEF NoReader
  <1> QED
    BY <1>2, <1>3, <1>4 DEF Places, Born, Linux, Windows

\* The start of the call, up to the child.
LEMMA StartPlaces ==
    ASSUME Places, Words, Prepare \/ StartChild \/ Cleanup
    PROVE  Places'
  <1>1. CASE Prepare
    <2>1. /\ UNCHANGED <<platform, child, killed, reader>> /\ call = "idle"
          /\ \/ call' = "start" /\ UNCHANGED ret
             \/ call' = "cleanup" /\ ret' \in {"PROTOCOL", "SYSTEM"}
      BY <1>1 DEF Prepare, RefuseInterpreter, WriteScript, RunArgv, RefuseCmdline, Fail,
         process, fixed
    <2> QED
      BY <2>1 DEF Places, NoReader, Linux, Windows
  <1>2. CASE StartChild
    <2>1. /\ UNCHANGED <<platform, killed>> /\ call = "start"
          /\ \/ /\ call' = "cleanup" /\ ret' = "SYSTEM" /\ UNCHANGED <<child, reader>>
             \/ /\ Linux /\ call' = "loop" /\ UNCHANGED <<ret, reader>> /\ child' = "running"
             \/ /\ Windows /\ call' = "wait" /\ UNCHANGED ret /\ child' = "running"
      BY <1>2 DEF StartChild, Fail, Spawn, fixed
    <2> QED
      BY <2>1 DEF Places, NoReader, Linux, Windows, Born
  <1>3. CASE Cleanup
    <2>1. /\ UNCHANGED <<platform, child, killed, reader, ret, exit_code>>
          /\ call = "cleanup" /\ call' = "returned" /\ ~tmpfile'
      BY <1>3 DEF Cleanup, process, fixed
    <2> QED
      BY <2>1 DEF Places, NoReader, Linux
  <1> QED
    BY <1>1, <1>2, <1>3

\* The loop on Linux.
LEMMA LoopPlaces ==
    ASSUME Places, Words, LoopTop \/ Select \/ SelectFails \/ DrainReady \/ PollChild \/ Reap
    PROVE  Places'
  <1>1. UNCHANGED <<platform, reader>>
    BY Zenon DEF LoopTop, Select, SelectFails, DrainReady, PollChild, Reap, fixed
  <1>2. CASE LoopTop \/ Select \/ SelectFails
    <2>1. /\ UNCHANGED child /\ call \in {"loop", "select"}
          /\ \/ call' \in {"select", "drain"} /\ UNCHANGED <<ret, killed>>
             \/ call' = "reap" /\ ret' \in {"TIMEOUT", "SYSTEM"}
      BY <1>2 DEF LoopTop, Select, SelectFails, KillOnTimeout, process
    <2> QED
      BY <1>1, <2>1 DEF Places, NoReader, Linux, Windows, Born
  <1>3. CASE DrainReady
    <2>1. UNCHANGED <<child, ret, killed>> /\ call = "drain" /\ call' = "poll"
      BY <1>3 DEF DrainReady, process
    <2> QED
      BY <1>1, <2>1 DEF Places, NoReader, Linux, Windows, Born
  <1>4. CASE PollChild
    <2>1. /\ call = "poll" /\ UNCHANGED killed
          /\ \/ call' = "loop" /\ UNCHANGED <<child, ret>>
             \/ call' = "cleanup" /\ child' = "reaped" /\ exit_code' = "child"
      BY <1>4 DEF PollChild, Fail
    <2> QED
      BY <1>1, <2>1 DEF Places, NoReader, Linux, Windows, Born
  <1>5. CASE Reap
    <2>1. /\ call = "reap" /\ UNCHANGED <<killed, ret>>
          /\ call' = "cleanup" /\ child' = "reaped"
      BY <1>5 DEF Reap
    <2> QED
      BY <1>1, <2>1 DEF Places, NoReader, Linux
  <1> QED
    BY <1>2, <1>3, <1>4, <1>5

\* The waits on Windows.
LEMMA WaitPlaces ==
    ASSUME Places, Words, WaitProcess \/ JoinReaders
    PROVE  Places'
  <1>1. CASE WaitProcess
    <2>1. /\ UNCHANGED <<platform, reader, child>> /\ call = "wait" /\ call' = "join"
          /\ \/ child = "dead" /\ ret' = "OK" /\ UNCHANGED killed
             \/ ret' = "TIMEOUT"
      BY <1>1 DEF WaitProcess, fixed
    <2> QED
      BY <2>1 DEF Places, NoReader, Linux, Windows, Born
  <1>2. CASE JoinReaders
    <2>1. /\ UNCHANGED <<platform, reader, ret, killed>> /\ call = "join" /\ call' = "cleanup"
          /\ child' = "reaped" /\ exit_code' = "child"
          /\ \A s \in Streams : reader[s] # "reading"
      BY <1>2 DEF JoinReaders, fixed
    <2> QED
      BY <2>1 DEF Places, NoReader, Linux, Windows
  <1> QED
    BY <1>1, <1>2

\* Every step keeps what is known from the place of the call.
LEMMA PlacesStep ==
    ASSUME Places, Words, Ends, Next
    PROVE  Places'
  <1>1. CASE CallerStep \/ SelectFails
    BY <1>1, StartPlaces, LoopPlaces, WaitPlaces DEF CallerStep
  <1>2. ASSUME NEW s \in Streams, ReaderStep(s) \/ ReadsNothing(s) PROVE Places'
    BY <1>2, SamePlace, ZenonT(30) DEF ReaderStep, ReadsNothing, fixed, process
  <1>3. ASSUME NEW s \in Streams, ChildWrite(s) PROVE Places'
    BY <1>3, SamePlace, Zenon DEF ChildWrite, fixed, caller
  <1>4. CASE ChildEnd
    <2>1. call \notin {"idle", "start", "cleanup", "returned"}
      BY <1>4 DEF ChildEnd, Places
    <2> QED
      BY <1>4, <2>1, SamePlace, Zenon DEF ChildEnd, fixed, caller
  <1>5. CASE ChildCloses \/ ChildForks \/ HeirEnds \/ StrangerEnds \/ Deadline
    BY <1>5, SamePlace, ZenonT(30) DEF ChildCloses, ChildForks, HeirEnds, StrangerEnds,
       Deadline, fixed, caller, process
  <1> QED
    BY <1>1, <1>2, <1>3, <1>4, <1>5 DEF Next, ChildStep

-----------------------------------------------------------------------------
(* What is in the pipes *)

\* A pipe whose reader has ended stays empty and without a writer.
LEMMA FinishedStep ==
    ASSUME Finished, Amounts, Ends, Words, Places, Next
    PROVE  Finished'
  <1>1. CASE UNCHANGED <<reader, pipe, writers>>
    BY <1>1 DEF Finished
  <1>2. CASE \/ Prepare \/ Cleanup \/ LoopTop \/ Select \/ SelectFails \/ Reap
             \/ WaitProcess \/ JoinReaders \/ Deadline
    BY <1>1, <1>2, ZenonT(30) DEF Prepare, Cleanup, LoopTop, Select, SelectFails, Reap,
       WaitProcess, JoinReaders,
       Deadline, caller, process
  <1>3. CASE StartChild
    <2>1. \A s \in Streams : reader'[s] # "done"
      BY <1>3 DEF StartChild, StartReaders, Places, NoReader
    <2> QED
      BY <2>1 DEF Finished
  <1>4. CASE DrainReady \/ PollChild
    <2>1. \A s \in Streams : reader'[s] # "done"
      BY <1>4 DEF DrainReady, PollChild, Places, NoReader
    <2> QED
      BY <2>1 DEF Finished
  <1>5. ASSUME NEW s \in Streams, ReaderStep(s) PROVE Finished'
    <2>1. CASE pipe[s] > 0 /\ pipe' = [pipe EXCEPT ![s] = 0] /\ UNCHANGED <<reader, writers>>
      BY <2>1 DEF Finished, Amounts
    <2>2. CASE /\ pipe[s] = 0 /\ writers = {} /\ reader' = [reader EXCEPT ![s] = "done"]
               /\ UNCHANGED <<pipe, writers>>
      BY <2>2 DEF Finished, Ends
    <2> QED
      BY <1>5, <2>1, <2>2 DEF ReaderStep, process
  <1>6. ASSUME NEW s \in Streams, ChildWrite(s) PROVE Finished'
    <2>1. writers # {} /\ reader' = reader
      BY <1>6 DEF ChildWrite, caller
    <2> QED
      BY <2>1 DEF Finished
  <1>7. CASE ChildEnd \/ ChildCloses \/ ChildForks \/ HeirEnds \/ StrangerEnds
    <2>1. UNCHANGED <<reader, pipe>> /\ (writers = {} => writers' = {})
      BY <1>7 DEF ChildEnd, ChildCloses, ChildForks, HeirEnds, StrangerEnds, caller
    <2> QED
      BY <2>1 DEF Finished
  <1>8. ASSUME NEW s \in Streams, ReadsNothing(s) PROVE Finished'
    <2>1. UNCHANGED <<pipe, writers>> /\ reader' = [reader EXCEPT ![s] = "stopped"]
      BY <1>8 DEF ReadsNothing, process
    <2> QED
      BY <2>1 DEF Finished, Ends
  <1> QED
    BY <1>2, <1>3, <1>4, <1>5, <1>6, <1>7, <1>8 DEF Next, CallerStep, ChildStep

\* LEO_OK comes with the end of the output, up to what did not fit.
LEMMA EmptiedStep ==
    ASSUME Emptied, Finished, Amounts, Ends, Words, Places, Next
    PROVE  Emptied'
  <1>1. CASE UNCHANGED <<platform, reader, pipe, buf, ret>> /\ call' \in {call, "returned"}
             /\ (call' = "returned" => call \in {"cleanup", "returned"})
    BY <1>1 DEF Emptied, Windows
  <1>2. CASE call' \notin {"cleanup", "returned"} \/ ret' # "OK"
    BY <1>2 DEF Emptied
  <1>3. CASE Prepare \/ StartChild \/ LoopTop \/ Select \/ SelectFails \/ DrainReady \/ WaitProcess
    BY <1>2, <1>3 DEF Prepare, RefuseInterpreter, WriteScript, RunArgv, RefuseCmdline, Fail,
       StartChild,
       LoopTop, Select, SelectFails, KillOnTimeout, DrainReady, WaitProcess, Places
  <1>4. CASE Reap
    BY <1>2, <1>4 DEF Reap, Places
  <1>5. CASE Cleanup
    BY <1>1, <1>5, Zenon DEF Cleanup, fixed
  <1>6. CASE PollChild
    <2>1. CASE call' = "loop"
      BY <1>2, <2>1
    <2>2. CASE Drain(Streams)
      <3>1. \A s \in Streams : pipe'[s] > 0 => buf'[s] = BufSize
        BY <2>2, DrainedFits DEF Drain
      <3> QED
        BY <3>1 DEF Emptied
    <2> QED
      BY <1>6, <2>1, <2>2 DEF PollChild
  <1>7. CASE JoinReaders
    <2>1. UNCHANGED <<platform, reader, pipe>> /\ Windows
      BY <1>7 DEF JoinReaders, Places, fixed
    <2>2. \A s \in Streams : reader[s] \in {"none", "stopped"} \/ pipe[s] = 0
      BY <1>7 DEF JoinReaders, Finished, Ends
    <2> QED
      BY <2>1, <2>2 DEF Emptied, Windows
  <1>8. ASSUME NEW s \in Streams, ReaderStep(s) \/ ReadsNothing(s) \/ ChildWrite(s)
        PROVE  Emptied'
    <2>1. call \notin {"cleanup", "returned"} /\ call' = call
      BY <1>8 DEF ReaderStep, ReadsNothing, ChildWrite, caller, Places
    <2> QED
      BY <1>2, <2>1
  <1>9. CASE ChildEnd \/ ChildCloses \/ ChildForks \/ HeirEnds \/ StrangerEnds \/ Deadline
    BY <1>1, <1>9, ZenonT(30) DEF ChildEnd, ChildCloses, ChildForks, HeirEnds, StrangerEnds,
       Deadline, caller, fixed
  <1> QED
    BY <1>3, <1>4, <1>5, <1>6, <1>7, <1>8, <1>9 DEF Next, CallerStep, ChildStep

-----------------------------------------------------------------------------
\* Before a call the inductive invariant holds.
LEMMA InitInv == Init => IInv
  <1> SUFFICES ASSUME Init PROVE IInv
    OBVIOUS
  <1>1. Flags
    BY Zenon DEF Init, Flags
  <1>2. Amounts
    BY ExecutorAssumption DEF Init, Amounts, Zero
  <1>3. Words /\ Ends
    BY DEF Init, Words, Ends
  <1>4. Places /\ Finished /\ Emptied
    BY DEF Init, Places, Finished, Emptied, NoReader
  <1> QED
    BY <1>1, <1>2, <1>3, <1>4, TypeParts DEF IInv

\* Every step of the caller, the readers, the child and the clock keeps it.
LEMMA StepInv == IInv /\ [Next]_vars => IInv'
  <1> SUFFICES ASSUME IInv, [Next]_vars PROVE IInv'
    OBVIOUS
  <1>1. Flags /\ Amounts /\ Words /\ Ends
    BY TypeParts DEF IInv
  <1>2. CASE Next
    <2>1. Flags' /\ Amounts' /\ Words' /\ Ends'
      BY <1>1, <1>2, FlagsStep, AmountsStep, WordsStep, EndsStep
    <2>2. TypeOK'
      BY <2>1, Zenon DEF TypeOK, Flags, Amounts, Words, Ends
    <2>3. Places' /\ Finished' /\ Emptied'
      BY <1>1, <1>2, PlacesStep, FinishedStep, EmptiedStep DEF IInv
    <2> QED
      BY <2>2, <2>3 DEF IInv
  <1>3. CASE UNCHANGED vars
    <2>1. TypeOK'
      <3>1. Flags'
        BY <1>1, <1>3, Zenon DEF Flags, vars, caller, process
      <3>2. Amounts' /\ Ends'
        BY <1>1, <1>3 DEF Amounts, Ends, vars, caller, process
      <3>3. Words'
        BY <1>1, <1>3 DEF Words, vars, fixed, caller, process
      <3> QED
        BY <3>1, <3>2, <3>3, Zenon DEF TypeOK, Flags, Amounts, Words, Ends
    <2>2. UNCHANGED <<platform, call, ret, exit_code, tmpfile, reader, buf, pipe, writers, child, killed>>
      BY <1>3, Zenon DEF vars, fixed, caller, process
    <2>3. Places'
      BY <2>2 DEF IInv, Places, NoReader, Born, Linux, Windows
    <2>4. Finished' /\ Emptied'
      BY <2>2 DEF IInv, Finished, Emptied, Windows
    <2> QED
      BY <2>1, <2>3, <2>4 DEF IInv
  <1> QED
    BY <1>2, <1>3

\* The inductive invariant holds in every reachable state.
THEOREM Invariance == Spec => []IInv
  BY InitInv, StepInv, PTL DEF Spec

\* Whatever the sizes, _drain_fd and _reader_thread never exceed the buffers
\* of the result, and every variable keeps its type.
THEOREM TypeCorrect == Spec => []TypeOK
  <1>1. IInv => TypeOK
    BY DEF IInv
  <1> QED
    BY <1>1, Invariance, PTL

\* On every path, on both platforms, a call that returns has waited for its
\* child and its readers and removed its temporary file.
THEOREM ReturnsClean == Spec => []CleanReturn
  <1>1. IInv => CleanReturn
    BY DEF IInv, Places, CleanReturn
  <1> QED
    BY <1>1, Invariance, PTL

\* LEO_OK is only returned for a child that ended by itself, with its output
\* read to the end or the buffer full.
THEOREM OkIsTrue == Spec => []TruthfulResult
  <1>1. IInv => TruthfulResult
    BY DEF IInv, Places, Emptied, TruthfulResult
  <1> QED
    BY <1>1, Invariance, PTL

-----------------------------------------------------------------------------
(* The command line on Windows *)

\* Induction over the naturals, for a set instead of a predicate: the least
\* number outside S would have a predecessor in S.
LEMMA SetInduction ==
    ASSUME NEW S, 0 \in S, \A n \in Nat : n \in S => n + 1 \in S
    PROVE  Nat \subseteq S
  <1> DEFINE T == Nat \ S
             R == OpToRel(<, Nat)
  <1>1. SUFFICES ASSUME T # {} PROVE FALSE
    OBVIOUS
  <1>2. IsWellFoundedOn(R, Nat)
    BY NatLessThanWellFounded, Zenon
  <1>3. T \subseteq Nat
    OBVIOUS
  <1>4. \E x \in T : \A y \in T : ~(<<y, x>> \in R)
    <2> HIDE DEF T, R
    <2> QED
      BY <1>1, <1>2, <1>3, WFMin, Zenon
  <1>5. \A x, y \in Nat : x < y => <<x, y>> \in R
    BY Zenon DEF OpToRel
  <1>6. PICK x \in T : \A y \in T : ~(<<y, x>> \in R)
    BY <1>4, Zenon
  <1> HIDE DEF R
  <1>7. x # 0 /\ x - 1 \in Nat /\ x - 1 < x
    BY <1>6
  <1>8. x - 1 \in T
    BY <1>7, <1>6
  <1> QED
    BY <1>5, <1>6, <1>7, <1>8, Zenon

\* Induction over the sequences over E, from the empty one by Append.
LEMMA SeqInduction ==
    ASSUME NEW E, NEW T, <<>> \in T,
           \A s \in Seq(E), e \in E : s \in T => Append(s, e) \in T
    PROVE  Seq(E) \subseteq T
  <1> DEFINE S == {n \in Nat : \A s \in Seq(E) : Len(s) = n => s \in T}
  <1>1. 0 \in S
    <2>1. \A s \in Seq(E) : Len(s) = 0 => s = <<>>
      OBVIOUS
    <2> QED
      BY <2>1
  <1>2. ASSUME NEW n \in Nat, n \in S PROVE n + 1 \in S
    <2>1. SUFFICES ASSUME NEW s \in Seq(E), Len(s) = n + 1 PROVE s \in T
      BY <1>2
    <2> DEFINE f == SubSeq(s, 1, n)
    <2>2. f \in Seq(E) /\ Len(f) = n /\ s[n + 1] \in E
      BY <2>1
    <2>3. s = Append(f, s[n + 1])
      BY <2>1
    <2>4. f \in T
      BY <1>2, <2>2, Zenon
    <2> HIDE DEF f
    <2> QED
      BY <2>2, <2>3, <2>4, Zenon
  <1> HIDE DEF S
  <1>3. Nat \subseteq S
    BY <1>1, <1>2, SetInduction, Zenon
  <1>4. SUFFICES ASSUME NEW s \in Seq(E) PROVE s \in T
    OBVIOUS
  <1>5. Len(s) \in S
    BY <1>3
  <1> QED
    BY <1>5 DEF S

\* f holds what step makes of the first m elements of s, one after the other.
RunsTo(m, f, step, v0, s) ==
    f[0] = v0 /\ \A n \in 1 .. m : f[n] = step[f[n - 1]][s[n]]

Runs(f, step, v0, s) == RunsTo(Len(s), f, step, v0, s)

\* g takes the same step wherever it was equal to f before.
Follows(f, g, N) ==
    f[0] = g[0] /\ \A n \in 1 .. N : f[n - 1] = g[n - 1] => f[n] = g[n]

Alike(f, g, N) == \A n \in 0 .. N : f[n] = g[n]

\* A recursion over the elements of a sequence has a solution.
LEMMA Recursion ==
    ASSUME NEW V, NEW E, NEW step \in [V -> [E -> V]], NEW v0 \in V, NEW s \in Seq(E)
    PROVE  \E f \in [0 .. Len(s) -> V] : Runs(f, step, v0, s)
  <1> DEFINE N == Len(s)
             Upto(m, f) == RunsTo(m, f, step, v0, s)
             S == {m \in Nat : m <= N => \E f \in [0 .. m -> V] : Upto(m, f)}
  <1>0. N \in Nat /\ \A n \in 1 .. N : s[n] \in E
    OBVIOUS
  <1> HIDE DEF N
  <1>1. 0 \in S
    <2>1. [i \in 0 .. 0 |-> v0] \in [0 .. 0 -> V] /\ Upto(0, [i \in 0 .. 0 |-> v0])
      BY DEF RunsTo
    <2> QED
      BY <2>1
  <1>2. ASSUME NEW m \in Nat, m \in S PROVE m + 1 \in S
    <2>1. SUFFICES ASSUME m + 1 <= N
                   PROVE  \E f \in [0 .. m + 1 -> V] : Upto(m + 1, f)
      OBVIOUS
    <2>2. PICK f \in [0 .. m -> V] : Upto(m, f)
      BY <1>0, <1>2, <2>1
    <2> DEFINE v == step[f[m]][s[m + 1]]
               g == [i \in 0 .. m + 1 |-> IF i = m + 1 THEN v ELSE f[i]]
    <2>3. v \in V
      <3>1. f[m] \in V /\ s[m + 1] \in E
        BY <1>0, <2>1, <2>2
      <3> QED
        BY <3>1
    <2>4. g \in [0 .. m + 1 -> V]
      <3> HIDE DEF v
      <3> QED
        BY <2>2, <2>3
    <2>5. \A i \in 0 .. m : g[i] = f[i]
      OBVIOUS
    <2>6. g[m + 1] = step[g[m]][s[m + 1]]
      <3>1. m + 1 \in 0 .. m + 1 /\ m \in 0 .. m
        OBVIOUS
      <3>2. g[m + 1] = v
        BY <3>1, Zenon
      <3> HIDE DEF g
      <3> QED
        BY <2>5, <3>1, <3>2, Zenon
    <2>7. ASSUME NEW n \in 1 .. m PROVE g[n] = step[g[n - 1]][s[n]]
      <3>1. n - 1 \in 0 .. m /\ n \in 0 .. m
        OBVIOUS
      <3> HIDE DEF g
      <3>2. g[n - 1] = f[n - 1] /\ g[n] = f[n]
        BY <2>5, <3>1
      <3> QED
        BY <2>2, <3>2, Zenon DEF RunsTo
    <2>8. g[0] = v0
      BY <2>2, <2>5 DEF RunsTo
    <2> HIDE DEF g
    <2>9. Upto(m + 1, g)
      <3>1. \A n \in 1 .. m + 1 : n = m + 1 \/ n \in 1 .. m
        OBVIOUS
      <3>2. (m + 1) - 1 = m
        OBVIOUS
      <3>3. \A n \in 1 .. m + 1 : g[n] = step[g[n - 1]][s[n]]
        BY <2>6, <2>7, <3>1, <3>2, Zenon
      <3> QED
        BY <2>8, <3>3, Zenon DEF RunsTo
    <2> QED
      BY <2>4, <2>9
  <1> HIDE DEF S
  <1>3. N \in S
    BY <1>0, <1>1, <1>2, SetInduction, Zenon
  <1> QED
    BY <1>0, <1>3 DEF S, N, Runs

\* Two functions that begin alike and go on alike are alike.
LEMMA Agree ==
    ASSUME NEW f, NEW g, NEW N \in Nat, Follows(f, g, N)
    PROVE  Alike(f, g, N)
  <1> DEFINE S == {n \in Nat : n <= N => f[n] = g[n]}
  <1>1. 0 \in S
    BY DEF Follows
  <1>2. ASSUME NEW n \in Nat, n \in S PROVE n + 1 \in S
    <2>1. (n + 1) - 1 = n
      OBVIOUS
    <2>2. n + 1 <= N => n + 1 \in 1 .. N /\ f[n] = g[n]
      BY <1>2
    <2> QED
      BY <2>1, <2>2 DEF Follows
  <1> HIDE DEF S
  <1>3. Nat \subseteq S
    BY <1>1, <1>2, SetInduction, Zenon
  <1> QED
    BY <1>3 DEF S, Alike

\* f holds the results on the way to what Fold returns.
FoldedBy(f, step, v0, s) == Runs(f, step, v0, s) /\ Fold(step, v0, s) = f[Len(s)]

\* The recursive function of Fold is a solution of its recursion.
LEMMA FoldRuns ==
    ASSUME NEW V, NEW E, NEW step \in [V -> [E -> V]], NEW v0 \in V, NEW s \in Seq(E)
    PROVE  \E f \in [0 .. Len(s) -> V] : FoldedBy(f, step, v0, s)
  <1> DEFINE N == Len(s)
             Eq(q) == q = [n \in 0 .. N |-> IF n = 0 THEN v0 ELSE step[q[n - 1]][s[n]]]
             h == CHOOSE q : Eq(q)
  <1>1. N \in Nat
    OBVIOUS
  <1>2. PICK f \in [0 .. N -> V] : Runs(f, step, v0, s)
    BY Recursion, Zenon
  <1>3. f[0] = v0 /\ \A n \in 1 .. N : f[n] = step[f[n - 1]][s[n]]
    BY <1>2, Zenon DEF Runs, RunsTo
  <1>4. Eq(f)
    <2> HIDE DEF N
    <2>1. \A n \in 0 .. N : f[n] = IF n = 0 THEN v0 ELSE step[f[n - 1]][s[n]]
      BY <1>1, <1>3
    <2> QED
      BY <2>1, <1>2, Zenon
  <1>5. Eq(h)
    <2> HIDE DEF Eq
    <2> QED
      BY <1>4, Zenon
  <1>6. Fold(step, v0, s) = h[N]
    BY DEF Fold
  <1>7. \A n \in 0 .. N : h[n] = IF n = 0 THEN v0 ELSE step[h[n - 1]][s[n]]
    <2> HIDE DEF h, N
    <2> QED
      BY <1>5, Zenon
  <1> HIDE DEF h, N, Eq
  <1>8. h[0] = v0 /\ \A n \in 1 .. N : h[n] = step[h[n - 1]][s[n]]
    BY <1>1, <1>7
  <1>9. Alike(h, f, N)
    <2>1. Follows(h, f, N)
      BY <1>3, <1>8, Zenon DEF Follows
    <2> QED
      BY <1>1, <2>1, Agree, Zenon
  <1>10. h[N] = f[N]
    BY <1>1, <1>9 DEF Alike
  <1> QED
    BY <1>2, <1>6, <1>10, Zenon DEF N, FoldedBy

\* Fold returns a value of the kind its step returns.
LEMMA FoldType ==
    ASSUME NEW V, NEW E, NEW step \in [V -> [E -> V]], NEW v0 \in V, NEW s \in Seq(E)
    PROVE  Fold(step, v0, s) \in V
  <1>1. PICK f \in [0 .. Len(s) -> V] : FoldedBy(f, step, v0, s)
    BY FoldRuns, Zenon
  <1>2. Len(s) \in 0 .. Len(s)
    OBVIOUS
  <1> QED
    BY <1>1, <1>2 DEF FoldedBy

\* Fold returns the first value for the empty sequence.
LEMMA FoldEmpty ==
    ASSUME NEW V, NEW E, NEW step \in [V -> [E -> V]], NEW v0 \in V
    PROVE  Fold(step, v0, <<>>) = v0
  <1> DEFINE s == <<>>
  <1>1. s \in Seq(E) /\ Len(s) = 0
    OBVIOUS
  <1> HIDE DEF s
  <1>2. PICK f \in [0 .. Len(s) -> V] : FoldedBy(f, step, v0, s)
    BY <1>1, FoldRuns, Zenon
  <1>3. Fold(step, v0, s) = v0
    BY <1>1, <1>2 DEF FoldedBy, Runs, RunsTo
  <1> QED
    BY <1>3 DEF s

\* One more element is one more step.
FoldsOn(step, v0, s, e) == Fold(step, v0, Append(s, e)) = step[Fold(step, v0, s)][e]

\* Fold takes one step more for a sequence that is one element longer.
LEMMA FoldAppend ==
    ASSUME NEW V, NEW E, NEW step \in [V -> [E -> V]], NEW v0 \in V, NEW s \in Seq(E), NEW e \in E
    PROVE  FoldsOn(step, v0, s, e)
  <1> DEFINE t == Append(s, e)
             N == Len(s)
  <1>1. PICK f \in [0 .. Len(s) -> V] : FoldedBy(f, step, v0, s)
    BY FoldRuns, Zenon
  <1>2. t \in Seq(E)
    OBVIOUS
  <1>3. N \in Nat /\ Len(t) = N + 1 /\ t[N + 1] = e /\ \A n \in 1 .. N : t[n] = s[n]
    OBVIOUS
  <1> HIDE DEF t
  <1>4. PICK g \in [0 .. Len(t) -> V] : FoldedBy(g, step, v0, t)
    BY <1>2, FoldRuns, Zenon
  <1>5. g[0] = f[0]
    BY <1>1, <1>4, Zenon DEF FoldedBy, Runs, RunsTo
  <1>6. \A n \in 1 .. N : f[n] = step[f[n - 1]][s[n]]
    BY <1>1, Zenon DEF FoldedBy, Runs, RunsTo
  <1> HIDE DEF N
  <1>7. \A n \in 1 .. N + 1 : g[n] = step[g[n - 1]][t[n]]
    BY <1>3, <1>4, Zenon DEF FoldedBy, Runs, RunsTo
  <1>8. \A n \in 1 .. N : n \in 1 .. N + 1
    BY <1>3
  <1>9. Follows(g, f, N)
    <2>1. \A n \in 1 .. N : g[n] = step[g[n - 1]][s[n]]
      BY <1>3, <1>7, <1>8, Zenon
    <2> QED
      BY <1>5, <1>6, <2>1, Zenon DEF Follows
  <1>10. Alike(g, f, N)
    BY <1>3, <1>9, Agree, Zenon
  <1>11. g[N] = f[N]
    BY <1>3, <1>10 DEF Alike
  <1>12. N + 1 \in 1 .. N + 1 /\ (N + 1) - 1 = N
    BY <1>3
  <1>13. g[N + 1] = step[g[N]][e]
    BY <1>3, <1>7, <1>12
  <1> QED
    BY <1>1, <1>3, <1>4, <1>11, <1>13, Zenon DEF t, N, FoldedBy, FoldsOn

\* A run of backslashes is a text of that length, and grows by Append.
LEMMA BackslashFacts ==
    ASSUME NEW n \in Nat
    PROVE  /\ Backslashes(n) \in Text /\ Len(Backslashes(n)) = n
           /\ Backslashes(n + 1) = Append(Backslashes(n), Backslash)
           /\ Backslashes(0) = <<>>
  <1>1. Backslashes(n) \in Text /\ Len(Backslashes(n)) = n
    BY DEF Backslashes, Text, Characters
  <1>2. Backslashes(n + 1) = Append(Backslashes(n), Backslash)
    BY DEF Backslashes
  <1>3. Backslashes(0) = <<>>
    BY DEF Backslashes
  <1> QED
    BY <1>1, <1>2, <1>3

\* Texts are closed under concatenation.
LEMMA ConcatType ==
    ASSUME NEW s \in Text, NEW t \in Text
    PROVE  s \o t \in Text
  BY DEF Text

\* A text with one more character is a text.
LEMMA AppendType ==
    ASSUME NEW s \in Text, NEW c \in Characters
    PROVE  Append(s, c) \in Text /\ s \o <<c>> = Append(s, c) /\ <<c>> \in Text
  BY DEF Text

\* The empty text is a text and neutral for concatenation.
LEMMA EmptyText == <<>> \in Text /\ \A s \in Text : s \o <<>> = s /\ <<>> \o s = s
  BY DEF Text

\* Appending to the second part of a text appends to the whole.
LEMMA ConcatAppend ==
    ASSUME NEW s \in Text, NEW t \in Text, NEW c \in Characters
    PROVE  s \o Append(t, c) = Append(s \o t, c)
  BY DEF Text

\* The parts of a parser state.
LEMMA Fields ==
    ASSUME NEW a, NEW x, NEW w, NEW b
    PROVE  LET p == Reading(a, x, w, b) IN p.args = a /\ p.cur = x /\ p.at = w /\ p.bs = b
  BY DEF Reading

\* A parser state consists of its parts, which have their types.
LEMMA StateParts ==
    ASSUME NEW p \in Readings
    PROVE  /\ p.args \in Seq(Text) /\ p.cur \in Text /\ p.bs \in Nat
           /\ p.at \in {"between", "plain", "quoted"}
           /\ p = Reading(p.args, p.cur, p.at, p.bs)
  BY DEF Readings, Reading

\* Parts of the right types make a parser state.
LEMMA ReadingType ==
    ASSUME NEW a \in Seq(Text), NEW x \in Text, NEW w \in {"between", "plain", "quoted"},
           NEW b \in Nat
    PROVE  Reading(a, x, w, b) \in Readings
  BY DEF Readings, Reading

\* A backslash waits for what follows it.
LEMMA OnBackslash ==
    ASSUME NEW p
    PROVE  ParseStep(p, Backslash) = Reading(p.args, p.cur, Begun(p), p.bs + 1)
  BY DEF ParseStep, Backslash, Quote, Space

\* A quote is read with the backslashes before it.
LEMMA OnQuote ==
    ASSUME NEW p
    PROVE  ParseStep(p, Quote) = ParseQuote(p)
  BY DEF ParseStep, Backslash, Quote, Space

\* A space outside quotes ends the argument.
LEMMA OnSpace ==
    ASSUME NEW p, p.at # "quoted"
    PROVE  ParseStep(p, Space) = EndArg(p)
  BY DEF ParseStep, Backslash, Quote, Space

\* Any other character, and a space between quotes, belongs to the argument.
LEMMA OnOther ==
    ASSUME NEW p, NEW c, c # Backslash, c # Quote, c # Space \/ p.at = "quoted"
    PROVE  ParseStep(p, c) = Reading(p.args, Append(Settled(p), c), Begun(p), 0)
  BY DEF ParseStep

\* A parser state stays one with every character.
LEMMA ParseStepType ==
    ASSUME NEW p \in Readings, NEW c \in Characters
    PROVE  ParseStep(p, c) \in Readings
  <1>1. p.args \in Seq(Text) /\ p.cur \in Text /\ p.bs \in Nat
    BY StateParts
  <1>2. Begun(p) \in {"between", "plain", "quoted"} /\ p.at \in {"between", "plain", "quoted"}
    BY StateParts DEF Begun
  <1>3. Backslash \in Characters /\ Quote \in Characters
    BY DEF Characters
  <1>4. \A n \in Nat : p.cur \o Backslashes(n) \in Text
    BY <1>1, BackslashFacts, ConcatType, Zenon
  <1>5. CASE c = Backslash
    BY <1>1, <1>2, <1>5, OnBackslash, ReadingType
  <1>6. CASE c = Quote
    <2> DEFINE y == p.cur \o Backslashes(p.bs \div 2)
               w == IF p.at = "quoted" THEN "plain" ELSE "quoted"
    <2>1. y \in Text /\ Append(y, Quote) \in Text
      <3>1. p.bs \div 2 \in Nat
        BY <1>1
      <3> QED
        BY <1>3, <1>4, <3>1, AppendType, Zenon
    <2>2. w \in {"between", "plain", "quoted"}
      OBVIOUS
    <2>3. ParseStep(p, c) = IF p.bs % 2 = 1 THEN Reading(p.args, Append(y, Quote), p.at, 0)
                            ELSE Reading(p.args, y, w, 0)
      BY <1>6, OnQuote DEF ParseQuote
    <2> HIDE DEF y, w
    <2>4. Reading(p.args, Append(y, Quote), p.at, 0) \in Readings
      BY <1>1, <1>2, <2>1, ReadingType
    <2>5. Reading(p.args, y, w, 0) \in Readings
      BY <1>1, <2>1, <2>2, ReadingType
    <2> QED
      BY <2>3, <2>4, <2>5
  <1>7. CASE c = Space /\ p.at # "quoted"
    <2>1. Append(p.args, Settled(p)) \in Seq(Text)
      BY <1>1, <1>4 DEF Settled
    <2>2. Reading(Append(p.args, Settled(p)), <<>>, "between", 0) \in Readings
      BY <2>1, EmptyText, ReadingType, Zenon
    <2> QED
      BY <1>7, <2>2, OnSpace DEF EndArg
  <1>8. CASE c # Backslash /\ c # Quote /\ (c # Space \/ p.at = "quoted")
    <2>1. Append(Settled(p), c) \in Text
      BY <1>1, <1>4, AppendType, Zenon DEF Settled
    <2>2. Reading(p.args, Append(Settled(p), c), Begun(p), 0) \in Readings
      BY <1>1, <1>2, <2>1, ReadingType
    <2> QED
      BY <1>8, <2>2, OnOther
  <1> QED
    BY <1>5, <1>6, <1>7, <1>8

\* Parse reads no character of the empty text, and one character after the
\* other of any other.
LEMMA ParseFacts ==
    ASSUME NEW p \in Readings, NEW s \in Text
    PROVE  /\ Parse(p, s) \in Readings /\ Parse(p, <<>>) = p
           /\ \A c \in Characters : Parse(p, Append(s, c)) = ParseStep(Parse(p, s), c)
  <1> DEFINE step == [q \in Readings |-> [c \in Characters |-> ParseStep(q, c)]]
  <1>1. step \in [Readings -> [Characters -> Readings]]
    BY ParseStepType
  <1>2. \A q \in Readings, c \in Characters : step[q][c] = ParseStep(q, c)
    OBVIOUS
  <1>3. \A t : Parse(p, t) = Fold(step, p, t)
    BY DEF Parse
  <1>4. s \in Seq(Characters)
    BY DEF Text
  <1> HIDE DEF step
  <1>5. Fold(step, p, s) \in Readings
    BY <1>1, <1>4, FoldType, Zenon
  <1>6. Fold(step, p, <<>>) = p
    BY <1>1, FoldEmpty, Zenon
  <1>7. \A c \in Characters : FoldsOn(step, p, s, c)
    BY <1>1, <1>4, FoldAppend, Zenon
  <1> QED
    BY <1>2, <1>3, <1>5, <1>6, <1>7 DEF FoldsOn

\* Parse returns a parser state.
LEMMA ParseType ==
    ASSUME NEW p \in Readings, NEW s \in Text
    PROVE  Parse(p, s) \in Readings
  BY ParseFacts

\* Parse stays where it is for the empty text.
LEMMA ParseEmpty ==
    ASSUME NEW p \in Readings
    PROVE  Parse(p, <<>>) = p
  BY ParseFacts, EmptyText

\* Parse reads the last character of a text last.
LEMMA ParseAppend ==
    ASSUME NEW p \in Readings, NEW s \in Text, NEW c \in Characters
    PROVE  Parse(p, Append(s, c)) = ParseStep(Parse(p, s), c)
  BY ParseFacts

\* Parse reads the two parts of a text one after the other.
LEMMA ParseConcat ==
    ASSUME NEW p \in Readings, NEW s \in Text, NEW t \in Text
    PROVE  Parse(p, s \o t) = Parse(Parse(p, s), t)
  <1> DEFINE T == {u \in Text : Parse(p, s \o u) = Parse(Parse(p, s), u)}
  <1>1. Parse(p, s) \in Readings
    BY ParseType
  <1>2. <<>> \in T
    <2>1. s \o <<>> = s /\ <<>> \in Text
      BY DEF Text
    <2> QED
      BY <1>1, <2>1, ParseEmpty
  <1>3. ASSUME NEW u \in Text, NEW c \in Characters, u \in T PROVE Append(u, c) \in T
    <2>1. s \o Append(u, c) = Append(s \o u, c) /\ s \o u \in Text /\ Append(u, c) \in Text
      <3>1. s \o u \in Text /\ Append(u, c) \in Text
        BY ConcatType, AppendType, Zenon
      <3> QED
        BY <3>1, ConcatAppend, Zenon
    <2>2. Parse(p, Append(s \o u, c)) = ParseStep(Parse(p, s \o u), c)
      BY <2>1, ParseAppend
    <2>3. Parse(Parse(p, s), Append(u, c)) = ParseStep(Parse(Parse(p, s), u), c)
      BY <1>1, ParseAppend
    <2> QED
      BY <1>3, <2>1, <2>2, <2>3, Zenon
  <1> HIDE DEF T
  <1>4. Text \subseteq T
    BY <1>2, <1>3, SeqInduction, Zenon DEF Text
  <1> QED
    BY <1>4 DEF T

\* Inside an argument, a run of backslashes waits as a whole.
LEMMA ParseBackslashes ==
    ASSUME NEW p \in Readings, p.at # "between", NEW k \in Nat
    PROVE  Parse(p, Backslashes(k)) = Reading(p.args, p.cur, p.at, p.bs + k)
  <1> DEFINE S == {n \in Nat : Parse(p, Backslashes(n)) = Reading(p.args, p.cur, p.at, p.bs + n)}
  <1>1. 0 \in S
    <2>1. Backslashes(0) = <<>> /\ p.bs + 0 = p.bs
      BY StateParts DEF Backslashes
    <2>2. Parse(p, <<>>) = p
      BY ParseEmpty
    <2> QED
      BY <2>1, <2>2, StateParts
  <1>2. ASSUME NEW n \in Nat, n \in S PROVE n + 1 \in S
    <2> DEFINE r == Reading(p.args, p.cur, p.at, p.bs + n)
    <2>1. Backslashes(n) \in Text /\ Backslashes(n + 1) = Append(Backslashes(n), Backslash)
      BY BackslashFacts, Zenon
    <2>2. Backslash \in Characters
      BY DEF Characters
    <2>3. Parse(p, Backslashes(n)) = r
      BY <1>2
    <2>4. r.args = p.args /\ r.cur = p.cur /\ r.at = p.at /\ r.bs = p.bs + n
      BY Fields
    <2> HIDE DEF r
    <2>5. Parse(p, Backslashes(n + 1)) = ParseStep(r, Backslash)
      BY <2>1, <2>2, <2>3, ParseAppend, Zenon
    <2>6. ParseStep(r, Backslash) = Reading(p.args, p.cur, p.at, (p.bs + n) + 1)
      BY <2>4, OnBackslash DEF Begun
    <2>7. (p.bs + n) + 1 = p.bs + (n + 1)
      <3>1. p.bs \in Nat
        BY StateParts
      <3> QED
        BY <3>1
    <2> QED
      BY <2>5, <2>6, <2>7
  <1> HIDE DEF S
  <1>3. Nat \subseteq S
    BY <1>1, <1>2, SetInduction, Zenon
  <1> QED
    BY <1>3 DEF S

\* What _append_quoted_arg makes of a backslash, of a quote and of another
\* character.
LEMMA QuoteSteps ==
    ASSUME NEW acc
    PROVE  /\ QuoteStep(acc, Backslash) = [out |-> acc.out, bs |-> acc.bs + 1]
           /\ QuoteStep(acc, Quote) =
                  [out |-> acc.out \o Backslashes(2 * acc.bs + 1) \o <<Quote>>, bs |-> 0]
           /\ \A c : c # Backslash /\ c # Quote =>
                  QuoteStep(acc, c) =
                      [out |-> acc.out \o Backslashes(acc.bs) \o <<c>>, bs |-> 0]
  BY DEF QuoteStep, Backslash, Quote

\* The same, for the parts of the result.
LEMMA QuoteStepFields ==
    ASSUME NEW acc, NEW c
    PROVE  /\ c = Backslash => /\ QuoteStep(acc, c).out = acc.out
                               /\ QuoteStep(acc, c).bs = acc.bs + 1
           /\ c = Quote =>
                  /\ QuoteStep(acc, c).out = acc.out \o Backslashes(2 * acc.bs + 1) \o <<c>>
                  /\ QuoteStep(acc, c).bs = 0
           /\ c # Backslash /\ c # Quote =>
                  /\ QuoteStep(acc, c).out = acc.out \o Backslashes(acc.bs) \o <<c>>
                  /\ QuoteStep(acc, c).bs = 0
  <1> DEFINE Rec(o, n) == [out |-> o, bs |-> n]
  <1>1. \A o, n : Rec(o, n).out = o /\ Rec(o, n).bs = n
    OBVIOUS
  <1>2. /\ c = Backslash => QuoteStep(acc, c) = Rec(acc.out, acc.bs + 1)
        /\ c = Quote =>
               QuoteStep(acc, c) = Rec(acc.out \o Backslashes(2 * acc.bs + 1) \o <<c>>, 0)
        /\ c # Backslash /\ c # Quote =>
               QuoteStep(acc, c) = Rec(acc.out \o Backslashes(acc.bs) \o <<c>>, 0)
    BY QuoteSteps, Zenon
  <1> HIDE DEF Rec
  <1>3. CASE c = Backslash
    <2>1. c # Quote
      BY <1>3 DEF Backslash, Quote
    <2>2. QuoteStep(acc, c) = Rec(acc.out, acc.bs + 1)
      BY <1>2, <1>3, Zenon
    <2>3. QuoteStep(acc, c).out = acc.out /\ QuoteStep(acc, c).bs = acc.bs + 1
      BY <1>1, <2>2, Zenon
    <2> QED
      BY <1>3, <2>1, <2>3, Zenon
  <1>4. CASE c = Quote
    <2>1. c # Backslash
      BY <1>4 DEF Backslash, Quote
    <2> DEFINE o == acc.out \o Backslashes(2 * acc.bs + 1) \o <<c>>
    <2>2. QuoteStep(acc, c) = Rec(o, 0)
      BY <1>2, <1>4, Zenon
    <2>3. QuoteStep(acc, c).out = o /\ QuoteStep(acc, c).bs = 0
      BY <1>1, <2>2, Zenon
    <2> QED
      BY <1>4, <2>1, <2>3, Zenon
  <1>5. CASE c # Backslash /\ c # Quote
    BY <1>1, <1>2, <1>5, Zenon
  <1> QED
    BY <1>3, <1>4, <1>5, Zenon

\* The text _append_quoted_arg has written stays a text.
LEMMA QuoteStepType ==
    ASSUME NEW acc \in Quotings, NEW c \in Characters
    PROVE  QuoteStep(acc, c) \in Quotings
  <1>1. acc.out \in Text /\ acc.bs \in Nat /\ 2 * acc.bs + 1 \in Nat
    BY DEF Quotings
  <1>2. ASSUME NEW n \in Nat PROVE (acc.out \o Backslashes(n)) \o <<c>> \in Text
    BY <1>1, BackslashFacts, ConcatType, AppendType, Zenon
  <1> DEFINE Rec(o, n) == [out |-> o, bs |-> n]
  <1>6. \A o \in Text, n \in Nat : Rec(o, n) \in Quotings
    BY DEF Quotings
  <1>7. /\ QuoteStep(acc, Backslash) = Rec(acc.out, acc.bs + 1)
        /\ QuoteStep(acc, Quote) = Rec(acc.out \o Backslashes(2 * acc.bs + 1) \o <<Quote>>, 0)
        /\ c # Backslash /\ c # Quote =>
               QuoteStep(acc, c) = Rec(acc.out \o Backslashes(acc.bs) \o <<c>>, 0)
    BY QuoteSteps, Zenon
  <1> HIDE DEF Rec
  <1>3. CASE c = Backslash
    BY <1>1, <1>3, <1>6, <1>7
  <1>4. CASE c = Quote
    <2>1. (acc.out \o Backslashes(2 * acc.bs + 1)) \o <<c>> \in Text
      BY <1>1, <1>2
    <2> QED
      BY <1>4, <1>6, <1>7, <2>1
  <1>5. CASE c # Backslash /\ c # Quote
    <2>1. (acc.out \o Backslashes(acc.bs)) \o <<c>> \in Text
      BY <1>1, <1>2
    <2> QED
      BY <1>5, <1>6, <1>7, <2>1
  <1> QED
    BY <1>3, <1>4, <1>5

\* _append_quoted_arg opens the quotes and writes one character after the
\* other.
LEMMA QuoteCharsFacts ==
    ASSUME NEW s \in Text
    PROVE  /\ QuoteChars(s) \in Quotings /\ QuoteChars(<<>>) = Opening
           /\ \A c \in Characters : QuoteChars(Append(s, c)) = QuoteStep(QuoteChars(s), c)
  <1> DEFINE step == [acc \in Quotings |-> [c \in Characters |-> QuoteStep(acc, c)]]
  <1>1. step \in [Quotings -> [Characters -> Quotings]]
    BY QuoteStepType
  <1>2. \A q \in Quotings, c \in Characters : step[q][c] = QuoteStep(q, c)
    OBVIOUS
  <1>3. \A t : QuoteChars(t) = Fold(step, Opening, t)
    BY DEF QuoteChars
  <1>4. s \in Seq(Characters)
    BY DEF Text
  <1>5. Opening \in Quotings
    BY DEF Opening, Quotings, Text, Characters
  <1> HIDE DEF step
  <1>6. Fold(step, Opening, s) \in Quotings
    BY <1>1, <1>4, <1>5, FoldType, Zenon
  <1>7. Fold(step, Opening, <<>>) = Opening
    BY <1>1, <1>5, FoldEmpty, Zenon
  <1>8. \A c \in Characters : FoldsOn(step, Opening, s, c)
    BY <1>1, <1>4, <1>5, FoldAppend, Zenon
  <1> QED
    BY <1>2, <1>3, <1>6, <1>7, <1>8 DEF FoldsOn

\* What _append_quoted_arg writes is a text.
LEMMA QuotedArgType ==
    ASSUME NEW arg \in Text
    PROVE  QuotedArg(arg) \in Text
  <1> DEFINE acc == QuoteChars(arg)
  <1>1. acc.out \in Text /\ acc.bs \in Nat /\ 2 * acc.bs \in Nat
    BY QuoteCharsFacts DEF Quotings
  <1>2. Quote \in Characters
    BY DEF Characters
  <1>3. Backslashes(2 * acc.bs) \in Text
    BY <1>1, BackslashFacts
  <1> HIDE DEF acc
  <1>4. acc.out \o Backslashes(2 * acc.bs) \o <<Quote>> \in Text
    BY <1>1, <1>2, <1>3, ConcatType, AppendType
  <1> QED
    BY <1>4 DEF QuotedArg, acc

\* A command line with one more argument is a text.
LEMMA AppendArgType ==
    ASSUME NEW line \in Text, NEW arg \in Text
    PROVE  AppendArg(line, arg) \in Text
  <1>1. QuotedArg(arg) \in Text
    BY QuotedArgType
  <1>2. line \o <<Space>> \in Text
    BY AppendType, Zenon DEF Characters
  <1> QED
    BY <1>1, <1>2, ConcatType DEF AppendArg

\* _build_cmdline writes one argument after the other.
LEMMA CmdlineFacts ==
    ASSUME NEW argv \in Seq(Text)
    PROVE  /\ Cmdline(argv) \in Text /\ Cmdline(<<>>) = <<>>
           /\ \A arg \in Text : Cmdline(Append(argv, arg)) = AppendArg(Cmdline(argv), arg)
  <1> DEFINE step == [line \in Text |-> [arg \in Text |-> AppendArg(line, arg)]]
  <1>1. step \in [Text -> [Text -> Text]]
    BY AppendArgType
  <1>2. \A line \in Text, arg \in Text : step[line][arg] = AppendArg(line, arg)
    OBVIOUS
  <1>3. \A t : Cmdline(t) = Fold(step, <<>>, t)
    BY DEF Cmdline
  <1>4. <<>> \in Text
    BY EmptyText
  <1> HIDE DEF step
  <1>5. Fold(step, <<>>, argv) \in Text
    BY <1>1, <1>4, FoldType, Zenon
  <1>6. Fold(step, <<>>, <<>>) = <<>>
    BY <1>1, <1>4, FoldEmpty, Zenon
  <1>7. \A arg \in Text : FoldsOn(step, <<>>, argv, arg)
    BY <1>1, <1>4, FoldAppend, Zenon
  <1> QED
    BY <1>2, <1>3, <1>5, <1>6, <1>7 DEF FoldsOn

\* A text, backslashes and a character are read one after the other.
LEMMA ParseMore ==
    ASSUME NEW p \in Readings, NEW s \in Text, NEW n \in Nat, NEW c \in Characters
    PROVE  Parse(p, (s \o Backslashes(n)) \o <<c>>)
               = ParseStep(Parse(Parse(p, s), Backslashes(n)), c)
  <1>1. Backslashes(n) \in Text /\ s \o Backslashes(n) \in Text
    BY BackslashFacts, ConcatType
  <1>2. (s \o Backslashes(n)) \o <<c>> = Append(s \o Backslashes(n), c)
    BY <1>1, AppendType
  <1>3. Parse(p, Append(s \o Backslashes(n), c)) = ParseStep(Parse(p, s \o Backslashes(n)), c)
    BY <1>1, ParseAppend
  <1>4. Parse(p, s \o Backslashes(n)) = Parse(Parse(p, s), Backslashes(n))
    BY <1>1, ParseConcat
  <1> QED
    BY <1>2, <1>3, <1>4, Zenon

\* 2 n + 1 backslashes and a quote, between quotes, are n backslashes and a
\* quote of the argument.
LEMMA QuoteAfterOdd ==
    ASSUME NEW p \in Readings, p.at = "quoted", p.bs = 0, NEW n \in Nat
    PROVE  ParseStep(Parse(p, Backslashes(2 * n + 1)), Quote)
               = Reading(p.args, Append(p.cur \o Backslashes(n), Quote), "quoted", 0)
  <1> DEFINE r == Reading(p.args, p.cur, p.at, p.bs + (2 * n + 1))
  <1>1. Parse(p, Backslashes(2 * n + 1)) = r
    <2>1. 2 * n + 1 \in Nat /\ p.at # "between"
      OBVIOUS
    <2> QED
      BY <2>1, ParseBackslashes
  <1>2. r.args = p.args /\ r.cur = p.cur /\ r.at = "quoted" /\ r.bs = 2 * n + 1
    BY Fields
  <1> HIDE DEF r
  <1>3. r.bs % 2 = 1 /\ r.bs \div 2 = n
    BY <1>2
  <1> QED
    BY <1>1, <1>2, <1>3, OnQuote DEF ParseQuote

\* 2 n backslashes and a quote, between quotes, are n backslashes of the
\* argument and its end.
LEMMA QuoteAfterEven ==
    ASSUME NEW p \in Readings, p.at = "quoted", p.bs = 0, NEW n \in Nat
    PROVE  ParseStep(Parse(p, Backslashes(2 * n)), Quote)
               = Reading(p.args, p.cur \o Backslashes(n), "plain", 0)
  <1> DEFINE r == Reading(p.args, p.cur, p.at, p.bs + 2 * n)
  <1>1. Parse(p, Backslashes(2 * n)) = r
    <2>1. 2 * n \in Nat /\ p.at # "between"
      OBVIOUS
    <2> QED
      BY <2>1, ParseBackslashes
  <1>2. r.args = p.args /\ r.cur = p.cur /\ r.at = "quoted" /\ r.bs = 2 * n
    BY Fields
  <1> HIDE DEF r
  <1>3. r.bs % 2 = 0 /\ r.bs \div 2 = n
    BY <1>2
  <1> QED
    BY <1>1, <1>2, <1>3, OnQuote DEF ParseQuote

\* Between quotes, backslashes before another character stand for themselves.
LEMMA OtherQuoted ==
    ASSUME NEW p \in Readings, p.at = "quoted", p.bs = 0, NEW n \in Nat,
           NEW c \in Characters, c # Backslash, c # Quote
    PROVE  ParseStep(Parse(p, Backslashes(n)), c)
               = Reading(p.args, Append(p.cur \o Backslashes(n), c), "quoted", 0)
  <1> DEFINE r == Reading(p.args, p.cur, p.at, p.bs + n)
  <1>1. Parse(p, Backslashes(n)) = r
    <2>1. p.at # "between"
      OBVIOUS
    <2> QED
      BY <2>1, ParseBackslashes
  <1>2. r.args = p.args /\ r.cur = p.cur /\ r.at = "quoted" /\ r.bs = n
    BY Fields
  <1> HIDE DEF r
  <1>3. ParseStep(r, c) = Reading(r.args, Append(Settled(r), c), Begun(r), 0)
    BY <1>2, OnOther
  <1> QED
    BY <1>1, <1>2, <1>3 DEF Settled, Begun

\* The program is between two arguments and has read nothing of the next one.
Between(p) == p \in Readings /\ p.cur = <<>> /\ p.at = "between" /\ p.bs = 0

\* A quote at the beginning of an argument opens it.
LEMMA Opened ==
    ASSUME NEW p, Between(p)
    PROVE  Parse(p, <<Quote>>) = Reading(p.args, <<>>, "quoted", 0)
  <1>1. p \in Readings /\ p.cur = <<>> /\ p.at = "between" /\ p.bs = 0
    BY DEF Between
  <1>2. <<Quote>> = Append(<<>>, Quote) /\ Quote \in Characters
    BY DEF Characters
  <1>3. Parse(p, Append(<<>>, Quote)) = ParseStep(Parse(p, <<>>), Quote)
    BY <1>1, <1>2, EmptyText, ParseAppend, Zenon
  <1>4. Parse(p, <<>>) = p
    BY <1>1, ParseEmpty
  <1>5. ParseStep(p, Quote) = ParseQuote(p)
    BY OnQuote
  <1>6. p.bs % 2 = 0 /\ p.bs \div 2 = 0
    BY <1>1
  <1>7. p.cur \o Backslashes(0) = <<>>
    BY <1>1, BackslashFacts, EmptyText
  <1>8. ParseQuote(p) = Reading(p.args, <<>>, "quoted", 0)
    BY <1>1, <1>6, <1>7 DEF ParseQuote
  <1> QED
    BY <1>2, <1>3, <1>4, <1>5, <1>8

\* What the program has read of an argument written between quotes.
QuotedSoFar(p, q, bs, arg) ==
    /\ q.args = p.args /\ q.at = "quoted" /\ q.bs = 0
    /\ q.cur \o Backslashes(bs) = arg

\* After what _append_quoted_arg has written of an argument between quotes,
\* the program has read the argument but for the backslashes that wait.
LEMMA QuotedPrefix ==
    ASSUME NEW p, Between(p), NEW arg \in Text
    PROVE  QuotedSoFar(p, Parse(p, QuoteChars(arg).out), QuoteChars(arg).bs, arg)
  <1> DEFINE Q(s) == Parse(p, QuoteChars(s).out)
             T == {s \in Text : QuotedSoFar(p, Q(s), QuoteChars(s).bs, s)}
  <1>0. p \in Readings
    BY DEF Between
  <1>1. <<>> \in T
    <2>1. QuoteChars(<<>>) = Opening /\ <<>> \in Text
      BY QuoteCharsFacts, EmptyText
    <2>2. QuoteChars(<<>>).out = <<Quote>> /\ QuoteChars(<<>>).bs = 0
      BY <2>1 DEF Opening
    <2> DEFINE r == Reading(p.args, <<>>, "quoted", 0)
    <2>3. Q(<<>>) = r
      BY <2>2, Opened
    <2>4. r.args = p.args /\ r.cur = <<>> /\ r.at = "quoted" /\ r.bs = 0
      BY Fields
    <2>5. <<>> \o Backslashes(0) = <<>>
      BY BackslashFacts, EmptyText
    <2> HIDE DEF r
    <2> QED
      BY <2>1, <2>2, <2>3, <2>4, <2>5, Zenon DEF QuotedSoFar
  <1>2. ASSUME NEW s \in Text, NEW c \in Characters, s \in T PROVE Append(s, c) \in T
    <2> DEFINE acc == QuoteChars(s)
               nxt == QuoteChars(Append(s, c))
               q == Parse(p, acc.out)
    <2>1. acc.out \in Text /\ acc.bs \in Nat /\ 2 * acc.bs + 1 \in Nat
      BY QuoteCharsFacts DEF Quotings
    <2>2. nxt = QuoteStep(acc, c)
      BY QuoteCharsFacts
    <2>3. q.args = p.args /\ q.at = "quoted" /\ q.bs = 0 /\ q.cur \o Backslashes(acc.bs) = s
      BY <1>2, Zenon DEF QuotedSoFar
    <2>4. q \in Readings
      BY <1>0, <2>1, ParseType
    <2>5. q.cur \in Text
      BY <2>4, StateParts
    <2>6. Append(s, c) \in Text
      BY AppendType, Zenon
    <2> DEFINE r == Reading(p.args, Append(s, c), "quoted", 0)
    <2>7. r.args = p.args /\ r.cur = Append(s, c) /\ r.at = "quoted" /\ r.bs = 0
      <3> DEFINE x == Append(s, c)
      <3> HIDE DEF x
      <3>1. LET u == Reading(p.args, x, "quoted", 0)
            IN  u.args = p.args /\ u.cur = x /\ u.at = "quoted" /\ u.bs = 0
        BY Fields
      <3> QED
        BY <3>1, Zenon DEF x
    <2>8. Append(s, c) \o Backslashes(0) = Append(s, c)
      BY <2>6, BackslashFacts, EmptyText, Zenon
    <2> SUFFICES QuotedSoFar(p, Parse(p, nxt.out), nxt.bs, Append(s, c))
      BY <2>6
    <2> HIDE DEF acc, nxt, q, r
    <2>9. CASE c = Backslash
      <3>1. nxt.out = acc.out /\ nxt.bs = acc.bs + 1
        BY <2>2, <2>9, QuoteStepFields, Zenon
      <3>2. Backslashes(acc.bs) \in Text
            /\ Backslashes(acc.bs + 1) = Append(Backslashes(acc.bs), Backslash)
        BY <2>1, BackslashFacts, Zenon
      <3>3. q.cur \o Backslashes(acc.bs + 1) = Append(q.cur \o Backslashes(acc.bs), c)
        <4> DEFINE t == Backslashes(acc.bs)
        <4>1. t \in Text /\ Backslashes(acc.bs + 1) = Append(t, c)
          BY <2>9, <3>2
        <4> HIDE DEF t
        <4>2. q.cur \o Append(t, c) = Append(q.cur \o t, c)
          BY <2>5, <4>1, ConcatAppend, Zenon
        <4> QED
          BY <4>1, <4>2, Zenon DEF t
      <3>4. q.cur \o Backslashes(nxt.bs) = Append(s, c)
        BY <2>3, <3>1, <3>3, Zenon
      <3>5. Parse(p, nxt.out) = q
        BY <3>1 DEF q
      <3> QED
        BY <2>3, <3>4, <3>5, Zenon DEF QuotedSoFar
    <2>10. CASE c = Quote
      <3>1. nxt.out = (acc.out \o Backslashes(2 * acc.bs + 1)) \o <<c>> /\ nxt.bs = 0
        BY <2>2, <2>10, QuoteStepFields, Zenon
      <3>2. Parse(p, nxt.out) = ParseStep(Parse(q, Backslashes(2 * acc.bs + 1)), c)
        BY <1>0, <2>1, <3>1, ParseMore DEF q
      <3>3. Parse(p, nxt.out) = r
        BY <2>1, <2>3, <2>4, <2>10, <3>2, QuoteAfterOdd, Zenon DEF r
      <3> QED
        BY <2>7, <2>8, <3>1, <3>3, Zenon DEF QuotedSoFar
    <2>11. CASE c # Backslash /\ c # Quote
      <3>1. nxt.out = (acc.out \o Backslashes(acc.bs)) \o <<c>> /\ nxt.bs = 0
        BY <2>2, <2>11, QuoteStepFields, Zenon
      <3>2. Parse(p, nxt.out) = ParseStep(Parse(q, Backslashes(acc.bs)), c)
        BY <1>0, <2>1, <3>1, ParseMore DEF q
      <3>3. Parse(p, nxt.out) = r
        <4>1. ParseStep(Parse(q, Backslashes(acc.bs)), c)
                  = Reading(q.args, Append(q.cur \o Backslashes(acc.bs), c), "quoted", 0)
          BY <2>1, <2>3, <2>4, <2>11, OtherQuoted, Zenon
        <4> QED
          BY <2>3, <3>2, <4>1, Zenon DEF r
      <3> QED
        BY <2>7, <2>8, <3>1, <3>3, Zenon DEF QuotedSoFar
    <2> QED
      BY <2>9, <2>10, <2>11
  <1> HIDE DEF T
  <1>3. Text \subseteq T
    BY <1>1, <1>2, SeqInduction, Zenon DEF Text
  <1> QED
    BY <1>3 DEF T

\* The program has read all of an argument, its closing quote included.
ReadArg(p, q, arg) == q.args = p.args /\ q.at = "plain" /\ Settled(q) = arg

\* An argument between quotes is read back.
LEMMA QuotedRead ==
    ASSUME NEW p, Between(p), NEW arg \in Text, NeedsQuotes(arg)
    PROVE  ReadArg(p, Parse(p, QuotedArg(arg)), arg)
  <1> DEFINE acc == QuoteChars(arg)
             q == Parse(p, acc.out)
             r == Reading(p.args, arg, "plain", 0)
  <1>1. p \in Readings /\ Quote \in Characters
    BY DEF Between, Characters
  <1>2. acc.out \in Text /\ acc.bs \in Nat /\ 2 * acc.bs \in Nat
    BY QuoteCharsFacts DEF Quotings
  <1>3. q.args = p.args /\ q.at = "quoted" /\ q.bs = 0 /\ q.cur \o Backslashes(acc.bs) = arg
    BY QuotedPrefix, Zenon DEF QuotedSoFar
  <1>4. q \in Readings
    BY <1>1, <1>2, ParseType
  <1>5. QuotedArg(arg) = (acc.out \o Backslashes(2 * acc.bs)) \o <<Quote>>
    BY Zenon DEF QuotedArg
  <1>6. r.args = p.args /\ r.cur = arg /\ r.at = "plain" /\ r.bs = 0
    BY Fields
  <1>7. arg \o Backslashes(0) = arg
    BY BackslashFacts, EmptyText, Zenon
  <1> HIDE DEF acc, q, r
  <1>8. Parse(p, QuotedArg(arg)) = ParseStep(Parse(q, Backslashes(2 * acc.bs)), Quote)
    BY <1>1, <1>2, <1>5, ParseMore DEF q
  <1>9. Parse(p, QuotedArg(arg)) = r
    BY <1>2, <1>3, <1>4, <1>8, QuoteAfterEven, Zenon DEF r
  <1> QED
    BY <1>6, <1>7, <1>9, Zenon DEF ReadArg, Settled

\* An argument _append_quoted_arg writes as it is.
Unquoted(s) == \A i \in 1 .. Len(s) : s[i] # Space /\ s[i] # Quote

\* What the program has read of an argument written as it is.
PlainSoFar(p, q, s) ==
    /\ q.args = p.args /\ Settled(q) = s
    /\ q.at # "quoted" /\ (s # <<>> => q.at = "plain")

\* An argument without a space and a quote is read as it is.
LEMMA PlainPrefix ==
    ASSUME NEW p, Between(p), NEW arg \in Text, Unquoted(arg)
    PROVE  PlainSoFar(p, Parse(p, arg), arg)
  <1> DEFINE T == {s \in Text : Unquoted(s) => PlainSoFar(p, Parse(p, s), s)}
  <1>0. p \in Readings /\ p.cur = <<>> /\ p.at = "between" /\ p.bs = 0
    BY DEF Between
  <1>1. <<>> \in T
    <2>1. Parse(p, <<>>) = p /\ <<>> \in Text
      BY <1>0, ParseEmpty, EmptyText
    <2>2. Settled(p) = <<>>
      BY <1>0, BackslashFacts, EmptyText, Zenon DEF Settled
    <2> QED
      BY <1>0, <2>1, <2>2 DEF PlainSoFar
  <1>2. ASSUME NEW s \in Text, NEW c \in Characters, s \in T PROVE Append(s, c) \in T
    <2>1. SUFFICES ASSUME Unquoted(Append(s, c))
                   PROVE  PlainSoFar(p, Parse(p, Append(s, c)), Append(s, c))
      BY AppendType, Zenon
    <2>2. Unquoted(s) /\ c # Space /\ c # Quote
      <3>1. /\ Len(Append(s, c)) = Len(s) + 1 /\ Append(s, c)[Len(s) + 1] = c
            /\ Len(s) \in Nat /\ \A i \in 1 .. Len(s) : Append(s, c)[i] = s[i]
        BY DEF Text
      <3> QED
        BY <2>1, <3>1 DEF Unquoted
    <2> DEFINE q == Parse(p, s)
    <2>3. q.args = p.args /\ Settled(q) = s /\ q.at # "quoted"
      BY <1>2, <2>2 DEF PlainSoFar
    <2>4. q \in Readings
      BY <1>0, ParseType
    <2>5. q.cur \in Text /\ q.bs \in Nat /\ q.at \in {"between", "plain", "quoted"}
      BY <2>4, StateParts
    <2>6. Begun(q) = "plain"
      BY <2>3, <2>5 DEF Begun
    <2>7. Parse(p, Append(s, c)) = ParseStep(q, c)
      BY <1>0, ParseAppend
    <2> HIDE DEF q
    <2> SUFFICES PlainSoFar(p, ParseStep(q, c), Append(s, c))
      BY <2>7
    <2>8. CASE c = Backslash
      <3> DEFINE r == Reading(q.args, q.cur, "plain", q.bs + 1)
      <3>1. ParseStep(q, c) = r
        BY <2>6, <2>8, OnBackslash
      <3>2. r.args = q.args /\ r.cur = q.cur /\ r.at = "plain" /\ r.bs = q.bs + 1
        BY Fields
      <3> DEFINE t == Backslashes(q.bs)
      <3>3. t \in Text /\ Backslashes(q.bs + 1) = Append(t, c)
        BY <2>5, <2>8, BackslashFacts, Zenon
      <3> HIDE DEF r, t
      <3>4. q.cur \o Append(t, c) = Append(q.cur \o t, c)
        BY <2>5, <3>3, ConcatAppend, Zenon
      <3>5. q.cur \o t = s
        BY <2>3 DEF Settled, t
      <3>6. Settled(r) = Append(s, c)
        BY <3>2, <3>3, <3>4, <3>5, Zenon DEF Settled
      <3> QED
        BY <2>3, <3>1, <3>2, <3>6 DEF PlainSoFar
    <2>9. CASE c # Backslash
      <3> DEFINE x == Append(s, c)
                 r == Reading(q.args, x, "plain", 0)
      <3>1. ParseStep(q, c) = r
        BY <2>2, <2>3, <2>6, <2>9, OnOther
      <3>2. x \in Text
        BY AppendType, Zenon
      <3> HIDE DEF x
      <3>3. r.args = q.args /\ r.cur = x /\ r.at = "plain" /\ r.bs = 0
        BY Fields
      <3>4. x \o Backslashes(0) = x
        BY <3>2, BackslashFacts, EmptyText, Zenon
      <3> HIDE DEF r
      <3>5. Settled(r) = x
        BY <3>3, <3>4 DEF Settled
      <3>6. PlainSoFar(p, r, x)
        BY <2>3, <3>3, <3>5 DEF PlainSoFar
      <3> QED
        BY <3>1, <3>6 DEF x
    <2> QED
      BY <2>8, <2>9
  <1> HIDE DEF T
  <1>3. Text \subseteq T
    BY <1>1, <1>2, SeqInduction, Zenon DEF Text
  <1> QED
    BY <1>3 DEF T

\* What _append_quoted_arg appends for an argument is read back as it.
LEMMA ArgRead ==
    ASSUME NEW p, Between(p), NEW arg \in Text
    PROVE  ReadArg(p, Parse(p, QuotedArg(arg)), arg)
  <1>1. CASE NeedsQuotes(arg)
    BY <1>1, QuotedRead
  <1>2. CASE ~NeedsQuotes(arg)
    <2>1. QuotedArg(arg) = arg
      BY <1>2 DEF QuotedArg
    <2>2. arg # <<>> /\ Unquoted(arg)
      <3>1. DOMAIN arg = 1 .. Len(arg)
        BY DEF Text
      <3> QED
        BY <1>2, <3>1 DEF NeedsQuotes, Unquoted
    <2>3. PlainSoFar(p, Parse(p, arg), arg)
      BY <2>2, PlainPrefix
    <2> QED
      BY <2>1, <2>2, <2>3 DEF PlainSoFar, ReadArg
  <1> QED
    BY <1>1, <1>2

\* At the beginning of the line the program waits for the first argument.
LEMMA StartBetween == Between(Start)
  <1>1. <<>> \in Seq(Text) /\ <<>> \in Text
    BY EmptyText
  <1>2. Start \in Readings
    BY <1>1, ReadingType, Zenon DEF Start
  <1> QED
    BY <1>2, Fields DEF Between, Start

\* The argument that was read is the last of the vector.
LEMMA ArgEnds ==
    ASSUME NEW q \in Readings, q.at = "plain"
    PROVE  Between(EndArg(q)) /\ EndArg(q).args = Append(q.args, Settled(q))
  <1>1. q.args \in Seq(Text) /\ q.cur \in Text /\ q.bs \in Nat
    BY StateParts
  <1>2. Settled(q) \in Text
    BY <1>1, BackslashFacts, ConcatType, Zenon DEF Settled
  <1> DEFINE a == Append(q.args, Settled(q))
             r == Reading(a, <<>>, "between", 0)
  <1>3. a \in Seq(Text)
    BY <1>1, <1>2
  <1>4. EndArg(q) = r
    BY DEF EndArg
  <1> HIDE DEF a
  <1>5. r \in Readings
    BY <1>3, EmptyText, ReadingType
  <1>6. r.args = a /\ r.cur = <<>> /\ r.at = "between" /\ r.bs = 0
    BY Fields
  <1> HIDE DEF r
  <1>7. Between(r)
    BY <1>5, <1>6 DEF Between
  <1> QED
    BY <1>4, <1>6, <1>7 DEF a

\* What the program has read of a command line: all its arguments, the last
\* of them not ended yet.
LineRead(argv) ==
    LET q == Parse(Start, Cmdline(argv))
    IN  IF argv = <<>> THEN Cmdline(argv) = <<>>
        ELSE q.at = "plain" /\ Append(q.args, Settled(q)) = argv

\* One more argument of the vector is one more argument of the program.
LEMMA NextArg ==
    ASSUME NEW argv \in Seq(Text), LineRead(argv), NEW arg \in Text
    PROVE  LineRead(Append(argv, arg))
  <1> DEFINE line == Cmdline(argv)
             q == Parse(Start, line)
             w == Parse(Start, Cmdline(Append(argv, arg)))
  <1>1. Start \in Readings /\ Between(Start)
    BY StartBetween DEF Between
  <1>2. line \in Text /\ Cmdline(Append(argv, arg)) = AppendArg(line, arg)
    BY CmdlineFacts
  <1>3. QuotedArg(arg) \in Text
    BY QuotedArgType
  <1>4. Append(argv, arg) # <<>>
    <2>1. Len(Append(argv, arg)) = Len(argv) + 1 /\ Len(argv) \in Nat
      OBVIOUS
    <2>2. Len(<<>>) = 0
      OBVIOUS
    <2> DEFINE x == Append(argv, arg)
    <2> HIDE DEF x
    <2>3. Len(x) # 0
      BY <2>1 DEF x
    <2> QED
      BY <2>2, <2>3, Zenon DEF x
  <1>5. SUFFICES w.at = "plain" /\ Append(w.args, Settled(w)) = Append(argv, arg)
    BY <1>4 DEF LineRead
  <1>6. CASE argv = <<>>
    <2>1. AppendArg(line, arg) = QuotedArg(arg)
      BY <1>3, <1>6, EmptyText, Zenon DEF LineRead, AppendArg
    <2>2. w = Parse(Start, QuotedArg(arg))
      BY <1>2, <2>1
    <2>3. ReadArg(Start, w, arg)
      BY <1>1, <2>2, ArgRead
    <2>4. Start.args = <<>>
      BY Fields DEF Start
    <2> HIDE DEF w
    <2> QED
      BY <1>6, <2>3, <2>4 DEF ReadArg
  <1>7. CASE argv # <<>>
    <2>1. q.at = "plain" /\ Append(q.args, Settled(q)) = argv
      BY <1>7 DEF LineRead
    <2>2. line # <<>>
      <3>1. Parse(Start, <<>>) = Start
        BY <1>1, ParseEmpty
      <3>2. Start.at = "between"
        BY <1>1 DEF Between
      <3> HIDE DEF line
      <3> QED
        BY <2>1, <3>1, <3>2
    <2>3. AppendArg(line, arg) = (line \o <<Space>>) \o QuotedArg(arg)
      BY <2>2 DEF AppendArg
    <2>4. Space \in Characters
      BY DEF Characters
    <2> HIDE DEF line
    <2>5. line \o <<Space>> = Append(line, Space) /\ Append(line, Space) \in Text
      BY <1>2, <2>4, AppendType, Zenon
    <2> DEFINE e == EndArg(q)
    <2>6. q \in Readings
      BY <1>1, <1>2, ParseType
    <2>7. Parse(Start, Append(line, Space)) = e
      <3>1. Parse(Start, Append(line, Space)) = ParseStep(q, Space)
        BY <1>1, <1>2, <2>4, ParseAppend
      <3> QED
        BY <2>1, <3>1, OnSpace
    <2>8. Between(e) /\ e.args = argv
      <3> HIDE DEF q
      <3> QED
        BY <2>1, <2>6, ArgEnds, Zenon
    <2> HIDE DEF e
    <2>9. w = Parse(e, QuotedArg(arg))
      <3> DEFINE s == Append(line, Space)
                 t == QuotedArg(arg)
      <3>1. w = Parse(Start, s \o t)
        BY <1>2, <2>3, <2>5, Zenon
      <3>2. s \in Text /\ t \in Text
        BY <1>3, <2>5
      <3> HIDE DEF s, t
      <3>3. Parse(Start, s \o t) = Parse(Parse(Start, s), t)
        BY <1>1, <3>2, ParseConcat
      <3> QED
        BY <2>7, <3>1, <3>3, Zenon DEF s, t
    <2>10. ReadArg(e, w, arg)
      BY <2>8, <2>9, ArgRead
    <2> HIDE DEF w
    <2> QED
      BY <2>8, <2>10 DEF ReadArg
  <1> QED
    BY <1>6, <1>7

\* Whatever the arguments and their number, CommandLineToArgvW splits the
\* line _build_cmdline makes of them into the same arguments: the quoting loses
\* no space, no quote and no backslash, those at the end of an argument included.
THEOREM CommandLineSplits ==
    ASSUME NEW argv \in Seq(Text)
    PROVE  CommandLineToArgvW(Cmdline(argv)) = argv
  <1> DEFINE T == {v \in Seq(Text) : LineRead(v)}
             q == Parse(Start, Cmdline(argv))
  <1>1. Start \in Readings /\ Start.at = "between" /\ Start.args = <<>>
    BY StartBetween, Fields DEF Between, Start
  <1>2. Cmdline(argv) \in Text /\ Cmdline(<<>>) = <<>>
    BY CmdlineFacts
  <1>3. <<>> \in T
    BY <1>2 DEF LineRead
  <1>4. ASSUME NEW v \in Seq(Text), NEW arg \in Text, v \in T PROVE Append(v, arg) \in T
    BY <1>4, NextArg
  <1> HIDE DEF T
  <1>5. Seq(Text) \subseteq T
    BY <1>3, <1>4, SeqInduction, Zenon
  <1>6. LineRead(argv)
    BY <1>5 DEF T
  <1>7. CASE argv = <<>>
    <2>1. q = Start
      BY <1>1, <1>2, <1>7, ParseEmpty
    <2> QED
      BY <1>1, <1>7, <2>1 DEF CommandLineToArgvW, EndArg
  <1>8. CASE argv # <<>>
    <2>1. q.at = "plain" /\ Append(q.args, Settled(q)) = argv
      BY <1>6, <1>8 DEF LineRead
    <2>2. q \in Readings
      BY <1>1, <1>2, ParseType
    <2>3. CommandLineToArgvW(Cmdline(argv)) = EndArg(q).args
      BY DEF CommandLineToArgvW
    <2> HIDE DEF q
    <2> QED
      BY <2>1, <2>2, <2>3, ArgEnds, Zenon
  <1> QED
    BY <1>7, <1>8

\* The vectors a run enumerates are vectors of texts.
LEMMA VectorsAreTexts == ArgVectors \subseteq Seq(Text)
  BY DEF ArgVectors, Args, Text

\* What _build_cmdline accepts splits into the vector it was built from.
LEMMA AlwaysRoundTrips == RoundTrips
  <1> SUFFICES ASSUME NEW argv \in ArgVectors
               PROVE  CommandLineToArgvW(BuildCmdline(argv).line) = argv
    BY DEF RoundTrips
  <1>1. BuildCmdline(argv).line = Cmdline(argv)
    BY DEF BuildCmdline
  <1> QED
    BY <1>1, VectorsAreTexts, CommandLineSplits

\* When CreateProcess is called, the program gets the arguments it was meant to
\* get, for vectors of any number of arguments of any length.
THEOREM ArgumentsAreKept == Spec => []ArgumentsArrive
  <1>1. ArgumentsArrive
    BY AlwaysRoundTrips DEF ArgumentsArrive
  <1> QED
    BY <1>1, PTL
=============================================================================
