# Leo-One in TLA+

Leo-One is a remote monitoring system: an agent in C on every managed machine,
a backend in Go with a Postgres database, and a React front end. This directory
holds TLA+ models of its concurrent core, the TLC configurations that check them
on small instances, and TLAPS proofs for every size. Each definition is
translated from the source; `PROJECT.json` maps it to its lines.

## The system

| Part | State | Operations | What makes it hard |
|---|---|---|---|
| Agent WSS connection (`agent/src/connection.c`) | ring of queued messages, `connected`, `lws_ctx`, `should_stop` | `leo_conn_send` from any thread, libwebsockets callbacks, reconnection, `leo_conn_destroy` | messages queued by one thread and written by another; waking the loop; destroying what others use |
| Agent core (`agent/src/agent.c`) | three periodic threads, execution slots, a detached thread per command | start and its failures, dispatch of commands, `leo_agent_stop` | slots given back on every path; one answer per command at most; waiting for threads before freeing |
| Agent remote desktop (`agent/src/remote_desktop.c`) | `g_rd_ctx`, `g_rd_thread_running`, a thread per session | `leo_rd_start`, `leo_rd_stop`, `leo_rd_stop_all`, the session thread | a start that meets the end of the previous session |
| Hub (`infrastructure/websocket/hub.go`, `client.go`) | registry of clients, their send channels, `agents.status` | `Register`, `Unregister`, `Disconnect`, `SendToAgent`, both pumps, HELLO, heartbeat | channels closed while others send; a reconnection that overtakes the end of the old connection |
| Command dispatch (`agent_handler.go`, `dispatcher.go`) | `commands` rows, send channels | `CreateAndDispatchCommand`, redelivery after HELLO, CMD_RESULT | the send and its record are two statements; broken connections; restarts |
| Remote desktop relay (`infrastructure/remotedesktop/relay.go` and its handlers) | `sessions`, `endedSessions`, `remote_desktop_sessions` rows | create, attach both sides, pump, pairing timeout, stop, agent offline | five ways to end a session, racing two upgrades |
| Enrollment (`agent/src/enroll.c`, `config.c`, `crypto_linux.c`, `Enroll` in `agent_handler.go`) | tokens, agents, certificates; the agent's three files and its bootstrap file | start with or without a configuration, the request, its statements, the files, restarts | several statements without a transaction; files written one after the other; a request that outlives the agent waiting for it |
| Script execution (`executor_linux.c`, `executor_win.c`) | a child, two pipes, two buffers, a temporary file, a deadline | `leo_exec_script`, `leo_exec_argv`, `_run_child` | a child that blocks on a full pipe, outlives the deadline or leaves descendants; the quoting of a command line |
| File distribution (`agent/src/file_transfer.c`, `file_handler.go`, `file_repo.go`) | library rows and contents, one-use tokens, `<cmd_id>.part` and final paths | upload, delete, deploy, download, verify, rename | a command delivered twice; connections cut; deletion during a download |
| Script schedules (`scheduler.go`, `schedule_handler.go`) | `next_run_at`, `enabled`, the cron expression | poll, fire, advance, edit, delete | values read before a long loop and written after it |
| Users, roles, workspaces, audit, dashboards, front end | rows | one statement per operation, mostly | little beyond single statements |

The agent keeps one WebSocket to the backend. The Hub registers it; HTTP
handlers and the scheduler send commands through the Hub; the agent executes
them on detached threads and answers on the same connection. A remote desktop
session is announced on that connection and then runs over two more WebSockets
that the Relay joins. An agent gets its identity by enrolling. What a command
runs is a child process or a file transfer, and a schedule creates commands by
itself.

## Modules

| Module | Models | Rests on |
|---|---|---|
| `Connection` | `connection.c`. The WSS thread, the senders and the destroyer have a program counter each. | libwebsockets, modelled by the callbacks the code relies on |
| `OutChannel` | What `Connection` promises: a bounded first-in first-out channel that may lose a message on its way out. | |
| `AgentLifecycle` | `agent.c`: main, periodic, WSS and command threads. | `Connection` and `RemoteDesktopSession` as calls that end |
| `RemoteDesktopSession` | `remote_desktop.c` | |
| `Hub` | `hub.go`, `client.go`, the handshake, the status updates | |
| `CommandDelivery` | commands from the INSERT to the result, with redelivery, and the agent's parser | a channel is open while its connection is registered: `OpenIffRegistered` of `Hub` |
| `Enrollment` | `leo_agent_start`, `leo_enroll` and its files, and the statements of `Enroll`, one step each | the HTTP client as a request that is answered, lost or given up |
| `Executor` | one execution on Linux (select loop) or Windows (reader threads); what `AgentLifecycle` takes as one step | the kernel's pipes and processes |
| `CommandLine` | `_append_quoted_arg` and `_build_cmdline`, with the rules by which Windows programs split a command line as the reference | |
| `FileTransfer` | the library, its tokens, and `leo_file_transfer_run` on any number of threads; paths designate inodes, so that two openings of one path share what they write | a command can arrive twice: `CommandDelivery` |
| `Schedules` | one row of `script_schedules`, the scheduler and the handlers that edit it | `CreateAndDispatchCommand`: `CommandDelivery` |
| `Relay` | the relay, both WebSocket handlers, the session handler and its table | that the agent's session ends: `SessionsEnd` of `RemoteDesktopSession`, as a premise of `Unblocks` |

`MC<Module>` instantiates a module for TLC and `<Module>Proofs` holds its
theorems, with three exceptions: `RemoteDesktopProofs` is about `Relay` and
`RemoteDesktopSession`, `ServerProofs` about `Hub` and `Schedules`, and
`ExecutorProofs` about `Executor` and `CommandLine`. `RemoteDesktopSession` and
`Schedules` therefore name their specifications `RdSpec` and `ScheduleSpec`, and
their sets `RdSessions` and `TargetAgents`. In all modules a section under a mutex
is one step, a database statement is one step, and what the code does between
them can interleave with everything else. Names follow the source. A definition commented "Faulty
variant" is never used by a specification: it is a plausible mistake, and
putting it in place of the definition after it makes a property fail.

What is abstracted: the contents of messages (a message is its origin and
rank, or the command it carries), the clock (a timeout may fire whenever its
timer is armed), TLS and certificates (a handshake succeeds or does not), and
logging. Output is counted, a file is the set of its chunks, its digest is right
when all of them were received, and a cron expression is its period. The clocks
of Postgres (`NOW()`) and of the server (`time.Now()`) are one in `Schedules`. Only the
Windows command line is modelled character by character, because a property is
about it. `Relay` takes the tombstone of an ended session, kept five minutes, to
outlast the upgrades in flight.

## Runs

| Run | Instance | Shows |
|---|---|---|
| `connection` | one sender with two messages, one answered message, two slots, two contexts | No wakeup is lost, nothing is freed while the WSS thread can use it, the ring implements `OutChannel`; queued messages leave and a stop completes. |
| `agent` | two commands, one slot; one command of any kind | Slots match threads; a command is answered once, or not at all when its result cannot be built; commands that have a timeout end, the stop returns, a forced heartbeat is taken without waiting for the interval. |
| `rdagent` | three sessions | One active session, a session ends clean; every session ends and a stop ends it. |
| `hub` | one agent, two connections, one caller, a revocation | A channel is open exactly while it is registered; closed and broken connections go away. |
| `delivery` | two commands, two connections, channels of one slot, one failure | No unsent command is forgotten, what is marked is not sent again once those who had read it are done, copies are bounded. |
| `relay` | one session, two failures (restart or failed update) | An ended session stays ended, no connection waits alone, a session stops blocking its agent. |
| `enrollment` | two machines, one token, two requests, a quota of one agent | Configuration, certificate and key come from one answer as long as the agent has its row; a machine that takes itself for an agent is that agent in the database, until it is deleted; a start ends though the server never answers. |
| `executor` | both platforms, three units of output per pipe, pipes and buffers of one; arguments of up to three characters out of four, two of them | Every return leaves no child, reader or file; `LEO_OK` means that the child ended by itself and that what is left unread did not fit in the buffer (on Windows, or that its reader had not started or had stopped); arguments arrive unchanged; the deadline ends the call, and the end of the child is noticed before it, with the exceptions listed below. |
| `transfer` | two deliveries of one or of two commands, one with a digest and one without, two chunks, one final path | What a command with a digest exposes is whole, unless two deliveries shared the `.part` file or `fclose` failed; no `.part` file is left, a token serves once, a transfer ends though the server never answers. |
| `schedules` | two agents, periods 1 and 2, time up to 4, one fault, one edit | One command per agent and date when nothing disturbs the firing, not due after a firing, and what is due is handled. |
| `hub_send`, `delivery_lost` | as `hub`; as `delivery` without failures | Two disagreements between code and comments, described below. |

### Why the bounds are enough to be interesting

* `connection`: two slots and two messages fill the ring and wrap its indices;
  two contexts give a reconnection with messages still queued.
* `agent`: with one slot the second command is refused or waits its turn.
* `rdagent`: the third session is needed for one to start while the two before
  it are ending.
* `hub`: the second connection replaces the first while its goroutines still run.
* `delivery`: a channel of one slot is full after HELLO_ACK; the failure breaks
  a connection or restarts the server at any point.
* `relay`: everything about a session concerns that session, except
  `ActiveForAgent`. Two sessions exceed TLC's reach; the theorems cover any
  number. Two failures allow a restart and a failed update in one history.
* `enrollment`: two requests of one machine (a retry that meets the request it
  gave up on), or of two machines racing for one token and the last place.
* `executor`: the output exceeds the pipe and the buffer together; a command
  line of 12 characters is too short for some argument vectors.
* `transfer`: two chunks give a partial file and one still in the buffer of
  `FILE`; two threads are enough to share a `.part` file or a token.
* `schedules`: time for two dates, with an edit or a fault at any point of a
  firing.

`delivery` reaches 1,361,249 states, `connection` 603,948, `enrollment` 485,766,
`schedules` 340,001, `agent` 323,294, `transfer` 283,160 and `executor` 188,832.

Deadlock is not checked: every bounded instance ends when its messages,
sessions or connections are used up, and the agent may stop. That nothing stops
too early is what the liveness properties say.

### Fairness

Weak fairness stands for what runs by itself: a thread or goroutine that can
take its next step does, and libwebsockets delivers a callback that is due.
Nothing is assumed of the network, the peers, the operator, or a child process
that ends by itself. In `AgentLifecycle` the waits of `leo_agent_stop` must
complete without their deadlines. Where
a property needs more, it says so as a premise: `SessionsEnd` needs the session
deadline to come, `Unblocks` needs the agent's own session to end. A bounded
sleep of a thread ends: the reconnection wait, the five-second waits of
`leo_conn_destroy` and `leo_rd_stop`, `time.Sleep` in `waitPairTimeout`.
In `Enrollment` the agent runs, its HTTP request included, whose deadline comes;
the server need not answer. In `Executor` the caller and its readers run, and so
does the child as far as it writes, but whether it ends is its own choice, and
so is what other processes do with the pipes they hold; an error of `select` may
come but need not. In
`FileTransfer` a thread runs and its timer fires. In `Schedules` the scheduler's
goroutine runs; time need not pass. `CommandsEnd` and `StopReturns` except what has no timeout (the
inventory, the patch thread, `INSTALL_PATCHES` on Windows) and a command whose
executor outlasts its own.

## Proofs

All hold for every value of the constants under the named assumptions (`...Assumption`
in each module): naturals for the bounds, capacities above zero, model values
distinct from the sets they stand beside, finite sets of commands
(`AgentLifecycle`), requests and threads, `AgentOf` a function, periods above zero.

* **`ConnectionProofs`**: `TypeCorrect`, `NoWakeupIsLost`, `FlagsAgree`,
  `ContextsReleased`, `SafeDestroy`, and the refinement `ConnectionIsChannel`.
  `NoLostWakeup` alone is not inductive: whether a `lws_cancel_service` reaches
  the live context depends on which context exists at each place of the thread
  (`ContextByPlace`) and on the flags following the socket (`FlagsBySocket`).
  `DestroyByPlace` orders the destroyer after the thread. The refinement shows
  what push and pop do to the sequence read off the ring (`PushContents`,
  `PopContents`), with lemmas on the wrap-around.
* **`AgentLifecycleProofs`**: `TypeCorrect`, `SlotsCounted`, `OneAnswer`,
  `FreedAfterJoin`. `OneAnswer` says exactly one answer, or none when it cannot
  be built. The slot counter equals a cardinality, so the argument
  needs to know that the WSS thread holds the slot of the command it is
  launching (`Launching`); `StopInv` keeps the periodic threads ended after the
  join.
* **`RemoteDesktopProofs`**, the agent: `AgentTypes`, `OneAtATime`,
  `PlaceIsNeverLost`, `SessionsEndClean`, with `Starting`: the session in
  `g_rd_ctx` stays there, not running, until its thread is created. The relay:
  `TypeCorrect`, `EndIsFinal`. Until a failure, an announced session is
  registered until its end begins (`Announced`), so a stop that does not find it
  comes after that (`StopFound`), and a row that has ended belongs to a session
  whose end has begun (`RowEnds`, `EndLeaves`).
* **`ServerProofs`**, the hub: `TypeCorrect`, `ChannelsFollowRegistry`,
  `NoDoubleClose`. Needed besides: a connection not yet registered has no
  channel (`Unborn`) and a client is registered under its own agent (`Owned`).
  The scheduler: `OneCommandPerDate`, `FiringEndsNotDue`, for any agents, dates
  and periods. While nothing is disturbed, the date of the row is past every
  date that was fired, unless the row is gone, disabled or has the zero time
  (`Ahead`), and a firing knows which agents have had their command (`Firing`);
  the date `computeNextRun` gives is later than now (`LaterDates`).
* **`CommandDeliveryProofs`**: `TypeCorrect`, `NoCommandForgotten`,
  `MarkedForGood`, `CopiesStayBounded`. A send of what is about to be marked has
  been tried (`CreatorTried`, `ReaderTried`), and one that was tried stays so
  (`TriedStays`), and a creator about to use an outdated connection leaves its
  command to the redelivery (`LateSend`). For `MarkedForGood`: a copy is made only
  by a creator that is not done or a redelivery that has the command on its list
  (`SettledSends`), and no step brings either back (`SettledStays`). The copies are counted against the
  sends that are used up: the creator's, and one for every connection whose
  redelivery has sent the command or will never (`Budget`). The agent has one
  open connection (`OneOpen`), so only the copies in one channel can still be
  received, and with those received they stay within the budget (`Bounded`).
* **`EnrollmentProofs`**: `TypeCorrect`, `FilesOfOneAnswer`, `KnownIdentity`.
  What an agent has on disk says nothing about the server by itself:
  `Answers` ties a row to the request that created it and an answered request to
  its certificate, `Mine` ties a machine to a request of its own, answered
  before a file is written, and `Written` follows the order certificate, key,
  `agent.conf`, and says that a machine whose agent has a row gets no second one
  (the unique `hardware_id`; `RowAppears`).
* **`FileTransferProofs`**: `TypeCorrect`, `WholeExposed`, `PartRemoved`,
  `OneDownload`. A delivery that shares its `.part` file with no other is the
  only one of its command and writes to the inode the path designates (`Sole`),
  so the inode and the buffer hold what was received, all of it when a digest was
  compared (`Content`). The path
  never designates the exposed inode (`PartOf`). A delivery that has not
  started has no inode (`Unborn`). Steps are grouped by what they do to the
  disk (`NextKinds`). `PartRemoved` follows by itself, and `OneDownload` from
  `TokenInv`: an accepted download has spent its token.

* **`ExecutorProofs`**, an execution: `TypeCorrect`, `ReturnsClean`, `OkIsTrue`.
  What is known of child, result and readers follows from where the call is
  (`Places`); a reader that is done has seen the end of its pipe, which is final
  (`Finished`); and once the result is `LEO_OK`, what is left in a pipe did not
  fit, or its reader is not reading on Windows (`Emptied`). The command line: `CommandLineSplits` for any number of
  arguments of any length, and from it `ArgumentsAreKept`. By induction over an
  argument, the program has read back what was written of it but for the
  backslashes that wait (`QuotedPrefix`, `PlainPrefix`); by induction over the
  vector, all the arguments but for the end of the last (`LineRead`). Both
  inductions use principles stated for sets instead of predicates
  (`SetInduction`, `SeqInduction`), proved from the well-foundedness of `<`; they
  also give what the recursive function in `Fold` computes (`FoldEmpty`,
  `FoldAppend`).

Each inductive invariant was first checked with TLC on an instance like that of
its run, and `RoundTrips` by the run `executor`.

Every invariant and every action property of the passing runs is proved, and so
is the refinement of `OutChannel`, which TLC checks as well. Only model-checked
are the liveness properties: the prover does not handle fairness and `ENABLED`.

## Where code and comments disagree

Shown by a run each, which checks what the comment promises:

1. `hub_send`: a client found by `SendToAgent` may be closed before
   it is sent to: a panic on a closed channel (`hub.go:133`).
2. `delivery_lost`: `WritePump` joins queued messages in one WebSocket message
   and the agent parses the first value only. Redelivered commands follow
   HELLO_ACK immediately, so they can be lost while marked as sent
   (`client.go:136`).

Visible in the models as exceptions the properties state:

3. "un fichier corrompu/incomplet [...] n'est jamais exposé" (`file_transfer.c:348`)
   has three exceptions. The result of `fclose` is ignored and the digest is the one of
   what was received, not of what is on disk: a full disk can expose a short file
   (`file_transfer.c:336`; `unflushed` in `ExposedIsWhole`). Two deliveries of
   one command share a `.part` file (`shared`). The digest is optional: a command
   created without one, by `CreateCommand`, exposes whatever was received before
   the connection ended (`Digested`).
4. After an error of `select`, the Linux executor waits for a child it has not
   killed; on Windows another process that holds the pipes, a descendant or a
   child of another command that inherited them, keeps the call past its
   deadline (the exceptions of `DeadlineEnds`). A write of no bytes ends the
   Windows reader of the pipe (`ReadsNothing`).
5. On Linux, once a buffer is full nothing more is read from the pipe, and a
   child that writes more waits for the deadline (`Fits` in `EndIsNoticed`).
6. A schedule edited or interrupted during a firing can fire twice for one date
   (`disturbed` in `OnePerDate`), and a cron expression without any date is due
   for ever (`Impossible`).
7. `leo_agent_stop` waits for running commands, but the WSS thread accepts
   commands until `leo_conn_destroy` ends it; one accepted in between still
   runs when the agent is freed (`agent.c:1375`). `JoinedBeforeFree` therefore
   speaks of the other threads only.
8. A session thread leaves `g_rd_ctx` before it clears `g_rd_thread_running`;
   a session started in between loses its flag, and the waits for it see no
   thread (`remote_desktop.c:517`).
9. The `MarkOffline` of an old connection can follow the HELLO of the new one;
   the agent shows offline until its next heartbeat (`hub.go:86`).
10. A command is sent before it is marked; a HELLO in between sends it again
    (`dispatcher.go:295`). `CopiesBounded` says how often.
11. `CreateAndDispatchCommand` ignores the result of `SendToAgent` and marks the
    command as sent though its channel was full or gone (`agent_handler.go:444`).
    Such a command is not sent again: `MarkedNotResent` holds of it too.
12. A result that is too large once escaped cannot be built, and the command ends
    without an answer (`agent.c:561`; `unbuilt` in `AnsweredOnce`).
13. One enrollment token can serve two machines: it is looked up and marked by
    two statements (`agent_handler.go:294`), against "usage unique" at
    `enroll.c:579`.
14. An agent whose `agent.conf` cannot be opened enrolls beside it. Once its row
    is deleted the server answers, and a stop between the files leaves the old
    `agent.conf` beside a new certificate: `NoMixedIdentity` asks for the row.
15. `leo_conn_destroy` waits for the WSS thread and not for the threads that are
    in `leo_conn_send`; `FreedOnlyAfterExit` is about the WSS thread.
16. If the clock of Postgres is ahead of the server's, a date computed from
    `time.Now()` can still be due for `NOW()` and fire again
    (`scheduler.go:186`). The model has one clock.

## Not modelled

* Patches, metrics, inventories and alerts: lists that are parsed, reported and
  stored. The threads and commands that carry them are in `AgentLifecycle` and
  `CommandDelivery`.
* Users, roles, workspaces, scripts and audit: a request is one statement or
  one transaction. The rate limiter is a map under one mutex.
* Routing, configuration, the dashboard's reads, and the pages of the front end.
* Encoding of messages, TLS and cryptography, X11 and Windows system calls,
  logging and cJSON: their outcomes are in the models, success or failure.
* In the parts that are modelled: the parsing of endpoints and certificate
  pinning (`Connection`), frames and input events (`RemoteDesktopSession`), the
  environment and standard input of a child (`Executor`), progress reports and
  sizes (`FileTransfer`), and a restart of the server in `Hub`
  (`CommandDelivery`, `Relay` and `Schedules` have one).
