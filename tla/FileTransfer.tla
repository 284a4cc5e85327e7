---------------------------- MODULE FileTransfer ----------------------------
(***************************************************************************)
(* The deployment of files: the library of the back end (FileHandler,      *)
(* FileRepo), its one-use download tokens, and leo_file_transfer_run in    *)
(* the agent, which downloads to <cmd_id>.part, checks the SHA-256 and     *)
(* renames.                                                                *)
(*                                                                         *)
(* Every file has the same name, so every transfer ends in the same final  *)
(* path; a command deploys one file, and a file is named by its command.   *)
(* A command may be delivered to the agent twice (CommandDelivery), so two *)
(* threads can run it.  Directory entries point to inodes, named by the    *)
(* thread that created them: what an open descriptor writes goes to its    *)
(* inode, whatever happens to the path (POSIX).  A content is the set of   *)
(* the chunks that are in place.                                           *)
(*                                                                         *)
(* DeployFile puts the SHA-256 of the file in the command.  It is optional *)
(* in the payload, so a command made with CreateCommand may have none; its *)
(* download is served like the others here.                                *)
(***************************************************************************)
EXTENDS Naturals, FiniteSets

CONSTANTS
    Commands,    \* file_transfer commands, one per uploaded file
    Digested,    \* the commands whose payload has a sha256
    Threads,     \* _exec_thread instances: the deliveries of the commands
    Chunks,      \* bound: pieces of a file, as the HTTP client receives them
    None

ASSUME FileTransferAssumption ==
    /\ Digested \subseteq Commands
    /\ IsFiniteSet(Threads) /\ Chunks \in Nat \ {0} /\ None \notin Threads

VARIABLES
    row, stored,      \* back end: the files row, the content on disk
    token,            \* back end: the download token of the command
    cmd, pc, rc,      \* a thread: its command, its progress, its result
    status,           \* a thread: dl.http_status is 200
    failed,           \* a thread: dl.failed
    got,              \* a thread: chunks received and hashed, in order
    held,             \* a thread: the chunk still in the buffer of dl.fp
    fd, data,         \* a thread: inode of dl.fp; contents of the inodes
    part, final,      \* directory: <cmd_id>.part, the final path
    shared,           \* commands whose .part was opened by two threads
    unflushed,        \* inodes whose last write failed in fclose
    crashed           \* the agent was stopped during a transfer

backend == <<row, stored, token>>
disk == <<data, part, final, shared, unflushed>>
local == <<rc, status, failed, got, held, fd>>
vars == <<backend, disk, local, cmd, pc, crashed>>

Whole == 1 .. Chunks
All(v) == [t \in Threads |-> v]

Init ==
    /\ row = [c \in Commands |-> "none"]
    /\ stored = [c \in Commands |-> FALSE]
    /\ token = [c \in Commands |-> "none"]
    /\ cmd \in [Threads -> Commands]
    /\ pc = All("idle") /\ rc = All("none")
    /\ status = All(FALSE) /\ failed = All(FALSE)
    /\ got = All(0) /\ held = All(0)
    /\ fd = All(None) /\ data = All({})
    /\ part = [c \in Commands |-> None] /\ final = None
    /\ shared = {} /\ unflushed = {} /\ crashed = FALSE

-----------------------------------------------------------------------------
(* The library: FileHandler.Create, Delete and DeployFile *)

\* The content is written under a fresh name, then the row is inserted.
UploadContent(c) ==
    /\ row[c] = "none" /\ ~stored[c]
    /\ stored' = [stored EXCEPT ![c] = TRUE]
    /\ UNCHANGED <<row, token, disk, local, cmd, pc, crashed>>

\* The row, unless the name is taken: then the content is removed.
UploadRow(c) ==
    /\ row[c] = "none" /\ stored[c]
    /\ IF \E d \in Commands : row[d] = "present"
       THEN stored' = [stored EXCEPT ![c] = FALSE] /\ UNCHANGED row
       ELSE row' = [row EXCEPT ![c] = "present"] /\ UNCHANGED stored
    /\ UNCHANGED <<token, disk, local, cmd, pc, crashed>>

\* The row first; its tokens go with it (ON DELETE CASCADE).
DeleteRow(c) ==
    /\ row[c] = "present"
    /\ row' = [row EXCEPT ![c] = "deleted"]
    /\ token' = [token EXCEPT ![c] = IF @ = "none" THEN "none" ELSE "gone"]
    /\ UNCHANGED <<stored, disk, local, cmd, pc, crashed>>

DeleteContent(c) ==
    /\ row[c] = "deleted" /\ stored[c]
    /\ stored' = [stored EXCEPT ![c] = FALSE]
    /\ UNCHANGED <<row, token, disk, local, cmd, pc, crashed>>

\* A fresh token, and the command is created and dispatched.
DeployFile(c) ==
    /\ row[c] = "present" /\ token[c] = "none"
    /\ token' = [token EXCEPT ![c] = "fresh"]
    /\ UNCHANGED <<row, stored, disk, local, cmd, pc, crashed>>

TokenExpires(c) ==
    /\ token[c] = "fresh"
    /\ token' = [token EXCEPT ![c] = "gone"]
    /\ UNCHANGED <<row, stored, disk, local, cmd, pc, crashed>>

-----------------------------------------------------------------------------
(* leo_file_transfer_run *)

Active(t) == pc[t] \notin {"idle", "done", "killed"}

\* The transfer returns code.
Return(t, code) ==
    /\ rc' = [rc EXCEPT ![t] = code]
    /\ pc' = [pc EXCEPT ![t] = "done"]

\* remove(part_path), then return.
Abandon(t, code) ==
    /\ Return(t, code)
    /\ part' = [part EXCEPT ![cmd[t]] = None]

\* _filename_valid: a name that is a path.
RefuseName(t) == Return(t, "PROTOCOL")

\* leo_http_parse_url: no host, one that is too long, or no such port.
RefuseUrl(t) == Return(t, "PROTOCOL")

\* _ensure_workdir, or fopen of the .part file.
NoWorkdir(t) == Return(t, "SYSTEM")

\* An early return leaves nothing behind.
Refuse(t) ==
    /\ pc[t] = "idle" /\ token[cmd[t]] # "none"
    /\ RefuseName(t) \/ RefuseUrl(t) \/ NoWorkdir(t)
    /\ UNCHANGED <<backend, disk, status, failed, got, held, fd, cmd, crashed>>

\* fopen "wb": an existing .part is truncated, not replaced.
OpenPart(t) ==
    LET c == cmd[t]
        i == IF part[c] = None THEN t ELSE part[c]
    IN  /\ pc[t] = "idle" /\ token[c] # "none"
        /\ part' = [part EXCEPT ![c] = i]
        /\ fd' = [fd EXCEPT ![t] = i]
        /\ data' = [data EXCEPT ![i] = {}]
        /\ shared' = IF \E u \in Threads : fd[u] = i /\ Active(u)
                     THEN shared \cup {c} ELSE shared
        /\ unflushed' = unflushed \ {i}
        /\ pc' = [pc EXCEPT ![t] = "connect"]
        /\ UNCHANGED <<backend, final, rc, status, failed, got, held,
                       cmd, crashed>>

\* Faulty variant: the .part file stays when there is no connection.
KeepPart(t) ==
    /\ pc[t] = "connect"
    /\ \E code \in {"SYSTEM", "NETWORK"} : Return(t, code)
    /\ UNCHANGED <<backend, disk, status, failed, got, held, fd, cmd, crashed>>

\* The digest, the HTTP context or the connection cannot be set up.
NoConnection(t) ==
    /\ pc[t] = "connect"
    /\ \E code \in {"SYSTEM", "NETWORK"} : Abandon(t, code)
    /\ UNCHANGED <<backend, data, final, shared, unflushed,
                   status, failed, got, held, fd, cmd, crashed>>

\* An event ends the loop on lws_service; bad says whether it sets dl.failed.
EndLoop(t, bad) ==
    /\ pc' = [pc EXCEPT ![t] = "close"]
    /\ failed' = [failed EXCEPT ![t] = @ \/ bad]

\* Faulty variant: a used token is accepted.
ConsumeAgain(t) ==
    /\ token[cmd[t]] \in {"fresh", "used"}
    /\ token' = [token EXCEPT ![cmd[t]] = "used"]

\* ConsumeDownloadToken: one UPDATE ... WHERE used_at IS NULL.
ConsumeDownloadToken(t) ==
    /\ token[cmd[t]] = "fresh"
    /\ token' = [token EXCEPT ![cmd[t]] = "used"]

\* FileHandler.Download consumes the token, or refuses.
Request(t) ==
    /\ pc[t] = "connect"
    /\ \/ /\ ConsumeDownloadToken(t)
          /\ pc' = [pc EXCEPT ![t] = "open"] /\ UNCHANGED failed
       \/ /\ token[cmd[t]] # "fresh"
          /\ EndLoop(t, TRUE) /\ UNCHANGED token
    /\ UNCHANGED <<row, stored, disk, rc, status, got, held, fd, cmd, crashed>>

\* The row is read again, the content is opened and the answer starts: 200,
\* or an error when the file has been deleted in between.
Answer(t) ==
    /\ pc[t] = "open"
    /\ \/ /\ stored[cmd[t]]
          /\ status' = [status EXCEPT ![t] = TRUE]
          /\ pc' = [pc EXCEPT ![t] = "receive"] /\ UNCHANGED failed
       \/ /\ row[cmd[t]] # "present"
          /\ EndLoop(t, TRUE) /\ UNCHANGED status
    /\ UNCHANGED <<backend, disk, rc, got, held, fd, cmd, crashed>>

\* What is in place once the buffer of t has been written.
Flushed(t) ==
    [data EXCEPT ![fd[t]] = IF held[t] = 0 THEN @ ELSE @ \cup {held[t]}]

\* fwrite takes a chunk and writes the one before; the digest is updated
\* with what was received.
Receive(t) ==
    /\ pc[t] = "receive" /\ got[t] < Chunks
    /\ \/ /\ data' = Flushed(t)
          /\ held' = [held EXCEPT ![t] = got[t] + 1]
          /\ got' = [got EXCEPT ![t] = @ + 1]
          /\ UNCHANGED <<pc, failed>>
       \/ /\ EndLoop(t, TRUE) /\ UNCHANGED <<data, held, got>>
    /\ UNCHANGED <<backend, part, final, shared, unflushed, rc, status, fd, cmd, crashed>>

\* The end of the answer, or a connection closed before it: neither is told
\* from the other.
Completed(t) ==
    /\ pc[t] = "receive"
    /\ EndLoop(t, FALSE)
    /\ UNCHANGED <<backend, disk, rc, status, got, held, fd, cmd, crashed>>

\* Faulty variant: no timer, and the loop does not look at the clock; only a
\* refused connection is seen.
NeverTimesOut(t) ==
    /\ pc[t] = "connect"
    /\ EndLoop(t, TRUE)
    /\ UNCHANGED <<backend, disk, rc, status, got, held, fd, cmd, crashed>>

\* A connection error, the timer of the connection, an error of lws_service
\* or the deadline of the loop, which alone sets rc.
TimesOut(t) ==
    /\ pc[t] \in {"connect", "open", "receive"}
    /\ EndLoop(t, TRUE)
    /\ \E code \in {rc[t], "TIMEOUT"} : rc' = [rc EXCEPT ![t] = code]
    /\ UNCHANGED <<backend, disk, status, got, held, fd, cmd, crashed>>

\* fclose writes the rest of the buffer; its result is not looked at.
Close(t) ==
    /\ pc[t] = "close"
    /\ \/ data' = Flushed(t) /\ UNCHANGED unflushed
       \/ held[t] # 0 /\ unflushed' = unflushed \cup {fd[t]} /\ UNCHANGED data
    /\ held' = [held EXCEPT ![t] = 0]
    /\ IF failed[t] \/ ~status[t]
       THEN Abandon(t, IF rc[t] = "none" THEN "NETWORK" ELSE rc[t])
       ELSE pc' = [pc EXCEPT ![t] = "verify"] /\ UNCHANGED <<rc, part>>
    /\ UNCHANGED <<backend, final, shared, status, failed, got, fd, cmd, crashed>>

\* Faulty variant: the digest is not compared.
VerifyNothing(t) ==
    /\ pc[t] = "verify"
    /\ pc' = [pc EXCEPT ![t] = "rename"] /\ UNCHANGED <<rc, part>>
    /\ UNCHANGED <<backend, data, final, shared, unflushed,
                   status, failed, got, held, fd, cmd, crashed>>

\* The digest of what was received against the one of the command, if it has one.
Verify(t) ==
    /\ pc[t] = "verify"
    /\ IF cmd[t] \in Digested => got[t] = Chunks
       THEN pc' = [pc EXCEPT ![t] = "rename"] /\ UNCHANGED <<rc, part>>
       ELSE Abandon(t, "PROTOCOL")
    /\ UNCHANGED <<backend, data, final, shared, unflushed,
                   status, failed, got, held, fd, cmd, crashed>>

\* rename moves whatever the .part path designates now.
Rename(t) ==
    /\ pc[t] = "rename"
    /\ \/ /\ part[cmd[t]] # None
          /\ final' = part[cmd[t]]
          /\ Abandon(t, "OK")
       \/ Abandon(t, "SYSTEM") /\ UNCHANGED final
    /\ UNCHANGED <<backend, data, shared, unflushed,
                   status, failed, got, held, fd, cmd, crashed>>

\* The agent stops: its threads stop where they are, what they had buffered
\* is lost, the directory stays.
AgentCrash ==
    /\ \E t \in Threads : Active(t)
    /\ pc' = [t \in Threads |-> IF Active(t) THEN "killed" ELSE pc[t]]
    /\ crashed' = TRUE
    /\ UNCHANGED <<backend, disk, local, cmd>>

-----------------------------------------------------------------------------
Library(c) ==
    \/ UploadContent(c) \/ UploadRow(c) \/ DeployFile(c)
    \/ DeleteRow(c) \/ DeleteContent(c) \/ TokenExpires(c)

Transfer(t) ==
    \/ Refuse(t) \/ OpenPart(t) \/ NoConnection(t) \/ Request(t) \/ Answer(t)
    \/ Receive(t) \/ Completed(t) \/ Close(t) \/ Verify(t) \/ Rename(t)

Next ==
    \/ \E c \in Commands : Library(c)
    \/ \E t \in Threads : Transfer(t) \/ TimesOut(t)
    \/ AgentCrash

Spec == Init /\ [][Next]_vars

\* What the thread does without waiting for the server.
Local(t) == OpenPart(t) \/ Close(t) \/ Verify(t) \/ Rename(t)

\* The thread runs and its timer fires.  Nothing is asked of the server.
FairSpec == Spec /\ \A t \in Threads : WF_vars(Local(t)) /\ WF_vars(TimesOut(t))

-----------------------------------------------------------------------------
TypeOK ==
    /\ row \in [Commands -> {"none", "present", "deleted"}]
    /\ stored \in [Commands -> BOOLEAN]
    /\ token \in [Commands -> {"none", "fresh", "used", "gone"}]
    /\ cmd \in [Threads -> Commands]
    /\ pc \in [Threads -> {"idle", "connect", "open", "receive", "close",
                           "verify", "rename", "done", "killed"}]
    /\ rc \in [Threads -> {"none", "OK", "NETWORK", "TIMEOUT", "PROTOCOL", "SYSTEM"}]
    /\ status \in [Threads -> BOOLEAN] /\ failed \in [Threads -> BOOLEAN]
    /\ got \in [Threads -> 0 .. Chunks] /\ held \in [Threads -> 0 .. Chunks]
    /\ fd \in [Threads -> Threads \cup {None}]
    /\ data \in [Threads -> SUBSET Whole]
    /\ part \in [Commands -> Threads \cup {None}]
    /\ final \in Threads \cup {None}
    /\ shared \subseteq Commands /\ unflushed \subseteq Threads
    /\ crashed \in BOOLEAN

\* What a command with a SHA-256 exposes under the final name is whole, whatever
\* was lost or cut on the way, unless two deliveries of the command opened the same
\* .part file or the last write failed in fclose, whose result is ignored.
ExposedIsWhole ==
    (final # None /\ cmd[final] \in Digested) =>
        \/ data[final] = Whole
        \/ cmd[final] \in shared \/ final \in unflushed

\* Every way out of leo_file_transfer_run removes or renames the .part file,
\* also when another delivery of the command uses the same path.  Only a
\* crash of the agent leaves one.
NoPartLeft ==
    \A c \in Commands :
        part[c] # None => crashed \/ \E t \in Threads : cmd[t] = c /\ Active(t)

\* Two downloads with the same token do not both succeed, even when the two
\* deliveries of a command ask at the same time (ConsumeDownloadToken).
TokenServesOnce ==
    \A t, u \in Threads : (t # u /\ cmd[t] = cmd[u]) => ~(status[t] /\ status[u])

\* A transfer ends even when the server never answers.
TransferEnds == \A t \in Threads : Active(t) ~> ~Active(t)
=============================================================================
