------------------------- MODULE FileTransferProofs -------------------------
(***************************************************************************)
(* Proofs about the deployment of files, for any number of commands,       *)
(* deliveries and chunks.                                                  *)
(*                                                                         *)
(* A delivery that shares its .part file with no other is the only active  *)
(* one of its command, and the path still designates the inode it writes   *)
(* (Sole); what is in that inode and in the buffer is what was received    *)
(* (Content).  The .part of a command never designates the exposed inode   *)
(* (PartOf), so what is exposed is no longer written, unless the command   *)
(* was shared.  A delivery that has not started has no inode (Unborn).     *)
(***************************************************************************)
EXTENDS FileTransfer, TLAPS

Buffer(n) == IF n = 0 THEN {} ELSE {n}

Owned(t) ==
    /\ Active(t) => fd[t] \in Threads
    /\ fd[t] # None => cmd[fd[t]] = cmd[t]

Unborn(t) ==
    pc[t] = "idle" =>
        /\ got[t] = 0 /\ held[t] = 0 /\ final # t
        /\ \A u \in Threads : fd[u] # t
        /\ \A c \in Commands : part[c] # t

PartOf(c) == part[c] # None => cmd[part[c]] = c /\ part[c] # final

Sole(t) ==
    (Active(t) /\ cmd[t] \notin shared) =>
        /\ part[cmd[t]] = fd[t]
        /\ \A u \in Threads : (Active(u) /\ cmd[u] = cmd[t]) => u = t

Content(t) ==
    (Active(t) /\ cmd[t] \notin shared) =>
        /\ pc[t] \in {"connect", "open", "receive", "close"} =>
              data[fd[t]] \cup Buffer(held[t]) = 1 .. got[t]
        /\ pc[t] \in {"verify", "rename"} =>
              fd[t] \in unflushed \/ data[fd[t]] = 1 .. got[t]
        /\ pc[t] = "rename" /\ cmd[t] \in Digested => got[t] = Chunks

Inodes == /\ \A t \in Threads : Owned(t) /\ Unborn(t)
          /\ \A c \in Commands : PartOf(c)
AllSole == \A t \in Threads : Sole(t)
AllContent == \A t \in Threads : Content(t)

Safe == Inodes /\ AllSole /\ AllContent /\ ExposedIsWhole

IInv == TypeOK /\ Safe

\* The token of a download that was accepted is not fresh any more, and no
\* other delivery of the command was accepted.
Served(t) == pc[t] = "open" \/ status[t]

TokenInv ==
    /\ \A t \in Threads : Served(t) => token[cmd[t]] \in {"used", "gone"}
    /\ \A t, u \in Threads : (Served(t) /\ Served(u) /\ cmd[t] = cmd[u]) => t = u

-----------------------------------------------------------------------------
(* The kinds of steps the proofs tell apart *)

\* A step that leaves the threads and the disk of the agent alone.
Elsewhere == UNCHANGED <<disk, got, held, fd, cmd, pc>>

\* A thread goes on, or ends its loop, and writes nothing.
Moves(t) ==
    /\ pc[t] \in {"connect", "open", "receive"}
    /\ \E s \in {"open", "receive", "close"} : pc' = [pc EXCEPT ![t] = s]
    /\ UNCHANGED <<disk, got, held, fd, cmd>>

\* A thread refuses its command.
Refuses(t) ==
    /\ pc[t] = "idle"
    /\ pc' = [pc EXCEPT ![t] = "done"]
    /\ UNCHANGED <<disk, got, held, fd, cmd>>

\* A thread receives a chunk.
Receives(t) ==
    /\ pc[t] = "receive" /\ got[t] < Chunks
    /\ data' = Flushed(t)
    /\ held' = [held EXCEPT ![t] = got[t] + 1]
    /\ got' = [got EXCEPT ![t] = @ + 1]
    /\ UNCHANGED <<part, final, shared, unflushed, fd, cmd, pc>>

\* A thread goes on to the checks, its file closed.
Closes(t) ==
    /\ pc[t] = "close"
    /\ \/ data' = Flushed(t) /\ UNCHANGED unflushed
       \/ unflushed' = unflushed \cup {fd[t]} /\ UNCHANGED data
    /\ held' = [held EXCEPT ![t] = 0]
    /\ pc' = [pc EXCEPT ![t] = "verify"]
    /\ UNCHANGED <<part, final, shared, got, fd, cmd>>

\* The digest is right, or there is none.
Verifies(t) ==
    /\ pc[t] = "verify" /\ (cmd[t] \in Digested => got[t] = Chunks)
    /\ pc' = [pc EXCEPT ![t] = "rename"]
    /\ UNCHANGED <<disk, got, held, fd, cmd>>

\* A thread ends and its .part path with it.
Leaves(t) ==
    /\ Active(t)
    /\ \/ data' = Flushed(t) /\ UNCHANGED <<unflushed, final>>
       \/ unflushed' = unflushed \cup {fd[t]} /\ UNCHANGED <<data, final>>
       \/ UNCHANGED <<data, unflushed, final>>
       \/ /\ pc[t] = "rename" /\ part[cmd[t]] # None /\ final' = part[cmd[t]]
          /\ UNCHANGED <<data, unflushed>>
    /\ held' \in {held, [held EXCEPT ![t] = 0]}
    /\ pc' = [pc EXCEPT ![t] = "done"]
    /\ part' = [part EXCEPT ![cmd[t]] = None]
    /\ UNCHANGED <<shared, got, fd, cmd>>

\* Every step is of one of these kinds.
LEMMA NextKinds ==
    Next => \/ Elsewhere \/ AgentCrash
            \/ \E t \in Threads :
                  \/ Moves(t) \/ Refuses(t) \/ OpenPart(t) \/ Receives(t)
                  \/ Closes(t) \/ Verifies(t) \/ Leaves(t)
  <1> SUFFICES ASSUME Next, ~AgentCrash
               PROVE  \/ Elsewhere
                      \/ \E t \in Threads :
                            \/ Moves(t) \/ Refuses(t) \/ OpenPart(t) \/ Receives(t)
                            \/ Closes(t) \/ Verifies(t) \/ Leaves(t)
    BY Zenon
  <1>1. ASSUME NEW c \in Commands, Library(c) PROVE Elsewhere
    BY <1>1, ZenonT(60) DEF Library, UploadContent, UploadRow, DeployFile, DeleteRow,
       DeleteContent, TokenExpires, Elsewhere, local
  <1>2. ASSUME NEW t \in Threads, Refuse(t) PROVE Refuses(t)
    BY <1>2, ZenonT(60) DEF Refuse, RefuseName, RefuseUrl, NoWorkdir, Return, Refuses
  <1>3. ASSUME NEW t \in Threads, Request(t) \/ Answer(t) \/ Completed(t) \/ TimesOut(t)
        PROVE  Moves(t)
    BY <1>3, ZenonT(60) DEF Request, Answer, Completed, TimesOut, EndLoop, Moves
  <1>4. ASSUME NEW t \in Threads, Receive(t) PROVE Moves(t) \/ Receives(t)
    BY <1>4, ZenonT(60) DEF Receive, EndLoop, Moves, Receives, disk
  <1>5. ASSUME NEW t \in Threads, NoConnection(t) PROVE Leaves(t)
    BY <1>5 DEF NoConnection, Abandon, Return, Leaves, Active
  <1>6. ASSUME NEW t \in Threads, Close(t) PROVE Closes(t) \/ Leaves(t)
    BY <1>6 DEF Close, Abandon, Return, Closes, Leaves, Active
  <1>7. ASSUME NEW t \in Threads, Verify(t) PROVE Verifies(t) \/ Leaves(t)
    BY <1>7 DEF Verify, Abandon, Return, Verifies, Leaves, Active, disk
  <1>8. ASSUME NEW t \in Threads, Rename(t) PROVE Leaves(t)
    BY <1>8 DEF Rename, Abandon, Return, Leaves, Active
  <1> QED
    BY <1>1, <1>2, <1>3, <1>4, <1>5, <1>6, <1>7, <1>8, ZenonT(60) DEF Next, Transfer

-----------------------------------------------------------------------------
(* Types *)

Places == [Threads -> {"idle", "connect", "open", "receive", "close",
                       "verify", "rename", "done", "killed"}]
Codes == {"OK", "NETWORK", "TIMEOUT", "PROTOCOL", "SYSTEM"}

\* The end of the loop keeps the types.
LEMMA EndLoopTypes ==
    ASSUME TypeOK, NEW t \in Threads, NEW b \in BOOLEAN, EndLoop(t, b)
    PROVE  pc' \in Places /\ failed' \in [Threads -> BOOLEAN]
  <1>1. pc' \in Places
    BY DEF TypeOK, EndLoop, Places
  <1>2. failed[t] \/ b \in BOOLEAN
    BY Zenon DEF TypeOK
  <1>3. failed' \in [Threads -> BOOLEAN]
    BY <1>2, Zenon DEF TypeOK, EndLoop
  <1> QED
    BY <1>1, <1>3

\* Every way to return keeps the types.
LEMMA ReturnTypes ==
    ASSUME TypeOK, NEW t \in Threads, NEW code \in Codes, Return(t, code)
    PROVE  pc' \in Places /\ rc' \in [Threads -> Codes \cup {"none"}]
  BY DEF TypeOK, Return, Places, Codes

\* So does a return that removes the .part file.
LEMMA AbandonTypes ==
    ASSUME TypeOK, NEW t \in Threads, NEW code \in Codes, Abandon(t, code)
    PROVE  /\ pc' \in Places /\ rc' \in [Threads -> Codes \cup {"none"}]
           /\ part' \in [Commands -> Threads \cup {None}]
  <1>1. Return(t, code) /\ part' = [part EXCEPT ![cmd[t]] = None]
    BY DEF Abandon
  <1>2. part' \in [Commands -> Threads \cup {None}]
    BY <1>1 DEF TypeOK
  <1> QED
    BY <1>1, <1>2, ReturnTypes

\* What fwrite and fclose put in an inode is made of chunks of the file.
LEMMA FlushedTypes ==
    ASSUME TypeOK, NEW t \in Threads
    PROVE  Flushed(t) \in [Threads -> SUBSET Whole]
  <1>1. held[t] # 0 => held[t] \in Whole
    BY FileTransferAssumption DEF TypeOK, Whole
  <1> QED
    BY <1>1, ZenonT(30) DEF TypeOK, Flushed

\* Every operation of the library keeps the types.
LEMMA LibraryTypes ==
    ASSUME TypeOK, NEW c \in Commands, Library(c)
    PROVE  TypeOK'
  <1>1. UNCHANGED <<cmd, pc, rc, status, failed, got, held, fd, data, part, final, shared,
                    unflushed, crashed>>
    BY ZenonT(60) DEF Library, UploadContent, UploadRow, DeployFile, DeleteRow, DeleteContent,
       TokenExpires, local, disk
  <1>2. /\ row' \in [Commands -> {"none", "present", "deleted"}]
        /\ token' \in [Commands -> {"none", "fresh", "used", "gone"}]
    BY DEF TypeOK, Library, UploadContent, UploadRow, DeployFile, DeleteRow, DeleteContent,
       TokenExpires
  <1>3. stored' \in [Commands -> BOOLEAN]
    BY ZenonT(60) DEF TypeOK, Library, UploadContent, UploadRow, DeployFile, DeleteRow,
       DeleteContent, TokenExpires
  <1> QED
    BY <1>1, <1>2, <1>3, ZenonT(60) DEF TypeOK

\* TypeOK, with its longer sets named.
NamedTypes ==
    /\ row \in [Commands -> {"none", "present", "deleted"}]
    /\ stored \in [Commands -> BOOLEAN]
    /\ token \in [Commands -> {"none", "fresh", "used", "gone"}]
    /\ cmd \in [Threads -> Commands]
    /\ pc \in Places /\ rc \in [Threads -> Codes \cup {"none"}]
    /\ status \in [Threads -> BOOLEAN] /\ failed \in [Threads -> BOOLEAN]
    /\ got \in [Threads -> 0 .. Chunks] /\ held \in [Threads -> 0 .. Chunks]
    /\ fd \in [Threads -> Threads \cup {None}]
    /\ data \in [Threads -> SUBSET Whole]
    /\ part \in [Commands -> Threads \cup {None}]
    /\ final \in Threads \cup {None}
    /\ shared \subseteq Commands /\ unflushed \subseteq Threads
    /\ crashed \in BOOLEAN

\* The two ways to state the types agree.
LEMMA Types == (TypeOK => NamedTypes) /\ (NamedTypes' => TypeOK')
  <1>1. Codes \cup {"none"} = {"none", "OK", "NETWORK", "TIMEOUT", "PROTOCOL", "SYSTEM"}
    BY DEF Codes
  <1> QED
    BY <1>1, ZenonT(60) DEF TypeOK, NamedTypes, Places

\* Every step of a transfer keeps the types, given an inode for its writes.
LEMMA TransferTypes ==
    ASSUME TypeOK, NEW t \in Threads, Owned(t), Transfer(t) \/ TimesOut(t)
    PROVE  TypeOK'
  <1> USE FileTransferAssumption
  <1>0. NamedTypes
    BY Types
  <1>1. CASE Refuse(t)
    <2>1. \E code \in {"PROTOCOL", "SYSTEM"} : Return(t, code)
      BY <1>1, Zenon DEF Refuse, RefuseName, RefuseUrl, NoWorkdir
    <2>2. pc' \in Places /\ rc' \in [Threads -> Codes \cup {"none"}]
      BY <2>1, ReturnTypes DEF Codes
    <2>3. UNCHANGED <<row, stored, token, cmd, status, failed, got, held, fd, data, part, final,
                      shared, unflushed, crashed>>
      BY <1>1, Zenon DEF Refuse, backend, disk
    <2> QED
      BY <1>0, <2>2, <2>3, Types, ZenonT(60) DEF NamedTypes
  <1>2. CASE OpenPart(t)
    <2>1. PICK i \in Threads : /\ part' = [part EXCEPT ![cmd[t]] = i]
                               /\ fd' = [fd EXCEPT ![t] = i]
                               /\ data' = [data EXCEPT ![i] = {}]
                               /\ unflushed' = unflushed \ {i}
      BY <1>2, ZenonT(30) DEF OpenPart, TypeOK
    <2>2. /\ pc' = [pc EXCEPT ![t] = "connect"]
          /\ shared' \in {shared, shared \cup {cmd[t]}}
      BY <1>2, ZenonT(60) DEF OpenPart
    <2>3. UNCHANGED <<row, stored, token, final, rc, status, failed, got, held, cmd, crashed>>
      BY <1>2, Zenon DEF OpenPart, backend
    <2>4. part' \in [Commands -> Threads \cup {None}] /\ fd' \in [Threads -> Threads \cup {None}]
      BY <2>1 DEF TypeOK
    <2>5. data' \in [Threads -> SUBSET Whole] /\ unflushed' \subseteq Threads
      BY <2>1 DEF TypeOK
    <2>6. /\ pc' \in Places
          /\ shared' \subseteq Commands
      BY <2>2 DEF TypeOK, Places
    <2> QED
      BY <1>0, <2>3, <2>4, <2>5, <2>6, Types, ZenonT(60) DEF NamedTypes
  <1>3. CASE NoConnection(t)
    <2>1. /\ pc' \in Places /\ rc' \in [Threads -> Codes \cup {"none"}]
          /\ part' \in [Commands -> Threads \cup {None}]
      BY <1>3, AbandonTypes DEF NoConnection, Codes
    <2>2. UNCHANGED <<row, stored, token, cmd, status, failed, got, held, fd, data, final,
                      shared, unflushed, crashed>>
      BY <1>3, Zenon DEF NoConnection, backend
    <2> QED
      BY <1>0, <2>1, <2>2, Types, ZenonT(60) DEF NamedTypes
  <1>4. CASE Request(t)
    <2>1. UNCHANGED <<row, stored, rc, status, got, held, fd, data, part, final, shared,
                      unflushed, cmd, crashed>>
      BY <1>4, Zenon DEF Request, disk
    <2>2. token' \in [Commands -> {"none", "fresh", "used", "gone"}]
      <3>1. token' = token \/ token' = [token EXCEPT ![cmd[t]] = "used"]
        BY <1>4, Zenon DEF Request, ConsumeDownloadToken
      <3> QED
        BY <3>1 DEF TypeOK
    <2>3. /\ pc' \in Places
          /\ failed' \in [Threads -> BOOLEAN]
      <3>1. EndLoop(t, TRUE) \/ (pc' = [pc EXCEPT ![t] = "open"] /\ UNCHANGED failed)
        BY <1>4, Zenon DEF Request
      <3>2. CASE EndLoop(t, TRUE)
        BY <3>2, EndLoopTypes, ZenonT(30)
      <3>3. CASE pc' = [pc EXCEPT ![t] = "open"] /\ UNCHANGED failed
        BY <3>3 DEF TypeOK, Places
      <3> QED
        BY <3>1, <3>2, <3>3, ZenonT(30)
    <2> QED
      BY <1>0, <2>1, <2>2, <2>3, Types, ZenonT(60) DEF NamedTypes
  <1>5. CASE Answer(t)
    <2>1. UNCHANGED <<row, stored, token, rc, got, held, fd, data, part, final, shared,
                      unflushed, cmd, crashed>>
      BY <1>5, Zenon DEF Answer, backend, disk
    <2>2. CASE EndLoop(t, TRUE) /\ UNCHANGED status
      <3>1. pc' \in Places /\ failed' \in [Threads -> BOOLEAN]
        BY <2>2, EndLoopTypes, ZenonT(30)
      <3> QED
        BY <1>0, <2>1, <2>2, <3>1, Types, ZenonT(60) DEF NamedTypes
    <2>3. CASE /\ status' = [status EXCEPT ![t] = TRUE]
               /\ pc' = [pc EXCEPT ![t] = "receive"] /\ UNCHANGED failed
      <3>1. pc' \in Places
        BY <2>3 DEF TypeOK, Places
      <3>2. status' \in [Threads -> BOOLEAN]
        BY <2>3, Zenon DEF TypeOK
      <3> QED
        BY <1>0, <2>1, <2>3, <3>1, <3>2, Types, ZenonT(60) DEF NamedTypes
    <2> QED
      BY <1>5, <2>2, <2>3, Zenon DEF Answer
  <1>6. CASE Receive(t)
    <2>1. UNCHANGED <<row, stored, token, part, final, shared, unflushed, rc, status, fd,
                      cmd, crashed>>
      BY <1>6, Zenon DEF Receive, backend
    <2>2. data' \in [Threads -> SUBSET Whole]
      <3>1. data' = data \/ data' = Flushed(t)
        BY <1>6, Zenon DEF Receive
      <3> QED
        BY <3>1, FlushedTypes DEF TypeOK
    <2>3. got' \in [Threads -> 0 .. Chunks] /\ held' \in [Threads -> 0 .. Chunks]
      <3>1. \/ UNCHANGED <<got, held>>
            \/ /\ got[t] < Chunks
               /\ held' = [held EXCEPT ![t] = got[t] + 1] /\ got' = [got EXCEPT ![t] = got[t] + 1]
        BY <1>6, Zenon DEF Receive
      <3>2. got[t] < Chunks => got[t] + 1 \in 0 .. Chunks
        BY DEF TypeOK
      <3> QED
        BY <3>1, <3>2 DEF TypeOK
    <2>4. /\ pc' \in Places
          /\ failed' \in [Threads -> BOOLEAN]
      <3>1. EndLoop(t, TRUE) \/ UNCHANGED <<pc, failed>>
        BY <1>6, Zenon DEF Receive
      <3>2. CASE EndLoop(t, TRUE)
        BY <3>2, EndLoopTypes, ZenonT(30)
      <3>3. CASE UNCHANGED <<pc, failed>>
        BY <3>3 DEF TypeOK, Places
      <3> QED
        BY <3>1, <3>2, <3>3, ZenonT(30)
    <2> QED
      BY <1>0, <2>1, <2>2, <2>3, <2>4, Types, ZenonT(60) DEF NamedTypes
  <1>7. CASE Completed(t)
    <2>1. pc' \in Places /\ failed' \in [Threads -> BOOLEAN]
      BY <1>7, EndLoopTypes, ZenonT(30) DEF Completed
    <2>2. UNCHANGED <<row, stored, token, rc, status, got, held, fd, data, part, final, shared,
                      unflushed, cmd, crashed>>
      BY <1>7, Zenon DEF Completed, backend, disk
    <2> QED
      BY <1>0, <2>1, <2>2, Types, ZenonT(60) DEF NamedTypes
  <1>8. CASE Close(t)
    <2>1. UNCHANGED <<row, stored, token, final, shared, status, failed, got, fd, cmd, crashed>>
      BY <1>8, Zenon DEF Close, backend
    <2>2. data' \in [Threads -> SUBSET Whole]
      <3>1. data' = data \/ data' = Flushed(t)
        BY <1>8, Zenon DEF Close
      <3> QED
        BY <3>1, FlushedTypes DEF TypeOK
    <2>3. unflushed' \subseteq Threads /\ held' \in [Threads -> 0 .. Chunks]
      BY <1>8 DEF TypeOK, Close, Owned, Active
    <2>4. \/ \E code \in Codes : Abandon(t, code)
          \/ pc' = [pc EXCEPT ![t] = "verify"] /\ UNCHANGED <<rc, part>>
      <3>1. (IF rc[t] = "none" THEN "NETWORK" ELSE rc[t]) \in Codes
        BY DEF TypeOK, Codes
      <3> QED
        BY <1>8, <3>1, Zenon DEF Close
    <2>5. /\ pc' \in Places
          /\ rc' \in [Threads -> Codes \cup {"none"}]
          /\ part' \in [Commands -> Threads \cup {None}]
      <3>1. CASE \E code \in Codes : Abandon(t, code)
        BY <3>1, AbandonTypes
      <3>2. CASE pc' = [pc EXCEPT ![t] = "verify"] /\ UNCHANGED <<rc, part>>
        BY <3>2 DEF TypeOK, Places, Codes
      <3> QED
        BY <2>4, <3>1, <3>2
    <2> QED
      BY <1>0, <2>1, <2>2, <2>3, <2>5, Types, ZenonT(60) DEF NamedTypes
  <1>9. CASE Verify(t)
    <2>1. UNCHANGED <<row, stored, token, cmd, status, failed, got, held, fd, data, final,
                      shared, unflushed, crashed>>
      BY <1>9, Zenon DEF Verify, backend
    <2>2. CASE Abandon(t, "PROTOCOL")
      <3>1. /\ pc' \in Places /\ rc' \in [Threads -> Codes \cup {"none"}]
            /\ part' \in [Commands -> Threads \cup {None}]
        BY <2>2, AbandonTypes DEF Codes
      <3> QED
        BY <1>0, <2>1, <3>1, Types, ZenonT(60) DEF NamedTypes
    <2>3. CASE pc' = [pc EXCEPT ![t] = "rename"] /\ UNCHANGED <<rc, part>>
      <3>1. pc' \in Places
        BY <2>3 DEF TypeOK, Places
      <3> QED
        BY <1>0, <2>1, <2>3, <3>1, Types, ZenonT(60) DEF NamedTypes
    <2> QED
      BY <1>9, <2>2, <2>3, Zenon DEF Verify
  <1>10. CASE Rename(t)
    <2>1. UNCHANGED <<row, stored, token, cmd, status, failed, got, held, fd, data,
                      shared, unflushed, crashed>>
      BY <1>10, Zenon DEF Rename, backend
    <2>2. /\ pc' \in Places /\ rc' \in [Threads -> Codes \cup {"none"}]
          /\ part' \in [Commands -> Threads \cup {None}]
      BY <1>10, AbandonTypes DEF Rename, Codes
    <2>3. final' \in Threads \cup {None}
      BY <1>10 DEF TypeOK, Rename
    <2> QED
      BY <1>0, <2>1, <2>2, <2>3, Types, ZenonT(60) DEF NamedTypes
  <1>11. CASE TimesOut(t)
    <2>1. UNCHANGED <<row, stored, token, data, part, final, shared, unflushed, status, got,
                      held, fd, cmd, crashed>>
      BY <1>11, Zenon DEF TimesOut, backend, disk
    <2>2. rc' \in [Threads -> Codes \cup {"none"}]
      BY <1>11 DEF TypeOK, TimesOut, Codes
    <2>3. /\ pc' \in Places
          /\ failed' \in [Threads -> BOOLEAN]
      BY <1>11, EndLoopTypes, ZenonT(30) DEF TimesOut
    <2> QED
      BY <1>0, <2>1, <2>2, <2>3, Types, ZenonT(60) DEF NamedTypes
  <1> QED
    BY <1>1, <1>2, <1>3, <1>4, <1>5, <1>6, <1>7, <1>8, <1>9, <1>10, <1>11 DEF Transfer

\* A step of the system keeps the types.
LEMMA TypeStep == TypeOK /\ Inodes /\ Next => TypeOK'
  <1> SUFFICES ASSUME TypeOK, Inodes, Next PROVE TypeOK'
    OBVIOUS
  <1>1. ASSUME NEW t \in Threads, Transfer(t) \/ TimesOut(t) PROVE TypeOK'
    BY <1>1, TransferTypes DEF Inodes
  <1>2. CASE AgentCrash
    <2>1. UNCHANGED <<row, stored, token, cmd, rc, status, failed, got, held, fd, data, part,
                      final, shared, unflushed>> /\ crashed' = TRUE
      BY <1>2, Zenon DEF AgentCrash, backend, disk, local
    <2>2. pc' \in Places
      BY <1>2 DEF TypeOK, AgentCrash, Places
    <2>3. NamedTypes
      BY Types
    <2> QED
      BY <2>1, <2>2, <2>3, Types, ZenonT(60) DEF NamedTypes
  <1> QED
    BY <1>1, <1>2, LibraryTypes DEF Next

-----------------------------------------------------------------------------
(* Inodes, paths and contents *)

\* Nothing is open and nothing is exposed at the start.
LEMMA InitInv == Init => IInv
  <1> SUFFICES ASSUME Init PROVE IInv
    OBVIOUS
  <1> USE FileTransferAssumption
  <1>1. TypeOK
    <2>1. /\ row \in [Commands -> {"none", "present", "deleted"}]
          /\ token \in [Commands -> {"none", "fresh", "used", "gone"}]
          /\ cmd \in [Threads -> Commands]
          /\ got \in [Threads -> 0 .. Chunks] /\ held \in [Threads -> 0 .. Chunks]
          /\ data \in [Threads -> SUBSET Whole]
      BY DEF Init, All
    <2>2. /\ pc \in [Threads -> {"idle", "connect", "open", "receive", "close",
                                  "verify", "rename", "done", "killed"}]
          /\ rc \in [Threads -> {"none", "OK", "NETWORK", "TIMEOUT", "PROTOCOL", "SYSTEM"}]
          /\ fd \in [Threads -> Threads \cup {None}]
          /\ part \in [Commands -> Threads \cup {None}]
          /\ final \in Threads \cup {None}
          /\ shared \subseteq Commands /\ unflushed \subseteq Threads
      BY DEF Init, All
    <2>3. /\ stored \in [Commands -> BOOLEAN] /\ crashed \in BOOLEAN
          /\ status \in [Threads -> BOOLEAN] /\ failed \in [Threads -> BOOLEAN]
      BY ZenonT(30) DEF Init, All
    <2> QED
      BY <2>1, <2>2, <2>3, Zenon DEF TypeOK
  <1>2. \A t \in Threads : pc[t] = "idle" /\ got[t] = 0 /\ held[t] = 0 /\ fd[t] = None
    BY DEF Init, All
  <1>3. final = None /\ \A c \in Commands : part[c] = None
    BY DEF Init
  <1> QED
    BY <1>1, <1>2, <1>3 DEF IInv, Safe, Inodes, Owned, Unborn, PartOf, AllSole, Sole,
       AllContent, Content, ExposedIsWhole, Active

\* A step elsewhere changes nothing of this.
LEMMA ElsewhereSafe == Safe /\ Elsewhere => Safe'
  <1> SUFFICES ASSUME Safe, Elsewhere PROVE Safe'
    OBVIOUS
  <1>1. UNCHANGED <<data, part, final, shared, unflushed, got, held, fd, cmd, pc>>
    BY DEF Elsewhere, disk
  <1>2. Inodes' /\ AllSole'
    BY <1>1 DEF Safe, Inodes, Owned, Unborn, PartOf, AllSole, Sole, Active
  <1>3. AllContent' /\ ExposedIsWhole'
    BY <1>1 DEF Safe, AllContent, Content, Buffer, ExposedIsWhole, Active
  <1> QED
    BY <1>2, <1>3 DEF Safe

\* A crash stops every thread, so nothing is asked of any.
LEMMA CrashSafe == TypeOK /\ Safe /\ AgentCrash => Safe'
  <1> SUFFICES ASSUME TypeOK, Safe, AgentCrash PROVE Safe'
    OBVIOUS
  <1>1. UNCHANGED <<data, part, final, shared, unflushed, got, held, fd, cmd>>
    BY DEF AgentCrash, disk, local
  <1>2. \A t \in Threads : ~Active(t)' /\ (pc'[t] = "idle" => pc[t] = "idle")
    BY DEF AgentCrash, Active, TypeOK
  <1>3. Inodes'
    BY <1>1, <1>2 DEF Safe, Inodes, Owned, Unborn, PartOf
  <1>4. AllSole' /\ AllContent'
    BY <1>2 DEF AllSole, Sole, AllContent, Content
  <1>5. ExposedIsWhole'
    BY <1>1 DEF Safe, ExposedIsWhole
  <1> QED
    BY <1>3, <1>4, <1>5 DEF Safe

\* A thread that only moves keeps its inode and its contents.
LEMMA MovesSafe ==
    ASSUME TypeOK, Safe, NEW t \in Threads, Moves(t) \/ Verifies(t)
    PROVE  Safe'
  <1>1. UNCHANGED <<data, part, final, shared, unflushed, got, held, fd, cmd>>
    BY DEF Moves, Verifies, disk
  <1>2. \A u \in Threads : u # t => pc'[u] = pc[u]
    BY DEF Moves, Verifies, TypeOK
  <1>3. \/ /\ pc[t] \in {"connect", "open", "receive"}
           /\ pc'[t] \in {"open", "receive", "close"}
        \/ /\ pc[t] = "verify" /\ pc'[t] = "rename"
           /\ cmd[t] \in Digested => got[t] = Chunks
    BY DEF Moves, Verifies, TypeOK
  <1>4. \A u \in Threads : Active(u)' <=> Active(u)
    BY <1>2, <1>3 DEF Active
  <1>5. Inodes'
    BY <1>1, <1>2, <1>3, <1>4 DEF Safe, Inodes, Owned, Unborn, PartOf
  <1>6. AllSole'
    BY <1>1, <1>4 DEF Safe, AllSole, Sole
  <1>7. AllContent'
    <2> SUFFICES ASSUME NEW u \in Threads PROVE Content(u)'
      BY DEF AllContent
    <2>1. Content(u)
      BY DEF Safe, AllContent
    <2> QED
      BY <2>1, <1>1, <1>2, <1>3, <1>4 DEF Content, Buffer
  <1>8. ExposedIsWhole'
    BY <1>1 DEF Safe, ExposedIsWhole
  <1> QED
    BY <1>5, <1>6, <1>7, <1>8 DEF Safe

\* A refused command opens nothing.
LEMMA RefusesSafe ==
    ASSUME TypeOK, Safe, NEW t \in Threads, Refuses(t)
    PROVE  Safe'
  <1>1. UNCHANGED <<data, part, final, shared, unflushed, got, held, fd, cmd>>
    BY DEF Refuses, disk
  <1>2. /\ \A u \in Threads : u # t => pc'[u] = pc[u]
        /\ pc'[t] = "done" /\ pc[t] = "idle"
    BY DEF Refuses, TypeOK
  <1>3. \A u \in Threads : Active(u)' <=> Active(u)
    BY <1>2 DEF Active
  <1>4. Inodes'
    BY <1>1, <1>2, <1>3 DEF Safe, Inodes, Owned, Unborn, PartOf
  <1>5. AllSole'
    BY <1>1, <1>3 DEF Safe, AllSole, Sole
  <1>6. AllContent'
    <2> SUFFICES ASSUME NEW u \in Threads PROVE Content(u)'
      BY DEF AllContent
    <2>1. Content(u)
      BY DEF Safe, AllContent
    <2> QED
      BY <2>1, <1>1, <1>2, <1>3 DEF Content, Buffer
  <1>7. ExposedIsWhole'
    BY <1>1 DEF Safe, ExposedIsWhole
  <1> QED
    BY <1>4, <1>5, <1>6, <1>7 DEF Safe

\* The inode an active thread writes is neither exposed nor written by
\* another active thread, unless the command was shared.
LEMMA WriteAlone ==
    ASSUME TypeOK, Safe, NEW t \in Threads, Active(t)
    PROVE  /\ fd[t] \in Threads /\ cmd[fd[t]] = cmd[t]
           /\ cmd[t] \notin shared => fd[t] # final
           /\ \A u \in Threads : (u # t /\ Active(u) /\ cmd[u] \notin shared) => fd[u] # fd[t]
  <1>1. fd[t] \in Threads /\ cmd[fd[t]] = cmd[t]
    BY FileTransferAssumption DEF Safe, Inodes, Owned
  <1>2. cmd[t] \notin shared => fd[t] # final
    BY <1>1, FileTransferAssumption DEF Safe, Inodes, PartOf, AllSole, Sole, TypeOK
  <1>3. ASSUME NEW u \in Threads, u # t, Active(u), cmd[u] \notin shared, fd[u] = fd[t]
        PROVE  FALSE
    <2>1. cmd[fd[u]] = cmd[u]
      BY <1>3, FileTransferAssumption DEF Safe, Inodes, Owned
    <2>2. cmd[u] = cmd[t]
      BY <1>1, <1>3, <2>1
    <2> QED
      BY <1>3, <2>2 DEF Safe, AllSole, Sole
  <1> QED
    BY <1>1, <1>2, <1>3

\* A received chunk goes to the buffer, the one before it to the inode.
LEMMA ReceivesSafe ==
    ASSUME TypeOK, Safe, NEW t \in Threads, Receives(t)
    PROVE  Safe'
  <1>1. UNCHANGED <<part, final, shared, unflushed, fd, cmd, pc>>
    BY DEF Receives
  <1>2. Active(t) /\ pc[t] = "receive"
    BY DEF Receives, Active
  <1>3. \A u \in Threads : Active(u)' <=> Active(u)
    BY <1>1 DEF Active
  <1>4. \A u \in Threads : u # t => got'[u] = got[u] /\ held'[u] = held[u]
    BY DEF Receives, TypeOK
  <1>5. got'[t] = got[t] + 1 /\ held'[t] = got[t] + 1
    BY DEF Receives, TypeOK
  <1>6. fd[t] \in Threads
    BY <1>2, WriteAlone
  <1>7. /\ data'[fd[t]] = data[fd[t]] \cup Buffer(held[t])
        /\ \A i \in Threads : i # fd[t] => data'[i] = data[i]
    BY <1>6 DEF Receives, Flushed, Buffer, TypeOK
  <1>8. Inodes'
    BY <1>1, <1>2, <1>3, <1>4 DEF Safe, Inodes, Owned, Unborn, PartOf
  <1>9. AllSole'
    BY <1>1, <1>3 DEF Safe, AllSole, Sole
  <1>10. AllContent'
    <2> SUFFICES ASSUME NEW u \in Threads, Active(u), cmd[u] \notin shared PROVE Content(u)'
      BY <1>1, <1>3 DEF AllContent, Content
    <2>1. Content(u)
      BY DEF Safe, AllContent
    <2>2. CASE u # t
      <3>1. fd[u] \in Threads /\ fd[u] # fd[t]
        BY <1>2, <2>2, WriteAlone
      <3> QED
        BY <1>1, <1>3, <1>4, <1>7, <2>1, <2>2, <3>1 DEF Content
    <2>3. CASE u = t
      <3>1. data'[fd[t]] = 1 .. got[t]
        BY <1>2, <1>7, <2>1, <2>3 DEF Content
      <3>2. Buffer(held'[t]) = {got[t] + 1}
        BY <1>5 DEF Buffer, TypeOK
      <3>3. 1 .. (got[t] + 1) = (1 .. got[t]) \cup {got[t] + 1}
        BY DEF TypeOK
      <3>4. data'[fd[t]] \cup Buffer(held'[t]) = 1 .. got'[t]
        BY <1>5, <3>1, <3>2, <3>3
      <3> QED
        BY <1>1, <1>2, <2>3, <3>4 DEF Content
    <2> QED
      BY <2>2, <2>3
  <1>11. ExposedIsWhole'
    <2>1. CASE fd[t] = final
      BY <1>1, <1>2, <2>1, WriteAlone DEF ExposedIsWhole
    <2>2. CASE fd[t] # final
      BY <1>1, <1>7, <2>2 DEF Safe, ExposedIsWhole, TypeOK
    <2> QED
      BY <2>1, <2>2
  <1> QED
    BY <1>8, <1>9, <1>10, <1>11 DEF Safe

\* What a thread does to the inodes when it closes its file: the buffer goes
\* to its own inode, or that inode is known to be short.
Flushes(t) ==
    \/ data' = Flushed(t) /\ UNCHANGED unflushed
    \/ unflushed' = unflushed \cup {fd[t]} /\ UNCHANGED data
    \/ UNCHANGED <<data, unflushed>>

\* Closing touches no inode but the one of the thread.
LEMMA FlushesOne ==
    ASSUME TypeOK, Safe, NEW t \in Threads, Active(t), Flushes(t)
    PROVE  /\ \A i \in Threads : i # fd[t] =>
                 data'[i] = data[i] /\ (i \in unflushed' <=> i \in unflushed)
           /\ unflushed \subseteq unflushed'
  <1>1. fd[t] \in Threads
    BY WriteAlone
  <1>2. CASE data' = Flushed(t) /\ UNCHANGED unflushed
    BY <1>1, <1>2 DEF Flushed, TypeOK
  <1>3. CASE unflushed' = unflushed \cup {fd[t]} /\ UNCHANGED data
    BY <1>3
  <1>4. CASE UNCHANGED <<data, unflushed>>
    BY <1>4
  <1> QED
    BY <1>2, <1>3, <1>4 DEF Flushes

\* What is exposed stays whole when a thread closes its file.
LEMMA FlushesExposed ==
    ASSUME TypeOK, Safe, NEW t \in Threads, Active(t), Flushes(t),
           UNCHANGED <<final, shared, cmd>>
    PROVE  ExposedIsWhole'
  <1>1. CASE fd[t] = final
    BY <1>1, WriteAlone DEF ExposedIsWhole
  <1>2. CASE fd[t] # final
    <2>1. final # None => /\ data'[final] = data[final]
                          /\ final \in unflushed' <=> final \in unflushed
      BY <1>2, FlushesOne DEF TypeOK
    <2> QED
      BY <2>1 DEF Safe, ExposedIsWhole
  <1> QED
    BY <1>1, <1>2

\* A closed file holds what was received, or its inode is known to be short.
LEMMA ClosesSafe ==
    ASSUME TypeOK, Safe, NEW t \in Threads, Closes(t)
    PROVE  Safe'
  <1>1. UNCHANGED <<part, final, shared, got, fd, cmd>>
    BY DEF Closes
  <1>2. Active(t) /\ pc[t] = "close" /\ Flushes(t)
    BY DEF Closes, Active, Flushes
  <1>3. /\ pc'[t] = "verify"
        /\ \A u \in Threads : u # t => pc'[u] = pc[u] /\ held'[u] = held[u]
    BY DEF Closes, TypeOK
  <1>4. \A u \in Threads : Active(u)' <=> Active(u)
    BY <1>2, <1>3 DEF Active
  <1>5. Inodes'
    BY <1>1, <1>3, <1>4 DEF Safe, Inodes, Owned, Unborn, PartOf
  <1>6. AllSole'
    BY <1>1, <1>4 DEF Safe, AllSole, Sole
  <1>7. AllContent'
    <2> SUFFICES ASSUME NEW u \in Threads, Active(u), cmd[u] \notin shared PROVE Content(u)'
      BY <1>1, <1>4 DEF AllContent, Content
    <2>1. Content(u)
      BY DEF Safe, AllContent
    <2>2. CASE u # t
      <3>1. fd[u] \in Threads /\ fd[u] # fd[t]
        BY <1>2, <2>2, WriteAlone
      <3>2. /\ data'[fd[u]] = data[fd[u]]
            /\ fd[u] \in unflushed' <=> fd[u] \in unflushed
        BY <1>2, <3>1, FlushesOne
      <3> QED
        BY <1>1, <1>3, <1>4, <2>1, <2>2, <3>2 DEF Content
    <2>3. CASE u = t
      <3>1. data[fd[t]] \cup Buffer(held[t]) = 1 .. got[t]
        BY <1>2, <2>1, <2>3 DEF Content
      <3>2. fd[t] \in Threads
        BY <1>2, WriteAlone
      <3>3. data' = Flushed(t) => data'[fd[t]] = data[fd[t]] \cup Buffer(held[t])
        BY <3>2 DEF Flushed, Buffer, TypeOK
      <3>4. data' = Flushed(t) \/ fd[t] \in unflushed'
        BY DEF Closes
      <3>5. fd[t] \in unflushed' \/ data'[fd[t]] = 1 .. got[t]
        BY <3>1, <3>3, <3>4, Zenon
      <3> QED
        BY <1>1, <1>3, <2>3, <3>5 DEF Content
    <2> QED
      BY <2>2, <2>3
  <1>8. ExposedIsWhole'
    BY <1>1, <1>2, FlushesExposed
  <1> QED
    BY <1>5, <1>6, <1>7, <1>8 DEF Safe

\* A thread that ends takes the .part path with it; what it exposes is whole.
LEMMA LeavesSafe ==
    ASSUME TypeOK, Safe, NEW t \in Threads, Leaves(t)
    PROVE  Safe'
  <1>1. UNCHANGED <<shared, got, fd, cmd>> /\ Active(t)
    BY DEF Leaves
  <1>2. Flushes(t) /\ final' \in {final, part[cmd[t]]}
    BY DEF Leaves, Flushes
  <1>3. /\ pc'[t] = "done"
        /\ \A u \in Threads : u # t => pc'[u] = pc[u] /\ held'[u] = held[u]
    BY DEF Leaves, TypeOK
  <1>4. /\ \A u \in Threads : u # t => (Active(u)' <=> Active(u))
        /\ ~Active(t)'
    BY <1>3 DEF Active
  <1>5. /\ part'[cmd[t]] = None
        /\ \A c \in Commands : c # cmd[t] => part'[c] = part[c]
    BY DEF Leaves, TypeOK
  <1>6. Inodes'
    <2>1. \A u \in Threads : Owned(u)'
      BY <1>1, <1>4 DEF Safe, Inodes, Owned
    <2>2. ASSUME NEW u \in Threads PROVE Unborn(u)'
      <3>1. Unborn(u) /\ cmd[t] \in Commands
        BY DEF Safe, Inodes, TypeOK
      <3>2. \A c \in Commands : part'[c] # u \/ part'[c] = part[c]
        BY <1>5, FileTransferAssumption
      <3> QED
        BY <1>1, <1>2, <1>3, <3>1, <3>2 DEF Unborn
    <2>3. ASSUME NEW c \in Commands, part'[c] # None PROVE cmd'[part'[c]] = c /\ part'[c] # final'
      <3>1. c # cmd[t] /\ part'[c] = part[c]
        BY <1>5, <2>3
      <3>2. cmd[part[c]] = c /\ part[c] # final
        BY <2>3, <3>1 DEF Safe, Inodes, PartOf
      <3>3. part[cmd[t]] # None => cmd[part[cmd[t]]] = cmd[t]
        BY DEF Safe, Inodes, PartOf, TypeOK
      <3> QED
        BY <1>1, <1>2, <2>3, <3>1, <3>2, <3>3
    <2> QED
      BY <2>1, <2>2, <2>3 DEF Inodes, PartOf
  <1>7. ASSUME NEW u \in Threads, Active(u)', cmd[u] \notin shared
        PROVE  u # t /\ Active(u) /\ cmd[u] # cmd[t]
    BY <1>1, <1>4, <1>7 DEF Safe, AllSole, Sole
  <1>8. AllSole'
    <2> SUFFICES ASSUME NEW u \in Threads, Active(u)', cmd[u] \notin shared
                 PROVE  /\ part'[cmd[u]] = fd[u]
                        /\ \A v \in Threads : (Active(v)' /\ cmd[v] = cmd[u]) => v = u
      BY <1>1 DEF AllSole, Sole
    <2>1. u # t /\ Active(u) /\ cmd[u] # cmd[t]
      BY <1>7
    <2>2. /\ part[cmd[u]] = fd[u]
          /\ \A v \in Threads : (Active(v) /\ cmd[v] = cmd[u]) => v = u
      BY <2>1 DEF Safe, AllSole, Sole
    <2> QED
      BY <1>4, <1>5, <2>1, <2>2 DEF TypeOK
  <1>9. AllContent'
    <2> SUFFICES ASSUME NEW u \in Threads, Active(u)', cmd[u] \notin shared PROVE Content(u)'
      BY <1>1 DEF AllContent, Content
    <2>1. Content(u) /\ u # t /\ Active(u)
      BY <1>7 DEF Safe, AllContent
    <2>2. fd[u] \in Threads /\ fd[u] # fd[t]
      BY <1>1, <2>1, WriteAlone
    <2>3. data'[fd[u]] = data[fd[u]] /\ (fd[u] \in unflushed' <=> fd[u] \in unflushed)
      BY <1>1, <1>2, <2>2, FlushesOne
    <2> QED
      BY <1>1, <1>3, <2>1, <2>3 DEF Content
  <1>10. ExposedIsWhole'
    <2>1. CASE UNCHANGED final
      BY <1>1, <1>2, <2>1, FlushesExposed
    <2>2. CASE /\ pc[t] = "rename" /\ part[cmd[t]] # None /\ final' = part[cmd[t]]
               /\ UNCHANGED <<data, unflushed>>
      <3>1. CASE cmd[t] \in shared
        BY <1>1, <2>2, <3>1 DEF Safe, Inodes, PartOf, ExposedIsWhole, TypeOK
      <3>2. CASE cmd[t] \notin shared
        <4>1. final' = fd[t] /\ cmd[fd[t]] = cmd[t]
          BY <1>1, <2>2, <3>2 DEF Safe, AllSole, Sole, Inodes, PartOf, TypeOK
        <4>2. cmd[t] \in Digested => fd[t] \in unflushed \/ data[fd[t]] = 1 .. Chunks
          BY <1>1, <2>2, <3>2 DEF Safe, AllContent, Content
        <4> QED
          BY <1>1, <2>2, <4>1, <4>2 DEF ExposedIsWhole, Whole
      <3> QED
        BY <3>1, <3>2
    <2> QED
      BY <2>1, <2>2 DEF Leaves
  <1> QED
    BY <1>6, <1>8, <1>9, <1>10 DEF Safe

\* A thread that opens its .part file has it for itself, or the command is
\* recorded as shared.
LEMMA OpenSafe ==
    ASSUME TypeOK, Safe, NEW t \in Threads, OpenPart(t)
    PROVE  Safe'
  <1> DEFINE c == cmd[t]
             i == IF part[c] = None THEN t ELSE part[c]
  <1>1. /\ c \in Commands /\ i \in Threads /\ cmd[i] = c /\ i # final
        /\ pc[t] = "idle" /\ got[t] = 0 /\ held[t] = 0
    BY FileTransferAssumption DEF OpenPart, TypeOK, Safe, Inodes, Unborn, PartOf
  <1>2. /\ part' = [part EXCEPT ![c] = i] /\ fd' = [fd EXCEPT ![t] = i]
        /\ data' = [data EXCEPT ![i] = {}] /\ unflushed' = unflushed \ {i}
        /\ pc' = [pc EXCEPT ![t] = "connect"]
        /\ UNCHANGED <<final, got, held, cmd>>
    BY Zenon DEF OpenPart
  <1>2a. shared' = IF \E u \in Threads : fd[u] = i /\ Active(u)
                   THEN shared \cup {c} ELSE shared
    BY Zenon DEF OpenPart
  <1> HIDE DEF c, i
  <1>2b. UNCHANGED <<final, got, held, cmd>>
    BY <1>2
  <1>3. /\ shared \subseteq shared' /\ shared' \subseteq shared \cup {c}
        /\ (\E u \in Threads : fd[u] = i /\ Active(u)) => c \in shared'
    BY <1>2a
  <1>4. /\ \A u \in Threads : u # t => pc'[u] = pc[u] /\ fd'[u] = fd[u]
        /\ pc'[t] = "connect" /\ fd'[t] = i
    BY <1>2 DEF TypeOK
  <1>4a. part'[c] = i /\ \A d \in Commands : d # c => part'[d] = part[d]
    BY <1>1, <1>2 DEF TypeOK
  <1>4b. /\ \A j \in Threads : j # i =>
              data'[j] = data[j] /\ (j \in unflushed' <=> j \in unflushed)
         /\ data'[i] = {}
    BY <1>1, <1>2 DEF TypeOK
  <1>5. \A u \in Threads : u # t => (Active(u)' <=> Active(u))
    BY <1>4 DEF Active
  <1>6. Active(t)' /\ ~Active(t)
    BY <1>1, <1>4 DEF Active
  <1>7. ASSUME NEW u \in Threads, u # t, Active(u), cmd[u] = c PROVE c \in shared'
    <2>1. CASE c \in shared
      BY <1>3, <2>1
    <2>2. CASE c \notin shared
      <3>1. part[c] = fd[u] /\ fd[u] \in Threads
        BY <1>7, <2>2 DEF Safe, AllSole, Sole, Inodes, Owned
      <3>2. fd[u] = i
        BY <3>1, FileTransferAssumption DEF i
      <3> QED
        BY <1>3, <1>7, <3>2
    <2> QED
      BY <2>1, <2>2
  <1>8. Inodes'
    <2>1. \A u \in Threads : Owned(u)'
      BY <1>1, <1>2b, <1>4, <1>5, <1>6 DEF Safe, Inodes, Owned, c
    <2>2. ASSUME NEW u \in Threads, pc'[u] = "idle" PROVE Unborn(u)'
      <3>1. u # t /\ Unborn(u) /\ pc[u] = "idle"
        BY <1>4, <2>2 DEF Safe, Inodes
      <3>2. i # u
        BY <1>1, <3>1 DEF Unborn, i
      <3> QED
        BY <1>2b, <1>4, <1>4a, <3>1, <3>2 DEF Unborn
    <2>3. ASSUME NEW d \in Commands PROVE PartOf(d)'
      BY <1>1, <1>2b, <1>4a DEF Safe, Inodes, PartOf
    <2> QED
      BY <2>1, <2>2, <2>3 DEF Inodes, Unborn
  <1>9. AllSole'
    <2> SUFFICES ASSUME NEW u \in Threads, Active(u)', cmd[u] \notin shared'
                 PROVE  /\ part'[cmd[u]] = fd'[u]
                        /\ \A v \in Threads : (Active(v)' /\ cmd[v] = cmd[u]) => v = u
      BY <1>2 DEF AllSole, Sole
    <2>1. CASE u = t
      BY <1>4, <1>4a, <1>5, <1>7, <2>1 DEF c
    <2>2. CASE u # t
      <3>1. Active(u) /\ cmd[u] # c /\ cmd[u] \notin shared
        BY <1>3, <1>5, <1>7, <2>2
      <3>2. /\ part[cmd[u]] = fd[u]
            /\ \A v \in Threads : (Active(v) /\ cmd[v] = cmd[u]) => v = u
        BY <3>1 DEF Safe, AllSole, Sole
      <3> QED
        BY <1>4, <1>4a, <1>5, <1>6, <2>2, <3>1, <3>2 DEF TypeOK, c
    <2> QED
      BY <2>1, <2>2
  <1>10. AllContent'
    <2> SUFFICES ASSUME NEW u \in Threads, Active(u)', cmd[u] \notin shared' PROVE Content(u)'
      BY <1>2 DEF AllContent, Content
    <2>1. CASE u = t
      <3>1. data'[fd'[t]] \cup Buffer(held'[t]) = 1 .. got'[t]
        <4>1. data'[fd'[t]] = {} /\ held'[t] = 0 /\ got'[t] = 0
          BY <1>1, <1>2b, <1>4, <1>4b
        <4>2. Buffer(0) = {} /\ 1 .. 0 = {}
          BY DEF Buffer
        <4> QED
          BY <4>1, <4>2
      <3> QED
        BY <1>4, <2>1, <3>1, Zenon DEF Content
    <2>2. CASE u # t
      <3>1. Active(u) /\ cmd[u] # c /\ cmd[u] \notin shared
        BY <1>3, <1>5, <1>7, <2>2
      <3>2. fd[u] \in Threads /\ cmd[fd[u]] = cmd[u]
        BY <3>1, FileTransferAssumption DEF Safe, Inodes, Owned
      <3>3. fd[u] # i
        BY <1>1, <3>1, <3>2
      <3>4. Content(u)
        BY DEF Safe, AllContent
      <3> QED
        BY <1>2b, <1>4, <1>4b, <2>2, <3>1, <3>2, <3>3, <3>4 DEF Content
    <2> QED
      BY <2>1, <2>2
  <1>11. ExposedIsWhole'
    BY <1>1, <1>2b, <1>3, <1>4b DEF Safe, ExposedIsWhole, TypeOK
  <1> QED
    BY <1>8, <1>9, <1>10, <1>11 DEF Safe

-----------------------------------------------------------------------------
\* Every step keeps the inductive invariant.
LEMMA StepInv == IInv /\ [Next]_vars => IInv'
  <1> SUFFICES ASSUME IInv, [Next]_vars PROVE IInv'
    OBVIOUS
  <1>1. CASE UNCHANGED vars
    <2>1. Elsewhere
      BY <1>1 DEF Elsewhere, vars, local
    <2>2. TypeOK'
      BY <1>1, ZenonT(60) DEF IInv, TypeOK, vars, backend, disk, local
    <2> QED
      BY <2>1, <2>2, ElsewhereSafe DEF IInv
  <1>2. CASE Next
    <2>1. TypeOK'
      BY <1>2, TypeStep DEF IInv, Safe
    <2>2. Safe'
      BY <1>2, NextKinds, ElsewhereSafe, CrashSafe, MovesSafe, RefusesSafe, OpenSafe,
         ReceivesSafe, ClosesSafe, LeavesSafe DEF IInv
    <2> QED
      BY <2>1, <2>2 DEF IInv
  <1> QED
    BY <1>1, <1>2

\* The inductive invariant holds in every reachable state.
THEOREM Invariance == Spec => []IInv
  BY InitInv, StepInv, PTL DEF Spec

\* The variables keep their types, for any commands, threads and chunks.
THEOREM TypeCorrect == Spec => []TypeOK
  <1>1. IInv => TypeOK
    BY DEF IInv
  <1> QED
    BY <1>1, Invariance, PTL

\* For any number of concurrent deliveries, lost connections and crashes, the
\* file under the final name is whole, with the two exceptions of the code.
THEOREM WholeExposed == Spec => []ExposedIsWhole
  <1>1. IInv => ExposedIsWhole
    BY DEF IInv, Safe
  <1> QED
    BY <1>1, Invariance, PTL

\* For any number of threads, no way out of leo_file_transfer_run leaves a
\* .part file, as long as the agent is not stopped.
THEOREM PartRemoved == Spec => []NoPartLeft
  <1>1. Init => NoPartLeft
    BY DEF Init, NoPartLeft
  <1>2. ASSUME IInv, NoPartLeft, [Next]_vars PROVE NoPartLeft'
    <2>1. TypeOK
      BY <1>2 DEF IInv
    <2>2. CASE AgentCrash
      BY <2>2 DEF AgentCrash, NoPartLeft
    <2>3. crashed' = crashed \/ AgentCrash
      BY <1>2, ZenonT(60) DEF Next, Library, UploadContent, UploadRow, DeployFile, DeleteRow,
         DeleteContent, TokenExpires, Transfer, Refuse, OpenPart, NoConnection, Request, Answer,
         Receive, Completed, Close, Verify, Rename, TimesOut, vars
    <2>4. CASE UNCHANGED <<part, cmd, pc, crashed>>
      BY <1>2, <2>4 DEF NoPartLeft, Active
    <2>5. ASSUME NEW t \in Threads, crashed' = crashed,
                 Moves(t) \/ Refuses(t) \/ Receives(t) \/ Closes(t) \/ Verifies(t)
          PROVE  NoPartLeft'
      <3>1. UNCHANGED <<part, cmd>>
        BY <2>5 DEF Moves, Refuses, Receives, Closes, Verifies, disk
      <3>2. \A u \in Threads : Active(u) => Active(u)'
        BY <2>1, <2>5 DEF Moves, Refuses, Receives, Closes, Verifies, Active, TypeOK
      <3> QED
        BY <1>2, <2>5, <3>1, <3>2 DEF NoPartLeft
    <2>6. ASSUME NEW t \in Threads, crashed' = crashed, OpenPart(t) PROVE NoPartLeft'
      <3>1. /\ cmd' = cmd /\ Active(t)'
            /\ \A u \in Threads : Active(u) => Active(u)'
            /\ \A c \in Commands : c # cmd[t] => part'[c] = part[c]
        BY <2>1, <2>6 DEF OpenPart, Active, TypeOK
      <3> QED
        BY <1>2, <2>6, <3>1 DEF NoPartLeft
    <2>7. ASSUME NEW t \in Threads, crashed' = crashed, Leaves(t) PROVE NoPartLeft'
      <3>1. /\ cmd' = cmd /\ part'[cmd[t]] = None
            /\ \A u \in Threads : (u # t /\ Active(u)) => Active(u)'
            /\ \A c \in Commands : c # cmd[t] => part'[c] = part[c]
        BY <2>1, <2>7 DEF Leaves, Active, TypeOK
      <3> QED
        BY <1>2, <2>7, <3>1 DEF NoPartLeft
    <2>8. CASE Elsewhere /\ crashed' = crashed
      BY <2>4, <2>8 DEF Elsewhere, disk
    <2>9. CASE UNCHANGED vars
      BY <2>4, <2>9 DEF vars, disk
    <2> QED
      BY <1>2, <2>2, <2>3, <2>5, <2>6, <2>7, <2>8, <2>9, NextKinds
  <1> QED
    BY <1>1, <1>2, Invariance, PTL DEF Spec

-----------------------------------------------------------------------------
(* Tokens *)

\* A download starts with the token of its command, which no other has used.
LEMMA TokenStep == TypeOK /\ TokenInv /\ [Next]_vars => TokenInv'
  <1> SUFFICES ASSUME TypeOK, TokenInv, [Next]_vars PROVE TokenInv'
    OBVIOUS
  <1>1. ASSUME cmd' = cmd,
               \A t \in Threads : Served(t)' => Served(t),
               \A c \in Commands : token[c] \in {"used", "gone"} => token'[c] \in {"used", "gone"}
        PROVE  TokenInv'
    BY <1>1 DEF TokenInv, TypeOK
  <1>2. ASSUME NEW c \in Commands, Library(c) PROVE TokenInv'
    <2>1. UNCHANGED <<cmd, pc, status>>
      BY <1>2, ZenonT(60) DEF Library, UploadContent, UploadRow, DeployFile, DeleteRow,
         DeleteContent, TokenExpires, local
    <2>2. \A d \in Commands : token[d] \in {"used", "gone"} => token'[d] \in {"used", "gone"}
      BY <1>2 DEF TypeOK, Library, UploadContent, UploadRow, DeployFile, DeleteRow,
         DeleteContent, TokenExpires
    <2> QED
      BY <1>1, <2>1, <2>2 DEF Served
  <1>3. ASSUME NEW t \in Threads, Request(t) PROVE TokenInv'
    <2>1. CASE ConsumeDownloadToken(t) /\ pc' = [pc EXCEPT ![t] = "open"]
      <3>1. UNCHANGED <<cmd, status>> /\ token[cmd[t]] = "fresh"
        BY <1>3, <2>1 DEF Request, ConsumeDownloadToken
      <3>2. \A u \in Threads : cmd[u] = cmd[t] => ~Served(u)
        BY <3>1 DEF TokenInv
      <3>3. \A u \in Threads : u # t => (Served(u)' <=> Served(u))
        BY <2>1, <3>1 DEF Served, TypeOK
      <3>4. /\ token'[cmd[t]] = "used"
            /\ \A c \in Commands : c # cmd[t] => token'[c] = token[c]
        BY <2>1 DEF ConsumeDownloadToken, TypeOK
      <3> QED
        BY <3>1, <3>2, <3>3, <3>4 DEF TokenInv, TypeOK
    <2>2. CASE EndLoop(t, TRUE) /\ UNCHANGED token
      <3>1. UNCHANGED <<cmd, status>>
        BY <1>3 DEF Request
      <3>2. \A u \in Threads : Served(u)' => Served(u)
        BY <2>2, <3>1 DEF EndLoop, Served, TypeOK
      <3> QED
        BY <1>1, <2>2, <3>1, <3>2
    <2> QED
      BY <1>3, <2>1, <2>2, Zenon DEF Request
  <1>4. ASSUME NEW t \in Threads, Answer(t) PROVE TokenInv'
    <2>1. UNCHANGED <<cmd, token>>
      BY <1>4 DEF Answer, backend
    <2>2. \A u \in Threads : Served(u)' => Served(u)
      BY <1>4 DEF Answer, EndLoop, Served, TypeOK
    <2> QED
      BY <1>1, <2>1, <2>2
  <1>5. ASSUME UNCHANGED <<cmd, token, status>>,
               \A t \in Threads : pc'[t] = "open" => pc[t] = "open"
        PROVE  TokenInv'
    BY <1>1, <1>5 DEF Served
  <1>6. ASSUME NEW t \in Threads, TimesOut(t) \/ (Transfer(t) /\ ~Request(t) /\ ~Answer(t))
        PROVE  TokenInv'
    <2>1. UNCHANGED <<cmd, token, status>>
      BY <1>6, ZenonT(60) DEF Transfer, TimesOut, Refuse, OpenPart, NoConnection, Receive,
         Completed, Close, Verify, Rename, backend
    <2>2. \/ UNCHANGED pc
          \/ \E s \in {"connect", "close", "verify", "rename", "done"} : pc' = [pc EXCEPT ![t] = s]
      BY <1>6, ZenonT(60) DEF Transfer, TimesOut, Refuse, RefuseName, RefuseUrl, NoWorkdir,
         OpenPart, NoConnection, Receive, Completed, Close, Verify, Rename, Abandon, Return, EndLoop
    <2>3. \A u \in Threads : pc'[u] = "open" => pc[u] = "open"
      BY <2>2 DEF TypeOK
    <2> QED
      BY <1>5, <2>1, <2>3
  <1>7. CASE AgentCrash
    BY <1>5, <1>7 DEF AgentCrash, backend, local, TypeOK
  <1>8. CASE UNCHANGED vars
    BY <1>5, <1>8 DEF vars, backend, local
  <1> QED
    BY <1>2, <1>3, <1>4, <1>6, <1>7, <1>8 DEF Next

\* For any number of deliveries of a command, at most one of them is served
\* the file: the UPDATE of ConsumeDownloadToken is the only way past "fresh".
THEOREM OneDownload == Spec => []TokenServesOnce
  <1>1. Init => TokenInv
    BY DEF Init, All, TokenInv, Served
  <1>2. IInv => TypeOK
    BY DEF IInv
  <1>3. TokenInv => TokenServesOnce
    BY DEF TokenInv, Served, TokenServesOnce
  <1> QED
    BY <1>1, <1>2, <1>3, TokenStep, Invariance, PTL DEF Spec
=============================================================================
