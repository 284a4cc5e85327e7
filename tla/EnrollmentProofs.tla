-------------------------- MODULE EnrollmentProofs --------------------------
(***************************************************************************)
(* Proofs about enrollment, for any machines, tokens, requests and quota.  *)
(*                                                                         *)
(* On the server a row of agents belongs to a request that has passed its  *)
(* INSERT and holds the machine of that request, and an answered request   *)
(* has its certificate unless its agent was deleted (Answers).  A machine  *)
(* waits for, and takes its identity from, a request of its own (Mine), of *)
(* which it writes the certificate, then the key, then agent.conf          *)
(* (Written).  While the agent of its configuration has a row, no other    *)
(* request of the machine passes the INSERT: an enrollment beside that     *)
(* configuration has no answer, and writes no file.                        *)
(***************************************************************************)
EXTENDS Enrollment, TLAPS

Fresh == {"idle", "lookup", "find", "quota", "create"}
Writing == {"cert", "key", "conf", "remove", "running"}

Answers(r) ==
    /\ req[r] \in Fresh => r \notin created
    /\ row[r] # None => r \in created /\ row[r] = reqHw[r]
    /\ req[r] = "answered" => \/ row[r] = reqHw[r] /\ r \in certs
                              \/ row[r] = None /\ r \in created

Mine(m) ==
    /\ proc[m] \in Writing \cup {"wait"} =>
          cur[m] \in Requests /\ reqHw[cur[m]] = m /\ req[cur[m]] # "idle"
    /\ proc[m] \in Writing => req[cur[m]] = "answered"
    /\ disk[m]["conf"] \in Requests =>
          reqHw[disk[m]["conf"]] = m /\ req[disk[m]["conf"]] = "answered"

\* The machine has a configuration whose agent has a row.
Live(m) == disk[m]["conf"] \in Requests /\ row[disk[m]["conf"]] # None

Written(m) ==
    /\ proc[m] \in Writing \cup {"wait"} /\ Live(m) /\ cur[m] # disk[m]["conf"] =>
          cur[m] \notin created
    /\ proc[m] \in {"key", "conf", "remove"} => disk[m]["cert"] \in {cur[m], Truncated}
    /\ proc[m] \in {"conf", "remove"} => disk[m]["key"] \in {cur[m], Truncated}
    /\ proc[m] = "running" /\ row[cur[m]] # None =>
          /\ disk[m]["cert"] \in {cur[m], Truncated}
          /\ disk[m]["key"] \in {cur[m], Truncated}
    /\ Live(m) =>
          /\ disk[m]["cert"] \in {disk[m]["conf"], Truncated}
          /\ disk[m]["key"] \in {disk[m]["conf"], Truncated}

AllAnswers == \A r \in Requests : Answers(r)
AllMine == \A m \in Machines : Mine(m)
AllWritten == \A m \in Machines : Written(m)

IInv == TypeOK /\ AllAnswers /\ AllMine /\ AllWritten

\* A step of an administrator or of the server itself, outside the machines.
ServerStep ==
    \/ \E r \in Requests : EnrollStep(r) \/ DeleteAgent(r)
    \/ ServerCrash
    \/ \E t \in Tokens : CreateToken(t) \/ EndToken(t)

\* A step of a machine that sends nothing.
MachineStep(m) ==
    \/ Start(m) \/ LoadOrEnroll(m) \/ HttpDone(m) \/ HttpFailed(m)
    \/ SaveFiles(m) \/ RemoveBootstrap(m) \/ AgentCrash(m)
    \/ \E t \in Tokens : Install(m, t)

\* The three kinds of steps the proofs tell apart.
LEMMA NextCases ==
    Next => \/ ServerStep
            \/ \E m \in Machines : MachineStep(m) \/ \E r \in Requests : PostEnroll(m, r)
  BY Zenon DEF Next, ServerStep, MachineStep, AgentStep

\* Nothing is enrolled and no process runs at the start.
LEMMA InitInv == Init => IInv
  <1> SUFFICES ASSUME Init PROVE IInv
    OBVIOUS
  <1> USE EnrollmentAssumption
  <1>1. TypeOK
    BY DEF Init, TypeOK, Files, InProgress
  <1>2. AllAnswers
    BY DEF Init, AllAnswers, Answers
  <1>3. AllMine
    BY DEF Init, AllMine, Mine, Writing, Files
  <1>4. AllWritten
    BY DEF Init, AllWritten, Written, Writing, Live, Files
  <1> QED
    BY <1>1, <1>2, <1>3, <1>4 DEF IInv

-----------------------------------------------------------------------------
(* The steps of the server *)

\* No step of the server touches a machine, or what a request holds.
LEMMA ServerFrame == ServerStep => UNCHANGED <<agent, reqTok, reqHw>>
  BY ZenonT(60) DEF ServerStep, EnrollStep, LookupToken, FindByHardwareID, CheckQuota, CreateAgent,
     MarkUsed, StoreCertificate, DeleteAgent, ServerCrash, CreateToken, EndToken

\* A request that was sent stays sent, and an answer is final.
LEMMA AnswerStays ==
    ASSUME TypeOK, ServerStep, NEW q \in Requests
    PROVE  /\ req[q] # "idle" => req'[q] # "idle"
           /\ req[q] = "answered" => req'[q] = "answered"
  <1> USE DEF TypeOK
  <1>1. ASSUME NEW r \in Requests, EnrollStep(r)
        PROVE  /\ req[q] # "idle" => req'[q] # "idle"
               /\ req[q] = "answered" => req'[q] = "answered"
    <2>1. /\ req[r] # "answered"
          /\ \E s \in {"find", "quota", "create", "mark", "issue", "answered", "failed"} :
                req' = [req EXCEPT ![r] = s]
      BY <1>1, ZenonT(60) DEF EnrollStep, LookupToken, FindByHardwareID, CheckQuota, CreateAgent,
         InsertAgent, MarkUsed, StoreCertificate, Goto
    <2> QED
      BY <2>1
  <1>2. CASE ServerCrash
    BY <1>2 DEF ServerCrash, InProgress
  <1>3. CASE UNCHANGED req
    BY <1>3
  <1> QED
    BY <1>1, <1>2, <1>3 DEF ServerStep, DeleteAgent, CreateToken, EndToken

\* Every statement of the server keeps the types of the tables.
LEMMA ServerTypes == TypeOK /\ ServerStep => TypeOK'
  <1> SUFFICES ASSUME TypeOK, ServerStep PROVE TypeOK'
    OBVIOUS
  <1>1. UNCHANGED <<proc, cur, boot, disk, reqTok, reqHw>>
    BY ServerFrame DEF agent
  <1>2. req' \in [Requests -> InProgress \cup {"idle", "answered", "failed"}]
    <2>1. ASSUME NEW r \in Requests, EnrollStep(r)
          PROVE  req' \in [Requests -> InProgress \cup {"idle", "answered", "failed"}]
      <3>1. \E s \in {"find", "quota", "create", "mark", "issue", "answered", "failed"} :
                req' = [req EXCEPT ![r] = s]
        BY <2>1, ZenonT(60) DEF EnrollStep, LookupToken, FindByHardwareID, CheckQuota, CreateAgent,
           InsertAgent, MarkUsed, StoreCertificate, Goto
      <3> QED
        BY <3>1 DEF TypeOK, InProgress
    <2>2. CASE ServerCrash
      BY <2>2 DEF TypeOK, ServerCrash
    <2>3. CASE UNCHANGED req
      BY <2>3 DEF TypeOK
    <2> QED
      BY <2>1, <2>2, <2>3 DEF ServerStep, DeleteAgent, CreateToken, EndToken
  <1>3. tok' \in [Tokens -> {"absent", "valid", "used", "ended"}]
    <2>1. ASSUME NEW r \in Requests, EnrollStep(r)
          PROVE  tok' = tok \/ tok' = [tok EXCEPT ![reqTok[r]] = "used"]
      BY <2>1, ZenonT(60) DEF EnrollStep, LookupToken, FindByHardwareID, CheckQuota, CreateAgent,
         MarkUsed, StoreCertificate, db
    <2>2. \/ \E t : \E v \in {"valid", "ended", "used"} : tok' = [tok EXCEPT ![t] = v]
          \/ tok' = tok
      BY <2>1, ZenonT(60) DEF ServerStep, DeleteAgent, CreateToken, EndToken, ServerCrash, db
    <2>3. CASE tok' = tok
      BY <2>3 DEF TypeOK
    <2>4. CASE \E t : \E v \in {"valid", "ended", "used"} : tok' = [tok EXCEPT ![t] = v]
      <3>1. PICK t : \E v \in {"valid", "ended", "used"} : tok' = [tok EXCEPT ![t] = v]
        BY <2>4, Zenon
      <3> QED
        BY <3>1, Zenon DEF TypeOK
    <2> QED
      BY <2>2, <2>3, <2>4
  <1>4. /\ row' \in [Requests -> Machines \cup {None}]
        /\ certs' \subseteq Requests /\ created' \subseteq Requests
    <2>1. ASSUME NEW r \in Requests, EnrollStep(r)
          PROVE  /\ row' = row \/ row' = [row EXCEPT ![r] = reqHw[r]]
                 /\ certs' = certs \/ certs' = certs \cup {r}
                 /\ created' = created \/ created' = created \cup {r}
      BY <2>1, ZenonT(60) DEF EnrollStep, LookupToken, FindByHardwareID, CheckQuota, CreateAgent,
         InsertAgent, MarkUsed, StoreCertificate, db
    <2>2. CASE \E r \in Requests : EnrollStep(r)
      <3>1. PICK r \in Requests : EnrollStep(r)
        BY <2>2
      <3>2. row' \in [Requests -> Machines \cup {None}]
        <4>1. row' = row \/ row' = [row EXCEPT ![r] = reqHw[r]]
          BY <2>1, <3>1
        <4> QED
          BY <4>1 DEF TypeOK
      <3>3. certs' \subseteq Requests /\ created' \subseteq Requests
        <4>1. /\ certs' = certs \/ certs' = certs \cup {r}
              /\ created' = created \/ created' = created \cup {r}
          BY <2>1, <3>1
        <4> QED
          BY <4>1 DEF TypeOK
      <3> QED
        BY <3>2, <3>3
    <2>3. CASE \E r \in Requests : DeleteAgent(r)
      BY <2>3 DEF TypeOK, DeleteAgent
    <2>4. CASE UNCHANGED <<row, certs, created>>
      BY <2>4 DEF TypeOK
    <2> QED
      BY <2>2, <2>3, <2>4 DEF ServerStep, CreateToken, EndToken, ServerCrash, db
  <1> QED
    BY <1>1, <1>2, <1>3, <1>4 DEF TypeOK

\* An agent is created once, with the machine of its request, and the answer
\* comes after the certificate was stored.
LEMMA ServerAnswers == TypeOK /\ AllAnswers /\ ServerStep => AllAnswers'
  <1> SUFFICES ASSUME TypeOK, AllAnswers, ServerStep, NEW q \in Requests PROVE Answers(q)'
    BY DEF AllAnswers
  <1> USE DEF Answers, Fresh
  <1>0. Answers(q) /\ reqHw' = reqHw
    BY ServerFrame DEF AllAnswers
  <1>1. ASSUME NEW r \in Requests, EnrollStep(r) PROVE Answers(q)'
    <2>0. r \in DOMAIN req /\ r \in DOMAIN row /\ q \in DOMAIN req /\ q \in DOMAIN row
      BY DEF TypeOK
    <2>1. CASE LookupToken(r) \/ FindByHardwareID(r) \/ CheckQuota(r)
      BY <1>0, <2>0, <2>1 DEF LookupToken, FindByHardwareID, CheckQuota, Goto, db
    <2>2. CASE CreateAgent(r)
      BY <1>0, <2>0, <2>2 DEF CreateAgent, InsertAgent, Goto
    <2>3. CASE MarkUsed(r)
      BY <1>0, <2>0, <2>3 DEF MarkUsed, Goto
    <2>4. CASE StoreCertificate(r)
      BY <1>0, <2>0, <2>4 DEF StoreCertificate, Goto, AllAnswers
    <2> QED
      BY <1>1, <2>1, <2>2, <2>3, <2>4 DEF EnrollStep
  <1>2. ASSUME NEW r \in Requests, DeleteAgent(r) PROVE Answers(q)'
    BY <1>0, <1>2 DEF DeleteAgent, TypeOK
  <1>3. CASE ServerCrash
    BY <1>0, <1>3 DEF ServerCrash, InProgress, db
  <1>4. ASSUME NEW t \in Tokens, CreateToken(t) \/ EndToken(t) PROVE Answers(q)'
    BY <1>0, <1>4 DEF CreateToken, EndToken
  <1> QED
    BY <1>1, <1>2, <1>3, <1>4 DEF ServerStep

\* What the machines have stays theirs, and answered.
LEMMA ServerMine == TypeOK /\ AllMine /\ ServerStep => AllMine'
  <1> SUFFICES ASSUME TypeOK, AllMine, ServerStep, NEW m \in Machines PROVE Mine(m)'
    BY DEF AllMine
  <1>1. Mine(m) /\ UNCHANGED <<proc, cur, boot, disk, reqHw>>
    BY ServerFrame DEF AllMine, agent
  <1>2. \A q \in Requests : /\ req[q] # "idle" => req'[q] # "idle"
                            /\ req[q] = "answered" => req'[q] = "answered"
    BY AnswerStays
  <1> QED
    BY <1>1, <1>2 DEF Mine, Writing

\* A row appears only for a request that was not answered yet, and whose machine
\* has no other row.
LEMMA RowAppears ==
    ASSUME TypeOK, ServerStep, NEW q \in Requests
    PROVE  /\ req[q] = "answered" /\ row'[q] # None => row[q] = row'[q]
           /\ q \in created' => \/ q \in created
                                \/ req[q] = "create" /\ ~Registered(reqHw[q])
  <1> DEFINE Goal == /\ req[q] = "answered" /\ row'[q] # None => row[q] = row'[q]
                     /\ q \in created' => \/ q \in created
                                          \/ req[q] = "create" /\ ~Registered(reqHw[q])
  <1>1. ASSUME NEW r \in Requests, CreateAgent(r) PROVE Goal
    <2>1. /\ req[r] = "create"
          /\ \/ ~Registered(reqHw[r]) /\ row' = [row EXCEPT ![r] = reqHw[r]]
                                      /\ created' = created \cup {r}
             \/ UNCHANGED <<row, created>>
      BY <1>1, ZenonT(60) DEF CreateAgent, InsertAgent
    <2>2. CASE q = r
      BY <2>1, <2>2
    <2>3. CASE q # r
      <3>1. q \in DOMAIN row
        BY DEF TypeOK
      <3> QED
        BY <2>1, <2>3, <3>1
    <2> QED
      BY <2>2, <2>3
  <1>2. ASSUME NEW r \in Requests, DeleteAgent(r) PROVE Goal
    BY <1>2 DEF DeleteAgent, TypeOK
  <1>3. CASE UNCHANGED <<row, created>>
    BY <1>3
  <1>4. \/ \E r \in Requests : CreateAgent(r) \/ DeleteAgent(r)
        \/ UNCHANGED <<row, created>>
    BY ZenonT(60) DEF ServerStep, EnrollStep, LookupToken, FindByHardwareID, CheckQuota,
       MarkUsed, StoreCertificate, ServerCrash, CreateToken, EndToken, db
  <1> QED
    BY <1>1, <1>2, <1>3, <1>4

\* The server writes no file of a machine, and answers no enrollment beside a
\* configuration whose agent it has.
LEMMA ServerWritten ==
    ASSUME TypeOK, AllAnswers, AllMine, AllWritten, ServerStep
    PROVE  AllWritten'
  <1> SUFFICES ASSUME NEW m \in Machines PROVE Written(m)'
    BY DEF AllWritten
  <1>1. /\ Mine(m) /\ Written(m) /\ UNCHANGED <<proc, cur, disk, reqHw>>
    BY ServerFrame DEF AllMine, AllWritten, agent
  <1> DEFINE a == disk[m]["conf"]
             c == cur[m]
  <1>2. Live(m)' => Live(m) /\ row'[a] # None /\ row[a] = m
    <2>1. ASSUME a \in Requests, row'[a] # None PROVE row[a] # None /\ row[a] = m
      <3>1. req[a] = "answered" /\ reqHw[a] = m /\ Answers(a)
        BY <1>1, <2>1 DEF Mine, AllAnswers
      <3>2. row[a] # None
        BY <2>1, <3>1, RowAppears
      <3> QED
        BY <3>1, <3>2 DEF Answers
    <2> QED
      BY <1>1, <2>1 DEF Live
  <1>3. ASSUME proc[m] \in Writing \cup {"wait"}, Live(m)', c # a, c \in created'
        PROVE  FALSE
    <2>1. c \in Requests /\ reqHw[c] = m
      BY <1>1, <1>3 DEF Mine
    <2>2. c \notin created /\ Registered(m)
      BY <1>1, <1>2, <1>3 DEF Written, Live, Registered
    <2> QED
      BY <1>3, <2>1, <2>2, RowAppears
  <1>4. ASSUME proc[m] = "running", row'[c] # None PROVE row[c] # None
    <2>1. c \in Requests /\ req[c] = "answered"
      BY <1>1, <1>4 DEF Mine, Writing
    <2> QED
      BY <1>4, <2>1, RowAppears
  <1>5. /\ (Live(m)' => /\ disk'[m]["cert"] \in {disk'[m]["conf"], Truncated}
                        /\ disk'[m]["key"] \in {disk'[m]["conf"], Truncated})
        /\ (proc'[m] = "running" /\ row'[cur'[m]] # None =>
               /\ disk'[m]["cert"] \in {cur'[m], Truncated}
               /\ disk'[m]["key"] \in {cur'[m], Truncated})
    BY <1>1, <1>2, <1>4 DEF Written
  <1> QED
    BY <1>1, <1>3, <1>5, ZenonT(60) DEF Written

-----------------------------------------------------------------------------
(* A machine sends its request *)

\* The fresh request is the machine's own; no other machine waits for it.
LEMMA PostInv ==
    ASSUME IInv, NEW m \in Machines, NEW r \in Requests, PostEnroll(m, r)
    PROVE  IInv'
  <1> USE DEF IInv
  <1>1. TypeOK'
    BY DEF TypeOK, PostEnroll, BuildRequest, Goto, At, InProgress, db
  <1>2. AllAnswers'
    <2> SUFFICES ASSUME NEW q \in Requests PROVE Answers(q)'
      BY DEF AllAnswers
    <2>1. Answers(q) /\ req[r] = "idle" /\ UNCHANGED <<row, certs, created>>
      BY DEF AllAnswers, PostEnroll, db
    <2>2. req' = [req EXCEPT ![r] = "lookup"] /\ reqHw' = [reqHw EXCEPT ![r] = m]
      BY DEF PostEnroll, BuildRequest, Goto
    <2> QED
      BY <2>1, <2>2 DEF Answers, Fresh, TypeOK
  <1>3. AllMine'
    <2> SUFFICES ASSUME NEW n \in Machines PROVE Mine(n)'
      BY DEF AllMine
    <2>1. Mine(n) /\ req[r] = "idle" /\ disk' = disk /\ proc[m] = "post"
      BY DEF AllMine, PostEnroll
    <2>2. /\ req' = [req EXCEPT ![r] = "lookup"] /\ reqHw' = [reqHw EXCEPT ![r] = m]
          /\ cur' = [cur EXCEPT ![m] = r] /\ proc' = [proc EXCEPT ![m] = "wait"]
      BY DEF PostEnroll, BuildRequest, Goto, At
    <2>3. CASE n = m
      BY <2>1, <2>2, <2>3 DEF Mine, Writing, TypeOK
    <2>4. CASE n # m
      BY <2>1, <2>2, <2>4 DEF Mine, Writing, TypeOK
    <2> QED
      BY <2>3, <2>4
  <1>4. AllWritten'
    <2> SUFFICES ASSUME NEW n \in Machines PROVE Written(n)'
      BY DEF AllWritten
    <2>1. Written(n) /\ UNCHANGED <<disk, row, created>> /\ r \notin created
      BY DEF AllWritten, PostEnroll, db, AllAnswers, Answers, Fresh
    <2>2. cur' = [cur EXCEPT ![m] = r] /\ proc' = [proc EXCEPT ![m] = "wait"]
      BY DEF PostEnroll, At
    <2>3. CASE n = m
      BY <2>1, <2>2, <2>3 DEF Written, Writing, Live, TypeOK
    <2>4. CASE n # m
      BY <2>1, <2>2, <2>4 DEF Written, Writing, Live, TypeOK
    <2> QED
      BY <2>3, <2>4
  <1> QED
    BY <1>1, <1>2, <1>3, <1>4

-----------------------------------------------------------------------------
(* The other steps of a machine *)

\* They leave the server alone, and the other machines.
LEMMA MachineFrame ==
    ASSUME TypeOK, NEW m \in Machines, MachineStep(m)
    PROVE  /\ UNCHANGED server
           /\ \A n \in Machines \ {m} :
                 proc'[n] = proc[n] /\ cur'[n] = cur[n] /\ disk'[n] = disk[n]
  <1> USE DEF TypeOK
  <1>1. CASE Start(m) \/ LoadOrEnroll(m) \/ RemoveBootstrap(m)
    BY <1>1 DEF Start, LoadOrEnroll, LoadConfig, Prepare, RemoveBootstrap, At, Exit
  <1>2. CASE HttpDone(m) \/ HttpFailed(m) \/ AgentCrash(m)
    BY <1>2 DEF HttpDone, Parse, HttpFailed, AgentCrash, At, Exit
  <1>3. CASE SaveFiles(m)
    <2>1. \/ Save(m, "cert", "key") \/ Save(m, "key", "conf") \/ Save(m, "conf", "remove")
      BY <1>3, Zenon DEF SaveFiles, SaveCertKey, SaveConfig
    <2>2. ASSUME NEW f \in Files, NEW s, Save(m, f, s)
          PROVE  \A n \in Machines \ {m} :
                    proc'[n] = proc[n] /\ cur'[n] = cur[n] /\ disk'[n] = disk[n]
      BY <2>2 DEF Save, At, Exit
    <2> QED
      BY <1>3, <2>1, <2>2 DEF SaveFiles, Files
  <1>4. CASE \E t \in Tokens : Install(m, t)
    BY <1>4 DEF Install
  <1> QED
    BY <1>1, <1>2, <1>3, <1>4 DEF MachineStep

\* What Save makes of the machine: the file holds the answer or is cut short
\* and leo_enroll goes on, or the file is as before or cut short and it ends.
LEMMA SaveEffect ==
    ASSUME TypeOK, NEW m \in Machines, NEW f \in Files, NEW s, Save(m, f, s)
    PROVE  /\ \A g \in Files \ {f} : disk'[m][g] = disk[m][g]
           /\ \/ /\ proc'[m] = s /\ cur'[m] = cur[m]
                 /\ disk'[m][f] \in {cur[m], Truncated}
              \/ /\ proc'[m] = "off" /\ cur'[m] = None
                 /\ disk'[m][f] \in {disk[m][f], Truncated}
  <1> USE DEF TypeOK
  <1>1. m \in DOMAIN disk /\ f \in DOMAIN disk[m] /\ m \in DOMAIN proc /\ m \in DOMAIN cur
    OBVIOUS
  <1>2. CASE /\ \E c \in {cur[m], Truncated} : disk' = [disk EXCEPT ![m][f] = c]
             /\ At(m, s) /\ UNCHANGED cur
    BY <1>1, <1>2 DEF At
  <1>3. CASE /\ \E c \in {disk[m][f], Truncated} : disk' = [disk EXCEPT ![m][f] = c]
             /\ Exit(m)
    BY <1>1, <1>3 DEF Exit
  <1> QED
    BY <1>2, <1>3 DEF Save

\* A step of a machine keeps its types.
LEMMA MachineTypes ==
    ASSUME TypeOK, AllMine, NEW m \in Machines, MachineStep(m)
    PROVE  TypeOK'
  <1>1. UNCHANGED <<tok, row, certs, req, reqTok, reqHw, created>>
    BY MachineFrame DEF server, db
  <1>2. CASE Start(m)
    BY <1>1, <1>2 DEF TypeOK, Start, At
  <1>3. CASE LoadOrEnroll(m)
    <2>1. /\ UNCHANGED <<boot, disk>>
          /\ \/ LoadConfig(m)
             \/ Exit(m)
             \/ At(m, "post") /\ UNCHANGED cur
      BY <1>3, Zenon DEF LoadOrEnroll, Prepare
    <2>2. CASE LoadConfig(m)
      BY <1>1, <2>1, <2>2 DEF TypeOK, LoadConfig, ValidConfig, At
    <2>3. CASE Exit(m) \/ (At(m, "post") /\ UNCHANGED cur)
      BY <1>1, <2>1, <2>3, ZenonT(60) DEF TypeOK, At, Exit
    <2> QED
      BY <2>1, <2>2, <2>3
  <1>4. CASE HttpDone(m) \/ HttpFailed(m) \/ AgentCrash(m)
    <2>1. UNCHANGED <<boot, disk>> /\ (Exit(m) \/ (At(m, "cert") /\ UNCHANGED cur))
      BY <1>4, Zenon DEF HttpDone, Parse, HttpFailed, AgentCrash
    <2> QED
      BY <1>1, <2>1, ZenonT(60) DEF TypeOK, At, Exit
  <1>5. CASE RemoveBootstrap(m)
    BY <1>1, <1>5 DEF TypeOK, RemoveBootstrap, At
  <1>6. ASSUME NEW t \in Tokens, Install(m, t) PROVE TypeOK'
    BY <1>1, <1>6 DEF TypeOK, Install, Files
  <1>7. CASE SaveFiles(m)
    <2>1. proc[m] \in Writing /\ UNCHANGED boot
      BY <1>7 DEF SaveFiles, SaveCertKey, SaveConfig, Writing
    <2>2. cur[m] \in Requests
      BY <2>1 DEF AllMine, Mine
    <2>3. \E f \in Files, s \in {"key", "conf", "remove"} : Save(m, f, s)
      BY <1>7, Zenon DEF SaveFiles, SaveCertKey, SaveConfig, Files
    <2>4. ASSUME NEW f \in Files, NEW s \in {"key", "conf", "remove"}, Save(m, f, s)
          PROVE  /\ proc' \in [Machines -> {"off", "load", "post", "wait",
                                           "cert", "key", "conf", "remove", "running"}]
                 /\ cur' \in [Machines -> Requests \cup {None}]
                 /\ disk' \in [Machines -> [Files -> Requests \cup {None, Truncated}]]
      <3>1. PICK c \in {cur[m], disk[m][f], Truncated} : disk' = [disk EXCEPT ![m][f] = c]
        BY <2>4, Zenon DEF Save
      <3>2. c \in Requests \cup {None, Truncated}
        BY <2>2, <3>1 DEF TypeOK
      <3>3. disk' \in [Machines -> [Files -> Requests \cup {None, Truncated}]]
        BY <3>1, <3>2 DEF TypeOK
      <3>4. \/ proc' = [proc EXCEPT ![m] = s] /\ cur' = cur
            \/ proc' = [proc EXCEPT ![m] = "off"] /\ cur' = [cur EXCEPT ![m] = None]
        BY <2>4, Zenon DEF Save, At, Exit
      <3> QED
        BY <3>3, <3>4, ZenonT(60) DEF TypeOK
    <2> QED
      BY <1>1, <2>1, <2>3, <2>4 DEF TypeOK
  <1> QED
    BY <1>2, <1>3, <1>4, <1>5, <1>6, <1>7 DEF MachineStep

\* The identity a machine takes is that of an answer to a request of its own.
LEMMA MachineMine ==
    ASSUME TypeOK, AllMine, NEW m \in Machines, MachineStep(m)
    PROVE  AllMine'
  <1> SUFFICES ASSUME NEW n \in Machines PROVE Mine(n)'
    BY DEF AllMine
  <1> USE DEF Writing
  <1>1. Mine(n) /\ UNCHANGED <<req, reqHw>>
    BY MachineFrame DEF AllMine, server
  <1>2. CASE n # m
    <2>1. proc'[n] = proc[n] /\ cur'[n] = cur[n] /\ disk'[n] = disk[n]
      BY <1>2, MachineFrame
    <2> QED
      BY <1>1, <2>1 DEF Mine
  <1>3. CASE n = m
    <2>1. CASE Start(m)
      BY <1>1, <1>3, <2>1 DEF Mine, Start, At, TypeOK
    <2>2. CASE LoadOrEnroll(m)
      BY <1>1, <1>3, <2>2 DEF Mine, LoadOrEnroll, LoadConfig, ValidConfig, Prepare, At, Exit, TypeOK
    <2>3. CASE HttpDone(m) \/ HttpFailed(m) \/ AgentCrash(m)
      BY <1>1, <1>3, <2>3 DEF Mine, HttpDone, Parse, HttpFailed, AgentCrash, At, Exit, TypeOK
    <2>4. CASE RemoveBootstrap(m)
      BY <1>1, <1>3, <2>4 DEF Mine, RemoveBootstrap, At, TypeOK
    <2>5. ASSUME NEW t \in Tokens, Install(m, t) PROVE Mine(n)'
      <3>1. UNCHANGED <<proc, cur>> /\ disk'[m]["conf"] \in {disk[m]["conf"], None}
        BY <2>5 DEF Install, TypeOK, Files
      <3> QED
        BY <1>1, <1>3, <3>1, EnrollmentAssumption DEF Mine
    <2>6. CASE SaveFiles(m)
      <3>1. CASE proc[m] \in {"cert", "key"}
        <4>1. \E f \in {"cert", "key"}, s \in {"key", "conf"} : Save(m, f, s)
          BY <2>6, <3>1 DEF SaveFiles, SaveCertKey, SaveConfig
        <4>2. /\ disk'[m]["conf"] = disk[m]["conf"]
              /\ \/ proc'[m] \in {"key", "conf"} /\ cur'[m] = cur[m]
                 \/ proc'[m] = "off"
          BY <4>1, SaveEffect DEF Files
        <4> QED
          BY <1>1, <1>3, <3>1, <4>2 DEF Mine
      <3>2. CASE proc[m] = "conf"
        <4>1. Save(m, "conf", "remove")
          BY <2>6, <3>2 DEF SaveFiles, SaveCertKey, SaveConfig
        <4>2. \/ /\ proc'[m] = "remove" /\ cur'[m] = cur[m]
                 /\ disk'[m]["conf"] \in {cur[m], Truncated}
              \/ proc'[m] = "off" /\ disk'[m]["conf"] \in {disk[m]["conf"], Truncated}
          BY <4>1, SaveEffect DEF Files
        <4> QED
          BY <1>1, <1>3, <3>2, <4>2, EnrollmentAssumption DEF Mine
      <3> QED
        BY <2>6, <3>1, <3>2 DEF SaveFiles, SaveCertKey, SaveConfig
    <2> QED
      BY <2>1, <2>2, <2>3, <2>4, <2>5, <2>6 DEF MachineStep
  <1> QED
    BY <1>2, <1>3

\* agent.conf is written last, and nothing is written beside one whose agent has
\* a row.
LEMMA MachineWritten ==
    ASSUME TypeOK, AllAnswers, AllMine, AllWritten, NEW m \in Machines, MachineStep(m)
    PROVE  AllWritten'
  <1> SUFFICES ASSUME NEW n \in Machines PROVE Written(n)'
    BY DEF AllWritten
  <1> USE DEF Writing, Live
  <1>1. Written(n) /\ UNCHANGED <<row, created>>
    BY MachineFrame DEF AllWritten, server, db
  <1>2. CASE n # m
    <2>1. proc'[n] = proc[n] /\ cur'[n] = cur[n] /\ disk'[n] = disk[n]
      BY <1>2, MachineFrame
    <2> QED
      BY <1>1, <2>1 DEF Written
  <1>3. CASE n = m
    <2>1. CASE Start(m)
      BY <1>1, <1>3, <2>1 DEF Written, Start, At, TypeOK
    <2>2. CASE LoadOrEnroll(m)
      BY <1>1, <1>3, <2>2 DEF Written, LoadOrEnroll, LoadConfig, ValidConfig, Prepare, At, Exit, TypeOK
    <2>3. CASE HttpDone(m) \/ HttpFailed(m) \/ AgentCrash(m)
      BY <1>1, <1>3, <2>3 DEF Written, HttpDone, Parse, HttpFailed, AgentCrash, At, Exit, TypeOK
    <2>4. CASE RemoveBootstrap(m)
      BY <1>1, <1>3, <2>4 DEF Written, RemoveBootstrap, At, TypeOK
    <2>5. ASSUME NEW t \in Tokens, Install(m, t) PROVE Written(n)'
      <3>1. /\ UNCHANGED <<proc, cur>> /\ proc[m] = "off"
            /\ disk'[m]["conf"] \in {disk[m]["conf"], None}
            /\ disk'[m]["cert"] = disk[m]["cert"] /\ disk'[m]["key"] = disk[m]["key"]
        BY <2>5 DEF Install, TypeOK, Files
      <3> QED
        BY <1>1, <1>3, <3>1, EnrollmentAssumption DEF Written
    <2>6. CASE SaveFiles(m)
      <3>0. cur[m] # disk[m]["conf"] => ~Live(m)
        <4>1. proc[m] \in Writing
          BY <2>6 DEF SaveFiles, SaveCertKey, SaveConfig
        <4>2. cur[m] \in Requests /\ req[cur[m]] = "answered" /\ reqHw[cur[m]] = m
          BY <4>1 DEF AllMine, Mine
        <4>3. cur[m] \in created
          BY <4>2, EnrollmentAssumption DEF AllAnswers, Answers
        <4> QED
          BY <1>1, <1>3, <4>1, <4>3 DEF Written
      <3>1. CASE proc[m] = "cert"
        <4>1. Save(m, "cert", "key")
          BY <2>6, <3>1 DEF SaveFiles, SaveCertKey, SaveConfig
        <4>2. /\ disk'[m]["conf"] = disk[m]["conf"] /\ disk'[m]["key"] = disk[m]["key"]
              /\ \/ /\ proc'[m] = "key" /\ cur'[m] = cur[m]
                    /\ disk'[m]["cert"] \in {cur[m], Truncated}
                 \/ proc'[m] = "off" /\ disk'[m]["cert"] \in {disk[m]["cert"], Truncated}
          BY <4>1, SaveEffect DEF Files
        <4> QED
          BY <1>1, <1>3, <3>0, <3>1, <4>2 DEF Written
      <3>2. CASE proc[m] = "key"
        <4>1. Save(m, "key", "conf")
          BY <2>6, <3>2 DEF SaveFiles, SaveCertKey, SaveConfig
        <4>2. /\ disk'[m]["conf"] = disk[m]["conf"] /\ disk'[m]["cert"] = disk[m]["cert"]
              /\ \/ /\ proc'[m] = "conf" /\ cur'[m] = cur[m]
                    /\ disk'[m]["key"] \in {cur[m], Truncated}
                 \/ proc'[m] = "off" /\ disk'[m]["key"] \in {disk[m]["key"], Truncated}
          BY <4>1, SaveEffect DEF Files
        <4> QED
          BY <1>1, <1>3, <3>0, <3>2, <4>2 DEF Written
      <3>3. CASE proc[m] = "conf"
        <4>1. Save(m, "conf", "remove")
          BY <2>6, <3>3 DEF SaveFiles, SaveCertKey, SaveConfig
        <4>2. /\ disk'[m]["key"] = disk[m]["key"] /\ disk'[m]["cert"] = disk[m]["cert"]
              /\ \/ /\ proc'[m] = "remove" /\ cur'[m] = cur[m]
                    /\ disk'[m]["conf"] \in {cur[m], Truncated}
                 \/ /\ proc'[m] = "off"
                    /\ disk'[m]["conf"] \in {disk[m]["conf"], Truncated}
          BY <4>1, SaveEffect DEF Files
        <4> QED
          BY <1>1, <1>3, <3>3, <4>2, EnrollmentAssumption DEF Written
      <3> QED
        BY <2>6, <3>1, <3>2, <3>3 DEF SaveFiles, SaveCertKey, SaveConfig
    <2> QED
      BY <2>1, <2>2, <2>3, <2>4, <2>5, <2>6 DEF MachineStep
  <1> QED
    BY <1>2, <1>3

-----------------------------------------------------------------------------
\* Every step keeps the inductive invariant.
LEMMA StepInv == IInv /\ [Next]_vars => IInv'
  <1> SUFFICES ASSUME IInv, [Next]_vars PROVE IInv'
    OBVIOUS
  <1>1. CASE ServerStep
    BY <1>1, ServerTypes, ServerAnswers, ServerMine, ServerWritten DEF IInv
  <1>2. ASSUME NEW m \in Machines, MachineStep(m) PROVE IInv'
    <2>1. AllAnswers'
      <3>1. UNCHANGED <<row, certs, req, reqHw, created>>
        BY <1>2, MachineFrame DEF IInv, server, db
      <3> QED
        BY <3>1 DEF IInv, AllAnswers, Answers
    <2> QED
      BY <1>2, <2>1, MachineTypes, MachineMine, MachineWritten DEF IInv
  <1>3. ASSUME NEW m \in Machines, NEW r \in Requests, PostEnroll(m, r) PROVE IInv'
    BY <1>3, PostInv
  <1>4. CASE UNCHANGED vars
    <2>1. TypeOK' /\ AllAnswers'
      BY <1>4 DEF IInv, TypeOK, AllAnswers, Answers, vars, server, agent, db
    <2>2. AllMine'
      BY <1>4 DEF IInv, AllMine, Mine, vars, server, agent
    <2>3. AllWritten'
      BY <1>4, ZenonT(60) DEF IInv, AllWritten, Written, Live, vars, server, db, agent
    <2> QED
      BY <2>1, <2>2, <2>3 DEF IInv
  <1> QED
    BY <1>1, <1>2, <1>3, <1>4, NextCases

\* The inductive invariant holds in every reachable state.
THEOREM Invariance == Spec => []IInv
  BY InitInv, StepInv, PTL DEF Spec

\* The variables keep their types, for any machines, tokens and requests.
THEOREM TypeCorrect == Spec => []TypeOK
  <1>1. IInv => TypeOK
    BY DEF IInv
  <1> QED
    BY <1>1, Invariance, PTL

\* For any number of machines, crashes and enrollments, the certificate and
\* the key beside a configuration whose agent was not deleted come from the answer
\* it comes from.
THEOREM FilesOfOneAnswer == Spec => []NoMixedIdentity
  <1>1. IInv => NoMixedIdentity
    BY DEF IInv, AllWritten, Written, Live, NoMixedIdentity, Is
  <1> QED
    BY <1>1, Invariance, PTL

\* For any interleaving of requests, crashes and deletions, a machine takes
\* an identity the server has recorded with its certificate.
THEOREM KnownIdentity == Spec => []IdentityIsKnown
  <1>1. ASSUME IInv, NEW m \in Machines, NEW a \in Requests, Is(m, a)
        PROVE  \/ row[a] = m /\ a \in certs
               \/ a \in created /\ row[a] = None
    <2>1. reqHw[a] = m /\ req[a] = "answered"
      <3>1. Mine(m)
        BY <1>1 DEF IInv, AllMine
      <3> QED
        BY <1>1, <3>1 DEF Mine, Is, Writing
    <2> QED
      BY <2>1, <1>1 DEF IInv, AllAnswers, Answers
  <1>2. IInv => IdentityIsKnown
    BY <1>1 DEF IdentityIsKnown
  <1> QED
    BY <1>2, Invariance, PTL
=============================================================================
