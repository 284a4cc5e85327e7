----------------------------- MODULE Enrollment -----------------------------
(***************************************************************************)
(* Enrollment: leo_agent_start, leo_enroll and the files they leave on a   *)
(* machine (agent/src/enroll.c, config.c, platform crypto), and the        *)
(* statements AgentHandler.Enroll runs on the server for each request.     *)
(*                                                                         *)
(* A request draws a fresh agent_id (uuid.New), so the agent it creates is *)
(* named by the request.  A machine is named by its hardware_id, and all   *)
(* machines belong to one tenant.  A statement of the database is one      *)
(* step; it may fail (the context of the request is cancelled, the         *)
(* database is away), and what the handler makes of the error is modelled. *)
(* Writing a file is one step whose outcomes are those of fopen, of a full *)
(* disk and of a process that dies half-way.                               *)
(***************************************************************************)
EXTENDS Naturals, FiniteSets

CONSTANTS
    Machines,
    Tokens,
    Requests,    \* bound: the POST /api/v1/enroll that reach the server
    MaxAgents,   \* tenants.max_agents, 0 for no quota
    None,
    Truncated    \* a file that is there and incomplete

ASSUME EnrollmentAssumption ==
    /\ IsFiniteSet(Requests)
    /\ MaxAgents \in Nat
    /\ None \notin Machines \cup Tokens \cup Requests
    /\ Truncated \notin Requests \cup {None}

VARIABLES
    tok,      \* each row of enrollment_tokens
    row,      \* the hardware_id of each row of agents
    certs,    \* agents with a row in agent_certificates
    req,      \* where Enroll is with each request
    reqTok, reqHw,   \* what the request holds
    proc,     \* where leo_agent_start is
    cur,      \* the request in progress, then the agent_id in memory
    boot,     \* the token in the bootstrap file
    disk,     \* client.crt, client.key and agent.conf
    created   \* history: the agents that were created

db == <<tok, row, certs>>
server == <<db, req, reqTok, reqHw, created>>
agent == <<proc, cur, boot, disk>>
vars == <<server, agent>>

Files == {"cert", "key", "conf"}

Init ==
    /\ tok = [t \in Tokens |-> "absent"]
    /\ row = [r \in Requests |-> None]
    /\ certs = {}
    /\ req = [r \in Requests |-> "idle"]
    /\ reqTok = [r \in Requests |-> None]
    /\ reqHw = [r \in Requests |-> None]
    /\ proc = [m \in Machines |-> "off"]
    /\ cur = [m \in Machines |-> None]
    /\ boot = [m \in Machines |-> None]
    /\ disk = [m \in Machines |-> [f \in Files |-> None]]
    /\ created = {}

-----------------------------------------------------------------------------
(* AgentHandler.Enroll *)

Goto(r, s) == req' = [req EXCEPT ![r] = s]

\* The SELECT on enrollment_tokens and the two tests of its row.
LookupToken(r) ==
    /\ req[r] = "lookup"
    /\ \/ tok[reqTok[r]] = "valid" /\ Goto(r, "find")
       \/ Goto(r, "failed")
    /\ UNCHANGED <<db, reqTok, reqHw, created>>

Registered(m) == \E a \in Requests : row[a] = m

\* An error of FindByHardwareID is ignored: no agent was found.
FindByHardwareID(r) ==
    /\ req[r] = "find"
    /\ \/ Registered(reqHw[r]) /\ Goto(r, "failed")
       \/ Goto(r, "quota")
    /\ UNCHANGED <<db, reqTok, reqHw, created>>

AgentCount == Cardinality({a \in Requests : row[a] # None})

\* Both errors are ignored, and either lets the request through.
CheckQuota(r) ==
    /\ req[r] = "quota"
    /\ \/ MaxAgents > 0 /\ AgentCount >= MaxAgents /\ Goto(r, "failed")
       \/ Goto(r, "create")
    /\ UNCHANGED <<db, reqTok, reqHw, created>>

\* The INSERT, which UNIQUE(tenant_id, hardware_id) may reject.
InsertAgent(r) ==
    /\ ~Registered(reqHw[r])
    /\ row' = [row EXCEPT ![r] = reqHw[r]]
    /\ created' = created \cup {r}
    /\ Goto(r, "mark")

CreateAgent(r) ==
    /\ req[r] = "create"
    /\ \/ InsertAgent(r)
       \/ Goto(r, "failed") /\ UNCHANGED <<row, created>>
    /\ UNCHANGED <<tok, certs, reqTok, reqHw>>

\* The UPDATE of used_at: its error is ignored.
MarkUsed(r) ==
    /\ req[r] = "mark"
    /\ \/ /\ tok[reqTok[r]] # "ended"
          /\ tok' = [tok EXCEPT ![reqTok[r]] = "used"]
       \/ UNCHANGED tok
    /\ Goto(r, "issue")
    /\ UNCHANGED <<row, certs, reqTok, reqHw, created>>

\* Faulty variant: the certificate is sent and never recorded.
StoreNothing(r) ==
    /\ req[r] = "issue"
    /\ \E s \in {"answered", "failed"} : Goto(r, s)
    /\ UNCHANGED <<db, reqTok, reqHw, created>>

\* IssueAgentCert and the INSERT of its thumbprint, for an agent that still
\* exists; then the 201 answer.
StoreCertificate(r) ==
    /\ req[r] = "issue"
    /\ \/ row[r] # None /\ certs' = certs \cup {r} /\ Goto(r, "answered")
       \/ UNCHANGED certs /\ Goto(r, "failed")
    /\ UNCHANGED <<tok, row, reqTok, reqHw, created>>

EnrollStep(r) ==
    /\ \/ LookupToken(r) \/ FindByHardwareID(r) \/ CheckQuota(r)
       \/ CreateAgent(r) \/ MarkUsed(r) \/ StoreCertificate(r)
    /\ UNCHANGED agent

InProgress == {"lookup", "find", "quota", "create", "mark", "issue"}

\* The server stops: the requests it was handling have no answer.
ServerCrash ==
    /\ \E r \in Requests : req[r] \in InProgress
    /\ req' = [r \in Requests |-> IF req[r] \in InProgress THEN "failed" ELSE req[r]]
    /\ UNCHANGED <<db, reqTok, reqHw, created, agent>>

-----------------------------------------------------------------------------
(* What an administrator does to the tables *)

CreateToken(t) ==
    /\ tok[t] = "absent"
    /\ tok' = [tok EXCEPT ![t] = "valid"]
    /\ UNCHANGED <<row, certs, req, reqTok, reqHw, created, agent>>

\* The token expires or is deleted; for a used one nothing changes.
EndToken(t) ==
    /\ tok[t] = "valid"
    /\ tok' = [tok EXCEPT ![t] = "ended"]
    /\ UNCHANGED <<row, certs, req, reqTok, reqHw, created, agent>>

\* The row goes, and by cascade its certificates.
DeleteAgent(a) ==
    /\ row[a] # None
    /\ row' = [row EXCEPT ![a] = None]
    /\ certs' = certs \ {a}
    /\ UNCHANGED <<tok, req, reqTok, reqHw, created, agent>>

-----------------------------------------------------------------------------
(* leo_agent_start and leo_enroll *)

\* leo_agent_start returns NULL and the process ends.
Exit(m) ==
    /\ proc' = [proc EXCEPT ![m] = "off"]
    /\ cur' = [cur EXCEPT ![m] = None]

At(m, s) == proc' = [proc EXCEPT ![m] = s]

\* systemd starts the agent, at boot or after a failure.
Start(m) ==
    /\ proc[m] = "off"
    /\ At(m, "load")
    /\ UNCHANGED <<cur, boot, disk, server>>

\* leo_config_is_valid: nothing that matters is missing from the file.
ValidConfig(m) == disk[m]["conf"] \in Requests

\* leo_config_load succeeds.
LoadConfig(m) ==
    /\ ValidConfig(m)
    /\ cur' = [cur EXCEPT ![m] = disk[m]["conf"]]
    /\ At(m, "running")

\* _load_bootstrap: the file is there, with its two fields.
HasBootstrap(m) == boot[m] # None

\* _detect_hardware_id: the identifier of the machine, or an error.
DetectedHardwareIds(m) == {m, None}

\* leo_enroll gathers what the request needs, or gives up.
Prepare(m) ==
    \E h \in DetectedHardwareIds(m) :
        IF HasBootstrap(m) /\ h # None THEN At(m, "post") /\ UNCHANGED cur
                                      ELSE Exit(m)

\* The agent enrolls when leo_config_load fails, be the file absent, incomplete,
\* or valid and impossible to open.
LoadOrEnroll(m) ==
    /\ proc[m] = "load"
    /\ LoadConfig(m) \/ Prepare(m)
    /\ UNCHANGED <<boot, disk, server>>

\* _build_enroll_request: the token of the bootstrap file, the hardware_id.
BuildRequest(r, m) ==
    /\ reqTok' = [reqTok EXCEPT ![r] = boot[m]]
    /\ reqHw' = [reqHw EXCEPT ![r] = m]

\* The request reaches the server.
PostEnroll(m, r) ==
    /\ proc[m] = "post" /\ req[r] = "idle"
    /\ Goto(r, "lookup")
    /\ BuildRequest(r, m)
    /\ cur' = [cur EXCEPT ![m] = r]
    /\ At(m, "wait")
    /\ UNCHANGED <<db, created, boot, disk>>

\* _parse_enroll_response: the answer must be a 201.
Parse(m) ==
    IF req[cur[m]] = "answered" THEN At(m, "cert") /\ UNCHANGED cur ELSE Exit(m)

\* _enroll_lws_callback has the status and the body, and the loop is done.
HttpDone(m) ==
    /\ proc[m] = "wait" /\ req[cur[m]] \in {"answered", "failed"}
    /\ Parse(m)
    /\ UNCHANGED <<boot, disk, server>>

\* Faulty variant: without a deadline, only a refused connection ends the loop.
HttpNeverTimesOut(m) ==
    /\ proc[m] = "post"
    /\ Exit(m)
    /\ UNCHANGED <<boot, disk, server>>

\* CONNECTION_ERROR, an error of lws_service, an answer that is cut short, or
\* the deadline of 15 seconds.
HttpFailed(m) ==
    /\ proc[m] \in {"post", "wait"}
    /\ Exit(m)
    /\ UNCHANGED <<boot, disk, server>>

\* A file is opened with "w" and written: it holds everything; or the disk is
\* full and the error of fclose is not looked at; or fopen fails; or the
\* error is seen, or the process dies, with the file already emptied.
Save(m, f, next) ==
    \/ /\ \E c \in {cur[m], Truncated} : disk' = [disk EXCEPT ![m][f] = c]
       /\ At(m, next) /\ UNCHANGED cur
    \/ /\ \E c \in {disk[m][f], Truncated} : disk' = [disk EXCEPT ![m][f] = c]
       /\ Exit(m)

\* Faulty variant: agent.conf is written before the private key.
SaveConfBeforeKey(m) ==
    /\ \/ proc[m] = "cert" /\ Save(m, "cert", "key")
       \/ proc[m] = "key" /\ Save(m, "conf", "conf")
       \/ proc[m] = "conf" /\ Save(m, "key", "remove")
    /\ UNCHANGED <<boot, server>>

\* leo_crypto_save_cert_key: the certificate, then the key.
SaveCertKey(m) ==
    \/ proc[m] = "cert" /\ Save(m, "cert", "key")
    \/ proc[m] = "key" /\ Save(m, "key", "conf")

\* leo_config_save.
SaveConfig(m) == proc[m] = "conf" /\ Save(m, "conf", "remove")

\* leo_enroll writes the configuration last.
SaveFiles(m) ==
    /\ SaveCertKey(m) \/ SaveConfig(m)
    /\ UNCHANGED <<boot, server>>

\* The bootstrap file is removed, if it can be, and the agent starts.
RemoveBootstrap(m) ==
    /\ proc[m] = "remove"
    /\ \E b \in {boot[m], None} : boot' = [boot EXCEPT ![m] = b]
    /\ At(m, "running")
    /\ UNCHANGED <<cur, disk, server>>

AgentStep(m) ==
    \/ LoadOrEnroll(m) \/ HttpDone(m) \/ HttpFailed(m)
    \/ SaveFiles(m) \/ RemoveBootstrap(m)
    \/ \E r \in Requests : PostEnroll(m, r)

\* The process is killed, or the agent stops.
AgentCrash(m) ==
    /\ proc[m] # "off"
    /\ Exit(m)
    /\ UNCHANGED <<boot, disk, server>>

\* An installer leaves a bootstrap file with a token it was given, and may
\* remove an old agent.conf.
Install(m, t) ==
    /\ proc[m] = "off" /\ tok[t] = "valid"
    /\ boot' = [boot EXCEPT ![m] = t]
    /\ \E c \in {disk[m]["conf"], None} : disk' = [disk EXCEPT ![m]["conf"] = c]
    /\ UNCHANGED <<proc, cur, server>>

-----------------------------------------------------------------------------
Next ==
    \/ \E r \in Requests : EnrollStep(r) \/ DeleteAgent(r)
    \/ ServerCrash
    \/ \E t \in Tokens : CreateToken(t) \/ EndToken(t)
    \/ \E m \in Machines :
          \/ Start(m) \/ AgentStep(m) \/ AgentCrash(m)
          \/ \E t \in Tokens : Install(m, t)

Spec == Init /\ [][Next]_vars

\* The agent's thread runs, and its clock reaches the deadline.
FairSpec == Spec /\ \A m \in Machines : WF_vars(AgentStep(m))

-----------------------------------------------------------------------------
TypeOK ==
    /\ tok \in [Tokens -> {"absent", "valid", "used", "ended"}]
    /\ row \in [Requests -> Machines \cup {None}]
    /\ certs \subseteq Requests
    /\ req \in [Requests -> InProgress \cup
                   {"idle", "answered", "failed"}]
    /\ reqTok \in [Requests -> Tokens \cup {None}]
    /\ reqHw \in [Requests -> Machines \cup {None}]
    /\ proc \in [Machines -> {"off", "load", "post", "wait",
                              "cert", "key", "conf", "remove", "running"}]
    /\ cur \in [Machines -> Requests \cup {None}]
    /\ boot \in [Machines -> Tokens \cup {None}]
    /\ disk \in [Machines -> [Files -> Requests \cup {None, Truncated}]]
    /\ created \subseteq Requests

\* The machine takes itself for agent a.
Is(m, a) == disk[m]["conf"] = a \/ (proc[m] = "running" /\ cur[m] = a)

\* As long as its agent is in the database, a configuration and the certificate
\* and key beside it come from the same answer (unless a full disk cut one
\* short), whatever the crashes and the later enrollments of the machine.
\* leo_enroll writes agent.conf last; an agent whose agent.conf cannot be opened
\* enrolls beside it, and only UNIQUE(tenant_id, hardware_id) then keeps the
\* server from answering.  Once the agent is deleted the server answers, and the
\* old agent.conf may stay beside the new certificate.
NoMixedIdentity ==
    \A m \in Machines, a \in Requests :
        Is(m, a) /\ row[a] # None => /\ disk[m]["cert"] \in {a, Truncated}
                                    /\ disk[m]["key"] \in {a, Truncated}

\* A machine that takes itself for an agent is that agent in the database,
\* with the thumbprint checkNotRevoked looks for, until someone deletes it:
\* the 201 answer comes after every INSERT.
IdentityIsKnown ==
    \A m \in Machines, a \in Requests :
        Is(m, a) => \/ row[a] = m /\ a \in certs
                    \/ a \in created /\ row[a] = None

\* A start of the agent ends within the deadline of the request: the agent
\* runs or the process has ended, though the server never answers.
StartEnds ==
    \A m \in Machines : proc[m] = "load" ~> proc[m] \in {"running", "off"}
=============================================================================
