----------------------------- MODULE AgentServer ----------------------------
(***************************************************************************)
(* The processes of the agents on one host: agent_server with a            *)
(* cooperative or a naive fingerprint service, and light_agent_server.     *)
(*                                                                         *)
(* A process layers its configuration file over a built-in reference,      *)
(* checks it, and runs its servers jointly: when one of them fails the     *)
(* others end with it.  Servers bind their addresses in any order; any     *)
(* address may be refused, for another process has it.  Clients have       *)
(* requests and streams in progress at a server.  A signal makes every     *)
(* server of the process stop accepting and wait for those to end.         *)
(* Processes are started, stopped and killed at any time.                  *)
(***************************************************************************)
EXTENDS CompactText, SecretSharing

CONSTANTS
  Processes,   \* the processes operators start
  Light,       \* those that run light_agent_server
  Files,       \* for each process, the configuration files it may be given
  Reference,   \* the built-in configuration of agent_server
  LightReference,  \* and that of light_agent_server
  AgentOf,     \* the number of the agent each process is meant to be
  AgentPort,   \* the port at which the others' configurations expect an agent
  Coefficients,  \* the polynomial of the key ceremony
  Clients,     \* those that send requests to the servers
  NoShard

Endpoints == {"agent-grpc", "grpc", "management-grpc"}

\* The keys of the section fingerprint-service (of the light agent: agent).
TypeKey   == <<"service", "type">>
SecretKey == <<"service", "secret">>
ShardKey  == <<"service", "secret_shard">>

\* The keys a configuration has a value for after it was read.
Known ==
  {<<e, field>> : e \in Endpoints, field \in {"host", "port"}} \cup {TypeKey, SecretKey, ShardKey}

ASSUME ServerAssumption ==
  /\ Light \subseteq Processes
  /\ {<<e, f>> : e \in {"grpc", "management-grpc"}, f \in {"host", "port"}}
       \cup {ShardKey} \subseteq DOMAIN LightReference
  /\ Known \ {SecretKey} \subseteq DOMAIN Reference

\* The endpoint at which a process serves the cooperation service.
CooperationEndpoint(p) == IF p \in Light THEN "grpc" ELSE "agent-grpc"

\* A file that states the agent's port and a text of its shard.
States(p, f) == {<<CooperationEndpoint(p), "port">>, ShardKey} \subseteq DOMAIN f

\* Operators give different agents different ports, and what a file states of
\* them is right: the agent's own port, and a text that is read as its share
\* unless it is not accepted at all.
ASSUME FilesAssumption ==
  /\ \A p, q \in Processes :
       AgentPort[AgentOf[p]] = AgentPort[AgentOf[q]] => AgentOf[p] = AgentOf[q]
  /\ \A p \in Processes : \A f \in Files[p] : States(p, f) =>
       /\ f[<<CooperationEndpoint(p), "port">>] = AgentPort[AgentOf[p]]
       /\ \/ Unwrap(f[ShardKey]).status = "error"
          \/ Unwrap(f[ShardKey]).value = Share(Coefficients, AgentOf[p])

VARIABLES
  file,    \* the configuration file of each process
  phase,   \* "off" | "running" | "stopping" | "ok" | "error" | "panicked" | "killed"
  server,  \* each server of a process: "absent" | "starting" | "listening" |
           \* "draining" | "done"
  open,    \* the clients with a request or a stream in progress at each server
  shard    \* the secret or shard a process computes with

vars == <<file, phase, server, open, shard>>
-----------------------------------------------------------------------------
(***************************************************************************)
(* The configuration of a process.                                         *)
(***************************************************************************)

\* A bug this model must notice: the reference is loaded after the file.
ReferenceWins(top, base) ==
  [k \in DOMAIN top \cup DOMAIN base |-> IF k \in DOMAIN base THEN base[k] ELSE top[k]]

\* load_file after load_str: what the file leaves out keeps its value.
Layered(top, base) ==
  [k \in DOMAIN top \cup DOMAIN base |-> IF k \in DOMAIN top THEN top[k] ELSE base[k]]

Conf(p) == Layered(file[p], IF p \in Light THEN LightReference ELSE Reference)

\* resolve: the service has a known type, and a naive one has a secret.
Loads(p) ==
  \/ p \in Light
  \/ Conf(p)[TypeKey] = "Cooperative"
  \/ Conf(p)[TypeKey] = "Naive" /\ SecretKey \in DOMAIN Conf(p)

Naive(p) == p \notin Light /\ Conf(p)[TypeKey] = "Naive"

\* The text of the scalar a process computes with.
SecretText(p) == IF Naive(p) THEN Conf(p)[SecretKey] ELSE Conf(p)[ShardKey]

\* The servers of a process: only a cooperative agent_server has all three.
Servers(p) ==
  IF p \in Light \/ Naive(p) THEN {"grpc", "management-grpc"} ELSE Endpoints

\* The host and port parse as a socket address: names do not.
Parses(p, s) == Conf(p)[<<s, "host">>] # "localhost"

Address(p, s) == [host |-> Conf(p)[<<s, "host">>], port |-> Conf(p)[<<s, "port">>]]

\* What main does before it runs its servers.  The light agent checks its
\* addresses first and expects its shard; agent_server returns every error.
Startup(p) ==
  IF ~ Loads(p) THEN "error"
  ELSE IF p \in Light
       THEN IF \E s \in Servers(p) : ~ Parses(p, s) THEN "error"
            ELSE IF Unwrap(SecretText(p)).status = "error" THEN "panicked" ELSE "running"
       ELSE IF Unwrap(SecretText(p)).status = "error"
            THEN "error"
            ELSE IF \E s \in Servers(p) : ~ Parses(p, s) THEN "error" ELSE "running"
-----------------------------------------------------------------------------
(***************************************************************************)
(* The life of a process.                                                  *)
(***************************************************************************)

NoServers == [s \in Endpoints |-> "absent"]
NoRequests == [s \in Endpoints |-> {}]

Alive(p) == phase[p] \in {"running", "stopping"}

Init ==
  /\ file \in {f \in [Processes -> UNION {Files[p] : p \in Processes}] :
                 \A p \in Processes : f[p] \in Files[p]}
  /\ phase = [p \in Processes |-> "off"]
  /\ server = [p \in Processes |-> NoServers]
  /\ open = [p \in Processes |-> NoRequests]
  /\ shard = [p \in Processes |-> NoShard]

\* An operator starts the process.
Boot(p) ==
  /\ ~ Alive(p)
  /\ phase' = [phase EXCEPT ![p] = Startup(p)]
  /\ IF Startup(p) = "running"
     THEN /\ server' = [server EXCEPT ![p] =
                [s \in Endpoints |-> IF s \in Servers(p) THEN "starting" ELSE "absent"]]
          /\ shard' = [shard EXCEPT ![p] = Unwrap(SecretText(p)).value]
     ELSE UNCHANGED <<server, shard>>
  /\ UNCHANGED <<file, open>>

\* A server binds its address.  Whether it can is for the system to say: see Fail.
Bind(p, s) ==
  /\ Alive(p) /\ server[p][s] = "starting"
  /\ server' = [server EXCEPT ![p][s] = "listening"]
  /\ UNCHANGED <<file, phase, open, shard>>

\* A client begins a request or a stream.
Connect(p, s, k) ==
  /\ server[p][s] = "listening" /\ k \notin open[p][s]
  /\ open' = [open EXCEPT ![p][s] = @ \cup {k}]
  /\ UNCHANGED <<file, phase, server, shard>>

\* The handler has returned and its reply is read to the end, or the client left.
End(p, s, k) ==
  /\ k \in open[p][s]
  /\ open' = [open EXCEPT ![p][s] = @ \ {k}]
  /\ UNCHANGED <<file, phase, server, shard>>

\* The end of a process takes its listeners and all that is in progress with it.
Exit(p, outcome) ==
  /\ phase' = [phase EXCEPT ![p] = outcome]
  /\ server' = [server EXCEPT ![p] = NoServers]
  /\ open' = [open EXCEPT ![p] = NoRequests]
  /\ shard' = [shard EXCEPT ![p] = NoShard]
  /\ UNCHANGED file

\* A bug this model must notice: the servers are joined, each to its own end.
FailAlone(p, s) ==
  /\ Alive(p) /\ server[p][s] \in {"starting", "listening"}
  /\ server' = [server EXCEPT ![p][s] = "done"]
  /\ open' = [open EXCEPT ![p][s] = {}]
  /\ UNCHANGED <<file, phase, shard>>

\* A server that cannot bind, or whose accept loop breaks, returns an Err:
\* try_join drops the other servers and main returns.
Fail(p, s) ==
  /\ Alive(p) /\ server[p][s] \in {"starting", "listening"}
  /\ Exit(p, "error")

\* Every server of the process waits for the signals that end it.
Signal(p) ==
  /\ phase[p] = "running"
  /\ phase' = [phase EXCEPT ![p] = "stopping"]
  /\ UNCHANGED <<file, server, open, shard>>

\* A bug this model must notice: one of the servers takes the signal from the others.
CloseAlone(p, s) ==
  /\ phase[p] = "stopping" /\ server[p][s] = "listening"
  /\ \A t \in Endpoints : server[p][t] \notin {"draining", "done"}
  /\ server' = [server EXCEPT ![p][s] = "draining"]
  /\ UNCHANGED <<file, phase, open, shard>>

\* A server that was told to stop accepts nothing more.
Close(p, s) ==
  /\ phase[p] = "stopping" /\ server[p][s] = "listening"
  /\ server' = [server EXCEPT ![p][s] = "draining"]
  /\ UNCHANGED <<file, phase, open, shard>>

\* It returns Ok when what it had in progress has ended, and waits as long as
\* that takes.
Drain(p, s) ==
  /\ server[p][s] = "draining" /\ open[p][s] = {}
  /\ server' = [server EXCEPT ![p][s] = "done"]
  /\ UNCHANGED <<file, phase, open, shard>>

\* A bug this model must notice: main returns with the first of its servers.
FinishWithFirst(p) ==
  /\ phase[p] = "stopping" /\ \E s \in Servers(p) : server[p][s] = "done"
  /\ Exit(p, "ok")

\* All servers have returned Ok, and main returns.
Finish(p) ==
  /\ phase[p] = "stopping" /\ \A s \in Servers(p) : server[p][s] = "done"
  /\ Exit(p, "ok")

\* The process is killed.
Kill(p) == Alive(p) /\ Exit(p, "killed")

Next ==
  \E p \in Processes :
    \/ Boot(p) \/ Signal(p) \/ Finish(p) \/ Kill(p)
    \/ \E s \in Endpoints : Bind(p, s) \/ Fail(p, s) \/ Close(p, s) \/ Drain(p, s)
    \/ \E s \in Endpoints, k \in Clients : Connect(p, s, k) \/ End(p, s, k)

Spec == Init /\ [][Next]_vars

\* A server's one attempt to bind is made, whichever way it ends; a server that
\* was told to stop stops accepting, and returns once nothing is in progress.
\* Nothing need be started, stopped or killed, nor break.  compute_exponent awaits
\* nothing, so requests of the cooperation service end.  Of the others none need
\* end: a Watch lasts until its client leaves, a batch until its client has read
\* it, and a call as long as a silent agent keeps it waiting.
Fairness ==
  \A p \in Processes :
    /\ WF_vars(Finish(p))
    /\ \A s \in Endpoints :
         /\ WF_vars(Bind(p, s) \/ (server[p][s] = "starting" /\ Fail(p, s)))
         /\ WF_vars(Close(p, s))
         /\ WF_vars(Drain(p, s))
    /\ \A k \in Clients : WF_vars(End(p, CooperationEndpoint(p), k))

FairSpec == Spec /\ Fairness
-----------------------------------------------------------------------------
(***************************************************************************)
(* Properties.                                                             *)
(***************************************************************************)

\* Typing.  Exactly the processes that are alive hold a scalar.
TypeOK ==
  /\ \A p \in Processes : file[p] \in Files[p]
  /\ phase \in [Processes ->
        {"off", "running", "stopping", "ok", "error", "panicked", "killed"}]
  /\ server \in [Processes -> [Endpoints ->
        {"absent", "starting", "listening", "draining", "done"}]]
  /\ open \in [Processes -> [Endpoints -> SUBSET Clients]]
  /\ shard \in [Processes -> Field \cup {NoShard}]
  /\ \A p \in Processes : IF Alive(p) THEN shard[p] \in Field ELSE shard[p] = NoShard

\* The servers of a process live together: none goes on after another failed,
\* none stops accepting before the process is told to stop, and none outlives it.
ServersLiveTogether ==
  \A p \in Processes, s \in Endpoints :
    /\ server[p][s] # "absent" <=> Alive(p) /\ s \in Servers(p)
    /\ server[p][s] \in {"draining", "done"} => phase[p] = "stopping"

\* What a management server tells a health probe that calls now: the status is a
\* constant.  (A Watch that is already open goes on hearing it while it is held.)
Probe(p) == IF server[p]["management-grpc"] = "listening" THEN "SERVING" ELSE "refused"

\* Although the status is a constant and servers come up one by one, a process
\* does not go on telling SERVING with one of its servers down: it comes to
\* listen on all of them, or stops answering.
HealthTellsTruth ==
  \A p \in Processes :
    Probe(p) = "SERVING" ~>
      Probe(p) = "refused" \/ \A s \in Servers(p) : server[p][s] = "listening"

\* A process that was told to stop returns only when nothing is in progress at any
\* of its servers: a server that is done with its own requests does not cut off
\* what clients of another are still waiting for.
StopCutsNothing ==
  [][\A p \in Processes :
       phase[p] = "stopping" /\ phase'[p] = "ok" => \A s \in Endpoints : open[p][s] = {}]_vars

\* The servers of a stopping process do not keep one another: when it never ends,
\* a client of the fingerprint or of the health service holds it for ever.
\* Requests of the other agents never do.
StopHeldOnlyByClients ==
  \A p \in Processes :
    <>[](phase[p] = "stopping") =>
      <>[](\E s \in Endpoints \ {CooperationEndpoint(p)} : open[p][s] # {})

\* Whoever answers the other agents at the port of an agent computes with that
\* agent's share, through the text form and the layers of the configuration:
\* for files that state both, whatever else they leave to the reference.
AnswersWithItsShare ==
  \A p, q \in Processes : LET e == CooperationEndpoint(p) IN
    server[p][e] = "listening" /\ States(p, file[p]) /\ Address(p, e).port = AgentPort[AgentOf[q]]
      => shard[p] = Share(Coefficients, AgentOf[q])
=============================================================================
