-------------------------- MODULE AgentServerProofs -------------------------
(***************************************************************************)
(* What holds of the processes of AgentServer whatever their configuration *)
(* files and however many of them there are.                               *)
(***************************************************************************)
EXTENDS AgentServer, TLAPS

\* Unwrap answers with an error or with an element of the field.
LEMMA UnwrapInField ==
  ASSUME NEW text, Unwrap(text).status # "error"
  PROVE  Unwrap(text).value \in Field
BY DEF Unwrap, NoScalar

\* A process that starts to run has a scalar to compute with.
LEMMA StartupUnwraps ==
  ASSUME NEW p \in Processes, Startup(p) = "running"
  PROVE  Unwrap(SecretText(p)).status # "error"
BY DEF Startup

\* Starting up runs the process, returns an error or panics.
LEMMA StartupOutcomes ==
  ASSUME NEW p \in Processes
  PROVE  Startup(p) \in {"running", "error", "panicked"}
BY DEF Startup

\* The servers of a process are among those of the configuration.
LEMMA ServersAreEndpoints ==
  ASSUME NEW p \in Processes
  PROVE  Servers(p) \subseteq Endpoints
BY DEF Servers, Endpoints
-----------------------------------------------------------------------------
\* No process runs at first.
LEMMA InitTyped == Init => TypeOK
BY DEF Init, TypeOK, NoServers, NoRequests, Endpoints, Alive

\* The end of a process keeps the typing.
LEMMA ExitTyped ==
  ASSUME TypeOK, NEW p \in Processes, NEW o \in {"ok", "error", "killed"}, Exit(p, o)
  PROVE  TypeOK'
BY DEF TypeOK, Exit, NoServers, NoRequests, Endpoints, Alive

\* Every step keeps the typing.
LEMMA StepTyped ==
  ASSUME TypeOK, [Next]_vars
  PROVE  TypeOK'
PROOF
  <1>1. CASE UNCHANGED vars
    BY <1>1 DEF TypeOK, vars, Alive
  <1>2. ASSUME NEW p \in Processes, Boot(p)
        PROVE  TypeOK'
    <2>1. CASE Startup(p) = "running"
      <3>1. Unwrap(SecretText(p)).value \in Field
        BY <2>1, StartupUnwraps, UnwrapInField
      <3>2. server' \in [Processes -> [Endpoints ->
                            {"absent", "starting", "listening", "draining", "done"}]]
        BY <1>2, <2>1 DEF TypeOK, Boot
      <3>3. open' \in [Processes -> [Endpoints -> SUBSET Clients]]
        BY <1>2 DEF TypeOK, Boot
      <3>. QED BY <1>2, <2>1, <3>1, <3>2, <3>3 DEF TypeOK, Boot, Alive
    <2>2. CASE Startup(p) # "running"
      BY <1>2, <2>2, StartupOutcomes DEF TypeOK, Boot, Alive
    <2>. QED BY <2>1, <2>2
  <1>3. ASSUME NEW p \in Processes, Signal(p)
        PROVE  TypeOK'
    BY <1>3 DEF TypeOK, Signal, Alive
  <1>4. ASSUME NEW p \in Processes, Finish(p)
        PROVE  TypeOK'
    BY <1>4, ExitTyped DEF Finish
  <1>5. ASSUME NEW p \in Processes, Kill(p)
        PROVE  TypeOK'
    BY <1>5, ExitTyped DEF Kill
  <1>6. ASSUME NEW p \in Processes, NEW s \in Endpoints, Bind(p, s)
        PROVE  TypeOK'
    BY <1>6 DEF TypeOK, Bind, Alive
  <1>7. ASSUME NEW p \in Processes, NEW s \in Endpoints, Fail(p, s)
        PROVE  TypeOK'
    BY <1>7, ExitTyped DEF Fail
  <1>8. ASSUME NEW p \in Processes, NEW s \in Endpoints, Drain(p, s)
        PROVE  TypeOK'
    BY <1>8 DEF TypeOK, Drain, Alive
  <1>9. ASSUME NEW p \in Processes, NEW s \in Endpoints, Close(p, s)
        PROVE  TypeOK'
    BY <1>9 DEF TypeOK, Close, Alive
  <1>10. ASSUME NEW p \in Processes, NEW s \in Endpoints, NEW k \in Clients,
                Connect(p, s, k) \/ End(p, s, k)
         PROVE  TypeOK'
    <2>1. /\ UNCHANGED <<file, phase, server, shard>>
          /\ \E r \in {open[p][s] \cup {k}, open[p][s] \ {k}} :
               open' = [open EXCEPT ![p][s] = r]
      BY <1>10 DEF Connect, End
    <2>2. open' \in [Processes -> [Endpoints -> SUBSET Clients]]
      BY <2>1 DEF TypeOK
    <2>. QED BY <2>1, <2>2 DEF TypeOK, Alive
  <1>11. ASSUME NEW p \in Processes, NEW s \in Endpoints,
                Bind(p, s) \/ Fail(p, s) \/ Close(p, s) \/ Drain(p, s)
         PROVE  TypeOK'
    BY <1>6, <1>7, <1>8, <1>9, <1>11
  <1>. QED BY <1>1, <1>2, <1>3, <1>4, <1>5, <1>10, <1>11 DEF Next

\* Typing: exactly the processes that are alive hold a scalar, and it is one
\* that Unwrap accepted.
THEOREM TypeCorrect == Spec => []TypeOK
PROOF
  <1>. QED BY InitTyped, StepTyped, PTL DEF Spec
-----------------------------------------------------------------------------
\* At first there is no server to outlive another.
LEMMA InitTogether == Init => ServersLiveTogether
BY DEF Init, ServersLiveTogether, NoServers, Endpoints, Alive

\* A process that ends leaves no server behind and does not touch the others.
LEMMA ExitTogether ==
  ASSUME TypeOK, ServersLiveTogether,
         NEW p \in Processes, NEW o \in {"ok", "error", "killed"}, Exit(p, o)
  PROVE  ServersLiveTogether'
PROOF
  <1>1. \A q \in Processes : Servers(q)' = Servers(q)
    BY DEF Exit, Servers, Naive, Conf, Layered
  <1>2. /\ \A s \in Endpoints : server'[p][s] = "absent"
        /\ phase'[p] = o
    BY DEF TypeOK, Exit, NoServers
  <1>3. \A q \in Processes \ {p} : server'[q] = server[q] /\ phase'[q] = phase[q]
    BY DEF TypeOK, Exit
  <1>4. SUFFICES ASSUME NEW q \in Processes, NEW s \in Endpoints
                 PROVE  /\ server'[q][s] # "absent" <=> Alive(q)' /\ s \in Servers(q)'
                        /\ server'[q][s] \in {"draining", "done"} => phase'[q] = "stopping"
    BY DEF ServersLiveTogether
  <1>5. CASE q = p
    BY <1>2, <1>5 DEF Alive
  <1>6. CASE q # p
    BY <1>1, <1>3, <1>6 DEF ServersLiveTogether, Alive
  <1>. QED BY <1>5, <1>6

\* Every step keeps the servers of a process together.
LEMMA StepTogether ==
  ASSUME TypeOK, ServersLiveTogether, [Next]_vars
  PROVE  ServersLiveTogether'
PROOF
  <1>. USE DEF ServersLiveTogether, TypeOK, Alive
  <1>1. CASE UNCHANGED vars
    <2>1. \A q \in Processes : Servers(q)' = Servers(q)
      BY <1>1 DEF vars, Servers, Naive, Conf, Layered
    <2>. QED BY <1>1, <2>1 DEF vars
  <1>2. ASSUME NEW p \in Processes, Boot(p)
        PROVE  ServersLiveTogether'
    <2>1. \A q \in Processes : Servers(q)' = Servers(q)
      BY <1>2 DEF Boot, Servers, Naive, Conf, Layered
    <2>2. CASE Startup(p) = "running"
      BY <1>2, <2>1, <2>2, ServersAreEndpoints DEF Boot
    <2>3. CASE Startup(p) # "running"
      BY <1>2, <2>1, <2>3, StartupOutcomes DEF Boot
    <2>. QED BY <2>2, <2>3
  <1>3. ASSUME NEW p \in Processes, Signal(p)
        PROVE  ServersLiveTogether'
    <2>1. \A q \in Processes : Servers(q)' = Servers(q)
      BY <1>3 DEF Signal, Servers, Naive, Conf, Layered
    <2>. QED BY <1>3, <2>1 DEF Signal
  <1>4. ASSUME NEW p \in Processes, Finish(p)
        PROVE  ServersLiveTogether'
    BY <1>4, ExitTogether DEF Finish
  <1>5. ASSUME NEW p \in Processes, Kill(p)
        PROVE  ServersLiveTogether'
    BY <1>5, ExitTogether DEF Kill
  <1>6. ASSUME NEW p \in Processes, NEW s \in Endpoints, Bind(p, s)
        PROVE  ServersLiveTogether'
    <2>1. \A q \in Processes : Servers(q)' = Servers(q)
      BY <1>6 DEF Bind, Servers, Naive, Conf, Layered
    <2>. QED BY <1>6, <2>1 DEF Bind
  <1>7. ASSUME NEW p \in Processes, NEW s \in Endpoints, Fail(p, s)
        PROVE  ServersLiveTogether'
    BY <1>7, ExitTogether DEF Fail
  <1>8. ASSUME NEW p \in Processes, NEW s \in Endpoints, Drain(p, s)
        PROVE  ServersLiveTogether'
    <2>1. \A q \in Processes : Servers(q)' = Servers(q)
      BY <1>8 DEF Drain, Servers, Naive, Conf, Layered
    <2>. QED BY <1>8, <2>1 DEF Drain
  <1>9. ASSUME NEW p \in Processes, NEW s \in Endpoints, Close(p, s)
        PROVE  ServersLiveTogether'
    <2>1. \A q \in Processes : Servers(q)' = Servers(q)
      BY <1>9 DEF Close, Servers, Naive, Conf, Layered
    <2>. QED BY <1>9, <2>1 DEF Close
  <1>10. ASSUME NEW p \in Processes, NEW s \in Endpoints, NEW k \in Clients,
                Connect(p, s, k) \/ End(p, s, k)
         PROVE  ServersLiveTogether'
    <2>1. UNCHANGED <<file, phase, server, shard>>
      BY <1>10 DEF Connect, End
    <2>2. \A q \in Processes : Servers(q)' = Servers(q)
      BY <2>1 DEF Servers, Naive, Conf, Layered
    <2>. QED BY <2>1, <2>2
  <1>11. ASSUME NEW p \in Processes, NEW s \in Endpoints,
                Bind(p, s) \/ Fail(p, s) \/ Close(p, s) \/ Drain(p, s)
         PROVE  ServersLiveTogether'
    BY <1>6, <1>7, <1>8, <1>9, <1>11
  <1>. QED BY <1>1, <1>2, <1>3, <1>4, <1>5, <1>10, <1>11 DEF Next

\* The servers of a process live together, whichever of them fails and whenever
\* the process is signalled or killed.
THEOREM LiveTogether == Spec => []ServersLiveTogether
PROOF
  <1>. QED BY InitTogether, StepTogether, TypeCorrect, InitTyped, StepTyped, PTL DEF Spec
-----------------------------------------------------------------------------
(***************************************************************************)
(* The scalar a process computes with.                                     *)
(***************************************************************************)

\* A process that is alive computes with what Unwrap made of its text.
ReadsItsText ==
  \A p \in Processes : Alive(p) =>
    /\ Unwrap(SecretText(p)).status # "error"
    /\ shard[p] = Unwrap(SecretText(p)).value

\* No step changes the text of a secret, or what a process made of it.
LEMMA StepReads ==
  ASSUME TypeOK, ReadsItsText, [Next]_vars
  PROVE  ReadsItsText'
PROOF
  <1>1. file' = file
    BY DEF Next, vars, Boot, Signal, Finish, Kill, Bind, Fail, Close, Drain, Connect, End, Exit
  <1>2. \A q \in Processes : SecretText(q)' = SecretText(q)
    BY <1>1 DEF SecretText, Naive, Conf, Layered
  <1>3. \A q \in Processes :
          Alive(q)' => \/ Alive(q) /\ shard'[q] = shard[q]
                      \/ /\ Unwrap(SecretText(q)).status # "error"
                         /\ shard'[q] = Unwrap(SecretText(q)).value
    BY StartupOutcomes, StartupUnwraps
       DEF TypeOK, Next, vars, Boot, Signal, Finish, Kill, Bind, Fail, Close, Drain, Connect, End, Exit, Alive
  <1>. QED BY <1>2, <1>3 DEF ReadsItsText

\* Whatever a file leaves to the reference and however its process fares, who
\* answers at the port of an agent computes with that agent's share.
THEOREM OwnShare == Spec => []AnswersWithItsShare
PROOF
  <1>1. Init => ReadsItsText
    BY DEF Init, ReadsItsText, Alive
  <1>2. ASSUME TypeOK, ServersLiveTogether, ReadsItsText
        PROVE  AnswersWithItsShare
    <2>. SUFFICES ASSUME NEW p \in Processes, NEW q \in Processes,
                         server[p][CooperationEndpoint(p)] = "listening",
                         States(p, file[p]),
                         Address(p, CooperationEndpoint(p)).port = AgentPort[AgentOf[q]]
                  PROVE  shard[p] = Share(Coefficients, AgentOf[q])
      BY <1>2 DEF AnswersWithItsShare
    <2>1. Alive(p) /\ CooperationEndpoint(p) \in Servers(p)
      BY <1>2 DEF ServersLiveTogether, CooperationEndpoint, Endpoints
    <2>2. SecretText(p) = file[p][ShardKey]
      BY <2>1 DEF SecretText, States, Conf, Layered, CooperationEndpoint, Servers, Naive
    <2>3. Address(p, CooperationEndpoint(p)).port = file[p][<<CooperationEndpoint(p), "port">>]
      BY DEF Address, States, Conf, Layered
    <2>4. file[p] \in Files[p]
      BY <1>2 DEF TypeOK
    <2>5. AgentOf[p] = AgentOf[q]
      BY <2>3, <2>4, FilesAssumption
    <2>6. /\ Unwrap(file[p][ShardKey]).status # "error"
          /\ shard[p] = Unwrap(file[p][ShardKey]).value
      BY <1>2, <2>1, <2>2 DEF ReadsItsText
    <2>. QED BY <2>4, <2>5, <2>6, FilesAssumption
  <1>. QED BY <1>1, <1>2, StepReads, TypeCorrect, LiveTogether, PTL DEF Spec
-----------------------------------------------------------------------------
(***************************************************************************)
(* The stop of a process.                                                  *)
(***************************************************************************)

\* Requests and streams are in progress only at servers that still see to them.
OpenAtServer ==
  \A p \in Processes, s \in Endpoints :
    open[p][s] # {} => server[p][s] \in {"listening", "draining"}

\* A server accepts only while it listens and is done only with all it accepted.
LEMMA StepOpen ==
  ASSUME TypeOK, ServersLiveTogether, OpenAtServer, [Next]_vars
  PROVE  OpenAtServer'
PROOF
  <1>. USE DEF OpenAtServer, TypeOK, Alive
  <1>1. CASE UNCHANGED vars
    BY <1>1 DEF vars
  <1>2. ASSUME NEW p \in Processes, Boot(p)
        PROVE  OpenAtServer'
    <2>1. CASE Startup(p) = "running"
      <3>1. ~ Alive(p)
        BY <1>2 DEF Boot
      <3>2. \A s \in Endpoints : open[p][s] = {}
        BY <3>1 DEF ServersLiveTogether
      <3>. QED BY <1>2, <2>1, <3>2 DEF Boot
    <2>2. CASE Startup(p) # "running"
      BY <1>2, <2>2 DEF Boot
    <2>. QED BY <2>1, <2>2
  <1>3. ASSUME NEW p \in Processes, NEW o \in {"ok", "error", "killed"}, Exit(p, o)
        PROVE  OpenAtServer'
    BY <1>3 DEF Exit, NoRequests
  <1>4. ASSUME NEW p \in Processes, Signal(p)
        PROVE  OpenAtServer'
    BY <1>4 DEF Signal
  <1>5. ASSUME NEW p \in Processes, NEW s \in Endpoints,
               Bind(p, s) \/ Close(p, s) \/ Drain(p, s)
        PROVE  OpenAtServer'
    <2>1. /\ open' = open
          /\ open[p][s] = {} \/ server'[p][s] \in {"listening", "draining"}
      BY <1>5 DEF Bind, Close, Drain
    <2>2. \A q \in Processes, t \in Endpoints :
            <<q, t>> # <<p, s>> => server'[q][t] = server[q][t]
      BY <1>5 DEF Bind, Close, Drain
    <2>. QED BY <2>1, <2>2
  <1>6. ASSUME NEW p \in Processes, NEW s \in Endpoints, NEW k \in Clients,
               Connect(p, s, k) \/ End(p, s, k)
        PROVE  OpenAtServer'
    <2>1. /\ server' = server
          /\ open[p][s] = {} => server[p][s] = "listening"
      BY <1>6 DEF Connect, End
    <2>2. \A q \in Processes, t \in Endpoints :
            <<q, t>> # <<p, s>> => open'[q][t] = open[q][t]
      BY <1>6 DEF Connect, End
    <2>. QED BY <2>1, <2>2
  <1>. QED BY <1>1, <1>2, <1>3, <1>4, <1>5, <1>6 DEF Next, Finish, Kill, Fail

\* When main returns, nothing is in progress at the servers it had, for they are
\* done, nor at those it never had.
LEMMA FinishCutsNothing ==
  ASSUME ServersLiveTogether, OpenAtServer, NEW p \in Processes, Finish(p)
  PROVE  \A s \in Endpoints : open[p][s] = {}
BY DEF ServersLiveTogether, OpenAtServer, Finish

\* A process that was told to stop returns only when nothing is in progress at
\* any of its servers, however many clients there are and whatever they do.
THEOREM StopsWhole == Spec => StopCutsNothing
PROOF
  <1>1. Init => OpenAtServer
    BY DEF Init, OpenAtServer, NoRequests
  <1>2. ASSUME TypeOK, ServersLiveTogether, OpenAtServer, [Next]_vars
        PROVE  [\A p \in Processes :
                  phase[p] = "stopping" /\ phase'[p] = "ok" =>
                    \A s \in Endpoints : open[p][s] = {}]_vars
    <2>1. ASSUME NEW p \in Processes, phase[p] = "stopping", phase'[p] = "ok", Next
          PROVE  Finish(p)
      <3>1. \A q \in Processes : Boot(q) => phase'[p] # "ok" \/ phase[p] # "stopping"
        BY <1>2, StartupOutcomes DEF TypeOK, Boot, Alive
      <3>2. \A q \in Processes : Signal(q) \/ Kill(q) => phase'[p] # "ok"
        BY <1>2, <2>1 DEF TypeOK, Signal, Kill, Exit
      <3>3. \A q \in Processes : Finish(q) => q = p
        BY <1>2, <2>1 DEF TypeOK, Finish, Exit
      <3>4. \A q \in Processes, s \in Endpoints : ~ Fail(q, s)
        BY <1>2, <2>1 DEF TypeOK, Fail, Exit
      <3>5. \A q \in Processes, s \in Endpoints : ~ (Bind(q, s) \/ Close(q, s) \/ Drain(q, s))
        BY <2>1 DEF Bind, Close, Drain
      <3>6. \A q \in Processes, s \in Endpoints, k \in Clients : ~ (Connect(q, s, k) \/ End(q, s, k))
        BY <2>1 DEF Connect, End
      <3>. QED BY <2>1, <3>1, <3>2, <3>3, <3>4, <3>5, <3>6 DEF Next
    <2>. QED BY <1>2, <2>1, FinishCutsNothing
  <1>. QED BY <1>1, <1>2, StepOpen, TypeCorrect, LiveTogether, PTL DEF Spec, StopCutsNothing
=============================================================================
