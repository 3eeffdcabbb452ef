------------------------ MODULE CollaborativeProtocol -----------------------
(***************************************************************************)
(* CollaborativeProtocol::process run by several agents at once, over      *)
(* GrpcAgentsTopology, against the CooperationAgentService of the others.  *)
(*                                                                         *)
(* The calls are concurrent.  A call blinds its point, asks the other      *)
(* agents in the order of their numbers with at most Window requests in    *)
(* flight, stops at the first Threshold - 1 answers, adds its own partial  *)
(* result, interpolates and unblinds.  Requests may fail or stay           *)
(* unanswered.  An agent may restart, with the share it had or with the    *)
(* share of the next run of the key ceremony.                              *)
(***************************************************************************)
EXTENDS CurveHash, SecretSharing

CONSTANTS
  Count,          \* number of agents of the network (config "agents")
  Threshold,      \* answers needed, the own one included (config "threshold")
  Initiators,     \* the agents that run agent_server, not light_agent_server
  Members,        \* for each initiator, the agents its config lists
  Unresolvable,   \* agents whose address may fail to resolve at a start
  Reliable,       \* agents that answer every request
  Restartable,    \* agents that may restart
  Calls,          \* the calls of process
  Home,           \* the initiator that runs each call
  Window,         \* the argument of buffer_unordered: 1024 in the code
  Blinds,         \* the blinding factors a call may draw
  Polynomials,    \* the polynomials a key ceremony may draw
  MaxGeneration,  \* bound on the number of key ceremonies after the first
  NoResult

Agents == 1 .. Count
Generations == 0 .. MaxGeneration

ASSUME ConfigAssumption ==
  /\ Count \in Nat /\ Count < P
  /\ Threshold \in Nat \ {0}
  /\ Window \in Nat \ {0}
  /\ MaxGeneration \in Nat
  /\ Initiators \subseteq Agents
  /\ Members \in [Initiators -> SUBSET Agents]
  /\ Unresolvable \subseteq Agents
  /\ Reliable \subseteq Agents
  /\ Restartable \subseteq Agents
  /\ Home \in [Calls -> Initiators]
  /\ Blinds \subseteq Field
  /\ Polynomials \subseteq Polynomial(Threshold)
  /\ NoResult \notin Fingerprint

VARIABLES
  polynomial,  \* the polynomial of each run of the key ceremony
  generation,  \* the run each agent's secret_shard comes from
  members,     \* GrpcAgentsTopology::members of each initiator
  input,       \* the argument of each call
  phase,       \* "idle" | "collecting" | "ok" | "error" | "panicked" | "lost"
  blind,       \* the blinding factor of each call
  wire,        \* the state of the request of each call to each agent
  exponent,    \* the blinded_exponent of the answer, once there is one
  responses,   \* the Vec of (agent, point) pairs a call has collected
  result,      \* what a call that is "ok" returned
  origin       \* history: the generation of the share behind each exponent

vars == <<polynomial, generation, members, input, phase, blind, wire, exponent,
          responses, result, origin>>

\* An element of the Vec a call collects.
Response == [agent : Agents, point : Field]

WireStates ==
  {"unasked", "sent", "answered", "failed", "collected", "discarded", "cancelled"}
-----------------------------------------------------------------------------
(***************************************************************************)
(* Configuration and the state of a call.                                  *)
(***************************************************************************)

\* What GrpcAgentsTopology::new may build: a listed agent whose address does
\* not resolve is kept with an empty list of clients ("unresolved").
Topology(a) ==
  {m \in [Agents -> {"absent", "resolved", "unresolved"}] :
     \A b \in Agents :
       /\ m[b] = "absent" <=> b \notin Members[a]
       /\ m[b] = "unresolved" => b \in Unresolvable}

\* A bug this model must notice: a shard that is read once and never again.
StaleShard(a) == Share(polynomial[0], a)

\* The secret_shard in agent a's configuration.
SecretShard(a) == Share(polynomial[generation[a]], a)

\* A bug this model must notice: the point is sent as it is.
NotBlinded(x, r) == HashToCurve[x]

\* The point of input x under the blinding factor r, and the one a call sends.
Blinded(x, r) == Mul(HashToCurve[x], r)

BlindedHash(c) == Blinded(input[c], blind[c])

\* The agents the request stream has not reached yet: 1..=count without self.
Pending(c) == {b \in Agents \ {Home[c]} : wire[c][b] = "unasked"}

InFlight(c) == {b \in Agents : wire[c][b] \in {"sent", "answered", "failed"}}

\* Bugs this model must notice: take(threshold), and a stream that lives on
\* when its call has ended.
PollingOneTooMany(c) == phase[c] = "collecting" /\ Len(responses[c]) < Threshold

PollingForever(c) == Len(responses[c]) < Threshold - 1

\* take(threshold - 1) still wants elements of the stream.
Polling(c) == phase[c] = "collecting" /\ Len(responses[c]) < Threshold - 1

\* A bug this model must notice: a result is yielded only from a full window.
WindowFull(c) == Cardinality(InFlight(c)) >= Window

\* buffer_unordered fills its window from the stream before it yields a result.
ToppedUp(c) == Pending(c) = {} \/ Cardinality(InFlight(c)) >= Window

\* A bug this model must notice: the requests in flight are not waited for.
EndedWhenAllAsked(c) ==
  /\ phase[c] = "collecting"
  /\ Len(responses[c]) >= Threshold - 1 \/ Pending(c) = {}

\* collect() has returned.
StreamEnded(c) ==
  /\ phase[c] = "collecting"
  /\ Len(responses[c]) >= Threshold - 1 \/ (Pending(c) = {} /\ InFlight(c) = {})

\* Dropping the stream cancels the requests in flight.
Dropped(c) ==
  [b \in Agents |-> IF b \in InFlight(c) THEN "cancelled" ELSE wire[c][b]]
-----------------------------------------------------------------------------
Init ==
  /\ polynomial \in [Generations -> Polynomials]
  /\ generation = [a \in Agents |-> 0]
  /\ members \in {m \in [Initiators -> UNION {Topology(a) : a \in Initiators}] :
                    \A a \in Initiators : m[a] \in Topology(a)}
  /\ input \in [Calls -> Inputs]
  /\ phase = [c \in Calls |-> "idle"]
  /\ blind = [c \in Calls |-> 0]
  /\ wire = [c \in Calls |-> [b \in Agents |-> "unasked"]]
  /\ exponent = [c \in Calls |-> [b \in Agents |-> 0]]
  /\ responses = [c \in Calls |-> <<>>]
  /\ result = [c \in Calls |-> NoResult]
  /\ origin = [c \in Calls |-> [b \in Agents |-> 0]]
-----------------------------------------------------------------------------
(***************************************************************************)
(* The calling side: process and obtain_shard.                             *)
(***************************************************************************)

\* Hash to the curve, draw r and blind the point.
Start(c) ==
  /\ phase[c] = "idle"
  /\ \E r \in Blinds : blind' = [blind EXCEPT ![c] = r]
  /\ phase' = [phase EXCEPT ![c] = "collecting"]
  /\ UNCHANGED <<polynomial, generation, members, input, wire, exponent,
                 responses, result, origin>>

\* b is the next agent the stream yields, and the window has room for it.
Pulls(c, b) ==
  /\ Polling(c)
  /\ Cardinality(InFlight(c)) < Window
  /\ b \in Pending(c)
  /\ \A d \in Pending(c) : b <= d

\* obtain_shard sends the request through one of the agent's clients.
Ask(c, b) ==
  /\ Pulls(c, b)
  /\ members[Home[c]][b] = "resolved"
  /\ wire' = [wire EXCEPT ![c][b] = "sent"]
  /\ UNCHANGED <<polynomial, generation, members, input, phase, blind, exponent,
                 responses, result, origin>>

\* obtain_shard returns Err: the config lists no such agent.
SkipAbsent(c, b) ==
  /\ Pulls(c, b)
  /\ members[Home[c]][b] = "absent"
  /\ wire' = [wire EXCEPT ![c][b] = "failed"]
  /\ UNCHANGED <<polynomial, generation, members, input, phase, blind, exponent,
                 responses, result, origin>>

\* A bug this model must notice: no client is taken for no such agent.
SkipUnresolved(c, b) ==
  /\ Pulls(c, b)
  /\ members[Home[c]][b] = "unresolved"
  /\ wire' = [wire EXCEPT ![c][b] = "failed"]
  /\ UNCHANGED <<polynomial, generation, members, input, phase, blind, exponent,
                 responses, result, origin>>

\* The agent's list of clients is empty: gen_range(0..0) panics.
AskUnresolved(c, b) ==
  /\ Pulls(c, b)
  /\ members[Home[c]][b] = "unresolved"
  /\ phase' = [phase EXCEPT ![c] = "panicked"]
  /\ wire' = [wire EXCEPT ![c] = Dropped(c)]
  /\ UNCHANGED <<polynomial, generation, members, input, blind, exponent,
                 responses, result, origin>>

\* A bug this model must notice: an answer is paired with its position.
CollectByPosition(c, b) ==
  /\ Polling(c)
  /\ ToppedUp(c)
  /\ wire[c][b] = "answered"
  /\ wire' = [wire EXCEPT ![c][b] = "collected"]
  /\ responses' = [responses EXCEPT
       ![c] = Append(@, [agent |-> Len(@) + 1, point |-> exponent[c][b]])]
  /\ UNCHANGED <<polynomial, generation, members, input, phase, blind, exponent,
                 result, origin>>

\* An answer passes the filter and is collected with the agent it came from.
Collect(c, b) ==
  /\ Polling(c)
  /\ ToppedUp(c)
  /\ wire[c][b] = "answered"
  /\ wire' = [wire EXCEPT ![c][b] = "collected"]
  /\ responses' = [responses EXCEPT
       ![c] = Append(@, [agent |-> b, point |-> exponent[c][b]])]
  /\ UNCHANGED <<polynomial, generation, members, input, phase, blind, exponent,
                 result, origin>>

\* A bug this model must notice: the first Err is returned to the caller.
ErrorEndsCall(c, b) ==
  /\ Polling(c)
  /\ wire[c][b] = "failed"
  /\ wire' = [wire EXCEPT ![c] = Dropped(c)]
  /\ phase' = [phase EXCEPT ![c] = "error"]
  /\ UNCHANGED <<polynomial, generation, members, input, blind, exponent,
                 responses, result, origin>>

\* A bug this model must notice: an agent that failed is asked once more.
DiscardRetries(c, b) ==
  /\ Polling(c)
  /\ ToppedUp(c)
  /\ wire[c][b] = "failed"
  /\ wire' = [wire EXCEPT ![c][b] = "unasked"]
  /\ UNCHANGED <<polynomial, generation, members, input, phase, blind, exponent,
                 responses, result, origin>>

\* A bug this model must notice: the filter on p > 0 is gone.
DiscardUnfiltered(c, b) ==
  /\ Polling(c)
  /\ ToppedUp(c)
  /\ wire[c][b] = "failed"
  /\ wire' = [wire EXCEPT ![c][b] = "collected"]
  /\ responses' = [responses EXCEPT ![c] = Append(@, [agent |-> 0, point |-> 1])]
  /\ UNCHANGED <<polynomial, generation, members, input, phase, blind, exponent,
                 result, origin>>

\* An Err becomes (0, generator), which the filter on p > 0 removes.
Discard(c, b) ==
  /\ Polling(c)
  /\ ToppedUp(c)
  /\ wire[c][b] = "failed"
  /\ wire' = [wire EXCEPT ![c][b] = "discarded"]
  /\ UNCHANGED <<polynomial, generation, members, input, phase, blind, exponent,
                 responses, result, origin>>

\* Bugs this model must notice: the own partial result is that of the bare
\* point, or it is put first.
WithBareOwn(c) ==
  Append(responses[c],
         [agent |-> Home[c], point |-> Mul(HashToCurve[input[c]], SecretShard(Home[c]))])

WithOwnFirst(c) ==
  <<[agent |-> Home[c], point |-> Mul(BlindedHash(c), SecretShard(Home[c]))]>>
    \o responses[c]

\* The collected responses and the own one, pushed last.
WithOwn(c) ==
  Append(responses[c],
         [agent |-> Home[c], point |-> Mul(BlindedHash(c), SecretShard(Home[c]))])

\* What follows the await, up to the outcome.
Conclude(c, outcome) ==
  /\ StreamEnded(c)
  /\ wire' = [wire EXCEPT ![c] = Dropped(c)]
  /\ responses' = [responses EXCEPT ![c] = WithOwn(c)]
  /\ origin' = [origin EXCEPT ![c][Home[c]] = generation[Home[c]]]
  /\ phase' = [phase EXCEPT ![c] = outcome]
  /\ UNCHANGED <<polynomial, generation, members, input, blind, exponent>>

\* There are not enough shards: an Err.
GiveUp(c) ==
  /\ Len(WithOwn(c)) < Threshold
  /\ Conclude(c, "error")
  /\ UNCHANGED result

\* invert().unwrap() on a blinding factor of zero.
UnblindPanics(c) ==
  /\ Len(WithOwn(c)) >= Threshold
  /\ blind[c] = 0
  /\ Conclude(c, "panicked")
  /\ UNCHANGED result

\* Interpolate, unblind and squeeze.
Finish(c) ==
  /\ Len(WithOwn(c)) >= Threshold
  /\ blind[c] # 0
  /\ Conclude(c, "ok")
  /\ result' = [result EXCEPT
       ![c] = Squeeze(Mul(Combine(WithOwn(c)), Invert(blind[c])))]
-----------------------------------------------------------------------------
(***************************************************************************)
(* The answering side, the network, and restarts.                          *)
(***************************************************************************)

\* process asks for generation 0, always.
Request(c) == [generation |-> 0, blinded_value |-> BlindedHash(c)]

\* CooperationAgentService::compute_exponent with the given secret shard.
ComputeExponent(request, shard) ==
  IF request.generation # 0
  THEN [status |-> "invalid_argument", blinded_exponent |-> 0]
  ELSE [status |-> "ok", blinded_exponent |-> Mul(request.blinded_value, shard)]

\* Agent b receives the request and answers it.
Serve(c, b) ==
  /\ wire[c][b] = "sent"
  /\ LET reply == ComputeExponent(Request(c), SecretShard(b))
     IN  /\ wire' = [wire EXCEPT
              ![c][b] = IF reply.status = "ok" THEN "answered" ELSE "failed"]
         /\ exponent' = [exponent EXCEPT ![c][b] = reply.blinded_exponent]
  /\ origin' = [origin EXCEPT ![c][b] = generation[b]]
  /\ UNCHANGED <<polynomial, generation, members, input, phase, blind, responses,
                 result>>

\* The connection cannot be made or breaks, or the answer is no curve point.
LoseRequest(c, b) ==
  /\ wire[c][b] = "sent"
  /\ b \notin Reliable
  /\ wire' = [wire EXCEPT ![c][b] = "failed"]
  /\ UNCHANGED <<polynomial, generation, members, input, phase, blind, exponent,
                 responses, result, origin>>

\* The process of agent a ends: its calls are lost and requests to it fail.
\* It will read the shard of its configuration, which may have been replaced.
Interrupt(a) ==
  LET Dies(c) == Home[c] = a /\ phase[c] = "collecting"
  IN  /\ \E g \in {generation[a], generation[a] + 1} \cap Generations :
           generation' = [generation EXCEPT ![a] = g]
      /\ phase' = [c \in Calls |-> IF Dies(c) THEN "lost" ELSE phase[c]]
      /\ wire' = [c \in Calls |->
           IF Dies(c) THEN Dropped(c)
           ELSE [wire[c] EXCEPT ![a] = IF @ = "sent" THEN "failed" ELSE @]]
      /\ UNCHANGED <<polynomial, input, blind, exponent, responses, result, origin>>

\* agent_server starts again and resolves the addresses of its members.
RestartServer(a) ==
  /\ a \in Initiators
  /\ Interrupt(a)
  /\ \E m \in Topology(a) : members' = [members EXCEPT ![a] = m]

\* light_agent_server starts again; it has no members.
RestartLight(a) ==
  /\ a \notin Initiators
  /\ Interrupt(a)
  /\ UNCHANGED members

Restart(a) == RestartServer(a) \/ RestartLight(a)
-----------------------------------------------------------------------------
\* The steps a call takes by itself.
Advance(c) ==
  \/ \E b \in Agents : Ask(c, b) \/ SkipAbsent(c, b) \/ AskUnresolved(c, b)
  \/ \E b \in Agents : Collect(c, b) \/ Discard(c, b)
  \/ GiveUp(c) \/ UnblindPanics(c) \/ Finish(c)

Next ==
  \/ \E c \in Calls : Start(c) \/ Advance(c)
  \/ \E c \in Calls, b \in Agents : Serve(c, b) \/ LoseRequest(c, b)
  \/ \E a \in Restartable : Restart(a)

Spec == Init /\ [][Next]_vars

\* The runtime polls a task that can proceed, and a reliable agent answers.
\* Nothing is assumed of the other agents: the code sets no deadline on a request.
Fairness ==
  /\ \A c \in Calls : WF_vars(Advance(c))
  /\ \A c \in Calls, b \in Reliable : WF_vars(Serve(c, b))

FairSpec == Spec /\ Fairness
-----------------------------------------------------------------------------
(***************************************************************************)
(* Properties.                                                             *)
(***************************************************************************)

\* Typing of the calls, their requests and the agents.
TypeOK ==
  /\ polynomial \in [Generations -> Polynomials]
  /\ generation \in [Agents -> Generations]
  /\ members \in [Initiators -> [Agents -> {"absent", "resolved", "unresolved"}]]
  /\ input \in [Calls -> Inputs]
  /\ phase \in [Calls ->
                 {"idle", "collecting", "ok", "error", "panicked", "lost"}]
  /\ blind \in [Calls -> Field]
  /\ wire \in [Calls -> [Agents -> WireStates]]
  /\ exponent \in [Calls -> [Agents -> Field]]
  /\ responses \in [Calls -> Seq(Response)]
  /\ result \in [Calls -> Fingerprint \cup {NoResult}]
  /\ origin \in [Calls -> [Agents -> Generations]]

Contributors(c) == {responses[c][j].agent : j \in DOMAIN responses[c]}

Settled(c) == phase[c] \in {"ok", "error", "panicked", "lost"}

\* The partial result of agent b for call c with its share of generation g.
PartialResult(c, b, g) == Mul(BlindedHash(c), Share(polynomial[g], b))

\* The inductive invariant.  A call that has not started has touched nothing.
IdleUntouched ==
  \A c \in Calls : phase[c] = "idle" =>
    responses[c] = <<>> /\ wire[c] = [b \in Agents |-> "unasked"]

\* An answer, waiting or collected, is the partial result under the share its
\* agent had when it computed it: no answer is stored for another call or agent.
AnswersGenuine ==
  \A c \in Calls, b \in Agents :
    wire[c][b] \in {"answered", "collected"}
      => exponent[c][b] = PartialResult(c, b, origin[c][b])

\* The collected responses are those of different agents, the initiator never
\* among the agents it asks.
GenuineResponses(c) ==
  /\ wire[c][Home[c]] = "unasked"
  /\ \A j \in 1 .. Len(responses[c]) :
       LET e == responses[c][j]
       IN  /\ e.agent # Home[c] => wire[c][e.agent] = "collected"
           /\ e.point = PartialResult(c, e.agent, origin[c][e.agent])
           /\ \A i \in 1 .. Len(responses[c]) :
                i # j => responses[c][i].agent # e.agent

ResponsesGenuine == \A c \in Calls : GenuineResponses(c)

\* The initiator's own partial result is the last, and there only at the end.
OwnResponseLast ==
  \A c \in Calls :
    /\ phase[c] \in {"idle", "collecting"} =>
         /\ Len(responses[c]) <= Threshold - 1
         /\ \A j \in 1 .. Len(responses[c]) : responses[c][j].agent # Home[c]
    /\ phase[c] = "ok" =>
         /\ Len(responses[c]) = Threshold
         /\ responses[c][Threshold].agent = Home[c]

\* The result is the unblinded combination of the responses that are kept.
ResultFromResponses ==
  \A c \in Calls : phase[c] = "ok" =>
    /\ blind[c] # 0
    /\ result[c] = Squeeze(Mul(Combine(responses[c]), Invert(blind[c])))

IInv ==
  /\ IdleUntouched
  /\ AnswersGenuine
  /\ ResponsesGenuine
  /\ OwnResponseLast
  /\ ResultFromResponses

\* A fingerprint is computed from the partial results of exactly Threshold
\* different agents, the initiator's among them and in last place: stale,
\* failed or repeated answers never stand in for a missing agent.
QuorumContributes ==
  \A c \in Calls : phase[c] = "ok" =>
    /\ Len(responses[c]) = Threshold
    /\ Cardinality(Contributors(c)) = Threshold
    /\ responses[c][Threshold].agent = Home[c]

\* A call gives up only when so many agents failed or are missing from its
\* topology that fewer than Threshold are left, and never before it has heard
\* from each of them: one failure does not fail a call early.
GivesUpOnlyWithoutQuorum ==
  \A c \in Calls : phase[c] = "error" =>
    /\ Cardinality({b \in Agents : wire[c][b] = "discarded"}) > Count - Threshold
    /\ \A b \in Agents \ {Home[c]} : wire[c][b] \in {"collected", "discarded"}

\* When the shares behind all answers of a call come from one run of the key
\* ceremony, whichever agents answered and in whatever order, the result is
\* the one of NaiveProtocol with the secret of that run.
UniformGenerationCorrect ==
  \A c \in Calls, g \in Generations :
    phase[c] = "ok" /\ (\A b \in Contributors(c) : origin[c][b] = g)
      => result[c] = NaiveProcess(input[c], Secret(polynomial[g]))

\* Answers of several key ceremonies may meet in one call.  Still the result
\* depends on nothing but the input and the shares that were used: not on the
\* initiator, the blinding factor or the order of the answers.
SharesDetermineResult ==
  \A c, d \in Calls :
    /\ phase[c] = "ok" /\ phase[d] = "ok" /\ input[c] = input[d]
    /\ Contributors(c) = Contributors(d)
    /\ \A b \in Contributors(c) : origin[c][b] = origin[d][b]
    => result[c] = result[d]

\* The agents whose answer to call c used another share than that of run g.
Deviating(c, g) ==
  {b \in Contributors(c) : Share(polynomial[origin[c][b]], b) # Share(polynomial[g], b)}

\* One share of another key ceremony among those of run g never cancels out: the
\* call returns no Err, and not the fingerprint of run g's secret either.
OneDeviationShows ==
  \A c \in Calls, g \in Generations :
    phase[c] = "ok" /\ Cardinality(Deviating(c, g)) = 1 /\ HashToCurve[input[c]] # 0
      => result[c] # NaiveProcess(input[c], Secret(polynomial[g]))

\* What an agent is sent tells it nothing of the input: every other input
\* could have been sent as the same point under another blinding factor.
Oblivious ==
  \A c \in Calls : phase[c] # "idle" =>
    \A x \in Inputs : \E r \in Blinds : Blinded(x, r) = BlindedHash(c)

\* A call that ended asks nobody, and late answers, restarts and the progress
\* of other calls no longer change its outcome or what it was computed from.
SettledStays ==
  [][\A c \in Calls : Settled(c) =>
       /\ UNCHANGED <<phase[c], responses[c], result[c]>>
       /\ \A b \in Agents : wire'[c][b] = "sent" => wire[c][b] = "sent"]_vars

\* A call can ask the next agent, take the result of a request, or conclude.
CanAdvance(c) ==
  \/ \E b \in Agents : Pulls(c, b)
  \/ Polling(c) /\ ToppedUp(c) /\ \E b \in Agents : wire[c][b] \in {"answered", "failed"}
  \/ StreamEnded(c)

\* buffer_unordered and take neither overrun the window nor lock each other: a
\* call that cannot go on by itself waits for agents, for every request it has
\* in flight, and those fill the window or are the last it had to send.
HeldUpOnlyByAgents ==
  \A c \in Calls : phase[c] = "collecting" =>
    /\ Cardinality(InFlight(c)) <= Window
    /\ \/ CanAdvance(c)
       \/ /\ InFlight(c) # {} /\ \A b \in InFlight(c) : wire[c][b] = "sent"
          /\ Pending(c) = {} \/ Cardinality(InFlight(c)) = Window

\* How far a request has come.
Stage(state) ==
  CASE state = "unasked" -> 0
    [] state = "sent" -> 1
    [] state \in {"answered", "failed"} -> 2
    [] OTHER -> 3

\* A call asks no agent twice, and takes a bounded number of steps whatever the
\* agents and the restarts do: no request goes back, and a step of a call takes
\* one of its requests further or ends the call.
RequestsMoveForward ==
  [][\A c \in Calls :
       /\ \A b \in Agents : Stage(wire[c][b]) <= Stage(wire'[c][b])
       /\ Advance(c) => \/ phase'[c] # "collecting"
                        \/ \E b \in Agents : Stage(wire[c][b]) < Stage(wire'[c][b])]_vars

\* The agents a call asks before it takes the first result.
FirstWindow(c) ==
  {b \in Agents \ {Home[c]} : Cardinality({d \in Agents \ {Home[c]} : d <= b}) <= Window}

\* A listed agent whose address did not resolve at the start is fatal, not
\* merely missing: a call that needs an answer and has such an agent within its
\* first window, in the code's 1024 every agent, returns neither a fingerprint
\* nor an Err.
UnresolvedMemberIsFatal ==
  [][\A c \in Calls :
       Threshold > 1 /\ phase[c] = "collecting" /\ phase'[c] \in {"ok", "error"}
         => \A b \in FirstWindow(c) : members[Home[c]][b] # "unresolved"]_vars

\* As long as no share is replaced the protocol implements the promise of the
\* trait: every call fails or returns the result of NaiveProtocol.
PromisedPhase == [c \in Calls |-> IF phase[c] = "collecting" THEN "running" ELSE phase[c]]

Promise == INSTANCE FingerprintProtocol WITH
  secret <- Secret(polynomial[0]),
  phase  <- PromisedPhase

KeepsPromise == Promise!Spec

\* A call that has started returns a fingerprint, unless its own process ends or
\* a listed agent is unresolved: for configurations in which Threshold - 1 other
\* agents answer throughout and those that may stay silent do not fill the
\* window.  The others may fail, hang or restart as they like.
Succeeds ==
  \A c \in Calls :
    phase[c] = "collecting" ~>
      \/ phase[c] \in {"ok", "lost"}
      \/ phase[c] = "panicked" /\ \E b \in Agents : members[Home[c]][b] = "unresolved"
-----------------------------------------------------------------------------
(***************************************************************************)
(* What the documentation says and the code does not keep.                 *)
(***************************************************************************)

\* README: "Same transaction data always produces identical fingerprint", and
\* "Periodically rotate secret shares": a call that returns a fingerprint
\* returns the one of some secret, whichever the rotation has reached.
SomeSecretsFingerprint ==
  \A c \in Calls : phase[c] = "ok" =>
    \E g \in Generations : result[c] = NaiveProcess(input[c], Secret(polynomial[g]))
=============================================================================
