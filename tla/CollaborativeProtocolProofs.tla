-------------------- MODULE CollaborativeProtocolProofs ---------------------
(***************************************************************************)
(* What holds of CollaborativeProtocol for every configuration.            *)
(***************************************************************************)
EXTENDS CollaborativeProtocol, SecretSharingProofs, FiniteSetTheorems

\* Lists of partial results as a call combines them.
Combined(list, points) ==
  Combine([j \in 1 .. Threshold |-> [agent |-> list[j], point |-> points[j]]])

\* The numbers of the agents are nonzero field elements.
LEMMA AgentsNonzero == Agents \subseteq 1 .. P - 1
BY ConfigAssumption, FieldAssumption DEF Agents

\* Lists of different agents are groups in the sense of SecretSharingProofs.
LEMMA AgentGroups == Injection(1 .. Threshold, Agents) \subseteq Groups(Threshold)
<1> SUFFICES ASSUME NEW list \in Injection(1 .. Threshold, Agents)
             PROVE  list \in Groups(Threshold)
  OBVIOUS
<1>1. list \in [1 .. Threshold -> Agents] /\ IsInjective(list)
  BY DEF Injection
<1>2. list \in [1 .. Threshold -> 1 .. P - 1]
  BY <1>1, AgentsNonzero
<1> QED BY <1>1, <1>2 DEF Groups, Injection

\* A combination of partial results is a group element.
LEMMA CombinedType ==
  ASSUME NEW list \in Injection(1 .. Threshold, Agents),
         NEW points \in [1 .. Threshold -> Field]
  PROVE  Combined(list, points) \in Field
<1>1. list \in Groups(Threshold) /\ Threshold \in Nat /\ points \in Terms(Threshold)
  BY AgentGroups, ConfigAssumption DEF Terms
<1> QED BY <1>1, CombineIsWeighted DEF Combined

\* Unblinding [r * k] h with the inverse of r gives [k] h.
LEMMA Unblind ==
  ASSUME NEW h \in Field, NEW r \in Field, NEW k \in Field, r # 0
  PROVE  Mul(Mul(Mul(h, r), k), Invert(r)) = Mul(h, k)
<1> DEFINE i == Invert(r)
<1>1. h \in Int /\ r \in Int /\ k \in Int
  BY FieldAssumption DEF Field
<1>2. i \in Int /\ Mul(r, i) = 1
  BY InvertInverts, FieldAssumption DEF Field
<1> HIDE DEF i
<1>3. Mul(Mul(Mul(h, r), k), i) = Mul((h * r * k) % P, i)
  BY <1>1, MulAssociates
<1>4. Mul((h * r * k) % P, i) = Mul(h * r * k, i)
  <2>1. h * r * k \in Int
    BY <1>1
  <2> QED BY <2>1, <1>2, ReduceFactor
<1>5. h * r * k * i = (r * i) * (h * k)
  BY <1>1, <1>2
<1>6. Mul(h * r * k, i) = Mul(r * i, h * k)
  BY <1>5 DEF Mul
<1>7. Mul(r * i, h * k) = Mul((r * i) % P, h * k)
  <2>1. r * i \in Int /\ h * k \in Int
    BY <1>1, <1>2
  <2> QED BY <2>1, ReduceFactor
<1>8. Mul((r * i) % P, h * k) = Mul(1, h * k)
  BY <1>2 DEF Mul
<1>9. Mul(1, h * k) = Mul(h, k)
  BY <1>1 DEF Mul
<1> QED BY <1>3, <1>4, <1>6, <1>7, <1>8, <1>9 DEF i
-----------------------------------------------------------------------------
(***************************************************************************)
(* The points a call handles.                                              *)
(***************************************************************************)

\* The point a call sends and every partial result of it are group elements.
LEMMA PointTypes ==
  ASSUME TypeOK, NEW c \in Calls, NEW b \in Agents, NEW g \in Generations
  PROVE  /\ HashToCurve[input[c]] \in Field
         /\ BlindedHash(c) \in Field
         /\ Share(polynomial[g], b) \in Field
         /\ SecretShard(b) \in Field
         /\ PartialResult(c, b, g) \in Field
         /\ PartialResult(c, b, generation[b]) = Mul(BlindedHash(c), SecretShard(b))
<1>1. HashToCurve[input[c]] \in Field
  BY HashAssumption DEF TypeOK
<1>2. Field \subseteq Int
  BY FieldAssumption DEF Field
<1>3. BlindedHash(c) \in Field
  BY <1>1, <1>2, MulInField DEF BlindedHash, Blinded, TypeOK
<1>4. Share(polynomial[g], b) \in Field /\ SecretShard(b) \in Field
  <2>1. \A h \in Generations : polynomial[h] \in Polynomial(Threshold)
    BY ConfigAssumption DEF TypeOK
  <2>2. b \in 1 .. P - 1 /\ generation[b] \in Generations /\ Threshold \in Nat \ {0}
    BY AgentsNonzero, ConfigAssumption DEF TypeOK
  <2> QED BY <2>1, <2>2, ShareIsEvaluation DEF SecretShard
<1>5. PartialResult(c, b, g) \in Field
  BY <1>2, <1>3, <1>4, MulInField DEF PartialResult
<1> QED BY <1>1, <1>3, <1>4, <1>5 DEF PartialResult, SecretShard

\* The responses of a call that collects, with the own one appended.
LEMMA OwnAppended ==
  ASSUME TypeOK, ResponsesGenuine, OwnResponseLast,
         NEW c \in Calls, phase[c] = "collecting"
  PROVE  /\ WithOwn(c) \in Seq(Response)
         /\ Len(WithOwn(c)) = Len(responses[c]) + 1
         /\ Len(WithOwn(c)) <= Threshold
         /\ \A j \in 1 .. Len(responses[c]) : WithOwn(c)[j] = responses[c][j]
         /\ WithOwn(c)[Len(responses[c]) + 1] =
              [agent |-> Home[c], point |-> PartialResult(c, Home[c], generation[Home[c]])]
         /\ \A i, j \in 1 .. Len(WithOwn(c)) :
              i # j => WithOwn(c)[i].agent # WithOwn(c)[j].agent
<1>1. Home[c] \in Agents
  BY ConfigAssumption
<1>2. responses[c] \in Seq(Response) /\ Len(responses[c]) \in Nat
  BY DEF TypeOK
<1>3. generation[Home[c]] \in Generations
  BY <1>1 DEF TypeOK
<1> DEFINE own == [agent |-> Home[c], point |-> Mul(BlindedHash(c), SecretShard(Home[c]))]
<1>4. own \in Response /\ own.agent = Home[c]
  /\ own = [agent |-> Home[c], point |-> PartialResult(c, Home[c], generation[Home[c]])]
  BY <1>1, <1>3, PointTypes DEF Response
<1>5. WithOwn(c) = Append(responses[c], own)
  BY DEF WithOwn
<1> HIDE DEF own
<1>6. /\ WithOwn(c) \in Seq(Response)
      /\ Len(WithOwn(c)) = Len(responses[c]) + 1
      /\ \A j \in 1 .. Len(responses[c]) : WithOwn(c)[j] = responses[c][j]
      /\ WithOwn(c)[Len(responses[c]) + 1] = own
  BY <1>2, <1>4, <1>5
<1>7. Len(WithOwn(c)) <= Threshold
  BY <1>2, <1>6, ConfigAssumption DEF OwnResponseLast
<1>8. ASSUME NEW i \in 1 .. Len(WithOwn(c)), NEW j \in 1 .. Len(WithOwn(c)), i # j
      PROVE  WithOwn(c)[i].agent # WithOwn(c)[j].agent
  <2>1. CASE i \in 1 .. Len(responses[c]) /\ j \in 1 .. Len(responses[c])
    BY <1>6, <1>8, <2>1 DEF ResponsesGenuine, GenuineResponses
  <2>2. CASE i = Len(responses[c]) + 1 /\ j \in 1 .. Len(responses[c])
    BY <1>4, <1>6, <2>2 DEF OwnResponseLast
  <2>3. CASE j = Len(responses[c]) + 1 /\ i \in 1 .. Len(responses[c])
    BY <1>4, <1>6, <2>3 DEF OwnResponseLast
  <2> QED BY <1>2, <1>6, <1>8, <2>1, <2>2, <2>3
<1> QED BY <1>4, <1>6, <1>7, <1>8

\* A list of responses of Threshold different agents splits into the agents, a
\* group, and the points.
LEMMA ResponsesSplit ==
  ASSUME NEW list \in Seq(Response), Len(list) = Threshold,
         \A i, j \in 1 .. Threshold : i # j => list[i].agent # list[j].agent
  PROVE  /\ [j \in 1 .. Threshold |-> list[j].agent] \in Injection(1 .. Threshold, Agents)
         /\ [j \in 1 .. Threshold |-> list[j].point] \in [1 .. Threshold -> Field]
         /\ Combine(list) = Combined([j \in 1 .. Threshold |-> list[j].agent],
                                     [j \in 1 .. Threshold |-> list[j].point])
<1> DEFINE agents == [j \in 1 .. Threshold |-> list[j].agent]
           points == [j \in 1 .. Threshold |-> list[j].point]
<1>1. \A j \in 1 .. Threshold : list[j] \in Response
  OBVIOUS
<1>2. agents \in [1 .. Threshold -> Agents] /\ points \in [1 .. Threshold -> Field]
  BY <1>1 DEF Response
<1>3. IsInjective(agents)
  BY DEF IsInjective
<1>4. list = [j \in 1 .. Threshold |-> list[j]]
  OBVIOUS
<1>5. \A j \in 1 .. Threshold : list[j] = [agent |-> list[j].agent, point |-> list[j].point]
  BY <1>1 DEF Response
<1>6. list = [j \in 1 .. Threshold |-> [agent |-> agents[j], point |-> points[j]]]
  BY <1>4, <1>5
<1>7. Combine(list) = Combined(agents, points)
  BY <1>6 DEF Combined
<1> QED BY <1>2, <1>3, <1>7 DEF Injection

\* What a call that finishes returns is a fingerprint.
LEMMA ResultType ==
  ASSUME TypeOK, ResponsesGenuine, OwnResponseLast,
         NEW c \in Calls, phase[c] = "collecting", blind[c] # 0,
         Len(WithOwn(c)) >= Threshold
  PROVE  Squeeze(Mul(Combine(WithOwn(c)), Invert(blind[c]))) \in Fingerprint
<1>1. Len(WithOwn(c)) = Threshold
  <2>1. Len(WithOwn(c)) <= Threshold /\ WithOwn(c) \in Seq(Response)
    BY OwnAppended
  <2> QED BY <2>1, ConfigAssumption
<1>2. Combine(WithOwn(c)) \in Field
  <2>1. \A i, j \in 1 .. Threshold : i # j => WithOwn(c)[i].agent # WithOwn(c)[j].agent
    BY <1>1, OwnAppended
  <2>2. WithOwn(c) \in Seq(Response)
    BY OwnAppended
  <2> QED BY <1>1, <2>1, <2>2, ResponsesSplit, CombinedType
<1>3. Invert(blind[c]) \in Field
  BY InvertInverts DEF TypeOK
<1>4. Mul(Combine(WithOwn(c)), Invert(blind[c])) \in Field
  BY <1>2, <1>3, MulInField, FieldAssumption DEF Field
<1> QED BY <1>4 DEF Fingerprint
-----------------------------------------------------------------------------
(***************************************************************************)
(* Type correctness.                                                       *)
(***************************************************************************)

\* Dropping the stream leaves a state of the wire.
LEMMA DroppedType ==
  ASSUME TypeOK, NEW c \in Calls
  PROVE  Dropped(c) \in [Agents -> WireStates]
BY DEF Dropped, TypeOK, WireStates

\* The initial state is well typed.
LEMMA InitType == Init => TypeOK
<1> SUFFICES ASSUME Init PROVE TypeOK
  OBVIOUS
<1>1. members \in [Initiators -> [Agents -> {"absent", "resolved", "unresolved"}]]
  BY DEF Init, Topology
<1>2. 0 \in Field /\ 0 \in Generations
  BY FieldAssumption, ConfigAssumption DEF Field, Generations
<1>3. <<>> \in Seq(Response)
  OBVIOUS
<1>4. /\ blind \in [Calls -> Field] /\ exponent \in [Calls -> [Agents -> Field]]
      /\ generation \in [Agents -> Generations] /\ origin \in [Calls -> [Agents -> Generations]]
  BY <1>2 DEF Init
<1>5. responses \in [Calls -> Seq(Response)]
  BY <1>3 DEF Init
<1>6. wire \in [Calls -> [Agents -> WireStates]]
  BY DEF Init, WireStates
<1> QED BY <1>1, <1>4, <1>5, <1>6 DEF Init, TypeOK

\* What process does after its await keeps every type but the result's.
LEMMA ConcludeType ==
  ASSUME TypeOK, ResponsesGenuine, OwnResponseLast,
         NEW c \in Calls, NEW outcome \in {"ok", "error", "panicked"},
         Conclude(c, outcome), result' \in [Calls -> Fingerprint \cup {NoResult}]
  PROVE  TypeOK'
<1>1. phase[c] = "collecting"
  BY DEF Conclude, StreamEnded
<1>2. WithOwn(c) \in Seq(Response)
  BY <1>1, OwnAppended
<1>3. responses' \in [Calls -> Seq(Response)]
  BY <1>2 DEF Conclude, TypeOK
<1>4. wire' \in [Calls -> [Agents -> WireStates]]
  BY DroppedType DEF Conclude, TypeOK
<1>5. origin' \in [Calls -> [Agents -> Generations]]
  BY ConfigAssumption DEF Conclude, TypeOK
<1>6. phase' \in [Calls -> {"idle", "collecting", "ok", "error", "panicked", "lost"}]
  BY DEF Conclude, TypeOK
<1> QED BY <1>3, <1>4, <1>5, <1>6 DEF Conclude, TypeOK

\* Every step keeps the types; only the result of a call depends on what the
\* responses are.
LEMMA NextType == TypeOK /\ ResponsesGenuine /\ OwnResponseLast /\ [Next]_vars => TypeOK'
<1> SUFFICES ASSUME TypeOK, ResponsesGenuine, OwnResponseLast, [Next]_vars
             PROVE  TypeOK'
  OBVIOUS
<1>1. ASSUME NEW c \in Calls, Start(c) PROVE TypeOK'
  BY <1>1, ConfigAssumption DEF Start, TypeOK
<1>2. ASSUME NEW c \in Calls, NEW b \in Agents, Ask(c, b) PROVE TypeOK'
  BY <1>2 DEF Ask, TypeOK, WireStates
<1>3. ASSUME NEW c \in Calls, NEW b \in Agents, SkipAbsent(c, b) PROVE TypeOK'
  BY <1>3 DEF SkipAbsent, TypeOK, WireStates
<1>4. ASSUME NEW c \in Calls, NEW b \in Agents, AskUnresolved(c, b) PROVE TypeOK'
  BY <1>4, DroppedType DEF AskUnresolved, TypeOK
<1>5. ASSUME NEW c \in Calls, NEW b \in Agents, Collect(c, b) PROVE TypeOK'
  <2>1. [agent |-> b, point |-> exponent[c][b]] \in Response
    BY DEF TypeOK, Response
  <2>2. responses' \in [Calls -> Seq(Response)]
    BY <1>5, <2>1 DEF Collect, TypeOK
  <2>3. wire' \in [Calls -> [Agents -> WireStates]]
    BY <1>5 DEF Collect, TypeOK, WireStates
  <2> QED BY <1>5, <2>2, <2>3 DEF Collect, TypeOK
<1>6. ASSUME NEW c \in Calls, NEW b \in Agents, Discard(c, b) PROVE TypeOK'
  BY <1>6 DEF Discard, TypeOK, WireStates
<1>7. ASSUME NEW c \in Calls, GiveUp(c) PROVE TypeOK'
  BY <1>7, ConcludeType DEF GiveUp, TypeOK
<1>8. ASSUME NEW c \in Calls, UnblindPanics(c) PROVE TypeOK'
  BY <1>8, ConcludeType DEF UnblindPanics, TypeOK
<1>9. ASSUME NEW c \in Calls, Finish(c) PROVE TypeOK'
  <2>1. result' \in [Calls -> Fingerprint \cup {NoResult}]
    BY <1>9, ResultType DEF Finish, Conclude, StreamEnded, TypeOK
  <2> QED BY <1>9, <2>1, ConcludeType DEF Finish
<1>10. ASSUME NEW c \in Calls, NEW b \in Agents, Serve(c, b) PROVE TypeOK'
  <2>1. ComputeExponent(Request(c), SecretShard(b)) =
          [status |-> "ok", blinded_exponent |-> Mul(BlindedHash(c), SecretShard(b))]
    BY DEF ComputeExponent, Request
  <2>2. Mul(BlindedHash(c), SecretShard(b)) \in Field /\ generation[b] \in Generations
    BY PointTypes DEF TypeOK
  <2>3. exponent' \in [Calls -> [Agents -> Field]]
    BY <1>10, <2>1, <2>2 DEF Serve, TypeOK
  <2>4. wire' \in [Calls -> [Agents -> WireStates]]
    BY <1>10, <2>1 DEF Serve, TypeOK, WireStates
  <2>5. origin' \in [Calls -> [Agents -> Generations]]
    BY <1>10, <2>2 DEF Serve, TypeOK
  <2> QED BY <1>10, <2>3, <2>4, <2>5 DEF Serve, TypeOK
<1>11. ASSUME NEW c \in Calls, NEW b \in Agents, LoseRequest(c, b) PROVE TypeOK'
  BY <1>11 DEF LoseRequest, TypeOK, WireStates
<1>12. ASSUME NEW a \in Restartable, Restart(a) PROVE TypeOK'
  <2>1. a \in Agents
    BY ConfigAssumption
  <2>2. generation' \in [Agents -> Generations]
    BY <1>12 DEF Restart, RestartServer, RestartLight, Interrupt, TypeOK
  <2>3. members' \in [Initiators -> [Agents -> {"absent", "resolved", "unresolved"}]]
    BY <1>12 DEF Restart, RestartServer, RestartLight, Interrupt, Topology, TypeOK
  <2>4. phase' \in [Calls -> {"idle", "collecting", "ok", "error", "panicked", "lost"}]
    BY <1>12 DEF Restart, RestartServer, RestartLight, Interrupt, TypeOK
  <2>5. wire' \in [Calls -> [Agents -> WireStates]]
    <3>1. Interrupt(a)
      BY <1>12 DEF Restart, RestartServer, RestartLight
    <3> QED BY <3>1, <2>1, DroppedType DEF Interrupt, TypeOK, WireStates
  <2> QED BY <1>12, <2>2, <2>3, <2>4, <2>5 DEF Restart, RestartServer, RestartLight, Interrupt, TypeOK
<1>13. CASE UNCHANGED vars
  BY <1>13 DEF vars, TypeOK
<1> QED BY <1>1, <1>2, <1>3, <1>4, <1>5, <1>6, <1>7, <1>8, <1>9, <1>10, <1>11, <1>12, <1>13
        DEF Next, Advance
-----------------------------------------------------------------------------
(***************************************************************************)
(* The inductive invariant.                                                *)
(***************************************************************************)

\* Dropping the stream touches only the requests in flight.
LEMMA DroppedFacts ==
  ASSUME NEW c \in Calls, NEW b \in Agents
  PROVE  Dropped(c)[b] = IF wire[c][b] \in {"sent", "answered", "failed"}
                         THEN "cancelled" ELSE wire[c][b]
BY DEF Dropped, InFlight

\* A step on one request leaves the others as they are.
LEMMA WireUpdated ==
  ASSUME TypeOK, NEW c \in Calls, NEW b \in Agents, NEW state,
         wire' = [wire EXCEPT ![c][b] = state],
         NEW d \in Calls, NEW e \in Agents
  PROVE  wire'[d][e] = IF d = c /\ e = b THEN state ELSE wire[d][e]
BY DEF TypeOK

\* After one stream is dropped every request is as it was, or cancelled.
LEMMA WireDropped ==
  ASSUME TypeOK, NEW c \in Calls, wire' = [wire EXCEPT ![c] = Dropped(c)],
         NEW d \in Calls, NEW b \in Agents
  PROVE  /\ wire'[d][b] = wire[d][b] \/ wire'[d][b] = "cancelled"
         /\ wire[d][b] \in {"unasked", "collected", "discarded"} => wire'[d][b] = wire[d][b]
<1>1. wire'[d] = IF d = c THEN Dropped(c) ELSE wire[d]
  BY DEF TypeOK
<1>2. CASE d = c
  <2>1. wire'[d][b] = Dropped(d)[b]
    BY <1>1, <1>2
  <2>2. Dropped(d)[b] = IF wire[d][b] \in {"sent", "answered", "failed"}
                        THEN "cancelled" ELSE wire[d][b]
    BY DroppedFacts
  <2> QED BY <2>1, <2>2
<1>3. CASE d # c
  BY <1>1, <1>3
<1> QED BY <1>2, <1>3

\* The initial state satisfies the invariant.
LEMMA InitInvariant == Init => IInv
<1> SUFFICES ASSUME Init PROVE IInv
  OBVIOUS
<1>1. IdleUntouched /\ AnswersGenuine /\ ResultFromResponses
  BY DEF Init, IdleUntouched, AnswersGenuine, ResultFromResponses
<1>2. \A c \in Calls : Home[c] \in Agents
  BY ConfigAssumption
<1>3. ResponsesGenuine
  BY <1>2 DEF Init, ResponsesGenuine, GenuineResponses
<1>4. OwnResponseLast
  BY ConfigAssumption DEF Init, OwnResponseLast
<1> QED BY <1>1, <1>3, <1>4 DEF IInv

\* A call that has not started stays untouched: nobody answers what it did not ask.
LEMMA NextIdle == TypeOK /\ IdleUntouched /\ [Next]_vars => IdleUntouched'
<1> SUFFICES ASSUME TypeOK, IdleUntouched, [Next]_vars,
                    NEW d \in Calls, phase'[d] = "idle"
             PROVE  responses'[d] = <<>> /\ wire'[d] = [b \in Agents |-> "unasked"]
  BY DEF IdleUntouched
<1> USE DEF IdleUntouched, TypeOK
<1>1. ASSUME NEW c \in Calls, Start(c) PROVE d # c /\ UNCHANGED <<phase[d], responses[d], wire[d]>>
  BY <1>1 DEF Start
<1>2. ASSUME NEW c \in Calls, Advance(c) PROVE d # c /\ UNCHANGED <<phase[d], responses[d], wire[d]>>
  <2>1. ASSUME NEW b \in Agents, Ask(c, b) \/ SkipAbsent(c, b) \/ AskUnresolved(c, b)
        PROVE  d # c /\ UNCHANGED <<phase[d], responses[d], wire[d]>>
    BY <2>1 DEF Ask, SkipAbsent, AskUnresolved, Pulls, Polling
  <2>2. ASSUME NEW b \in Agents, Collect(c, b) \/ Discard(c, b)
        PROVE  d # c /\ UNCHANGED <<phase[d], responses[d], wire[d]>>
    BY <2>2 DEF Collect, Discard, Polling
  <2>3. ASSUME GiveUp(c) \/ UnblindPanics(c) \/ Finish(c)
        PROVE  d # c /\ UNCHANGED <<phase[d], responses[d], wire[d]>>
    BY <2>3 DEF GiveUp, UnblindPanics, Finish, Conclude, StreamEnded
  <2> QED BY <1>2, <2>1, <2>2, <2>3 DEF Advance
<1>3. ASSUME NEW c \in Calls, NEW b \in Agents, Serve(c, b) \/ LoseRequest(c, b)
      PROVE  d # c /\ UNCHANGED <<phase[d], responses[d], wire[d]>>
  BY <1>3 DEF Serve, LoseRequest
<1>4. ASSUME NEW a \in Restartable, Restart(a) PROVE UNCHANGED <<phase[d], responses[d], wire[d]>>
  <2>1. phase[d] = "idle" /\ responses'[d] = responses[d]
    BY <1>4 DEF Restart, RestartServer, RestartLight, Interrupt
  <2>2. wire'[d] = [wire[d] EXCEPT ![a] = IF @ = "sent" THEN "failed" ELSE @]
    BY <1>4, <2>1 DEF Restart, RestartServer, RestartLight, Interrupt
  <2>3. wire[d] = [b \in Agents |-> "unasked"]
    BY <2>1
  <2> QED BY <1>4, <2>1, <2>2, <2>3
<1>5. CASE UNCHANGED vars
  BY <1>5 DEF vars
<1> QED BY <1>1, <1>2, <1>3, <1>4, <1>5 DEF Next

\* An answer is computed from what its call sent and the share of its agent,
\* and neither it nor the record of its origin changes as long as it is used.
LEMMA NextAnswers ==
  TypeOK /\ IdleUntouched /\ AnswersGenuine /\ ResponsesGenuine /\ [Next]_vars
    => AnswersGenuine'
<1> SUFFICES ASSUME TypeOK, IdleUntouched, AnswersGenuine, ResponsesGenuine, [Next]_vars,
                    NEW d \in Calls, NEW e \in Agents, wire'[d][e] \in {"answered", "collected"}
             PROVE  exponent'[d][e] = PartialResult(d, e, origin[d][e])'
  BY DEF AnswersGenuine
<1> DEFINE Kept == /\ wire[d][e] \in {"answered", "collected"}
                   /\ UNCHANGED <<input, polynomial, blind[d], exponent[d][e], origin[d][e]>>
<1>0. Kept => exponent'[d][e] = PartialResult(d, e, origin[d][e])'
  BY DEF AnswersGenuine, PartialResult, BlindedHash
<1> USE DEF TypeOK
<1>1. ASSUME NEW c \in Calls, Start(c) PROVE Kept
  BY <1>1 DEF Start, IdleUntouched
<1>2. ASSUME NEW c \in Calls, Advance(c) PROVE Kept
  <2>1. ASSUME NEW b \in Agents, Ask(c, b) \/ SkipAbsent(c, b) PROVE Kept
    <3>1. \E state \in {"sent", "failed"} : wire' = [wire EXCEPT ![c][b] = state]
      BY <2>1 DEF Ask, SkipAbsent
    <3>2. UNCHANGED <<input, polynomial, blind, exponent, origin>>
      BY <2>1 DEF Ask, SkipAbsent
    <3>3. wire'[d][e] = wire[d][e]
      BY <3>1, WireUpdated
    <3> QED BY <3>2, <3>3
  <2>2. ASSUME NEW b \in Agents, AskUnresolved(c, b) PROVE Kept
    BY <2>2, WireDropped DEF AskUnresolved
  <2>3. ASSUME NEW b \in Agents, Collect(c, b) \/ Discard(c, b) PROVE Kept
    <3>1. \/ wire' = [wire EXCEPT ![c][b] = "collected"] /\ wire[c][b] = "answered"
          \/ wire' = [wire EXCEPT ![c][b] = "discarded"]
      BY <2>3 DEF Collect, Discard
    <3>2. UNCHANGED <<input, polynomial, blind, exponent, origin>>
      BY <2>3 DEF Collect, Discard
    <3>3. wire[d][e] \in {"answered", "collected"}
      <4>1. CASE wire' = [wire EXCEPT ![c][b] = "collected"] /\ wire[c][b] = "answered"
        BY <4>1, WireUpdated
      <4>2. CASE wire' = [wire EXCEPT ![c][b] = "discarded"]
        BY <4>2, WireUpdated
      <4> QED BY <3>1, <4>1, <4>2
    <3> QED BY <3>2, <3>3
  <2>4. ASSUME NEW outcome, Conclude(c, outcome) PROVE Kept
    <3>1. Home[c] \in Agents /\ wire[c][Home[c]] = "unasked"
      BY ConfigAssumption DEF ResponsesGenuine, GenuineResponses
    <3>2. wire[d][e] \in {"answered", "collected"}
      BY <2>4, WireDropped DEF Conclude
    <3>4. ~ (d = c /\ e = Home[c])
      BY <3>1, <3>2
    <3>3. origin'[d][e] = origin[d][e]
      BY <2>4, <3>4 DEF Conclude
    <3> QED BY <2>4, <3>2, <3>3 DEF Conclude
  <2> QED BY <1>2, <2>1, <2>2, <2>3, <2>4 DEF Advance, GiveUp, UnblindPanics, Finish
<1>3. ASSUME NEW c \in Calls, NEW b \in Agents, Serve(c, b)
      PROVE  exponent'[d][e] = PartialResult(d, e, origin[d][e])'
  <2>1. CASE c = d /\ b = e
    <3>1. exponent'[d][e] = Mul(BlindedHash(d), SecretShard(e))
      BY <1>3, <2>1 DEF Serve, ComputeExponent, Request
    <3>2. origin'[d][e] = generation[e] /\ UNCHANGED <<input, polynomial, blind>>
      BY <1>3, <2>1 DEF Serve
    <3> QED BY <3>1, <3>2 DEF PartialResult, BlindedHash, SecretShard
  <2>2. CASE ~ (c = d /\ b = e)
    <3>1. Kept
      BY <1>3, <2>2 DEF Serve
    <3> QED BY <3>1, <1>0
  <2> QED BY <2>1, <2>2
<1>4. ASSUME NEW c \in Calls, NEW b \in Agents, LoseRequest(c, b) PROVE Kept
  BY <1>4 DEF LoseRequest
<1>5. ASSUME NEW a \in Restartable, Restart(a) PROVE Kept
  <2>1. Interrupt(a) /\ a \in Agents
    BY <1>5, ConfigAssumption DEF Restart, RestartServer, RestartLight
  <2> QED BY <2>1, DroppedFacts DEF Interrupt
<1>6. ASSUME UNCHANGED vars PROVE Kept
  BY <1>6 DEF vars
<1> HIDE DEF Kept
<1> QED BY <1>0, <1>1, <1>2, <1>3, <1>4, <1>5, <1>6 DEF Next

\* A step that leaves the collected responses of a call alone keeps them genuine.
LEMMA KeepResponses ==
  ASSUME TypeOK, ResponsesGenuine, NEW d \in Calls,
         UNCHANGED <<input, polynomial, blind[d], responses[d]>>,
         wire'[d][Home[d]] = "unasked",
         \A b \in Agents : wire[d][b] = "collected" => wire'[d][b] = "collected",
         \A b \in Agents : b = Home[d] \/ wire[d][b] = "collected"
                           => origin'[d][b] = origin[d][b]
  PROVE  GenuineResponses(d)'
<1>1. ASSUME NEW j \in 1 .. Len(responses[d])
      PROVE  /\ responses[d][j].agent # Home[d] => wire'[d][responses[d][j].agent] = "collected"
             /\ responses[d][j].point =
                  PartialResult(d, responses[d][j].agent, origin[d][responses[d][j].agent])'
  <2>1. responses[d][j] \in Response
    BY DEF TypeOK
  <2>2. responses[d][j].agent \in Agents
    BY <2>1 DEF Response
  <2>3. /\ responses[d][j].agent # Home[d] => wire[d][responses[d][j].agent] = "collected"
        /\ responses[d][j].point =
             PartialResult(d, responses[d][j].agent, origin[d][responses[d][j].agent])
    BY DEF ResponsesGenuine, GenuineResponses
  <2>4. origin'[d][responses[d][j].agent] = origin[d][responses[d][j].agent]
    BY <2>2, <2>3
  <2> QED BY <2>2, <2>3, <2>4 DEF PartialResult, BlindedHash
<1> QED BY <1>1 DEF ResponsesGenuine, GenuineResponses

\* The responses of a call are genuine after every step.
LEMMA NextResponses == TypeOK /\ IInv /\ [Next]_vars => ResponsesGenuine'
<1> SUFFICES ASSUME TypeOK, IInv, [Next]_vars, NEW d \in Calls
             PROVE  GenuineResponses(d)'
  BY DEF ResponsesGenuine
<1>a. ResponsesGenuine /\ OwnResponseLast /\ AnswersGenuine /\ IdleUntouched
  BY DEF IInv
<1>b. Home[d] \in Agents /\ wire[d][Home[d]] = "unasked"
  BY <1>a, ConfigAssumption DEF ResponsesGenuine, GenuineResponses
<1>1. ASSUME NEW c \in Calls, Start(c) PROVE GenuineResponses(d)'
  <2>1. CASE d = c
    <3>1. responses'[d] = <<>> /\ wire'[d] = wire[d]
      BY <1>1, <1>a, <2>1 DEF Start, IdleUntouched
    <3> QED BY <1>b, <3>1 DEF GenuineResponses
  <2>2. CASE d # c
    <3>1. UNCHANGED <<input, polynomial, blind[d], responses[d], wire, origin>>
      BY <1>1, <2>2 DEF Start, TypeOK
    <3> QED BY <1>a, <1>b, <3>1, KeepResponses
  <2> QED BY <2>1, <2>2
<1>2. ASSUME NEW c \in Calls, NEW b \in Agents,
             \/ Ask(c, b) \/ SkipAbsent(c, b) \/ Discard(c, b) \/ LoseRequest(c, b)
      PROVE  GenuineResponses(d)'
  <2>1. \E state \in {"sent", "discarded", "failed"} : wire' = [wire EXCEPT ![c][b] = state]
    BY <1>2 DEF Ask, SkipAbsent, Discard, LoseRequest
  <2>2. UNCHANGED <<input, polynomial, blind, responses, origin>>
    BY <1>2 DEF Ask, SkipAbsent, Discard, LoseRequest
  <2>3. wire[c][b] # "collected" /\ (wire[c][b] = "unasked" => b # Home[c])
    BY <1>2 DEF Ask, SkipAbsent, Discard, LoseRequest, Pulls, Pending
  <2>4. \A e \in Agents : wire[d][e] = "collected" => wire'[d][e] = "collected"
    BY <2>1, <2>3, WireUpdated
  <2>5. wire'[d][Home[d]] = "unasked"
    BY <1>b, <2>1, <2>3, WireUpdated
  <2> QED BY <1>a, <2>2, <2>4, <2>5, KeepResponses
<1>3. ASSUME NEW c \in Calls, NEW b \in Agents, AskUnresolved(c, b) PROVE GenuineResponses(d)'
  <2>1. UNCHANGED <<input, polynomial, blind, responses, origin>>
    BY <1>3 DEF AskUnresolved
  <2>2. wire' = [wire EXCEPT ![c] = Dropped(c)]
    BY <1>3 DEF AskUnresolved
  <2>3. \A e \in Agents : wire[d][e] \in {"unasked", "collected"} => wire'[d][e] = wire[d][e]
    BY <2>2, WireDropped
  <2> QED BY <1>a, <1>b, <2>1, <2>3, KeepResponses
<1>4. ASSUME NEW c \in Calls, NEW b \in Agents, Collect(c, b) PROVE GenuineResponses(d)'
  <2> DEFINE new == [agent |-> b, point |-> exponent[c][b]]
  <2>1. /\ UNCHANGED <<input, polynomial, blind, origin>>
        /\ wire' = [wire EXCEPT ![c][b] = "collected"]
        /\ wire[c][b] = "answered"
        /\ responses' = [responses EXCEPT ![c] = Append(@, new)]
    BY <1>4 DEF Collect
  <2>2. \A e \in Agents : wire[d][e] = "collected" => wire'[d][e] = "collected"
    BY <2>1, WireUpdated
  <2>3. wire'[d][Home[d]] = "unasked"
    BY <1>b, <2>1, WireUpdated
  <2>4. CASE d # c
    <3>1. responses'[d] = responses[d]
      BY <2>1, <2>4 DEF TypeOK
    <3> QED BY <1>a, <2>1, <2>2, <2>3, <3>1, KeepResponses
  <2>5. CASE d = c
    <3>1. new \in Response /\ new.agent = b
          /\ new.point = PartialResult(d, b, origin[d][b])
      BY <1>a, <2>1, <2>5 DEF Response, TypeOK, AnswersGenuine
    <3>2. responses[d] \in Seq(Response)
      BY DEF TypeOK
    <3>3. responses'[d] = Append(responses[d], new)
      BY <2>1, <2>5 DEF TypeOK
    <3> HIDE DEF new
    <3>4. /\ Len(responses'[d]) = Len(responses[d]) + 1
          /\ responses'[d][Len(responses[d]) + 1] = new
          /\ \A j \in 1 .. Len(responses[d]) : responses'[d][j] = responses[d][j]
      BY <3>1, <3>2, <3>3
    <3>5. ASSUME NEW j \in 1 .. Len(responses[d])
          PROVE  /\ responses[d][j].agent # b
                 /\ responses[d][j].agent # Home[d] => wire'[d][responses[d][j].agent] = "collected"
                 /\ responses[d][j].point =
                      PartialResult(d, responses[d][j].agent, origin[d][responses[d][j].agent])
      <4>0. responses[d][j] \in Response
        BY <3>2
      <4>1. responses[d][j].agent \in Agents
        BY <4>0 DEF Response
      <4>2. /\ responses[d][j].agent # Home[d] => wire[d][responses[d][j].agent] = "collected"
            /\ responses[d][j].point =
                 PartialResult(d, responses[d][j].agent, origin[d][responses[d][j].agent])
        BY <1>a DEF ResponsesGenuine, GenuineResponses
      <4> QED BY <1>b, <2>1, <2>2, <2>5, <4>1, <4>2
    <3>6. wire'[d][b] = "collected"
      <4>1. wire' = [wire EXCEPT ![c][b] = "collected"]
        BY <2>1
      <4>2. wire'[c][b] = "collected"
        BY <4>1 DEF TypeOK
      <4> QED BY <2>5, <4>2
    <3>7. \A i, j \in 1 .. Len(responses'[d]) :
            i # j => responses'[d][i].agent # responses'[d][j].agent
      <4>1. \A i, j \in 1 .. Len(responses[d]) :
              i # j => responses[d][i].agent # responses[d][j].agent
        BY <1>a DEF ResponsesGenuine, GenuineResponses
      <4>2. Len(responses[d]) \in Nat
        BY <3>2
      <4>3. \A i \in 1 .. Len(responses'[d]) :
              /\ i = Len(responses[d]) + 1 => responses'[d][i].agent = b
              /\ i # Len(responses[d]) + 1 =>
                   /\ i \in 1 .. Len(responses[d])
                   /\ responses'[d][i].agent = responses[d][i].agent
                   /\ responses'[d][i].agent # b
        BY <3>1, <3>4, <3>5, <4>2
      <4> QED BY <4>1, <4>3
    <3>8. ASSUME NEW j \in 1 .. Len(responses'[d])
          PROVE  /\ responses'[d][j].agent # Home[d]
                      => wire'[d][responses'[d][j].agent] = "collected"
                 /\ responses'[d][j].point =
                      PartialResult(d, responses'[d][j].agent, origin[d][responses'[d][j].agent])
      <4>1. CASE j = Len(responses[d]) + 1
        BY <3>1, <3>4, <3>6, <4>1
      <4>2. CASE j \in 1 .. Len(responses[d])
        BY <3>4, <3>5, <4>2
      <4>3. Len(responses[d]) \in Nat
        BY <3>2
      <4> QED BY <3>4, <4>1, <4>2, <4>3
    <3>9. \A e, g : PartialResult(d, e, g)' = PartialResult(d, e, g)
      BY <2>1 DEF PartialResult, BlindedHash
    <3> QED BY <2>1, <2>3, <3>7, <3>8, <3>9 DEF GenuineResponses
  <2> QED BY <2>4, <2>5
<1>5. ASSUME NEW c \in Calls, NEW outcome \in {"ok", "error", "panicked"}, Conclude(c, outcome)
      PROVE  GenuineResponses(d)'
  <2>1. /\ UNCHANGED <<input, polynomial, blind>>
        /\ wire' = [wire EXCEPT ![c] = Dropped(c)]
        /\ responses' = [responses EXCEPT ![c] = WithOwn(c)]
        /\ origin' = [origin EXCEPT ![c][Home[c]] = generation[Home[c]]]
        /\ phase[c] = "collecting"
    BY <1>5 DEF Conclude, StreamEnded
  <2>2. \A e \in Agents : wire[d][e] \in {"unasked", "collected"} => wire'[d][e] = wire[d][e]
    BY <2>1, WireDropped
  <2>3. CASE d # c
    <3>1. responses'[d] = responses[d] /\ origin'[d] = origin[d]
      BY <2>1, <2>3 DEF TypeOK
    <3> QED BY <1>a, <1>b, <2>1, <2>2, <3>1, KeepResponses
  <2>4. CASE d = c
    <3>1. /\ WithOwn(d) \in Seq(Response)
          /\ Len(WithOwn(d)) = Len(responses[d]) + 1
          /\ \A j \in 1 .. Len(responses[d]) : WithOwn(d)[j] = responses[d][j]
          /\ WithOwn(d)[Len(responses[d]) + 1] =
               [agent |-> Home[d], point |-> PartialResult(d, Home[d], generation[Home[d]])]
          /\ \A i, j \in 1 .. Len(WithOwn(d)) :
               i # j => WithOwn(d)[i].agent # WithOwn(d)[j].agent
      BY <1>a, <2>1, <2>4, OwnAppended
    <3>2. responses[d] \in Seq(Response) /\ Len(responses[d]) \in Nat
      BY DEF TypeOK
    <3>3. responses'[d] = WithOwn(d)
      BY <2>1, <2>4 DEF TypeOK
    <3>4. /\ origin'[d][Home[d]] = generation[Home[d]]
          /\ \A e \in Agents : e # Home[d] => origin'[d][e] = origin[d][e]
      BY <1>b, <2>1, <2>4 DEF TypeOK
    <3>5. ASSUME NEW j \in 1 .. Len(responses[d])
          PROVE  /\ responses[d][j].agent # Home[d]
                 /\ wire'[d][responses[d][j].agent] = "collected"
                 /\ responses[d][j].point =
                      PartialResult(d, responses[d][j].agent, origin'[d][responses[d][j].agent])
      <4>0. responses[d][j] \in Response
        BY <3>2
      <4>1. responses[d][j].agent \in Agents
        BY <4>0 DEF Response
      <4>2. /\ responses[d][j].agent # Home[d] => wire[d][responses[d][j].agent] = "collected"
            /\ responses[d][j].point =
                 PartialResult(d, responses[d][j].agent, origin[d][responses[d][j].agent])
        BY <1>a DEF ResponsesGenuine, GenuineResponses
      <4>3. responses[d][j].agent # Home[d]
        BY <1>a, <2>1, <2>4 DEF OwnResponseLast
      <4> QED BY <2>2, <3>4, <4>1, <4>2, <4>3
    <3>6. ASSUME NEW j \in 1 .. Len(responses'[d])
          PROVE  /\ responses'[d][j].agent # Home[d]
                      => wire'[d][responses'[d][j].agent] = "collected"
                 /\ responses'[d][j].point =
                      PartialResult(d, responses'[d][j].agent, origin'[d][responses'[d][j].agent])
      <4>1. CASE j = Len(responses[d]) + 1
        BY <3>1, <3>3, <3>4, <4>1
      <4>2. CASE j \in 1 .. Len(responses[d])
        BY <3>1, <3>3, <3>5, <4>2
      <4> QED BY <3>1, <3>2, <3>3, <4>1, <4>2
    <3>7. \A e, g : PartialResult(d, e, g)' = PartialResult(d, e, g)
      BY <2>1 DEF PartialResult, BlindedHash
    <3> QED BY <1>b, <2>2, <3>1, <3>3, <3>6, <3>7 DEF GenuineResponses
  <2> QED BY <2>3, <2>4
<1>6. ASSUME NEW c \in Calls, NEW b \in Agents, Serve(c, b) PROVE GenuineResponses(d)'
  <2>1. /\ UNCHANGED <<input, polynomial, blind, responses>>
        /\ wire[c][b] = "sent"
        /\ \E state : wire' = [wire EXCEPT ![c][b] = state]
        /\ origin' = [origin EXCEPT ![c][b] = generation[b]]
    BY <1>6 DEF Serve
  <2>2. \A e \in Agents : wire[d][e] \in {"unasked", "collected"} => wire'[d][e] = wire[d][e]
    BY <2>1, WireUpdated
  <2>3. \A e \in Agents : wire[d][e] \in {"unasked", "collected"} => origin'[d][e] = origin[d][e]
    BY <2>1 DEF TypeOK
  <2> QED BY <1>a, <1>b, <2>1, <2>2, <2>3, KeepResponses
<1>7. ASSUME NEW a \in Restartable, Restart(a) PROVE GenuineResponses(d)'
  <2>1. UNCHANGED <<input, polynomial, blind, responses, origin>>
    BY <1>7 DEF Restart, RestartServer, RestartLight, Interrupt
  <2>2. \A e \in Agents : wire[d][e] \in {"unasked", "collected"} => wire'[d][e] = wire[d][e]
    <3>1. a \in Agents
      BY ConfigAssumption
    <3>2. \/ wire'[d] = Dropped(d)
          \/ wire'[d] = [wire[d] EXCEPT ![a] = IF @ = "sent" THEN "failed" ELSE @]
      BY <1>7 DEF Restart, RestartServer, RestartLight, Interrupt
    <3>3. CASE wire'[d] = Dropped(d)
      BY <3>3, DroppedFacts
    <3>4. CASE wire'[d] = [wire[d] EXCEPT ![a] = IF @ = "sent" THEN "failed" ELSE @]
      BY <3>1, <3>4 DEF TypeOK
    <3> QED BY <3>2, <3>3, <3>4
  <2> QED BY <1>a, <1>b, <2>1, <2>2, KeepResponses
<1>8. CASE UNCHANGED vars
  BY <1>8, <1>a DEF vars, ResponsesGenuine, GenuineResponses, PartialResult, BlindedHash
<1> QED BY <1>1, <1>2, <1>3, <1>4, <1>5, <1>6, <1>7, <1>8
        DEF Next, Advance, GiveUp, UnblindPanics, Finish

\* A call collects at most Threshold - 1 answers and ends with its own.
LEMMA NextOwnLast == TypeOK /\ IInv /\ [Next]_vars => OwnResponseLast'
<1> DEFINE Own(c) ==
      /\ phase[c] \in {"idle", "collecting"} =>
           /\ Len(responses[c]) <= Threshold - 1
           /\ \A j \in 1 .. Len(responses[c]) : responses[c][j].agent # Home[c]
      /\ phase[c] = "ok" =>
           /\ Len(responses[c]) = Threshold
           /\ responses[c][Threshold].agent = Home[c]
<1> SUFFICES ASSUME TypeOK, IInv, [Next]_vars, NEW d \in Calls
             PROVE  Own(d)'
  BY DEF OwnResponseLast
<1>a. ResponsesGenuine /\ OwnResponseLast /\ IdleUntouched /\ Own(d)
  BY DEF IInv, OwnResponseLast
<1>b. Home[d] \in Agents /\ wire[d][Home[d]] = "unasked"
  BY <1>a, ConfigAssumption DEF ResponsesGenuine, GenuineResponses
<1>c. responses[d] \in Seq(Response) /\ Len(responses[d]) \in Nat
  BY DEF TypeOK
<1>1. ASSUME NEW c \in Calls, Start(c) PROVE Own(d)'
  BY <1>1, <1>a DEF Start, TypeOK
<1>2. ASSUME NEW c \in Calls, NEW b \in Agents,
             \/ Ask(c, b) \/ SkipAbsent(c, b) \/ Discard(c, b)
             \/ Serve(c, b) \/ LoseRequest(c, b)
      PROVE  Own(d)'
  <2>1. UNCHANGED <<phase, responses>>
    BY <1>2 DEF Ask, SkipAbsent, Discard, Serve, LoseRequest
  <2> QED BY <1>a, <2>1
<1>3. ASSUME NEW c \in Calls, NEW b \in Agents, AskUnresolved(c, b) PROVE Own(d)'
  BY <1>3, <1>a DEF AskUnresolved, TypeOK
<1>4. ASSUME NEW c \in Calls, NEW b \in Agents, Collect(c, b) PROVE Own(d)'
  <2> DEFINE new == [agent |-> b, point |-> exponent[c][b]]
  <2>1. /\ UNCHANGED phase
        /\ responses' = [responses EXCEPT ![c] = Append(@, new)]
        /\ wire[c][b] = "answered"
        /\ phase[c] = "collecting" /\ Len(responses[c]) < Threshold - 1
    BY <1>4 DEF Collect, Polling
  <2>2. CASE d = c
    <3>1. new \in Response /\ new.agent # Home[d]
      BY <1>b, <2>1, <2>2 DEF Response, TypeOK
    <3>2. responses'[d] = Append(responses[d], new)
      BY <2>1, <2>2 DEF TypeOK
    <3>3. phase'[d] = "collecting" /\ Len(responses[d]) < Threshold - 1
      BY <2>1, <2>2
    <3> HIDE DEF new
    <3>4. /\ Len(responses'[d]) = Len(responses[d]) + 1
          /\ responses'[d][Len(responses[d]) + 1] = new
          /\ \A j \in 1 .. Len(responses[d]) : responses'[d][j] = responses[d][j]
      BY <1>c, <3>1, <3>2
    <3>5. \A j \in 1 .. Len(responses'[d]) : responses'[d][j].agent # Home[d]
      BY <1>a, <1>c, <2>1, <2>2, <3>1, <3>4
    <3>6. Len(responses'[d]) <= Threshold - 1
      BY <1>c, <3>3, <3>4, ConfigAssumption
    <3> QED BY <3>3, <3>5, <3>6
  <2>3. CASE d # c
    BY <1>a, <2>1, <2>3 DEF TypeOK
  <2> QED BY <2>2, <2>3
<1>5. ASSUME NEW c \in Calls, NEW outcome \in {"ok", "error", "panicked"}, Conclude(c, outcome),
             outcome = "ok" => Len(WithOwn(c)) >= Threshold
      PROVE  Own(d)'
  <2>1. /\ responses' = [responses EXCEPT ![c] = WithOwn(c)]
        /\ phase' = [phase EXCEPT ![c] = outcome]
        /\ phase[c] = "collecting"
    BY <1>5 DEF Conclude, StreamEnded
  <2>2. CASE d = c
    <3>1. responses'[d] = WithOwn(d) /\ phase'[d] = outcome
      BY <2>1, <2>2 DEF TypeOK
    <3>2. /\ WithOwn(d) \in Seq(Response)
          /\ Len(WithOwn(d)) = Len(responses[d]) + 1
          /\ Len(WithOwn(d)) <= Threshold
          /\ WithOwn(d)[Len(responses[d]) + 1].agent = Home[d]
      <4>1. phase[d] = "collecting"
        BY <2>1, <2>2
      <4>2. WithOwn(d)[Len(responses[d]) + 1] =
              [agent |-> Home[d], point |-> PartialResult(d, Home[d], generation[Home[d]])]
        BY <1>a, <4>1, OwnAppended
      <4> QED BY <1>a, <4>1, <4>2, OwnAppended
    <3>3. outcome = "ok" => Len(WithOwn(d)) = Threshold
      BY <1>5, <1>c, <2>2, <3>2, ConfigAssumption
    <3> QED BY <1>5, <3>1, <3>2, <3>3
  <2>3. CASE d # c
    BY <1>a, <2>1, <2>3 DEF TypeOK
  <2> QED BY <2>2, <2>3
<1>6. ASSUME NEW a \in Restartable, Restart(a) PROVE Own(d)'
  BY <1>6, <1>a DEF Restart, RestartServer, RestartLight, Interrupt, TypeOK
<1>7. CASE UNCHANGED vars
  BY <1>7, <1>a DEF vars
<1> HIDE DEF Own
<1>8. ASSUME NEW c \in Calls, GiveUp(c) \/ UnblindPanics(c) \/ Finish(c) PROVE Own(d)'
  BY <1>5, <1>8 DEF GiveUp, UnblindPanics, Finish
<1> QED BY <1>1, <1>2, <1>3, <1>4, <1>6, <1>7, <1>8 DEF Next, Advance

\* What a call returned stays the unblinded combination of its responses.
LEMMA NextResult == TypeOK /\ IInv /\ [Next]_vars => ResultFromResponses'
<1> SUFFICES ASSUME TypeOK, IInv, [Next]_vars, NEW d \in Calls, phase'[d] = "ok"
             PROVE  /\ blind'[d] # 0
                    /\ result'[d] = Squeeze(Mul(Combine(responses'[d]), Invert(blind'[d])))
  BY DEF ResultFromResponses
<1> DEFINE Kept == phase[d] = "ok" /\ UNCHANGED <<blind[d], responses[d], result[d]>>
<1>a. Kept => /\ blind'[d] # 0
              /\ result'[d] = Squeeze(Mul(Combine(responses'[d]), Invert(blind'[d])))
  BY DEF IInv, ResultFromResponses
<1>1. ASSUME NEW c \in Calls, Start(c) PROVE Kept
  BY <1>1 DEF Start, TypeOK
<1>2. ASSUME NEW c \in Calls, NEW b \in Agents,
             \/ Ask(c, b) \/ SkipAbsent(c, b) \/ Discard(c, b)
             \/ Serve(c, b) \/ LoseRequest(c, b)
      PROVE  Kept
  BY <1>2 DEF Ask, SkipAbsent, Discard, Serve, LoseRequest
<1>3. ASSUME NEW c \in Calls, NEW b \in Agents, AskUnresolved(c, b) PROVE Kept
  BY <1>3 DEF AskUnresolved, TypeOK
<1>4. ASSUME NEW c \in Calls, NEW b \in Agents, Collect(c, b) PROVE Kept
  BY <1>4 DEF Collect, Polling, TypeOK
<1>5. ASSUME NEW c \in Calls, GiveUp(c) \/ UnblindPanics(c) PROVE Kept
  BY <1>5 DEF GiveUp, UnblindPanics, Conclude, TypeOK
<1>6. ASSUME NEW c \in Calls, Finish(c)
      PROVE  /\ blind'[d] # 0
             /\ result'[d] = Squeeze(Mul(Combine(responses'[d]), Invert(blind'[d])))
  <2>1. CASE d = c
    BY <1>6, <2>1 DEF Finish, Conclude, TypeOK
  <2>2. CASE d # c
    <3>1. Kept
      BY <1>6, <2>2 DEF Finish, Conclude, TypeOK
    <3> QED BY <3>1, <1>a
  <2> QED BY <2>1, <2>2
<1>7. ASSUME NEW a \in Restartable, Restart(a) PROVE Kept
  BY <1>7 DEF Restart, RestartServer, RestartLight, Interrupt, TypeOK
<1>8. ASSUME UNCHANGED vars PROVE Kept
  BY <1>8 DEF vars
<1> HIDE DEF Kept
<1> QED BY <1>a, <1>1, <1>2, <1>3, <1>4, <1>5, <1>6, <1>7, <1>8 DEF Next, Advance

\* In every reachable state the types hold, the answers are genuine and the
\* results are what process computes from them.
THEOREM Invariant == Spec => [](TypeOK /\ IInv)
<1>1. Init => TypeOK /\ IInv
  BY InitType, InitInvariant
<1>2. TypeOK /\ IInv /\ [Next]_vars => TypeOK' /\ IInv'
  BY NextType, NextIdle, NextAnswers, NextResponses, NextOwnLast, NextResult DEF IInv
<1> QED BY <1>1, <1>2, PTL DEF Spec

\* Every variable of the protocol keeps its type, whatever fails and restarts.
THEOREM TypeCorrect == Spec => []TypeOK
BY Invariant, PTL
-----------------------------------------------------------------------------
(***************************************************************************)
(* What a call that succeeds returns.                                      *)
(***************************************************************************)

\* The responses of a finished call are Threshold partial results of different
\* agents, the initiator's last.
LEMMA FinalResponses ==
  ASSUME TypeOK, IInv, NEW c \in Calls, phase[c] = "ok"
  PROVE  /\ responses[c] \in Seq(Response) /\ Len(responses[c]) = Threshold
         /\ DOMAIN responses[c] = 1 .. Threshold
         /\ responses[c][Threshold].agent = Home[c]
         /\ \A j \in 1 .. Threshold :
              /\ responses[c][j].agent \in Agents
              /\ responses[c][j].point =
                   PartialResult(c, responses[c][j].agent, origin[c][responses[c][j].agent])
         /\ \A i, j \in 1 .. Threshold :
              i # j => responses[c][i].agent # responses[c][j].agent
<1>1. /\ Len(responses[c]) = Threshold
      /\ responses[c][Threshold].agent = Home[c]
  BY DEF IInv, OwnResponseLast
<1>2. responses[c] \in Seq(Response)
  BY DEF TypeOK
<1>3. DOMAIN responses[c] = 1 .. Threshold
  BY <1>1, <1>2
<1>4. ASSUME NEW j \in 1 .. Threshold PROVE responses[c][j].agent \in Agents
  <2>1. responses[c][j] \in Response
    BY <1>1, <1>2
  <2> QED BY <2>1 DEF Response
<1>5. /\ \A j \in 1 .. Threshold : responses[c][j].point =
           PartialResult(c, responses[c][j].agent, origin[c][responses[c][j].agent])
      /\ \A i, j \in 1 .. Threshold : i # j => responses[c][i].agent # responses[c][j].agent
  BY <1>1 DEF IInv, ResponsesGenuine, GenuineResponses
<1> QED BY <1>1, <1>2, <1>3, <1>4, <1>5

\* A quorum of different agents contributes to every fingerprint, whatever
\* fails, arrives late or restarts in between.
THEOREM QuorumAlways == Spec => []QuorumContributes
<1>1. TypeOK /\ IInv => QuorumContributes
  <2> SUFFICES ASSUME TypeOK, IInv, NEW c \in Calls, phase[c] = "ok"
               PROVE  /\ Len(responses[c]) = Threshold
                      /\ Cardinality(Contributors(c)) = Threshold
                      /\ responses[c][Threshold].agent = Home[c]
    BY DEF QuorumContributes
  <2> DEFINE f == [j \in 1 .. Threshold |-> responses[c][j].agent]
  <2>1. f \in [1 .. Threshold -> Contributors(c)]
    BY FinalResponses DEF Contributors
  <2>2. f \in Injection(1 .. Threshold, Contributors(c))
    BY <2>1, FinalResponses DEF Injection, IsInjective
  <2>3. f \in Surjection(1 .. Threshold, Contributors(c))
    BY <2>1, FinalResponses DEF Surjection, Contributors
  <2>4. ExistsBijection(1 .. Threshold, Contributors(c))
    BY <2>2, <2>3 DEF ExistsBijection, Bijection
  <2>5. IsFiniteSet(1 .. Threshold) /\ Cardinality(1 .. Threshold) = Threshold
    BY FS_Interval, ConfigAssumption
  <2>6. Cardinality(Contributors(c)) = Threshold
    BY <2>4, <2>5, FS_Bijection
  <2> QED BY <2>6, FinalResponses
<1> QED BY <1>1, Invariant, PTL

\* The secret of a polynomial is a scalar.
LEMMA SecretInField ==
  ASSUME NEW poly \in Polynomials
  PROVE  Secret(poly) \in Field
<1>1. poly \in [1 .. Threshold -> Field]
  BY ConfigAssumption DEF Polynomial
<1>2. 1 \in 1 .. Threshold
  BY ConfigAssumption
<1> QED BY <1>1, <1>2 DEF Secret

\* Shares of one polynomial: interpolation and unblinding give NaiveProcess.
LEMMA UniformResult ==
  ASSUME TypeOK, IInv, NEW c \in Calls, NEW g \in Generations, phase[c] = "ok",
         \A b \in Contributors(c) : origin[c][b] = g
  PROVE  result[c] = NaiveProcess(input[c], Secret(polynomial[g]))
<1> DEFINE poly   == polynomial[g]
           agents == [j \in 1 .. Threshold |-> responses[c][j].agent]
           points == [j \in 1 .. Threshold |-> responses[c][j].point]
<1>1. agents \in Injection(1 .. Threshold, Agents)
      /\ Combine(responses[c]) = Combined(agents, points)
  BY FinalResponses, ResponsesSplit
<1>2. \A j \in 1 .. Threshold : points[j] = Mul(BlindedHash(c), Share(poly, agents[j]))
  BY FinalResponses DEF Contributors, PartialResult
<1>3. points = [j \in 1 .. Threshold |-> Mul(BlindedHash(c), Share(poly, agents[j]))]
  BY <1>2
<1>4. poly \in Polynomials /\ BlindedHash(c) \in Field
  <2>1. Home[c] \in Agents
    BY ConfigAssumption
  <2> QED BY <2>1, PointTypes DEF TypeOK
<1>5. Combine(responses[c]) = Mul(BlindedHash(c), Secret(poly))
  <2> HIDE DEF agents, points, poly
  <2>1. /\ poly \in Polynomial(Threshold) /\ agents \in Groups(Threshold)
        /\ Threshold \in Nat \ {0} /\ Threshold <= Threshold
    BY <1>1, <1>4, AgentGroups, ConfigAssumption
  <2>2. Combine([j \in 1 .. Threshold |->
           [agent |-> agents[j], point |-> Mul(BlindedHash(c), Share(poly, agents[j]))]])
          = Mul(BlindedHash(c), Secret(poly))
    BY <1>4, <2>1, ThresholdRecovers
  <2>3. Combined(agents, points) = Combine([j \in 1 .. Threshold |->
           [agent |-> agents[j], point |-> Mul(BlindedHash(c), Share(poly, agents[j]))]])
    BY <1>3 DEF Combined
  <2> QED BY <1>1, <2>2, <2>3
<1>6. Secret(poly) \in Field
  BY <1>4, SecretInField
<1>7. /\ blind[c] \in Field /\ blind[c] # 0
      /\ result[c] = Squeeze(Mul(Combine(responses[c]), Invert(blind[c])))
  BY DEF TypeOK, IInv, ResultFromResponses
<1>8. HashToCurve[input[c]] \in Field
  BY HashAssumption DEF TypeOK
<1>9. Mul(Combine(responses[c]), Invert(blind[c])) = Mul(HashToCurve[input[c]], Secret(poly))
  <2> HIDE DEF poly
  <2> QED BY <1>5, <1>6, <1>7, <1>8, Unblind DEF BlindedHash, Blinded
<1> QED BY <1>7, <1>9 DEF NaiveProcess

\* Whichever agents answer, and in whatever order: if the shares come from one
\* key ceremony, the fingerprint is the one of the naive protocol.
THEOREM UniformGeneration == Spec => []UniformGenerationCorrect
<1>1. TypeOK /\ IInv => UniformGenerationCorrect
  BY UniformResult DEF UniformGenerationCorrect
<1> QED BY <1>1, Invariant, PTL
-----------------------------------------------------------------------------
(***************************************************************************)
(* Refinement.                                                             *)
(***************************************************************************)

\* A step that moves call c from collecting to an outcome moves it from running.
LEMMA PromisedStep ==
  ASSUME TypeOK, NEW c \in Calls, NEW outcome \in {"ok", "error", "panicked", "lost"},
         phase[c] = "collecting", phase' = [phase EXCEPT ![c] = outcome]
  PROVE  /\ PromisedPhase[c] = "running"
         /\ PromisedPhase' = [PromisedPhase EXCEPT ![c] = outcome]
BY DEF TypeOK, PromisedPhase

\* As long as no share is replaced the protocol is an implementation of what
\* the trait FingerprintProtocol promises: in every behaviour every call fails
\* or returns the fingerprint of the naive protocol with the shared secret.
THEOREM Refinement ==
  ASSUME MaxGeneration = 0
  PROVE  Spec => KeepsPromise
<1>1. Init => Promise!Init
  <2> SUFFICES ASSUME Init PROVE Promise!Init
    OBVIOUS
  <2>1. polynomial[0] \in Polynomials
    BY ConfigAssumption DEF Init, Generations
  <2>2. Secret(polynomial[0]) \in Field
    BY <2>1, SecretInField
  <2>3. PromisedPhase = [c \in Calls |-> "idle"]
    BY DEF Init, PromisedPhase
  <2>4. Promise!Field = Field
    BY DEF Promise!Field, Field
  <2> QED BY <2>2, <2>3, <2>4 DEF Init, Promise!Init, PromisedPhase
<1>2. TypeOK /\ TypeOK' /\ UniformGenerationCorrect' /\ [Next]_vars
        => [Promise!Next]_Promise!vars
  <2> SUFFICES ASSUME TypeOK, TypeOK', UniformGenerationCorrect', [Next]_vars
               PROVE  [Promise!Next]_Promise!vars
    OBVIOUS
  <2> USE DEF PromisedPhase
  <2>1. ASSUME NEW c \in Calls, Start(c) PROVE Promise!Begin(c)
    BY <2>1 DEF Start, TypeOK, Promise!Begin
  <2>2. ASSUME NEW c \in Calls, NEW b \in Agents,
               \/ Ask(c, b) \/ SkipAbsent(c, b) \/ Collect(c, b) \/ Discard(c, b)
               \/ Serve(c, b) \/ LoseRequest(c, b)
        PROVE  UNCHANGED Promise!vars
    BY <2>2 DEF Ask, SkipAbsent, Collect, Discard, Serve, LoseRequest, Promise!vars
  <2>3. ASSUME NEW c \in Calls, NEW b \in Agents, AskUnresolved(c, b) PROVE Promise!Fail(c)
    <3>1. /\ phase[c] = "collecting" /\ phase' = [phase EXCEPT ![c] = "panicked"]
          /\ UNCHANGED <<polynomial, input, result>>
      BY <2>3 DEF AskUnresolved, Pulls, Polling
    <3> QED BY <3>1, PromisedStep DEF Promise!Fail
  <2>4. ASSUME NEW c \in Calls, GiveUp(c) \/ UnblindPanics(c) PROVE Promise!Fail(c)
    <3>1. /\ phase[c] = "collecting"
          /\ \E outcome \in {"error", "panicked"} : phase' = [phase EXCEPT ![c] = outcome]
          /\ UNCHANGED <<polynomial, input, result>>
      BY <2>4 DEF GiveUp, UnblindPanics, Conclude, StreamEnded
    <3> QED BY <3>1, PromisedStep DEF Promise!Fail
  <2>5. ASSUME NEW c \in Calls, Finish(c) PROVE Promise!Return(c)
    <3>1. /\ phase[c] = "collecting" /\ phase' = [phase EXCEPT ![c] = "ok"]
          /\ UNCHANGED <<polynomial, input>>
          /\ \E value : result' = [result EXCEPT ![c] = value]
      BY <2>5 DEF Finish, Conclude, StreamEnded
    <3>2. phase'[c] = "ok"
      BY <3>1 DEF TypeOK
    <3>3. Generations = {0}
      BY DEF Generations
    <3>4. \A b \in Contributors(c)' : origin'[c][b] = 0
      <4> SUFFICES ASSUME NEW j \in DOMAIN responses'[c]
                   PROVE  origin'[c][responses'[c][j].agent] = 0
        BY DEF Contributors
      <4>1. responses'[c][j] \in Response
        BY DEF TypeOK
      <4>2. responses'[c][j].agent \in Agents
        BY <4>1 DEF Response
      <4> QED BY <3>3, <4>2 DEF TypeOK
    <3>5. result'[c] = NaiveProcess(input[c], Secret(polynomial[0]))
      BY <3>1, <3>2, <3>3, <3>4 DEF UniformGenerationCorrect, NaiveProcess
    <3>6. result' = [result EXCEPT ![c] = NaiveProcess(input[c], Secret(polynomial[0]))]
      BY <3>1, <3>5 DEF TypeOK
    <3> QED BY <3>1, <3>6, PromisedStep DEF Promise!Return, Promise!NaiveProcess, NaiveProcess,
                  Promise!Squeeze, Squeeze, Promise!Mul, Mul
  <2>6. ASSUME NEW a \in Restartable, Restart(a) PROVE Promise!Crash
    <3> DEFINE lost == {c \in Calls : Home[c] = a /\ phase[c] = "collecting"}
    <3>1. lost \in SUBSET {c \in Calls : PromisedPhase[c] = "running"}
      BY DEF TypeOK
    <3>2. /\ PromisedPhase' = [c \in Calls |-> IF c \in lost THEN "lost" ELSE PromisedPhase[c]]
          /\ UNCHANGED <<polynomial, input, result>>
      BY <2>6 DEF Restart, RestartServer, RestartLight, Interrupt, TypeOK
    <3> QED BY <3>1, <3>2 DEF Promise!Crash
  <2>7. CASE UNCHANGED vars
    BY <2>7 DEF vars, Promise!vars
  <2> QED BY <2>1, <2>2, <2>3, <2>4, <2>5, <2>6, <2>7 DEF Next, Advance, Promise!Next
<1> QED BY <1>1, <1>2, Invariant, UniformGeneration, PTL DEF Spec, KeepsPromise, Promise!Spec
=============================================================================
