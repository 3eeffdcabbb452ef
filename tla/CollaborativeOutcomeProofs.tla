--------------------- MODULE CollaborativeOutcomeProofs ---------------------
(***************************************************************************)
(* How the calls of CollaborativeProtocol end, for every configuration:    *)
(* what a settled call may no longer do, when a call gives up, and what an *)
(* unresolved agent costs.                                                 *)
(***************************************************************************)
EXTENDS CollaborativeProtocolProofs

\* A call leaves "idle" by its start.
LEMMA IdleStep ==
  ASSUME TypeOK, NEW c \in Calls, phase[c] = "idle", [Next]_vars
  PROVE  phase'[c] \in {"idle", "collecting"}
PROOF
  <1>1. ASSUME NEW d \in Calls, Start(d) PROVE phase'[c] \in {"idle", "collecting"}
    BY <1>1 DEF Start, TypeOK
  <1>2. ASSUME NEW d \in Calls, Advance(d) PROVE phase'[c] = "idle"
    <2>1. phase[d] = "collecting"
      BY <1>2 DEF Advance, Ask, SkipAbsent, AskUnresolved, Collect, Discard, Pulls, Polling,
                  GiveUp, UnblindPanics, Finish, Conclude, StreamEnded
    <2>2. d # c
      BY <2>1
    <2>3. ASSUME NEW b \in Agents,
                 Ask(d, b) \/ SkipAbsent(d, b) \/ AskUnresolved(d, b) \/ Collect(d, b) \/ Discard(d, b)
          PROVE  phase'[c] = phase[c]
      BY <2>2, <2>3 DEF Ask, SkipAbsent, AskUnresolved, Collect, Discard, TypeOK
    <2>4. CASE GiveUp(d) \/ UnblindPanics(d) \/ Finish(d)
      BY <2>2, <2>4 DEF GiveUp, UnblindPanics, Finish, Conclude, TypeOK
    <2>. QED BY <1>2, <2>3, <2>4 DEF Advance
  <1>3. ASSUME NEW d \in Calls, NEW e \in Agents, Serve(d, e) \/ LoseRequest(d, e)
        PROVE  phase'[c] = "idle"
    BY <1>3 DEF Serve, LoseRequest
  <1>4. ASSUME NEW a \in Restartable, Restart(a) PROVE phase'[c] = "idle"
    BY <1>4 DEF Restart, RestartServer, RestartLight, Interrupt
  <1>5. CASE UNCHANGED vars
    BY <1>5 DEF vars
  <1>. QED BY <1>1, <1>2, <1>3, <1>4, <1>5 DEF Next

\* The requests of a settled call are never sent again: one step.
LEMMA SettledStep ==
  ASSUME TypeOK, NEW c \in Calls, Settled(c), [Next]_vars
  PROVE  /\ UNCHANGED <<phase[c], responses[c], result[c]>>
         /\ \A b \in Agents : wire'[c][b] = "sent" => wire[c][b] = "sent"
PROOF
  <1>. DEFINE Stays == /\ UNCHANGED <<phase[c], responses[c], result[c]>>
                       /\ \A b \in Agents : wire'[c][b] = "sent" => wire[c][b] = "sent"
  <1>. SUFFICES Stays
    OBVIOUS
  <1>. USE DEF Settled
  <1>1. ASSUME NEW d \in Calls, Start(d) PROVE Stays
    BY <1>1 DEF Start, TypeOK
  <1>2. ASSUME NEW d \in Calls, Advance(d) PROVE Stays
    <2>1. d # c
      BY <1>2 DEF Advance, Ask, SkipAbsent, AskUnresolved, Collect, Discard, Pulls, Polling,
                  GiveUp, UnblindPanics, Finish, Conclude, StreamEnded
    <2>2. ASSUME NEW b \in Agents,
                 Ask(d, b) \/ SkipAbsent(d, b) \/ AskUnresolved(d, b) \/ Collect(d, b) \/ Discard(d, b)
          PROVE  Stays
      <3>1. wire'[c] = wire[c]
        BY <2>1, <2>2 DEF Ask, SkipAbsent, AskUnresolved, Collect, Discard, TypeOK
      <3>. QED BY <2>1, <2>2, <3>1 DEF Ask, SkipAbsent, AskUnresolved, Collect, Discard, TypeOK
    <2>3. CASE GiveUp(d) \/ UnblindPanics(d) \/ Finish(d)
      BY <2>1, <2>3 DEF GiveUp, UnblindPanics, Finish, Conclude, TypeOK
    <2>. QED BY <1>2, <2>2, <2>3 DEF Advance
  <1>3. ASSUME NEW d \in Calls, NEW e \in Agents, Serve(d, e) \/ LoseRequest(d, e) PROVE Stays
    <2>1. \E state \in {"answered", "failed"} : wire' = [wire EXCEPT ![d][e] = state]
      <3>1. CASE Serve(d, e)
        BY <3>1 DEF Serve
      <3>2. CASE LoseRequest(d, e)
        BY <3>2 DEF LoseRequest
      <3>. QED BY <1>3, <3>1, <3>2
    <2>2. \A b \in Agents : wire'[c][b] = "sent" => wire[c][b] = "sent"
      BY <2>1, WireUpdated
    <2>. QED BY <1>3, <2>2 DEF Serve, LoseRequest
  <1>4. ASSUME NEW a \in Restartable, Restart(a) PROVE Stays
    <2>1. Interrupt(a) /\ a \in Agents
      BY <1>4, ConfigAssumption DEF Restart, RestartServer, RestartLight
    <2>2. wire'[c] = [wire[c] EXCEPT ![a] = IF @ = "sent" THEN "failed" ELSE @]
      BY <2>1 DEF Interrupt
    <2>. QED BY <2>1, <2>2 DEF Interrupt, TypeOK
  <1>5. CASE UNCHANGED vars
    BY <1>5 DEF vars
  <1>. QED BY <1>1, <1>2, <1>3, <1>4, <1>5 DEF Next

\* Late answers, restarts and other calls no longer change a call that ended.
THEOREM SettledStaysSettled == Spec => SettledStays
PROOF
  <1>1. ASSUME TypeOK, [Next]_vars
        PROVE  [\A c \in Calls : Settled(c) =>
                  /\ UNCHANGED <<phase[c], responses[c], result[c]>>
                  /\ \A b \in Agents : wire'[c][b] = "sent" => wire[c][b] = "sent"]_vars
    BY <1>1, SettledStep
  <1>. QED BY <1>1, TypeCorrect, PTL DEF Spec, SettledStays
-----------------------------------------------------------------------------
(***************************************************************************)
(* The inductive invariant of a call that collects.                        *)
(***************************************************************************)

\* Agents are asked in the order of their numbers.
AskedInOrder(c) ==
  \A b, d \in Agents \ {Home[c]} :
    d < b /\ wire[c][b] # "unasked" => wire[c][d] # "unasked"

\* No request of it is cancelled, and it has asked no unresolved agent: that
\* would have ended it.
RequestsSound(c) ==
  \A b \in Agents :
    /\ wire[c][b] # "cancelled"
    /\ wire[c][b] # "unasked" => members[Home[c]][b] # "unresolved"

\* Every collected answer is among the responses.
CollectedCounted(c) ==
  \A b \in Agents :
    wire[c][b] = "collected" => \E j \in 1 .. Len(responses[c]) : responses[c][j].agent = b

\* A call that has taken a result has asked its first window.
WindowFirst(c) ==
  (\E b \in Agents : wire[c][b] \in {"collected", "discarded"})
    => \A b \in FirstWindow(c) : wire[c][b] # "unasked"

CInv(c) == AskedInOrder(c) /\ RequestsSound(c) /\ CollectedCounted(c) /\ WindowFirst(c)

CollectingInv == \A c \in Calls : phase[c] = "collecting" => CInv(c)

\* What a step does to a call that collects after it.
CollectingSteps(c) ==
  \/ /\ phase[c] = "idle" /\ wire'[c] = [b \in Agents |-> "unasked"]
  \/ /\ phase[c] = "collecting" /\ members'[Home[c]] = members[Home[c]]
     /\ \/ wire'[c] = wire[c] /\ responses'[c] = responses[c]
        \/ \E e \in Agents, state \in {"sent", "failed"} :
             /\ Pulls(c, e) /\ members[Home[c]][e] # "unresolved"
             /\ wire'[c] = [wire[c] EXCEPT ![e] = state] /\ responses'[c] = responses[c]
        \/ \E e \in Agents :
             /\ ToppedUp(c) /\ wire[c][e] = "answered"
             /\ wire'[c] = [wire[c] EXCEPT ![e] = "collected"]
             /\ responses'[c] =
                  Append(responses[c], [agent |-> e, point |-> exponent[c][e]])
        \/ \E e \in Agents :
             /\ ToppedUp(c) /\ wire[c][e] = "failed"
             /\ wire'[c] = [wire[c] EXCEPT ![e] = "discarded"] /\ responses'[c] = responses[c]
        \/ \E e \in Agents, state \in {"answered", "failed"} :
             /\ wire[c][e] = "sent"
             /\ wire'[c] = [wire[c] EXCEPT ![e] = state] /\ responses'[c] = responses[c]

\* Every step of the system is one of these for a call that collects after it.
LEMMA StepsOfCollecting ==
  ASSUME TypeOK, IdleUntouched, [Next]_vars, NEW c \in Calls, phase'[c] = "collecting"
  PROVE  CollectingSteps(c)
PROOF
  <1>1. ASSUME NEW d \in Calls, Start(d) PROVE CollectingSteps(c)
    <2>1. phase[c] = "idle" \/ (phase[c] = "collecting" /\ d # c)
      BY <1>1 DEF Start, TypeOK
    <2>. QED BY <1>1, <2>1 DEF Start, CollectingSteps, IdleUntouched
  <1>2. ASSUME NEW d \in Calls, d # c, Advance(d) PROVE CollectingSteps(c)
    <2>1. /\ phase[c] = "collecting" /\ members' = members
          /\ wire'[c] = wire[c] /\ responses'[c] = responses[c]
      <3>1. ASSUME NEW b \in Agents,
                   Ask(d, b) \/ SkipAbsent(d, b) \/ AskUnresolved(d, b) \/ Collect(d, b) \/ Discard(d, b)
            PROVE  /\ phase[c] = "collecting" /\ members' = members
                   /\ wire'[c] = wire[c] /\ responses'[c] = responses[c]
        BY <1>2, <3>1 DEF Ask, SkipAbsent, AskUnresolved, Collect, Discard, TypeOK
      <3>2. CASE GiveUp(d) \/ UnblindPanics(d) \/ Finish(d)
        BY <1>2, <3>2 DEF GiveUp, UnblindPanics, Finish, Conclude, TypeOK
      <3>. QED BY <1>2, <3>1, <3>2 DEF Advance
    <2>. QED BY <2>1 DEF CollectingSteps
  <1>3. ASSUME Advance(c) PROVE CollectingSteps(c)
    <2>1. ASSUME NEW b \in Agents, Ask(c, b) PROVE CollectingSteps(c)
      BY <2>1 DEF Ask, Pulls, Polling, CollectingSteps, TypeOK
    <2>2. ASSUME NEW b \in Agents, SkipAbsent(c, b) PROVE CollectingSteps(c)
      BY <2>2 DEF SkipAbsent, Pulls, Polling, CollectingSteps, TypeOK
    <2>3. ASSUME NEW b \in Agents, AskUnresolved(c, b) PROVE FALSE
      BY <2>3 DEF AskUnresolved, TypeOK
    <2>4. ASSUME NEW b \in Agents, Collect(c, b) PROVE CollectingSteps(c)
      BY <2>4 DEF Collect, Polling, CollectingSteps, TypeOK
    <2>5. ASSUME NEW b \in Agents, Discard(c, b) PROVE CollectingSteps(c)
      BY <2>5 DEF Discard, Polling, CollectingSteps, TypeOK
    <2>6. ~ (GiveUp(c) \/ UnblindPanics(c) \/ Finish(c))
      BY DEF GiveUp, UnblindPanics, Finish, Conclude, TypeOK
    <2>. QED BY <1>3, <2>1, <2>2, <2>3, <2>4, <2>5, <2>6 DEF Advance
  <1>4. ASSUME NEW d \in Calls, NEW e \in Agents, Serve(d, e) \/ LoseRequest(d, e)
        PROVE  CollectingSteps(c)
    <2>1. /\ phase[c] = "collecting" /\ members' = members
          /\ responses'[c] = responses[c] /\ wire[d][e] = "sent"
      BY <1>4 DEF Serve, LoseRequest
    <2>2. \E state \in {"answered", "failed"} : wire' = [wire EXCEPT ![d][e] = state]
      <3>1. CASE Serve(d, e)
        BY <3>1 DEF Serve
      <3>2. CASE LoseRequest(d, e)
        BY <3>2 DEF LoseRequest
      <3>. QED BY <1>4, <3>1, <3>2
    <2>3. \/ wire'[c] = wire[c]
          \/ /\ wire[c][e] = "sent"
             /\ \E state \in {"answered", "failed"} : wire'[c] = [wire[c] EXCEPT ![e] = state]
      BY <2>1, <2>2 DEF TypeOK
    <2>. QED BY <2>1, <2>3 DEF CollectingSteps
  <1>5. ASSUME NEW a \in Restartable, Restart(a) PROVE CollectingSteps(c)
    <2>1. Interrupt(a) /\ a \in Agents
      BY <1>5, ConfigAssumption DEF Restart, RestartServer, RestartLight
    <2>2. phase[c] = "collecting" /\ Home[c] # a /\ responses'[c] = responses[c]
      BY <2>1 DEF Interrupt
    <2>3. wire'[c] = [wire[c] EXCEPT ![a] = IF @ = "sent" THEN "failed" ELSE @]
      BY <2>1, <2>2 DEF Interrupt
    <2>4. members'[Home[c]] = members[Home[c]]
      BY <1>5, <2>2, ConfigAssumption DEF Restart, RestartServer, RestartLight, TypeOK
    <2>5. CASE wire[c][a] = "sent"
      <3>1. wire'[c] = [wire[c] EXCEPT ![a] = "failed"]
        BY <2>3, <2>5
      <3>. QED BY <2>1, <2>2, <2>4, <2>5, <3>1 DEF CollectingSteps
    <2>6. CASE wire[c][a] # "sent"
      <3>1. wire'[c] = wire[c]
        BY <2>3, <2>6 DEF TypeOK
      <3>. QED BY <2>2, <2>4, <3>1 DEF CollectingSteps
    <2>. QED BY <2>5, <2>6
  <1>6. CASE UNCHANGED vars
    BY <1>6 DEF vars, CollectingSteps, IdleUntouched
  <1>. QED BY <1>1, <1>2, <1>3, <1>4, <1>5, <1>6 DEF Next

\* A stream that is topped up before anything was taken has asked the first
\* window: the requests in flight all go to agents before an unasked one.
LEMMA ToppedUpWindow ==
  ASSUME TypeOK, NEW c \in Calls, wire[c][Home[c]] = "unasked", AskedInOrder(c),
         RequestsSound(c), ToppedUp(c),
         \A d \in Agents : wire[c][d] \notin {"collected", "discarded"},
         NEW b \in FirstWindow(c)
  PROVE  wire[c][b] # "unasked"
PROOF
  <1>. DEFINE D == {d \in Agents \ {Home[c]} : d <= b}
  <1>. SUFFICES ASSUME wire[c][b] = "unasked" PROVE FALSE
    OBVIOUS
  <1>1. b \in Agents \ {Home[c]} /\ Cardinality(D) <= Window
    BY DEF FirstWindow
  <1>2. Cardinality(InFlight(c)) >= Window
    BY <1>1 DEF ToppedUp, Pending
  <1>3. IsFiniteSet(D) /\ b \in D
    <2>1. IsFiniteSet(Agents) /\ D \subseteq Agents
      BY FS_Interval, ConfigAssumption DEF Agents
    <2>2. IsFiniteSet(D)
      BY <2>1, FS_Subset
    <2>. QED BY <1>1, <2>2 DEF Agents
  <1>4. InFlight(c) \subseteq D \ {b}
    <2>. SUFFICES ASSUME NEW d \in InFlight(c) PROVE d \in D \ {b}
      OBVIOUS
    <2>1. d \in Agents \ {Home[c]} /\ d # b /\ wire[c][d] # "unasked"
      BY DEF InFlight
    <2>2. ~ (b < d)
      BY <1>1, <2>1 DEF AskedInOrder
    <2>. QED BY <1>1, <2>1, <2>2 DEF Agents
  <1>5. IsFiniteSet(D \ {b}) /\ Cardinality(D \ {b}) = Cardinality(D) - 1
    BY <1>3, FS_RemoveElement
  <1>6. Cardinality(InFlight(c)) <= Cardinality(D \ {b})
    BY <1>4, <1>5, FS_Subset
  <1>7. Cardinality(D) \in Nat /\ Cardinality(InFlight(c)) \in Nat
    <2>1. IsFiniteSet(InFlight(c))
      BY <1>4, <1>5, FS_Subset
    <2>. QED BY <1>3, <2>1, FS_CardinalityType
  <1>. QED BY <1>1, <1>2, <1>5, <1>6, <1>7, ConfigAssumption

\* One request of a call that collects changes its state.  Whether it had been
\* asked before, and whether it then counts as taken, decide what is preserved.
LEMMA CollectingStep ==
  ASSUME TypeOK, IdleUntouched, ResponsesGenuine, CollectingInv, [Next]_vars,
         NEW c \in Calls, phase'[c] = "collecting"
  PROVE  CInv(c)'
PROOF
  <1>. USE DEF AskedInOrder, RequestsSound, CollectedCounted, WindowFirst, CInv
  <1>1. CollectingSteps(c)
    BY StepsOfCollecting
  <1>2. CASE phase[c] = "idle" /\ wire'[c] = [b \in Agents |-> "unasked"]
    BY <1>2
  <1>. SUFFICES ASSUME phase[c] = "collecting", members'[Home[c]] = members[Home[c]]
                PROVE  CInv(c)'
    BY <1>1, <1>2 DEF CollectingSteps
  <1>3. CInv(c) /\ wire[c][Home[c]] = "unasked"
    BY DEF CollectingInv, ResponsesGenuine, GenuineResponses
  <1>4. FirstWindow(c)' = FirstWindow(c) /\ FirstWindow(c) \subseteq Agents
    BY DEF FirstWindow
  <1>5. CASE wire'[c] = wire[c] /\ responses'[c] = responses[c]
    BY <1>3, <1>4, <1>5
  <1>6. ASSUME NEW e \in Agents, NEW state \in {"sent", "failed"},
               Pulls(c, e), members[Home[c]][e] # "unresolved",
               wire'[c] = [wire[c] EXCEPT ![e] = state], responses'[c] = responses[c]
        PROVE  CInv(c)'
    <2>1. \A b \in Agents : wire'[c][b] = IF b = e THEN state ELSE wire[c][b]
      BY <1>6 DEF TypeOK
    <2>2. AskedInOrder(c)'
      <3>. SUFFICES ASSUME NEW b \in Agents \ {Home[c]}, NEW d \in Agents \ {Home[c]},
                           d < b, wire'[c][b] # "unasked"
                    PROVE  wire'[c][d] # "unasked"
        OBVIOUS
      <3>1. CASE b = e
        <4>1. d \notin Pending(c)
          BY <1>6, <3>1, ConfigAssumption DEF Pulls, Agents
        <4>. QED BY <1>6, <2>1, <4>1 DEF Pending
      <3>2. CASE b # e
        BY <1>3, <1>6, <2>1, <3>2
      <3>. QED BY <3>1, <3>2
    <2>3. RequestsSound(c)' /\ CollectedCounted(c)'
      BY <1>3, <1>6, <2>1
    <2>4. WindowFirst(c)'
      BY <1>3, <1>4, <1>6, <2>1
    <2>. QED BY <2>2, <2>3, <2>4
  <1>7. ASSUME NEW e \in Agents, NEW state \in {"collected", "discarded"}, ToppedUp(c),
               wire[c][e] \in {"answered", "failed"},
               wire'[c] = [wire[c] EXCEPT ![e] = state]
        PROVE  AskedInOrder(c)' /\ RequestsSound(c)' /\ WindowFirst(c)'
    <2>1. \A b \in Agents : wire'[c][b] = IF b = e THEN state ELSE wire[c][b]
      BY <1>7 DEF TypeOK
    <2>2. AskedInOrder(c)' /\ RequestsSound(c)'
      BY <1>3, <1>7, <2>1
    <2>3. \A b \in FirstWindow(c) : wire[c][b] # "unasked"
      <3>1. CASE \E b \in Agents : wire[c][b] \in {"collected", "discarded"}
        BY <1>3, <3>1
      <3>2. CASE \A b \in Agents : wire[c][b] \notin {"collected", "discarded"}
        BY <1>3, <1>7, <3>2, ToppedUpWindow
      <3>. QED BY <3>1, <3>2
    <2>4. WindowFirst(c)'
      BY <1>4, <1>7, <2>1, <2>3
    <2>. QED BY <2>2, <2>4
  <1>8. ASSUME NEW e \in Agents, ToppedUp(c), wire[c][e] = "answered",
               wire'[c] = [wire[c] EXCEPT ![e] = "collected"],
               responses'[c] = Append(responses[c], [agent |-> e, point |-> exponent[c][e]])
        PROVE  CInv(c)'
    <2>1. AskedInOrder(c)' /\ RequestsSound(c)' /\ WindowFirst(c)'
      BY <1>7, <1>8
    <2>2. CollectedCounted(c)'
      <3>. SUFFICES ASSUME NEW b \in Agents, wire'[c][b] = "collected"
                    PROVE  \E j \in 1 .. Len(responses'[c]) : responses'[c][j].agent = b
        OBVIOUS
      <3>. DEFINE n == Len(responses[c])
      <3>1. /\ n \in Nat /\ Len(responses'[c]) = n + 1
            /\ responses'[c][n + 1] = [agent |-> e, point |-> exponent[c][e]]
            /\ \A j \in 1 .. n : responses'[c][j] = responses[c][j]
        <4>1. responses[c] \in Seq(Response)
          BY DEF TypeOK
        <4>2. [agent |-> e, point |-> exponent[c][e]] \in Response
          BY DEF TypeOK, Response
        <4>. QED BY <1>8, <4>1, <4>2
      <3>2. CASE b = e
        <4>1. n + 1 \in 1 .. Len(responses'[c])
          BY <3>1
        <4>. QED BY <3>1, <3>2, <4>1
      <3>3. CASE b # e
        <4>1. wire[c][b] = "collected"
          BY <1>8, <3>3 DEF TypeOK
        <4>2. PICK j \in 1 .. n : responses[c][j].agent = b
          BY <1>3, <4>1
        <4>3. j \in 1 .. Len(responses'[c])
          BY <3>1, <4>2
        <4>. QED BY <3>1, <4>2, <4>3
      <3>. QED BY <3>2, <3>3
    <2>. QED BY <2>1, <2>2
  <1>9. ASSUME NEW e \in Agents, ToppedUp(c), wire[c][e] = "failed",
               wire'[c] = [wire[c] EXCEPT ![e] = "discarded"], responses'[c] = responses[c]
        PROVE  CInv(c)'
    <2>1. AskedInOrder(c)' /\ RequestsSound(c)' /\ WindowFirst(c)'
      BY <1>7, <1>9
    <2>2. CollectedCounted(c)'
      BY <1>3, <1>9 DEF TypeOK
    <2>. QED BY <2>1, <2>2
  <1>10. ASSUME NEW e \in Agents, NEW state \in {"answered", "failed"}, wire[c][e] = "sent",
                wire'[c] = [wire[c] EXCEPT ![e] = state], responses'[c] = responses[c]
         PROVE  CInv(c)'
    <2>1. \A b \in Agents : wire'[c][b] = IF b = e THEN state ELSE wire[c][b]
      BY <1>10 DEF TypeOK
    <2>. QED BY <1>3, <1>4, <1>10, <2>1
  <1>11. \/ \E e \in Agents, state \in {"sent", "failed"} :
              /\ Pulls(c, e) /\ members[Home[c]][e] # "unresolved"
              /\ wire'[c] = [wire[c] EXCEPT ![e] = state] /\ responses'[c] = responses[c]
         \/ wire'[c] = wire[c] /\ responses'[c] = responses[c]
         \/ \E e \in Agents :
              /\ ToppedUp(c) /\ wire[c][e] = "answered"
              /\ wire'[c] = [wire[c] EXCEPT ![e] = "collected"]
              /\ responses'[c] =
                   Append(responses[c], [agent |-> e, point |-> exponent[c][e]])
         \/ \E e \in Agents :
              /\ ToppedUp(c) /\ wire[c][e] = "failed"
              /\ wire'[c] = [wire[c] EXCEPT ![e] = "discarded"] /\ responses'[c] = responses[c]
         \/ \E e \in Agents, state \in {"answered", "failed"} :
              /\ wire[c][e] = "sent"
              /\ wire'[c] = [wire[c] EXCEPT ![e] = state] /\ responses'[c] = responses[c]
    BY <1>1 DEF CollectingSteps
  <1>. QED BY <1>5, <1>6, <1>8, <1>9, <1>10, <1>11

\* The invariant of every behaviour.
LEMMA CollectingAlways == Spec => []CollectingInv
PROOF
  <1>1. Init => CollectingInv
    BY DEF Init, CollectingInv
  <1>2. ASSUME TypeOK, IInv, CollectingInv, [Next]_vars PROVE CollectingInv'
    <2>. SUFFICES ASSUME NEW c \in Calls, phase'[c] = "collecting" PROVE CInv(c)'
      BY DEF CollectingInv
    <2>. QED BY <1>2, CollectingStep DEF IInv
  <1>. QED BY <1>1, <1>2, Invariant, PTL DEF Spec
-----------------------------------------------------------------------------
(***************************************************************************)
(* How a call ends.                                                        *)
(***************************************************************************)

\* A fingerprint or an Err is returned only by the steps that follow the await.
LEMMA Concluded ==
  ASSUME TypeOK, [Next]_vars, NEW c \in Calls,
         phase[c] = "collecting", phase'[c] \in {"ok", "error"}
  PROVE  /\ StreamEnded(c)
         /\ wire'[c] = Dropped(c)
         /\ phase'[c] = "error" => Len(WithOwn(c)) < Threshold
PROOF
  <1>. DEFINE Ends == /\ StreamEnded(c)
                      /\ wire'[c] = Dropped(c)
                      /\ phase'[c] = "error" => Len(WithOwn(c)) < Threshold
  <1>. SUFFICES Ends
    OBVIOUS
  <1>1. ASSUME NEW d \in Calls, Start(d) PROVE FALSE
    BY <1>1 DEF Start, TypeOK
  <1>2. ASSUME NEW d \in Calls, Advance(d) PROVE Ends
    <2>1. ASSUME NEW b \in Agents,
                 Ask(d, b) \/ SkipAbsent(d, b) \/ AskUnresolved(d, b) \/ Collect(d, b) \/ Discard(d, b)
          PROVE  FALSE
      BY <2>1 DEF Ask, SkipAbsent, AskUnresolved, Collect, Discard, TypeOK
    <2>2. CASE GiveUp(d)
      <3>1. d = c
        BY <2>2 DEF GiveUp, Conclude, TypeOK
      <3>. QED BY <2>2, <3>1 DEF GiveUp, Conclude, TypeOK
    <2>3. CASE Finish(d)
      <3>1. d = c /\ phase'[c] = "ok"
        BY <2>3 DEF Finish, Conclude, TypeOK
      <3>. QED BY <2>3, <3>1 DEF Finish, Conclude, TypeOK
    <2>4. CASE UnblindPanics(d)
      BY <2>4 DEF UnblindPanics, Conclude, TypeOK
    <2>. QED BY <1>2, <2>1, <2>2, <2>3, <2>4 DEF Advance
  <1>3. ASSUME NEW d \in Calls, NEW e \in Agents, Serve(d, e) \/ LoseRequest(d, e) PROVE FALSE
    BY <1>3 DEF Serve, LoseRequest
  <1>4. ASSUME NEW a \in Restartable, Restart(a) PROVE FALSE
    BY <1>4 DEF Restart, RestartServer, RestartLight, Interrupt
  <1>5. CASE UNCHANGED vars
    BY <1>5 DEF vars
  <1>. QED BY <1>1, <1>2, <1>3, <1>4, <1>5 DEF Next

\* A call whose stream has ended has asked every agent of its first window.
LEMMA FirstWindowAsked ==
  ASSUME TypeOK, IInv, CollectingInv, NEW c \in Calls, StreamEnded(c), Threshold > 1,
         NEW b \in FirstWindow(c)
  PROVE  wire[c][b] # "unasked"
PROOF
  <1>1. phase[c] = "collecting" /\ CInv(c) /\ b \in Agents \ {Home[c]}
    BY DEF StreamEnded, CollectingInv, FirstWindow
  <1>2. CASE Pending(c) = {}
    BY <1>1, <1>2 DEF Pending
  <1>3. CASE Len(responses[c]) >= Threshold - 1
    <2>1. 1 \in 1 .. Len(responses[c]) /\ responses[c] \in Seq(Response)
      BY <1>3, ConfigAssumption DEF TypeOK
    <2>2. responses[c][1].agent \in Agents
      <3>1. responses[c][1] \in Response
        BY <2>1
      <3>. QED BY <3>1 DEF Response
    <2>3. wire[c][responses[c][1].agent] = "collected"
      BY <1>1, <2>1 DEF IInv, OwnResponseLast, ResponsesGenuine, GenuineResponses
    <2>. QED BY <1>1, <2>2, <2>3 DEF CInv, WindowFirst
  <1>. QED BY <1>1, <1>2, <1>3 DEF StreamEnded

\* An agent whose address did not resolve makes every call that reaches it panic.
THEOREM UnresolvedFatal == Spec => UnresolvedMemberIsFatal
PROOF
  <1>. DEFINE Fatal ==
         \A c \in Calls :
           Threshold > 1 /\ phase[c] = "collecting" /\ phase'[c] \in {"ok", "error"}
             => \A b \in FirstWindow(c) : members[Home[c]][b] # "unresolved"
  <1>1. ASSUME TypeOK, IInv, CollectingInv, [Next]_vars PROVE [Fatal]_vars
    <2>. SUFFICES ASSUME NEW c \in Calls, Threshold > 1, phase[c] = "collecting",
                         phase'[c] \in {"ok", "error"}, NEW b \in FirstWindow(c)
                  PROVE  members[Home[c]][b] # "unresolved"
      OBVIOUS
    <2>1. wire[c][b] # "unasked"
      BY <1>1, Concluded, FirstWindowAsked
    <2>. QED BY <1>1, <2>1 DEF CollectingInv, CInv, RequestsSound, FirstWindow
  <1>. QED BY <1>1, Invariant, CollectingAlways, PTL DEF Spec, UnresolvedMemberIsFatal

\* Every other agent has answered or failed, and enough of them have failed.
NoQuorumLeft(c) ==
  /\ Cardinality({b \in Agents : wire[c][b] = "discarded"}) > Count - Threshold
  /\ \A b \in Agents \ {Home[c]} : wire[c][b] \in {"collected", "discarded"}

\* The stream of a call that has too few answers has run dry.
LEMMA RanDry ==
  ASSUME TypeOK, IInv, CollectingInv, NEW c \in Calls, StreamEnded(c),
         Len(WithOwn(c)) < Threshold
  PROVE  NoQuorumLeft(c) /\ InFlight(c) = {}
PROOF
  <1>. DEFINE n == Len(responses[c])
              Taken == {b \in Agents : wire[c][b] = "collected"}
              Failed == {b \in Agents : wire[c][b] = "discarded"}
              Others == Agents \ {Home[c]}
  <1>1. phase[c] = "collecting" /\ CInv(c) /\ wire[c][Home[c]] = "unasked"
    BY DEF StreamEnded, CollectingInv, IInv, ResponsesGenuine, GenuineResponses
  <1>2. n \in Nat /\ n < Threshold - 1
    <2>1. responses[c] \in Seq(Response)
      BY DEF TypeOK
    <2>2. Len(WithOwn(c)) = n + 1
      BY <2>1 DEF WithOwn
    <2>. QED BY <2>1, <2>2, ConfigAssumption
  <1>3. Pending(c) = {} /\ InFlight(c) = {}
    BY <1>2, ConfigAssumption DEF StreamEnded
  <1>4. \A b \in Others : wire[c][b] \in {"collected", "discarded"}
    <2>1. \A b \in Others : wire[c][b] \in WireStates
      BY DEF TypeOK
    <2>. QED BY <1>1, <1>3, <2>1 DEF Pending, InFlight, WireStates, CInv, RequestsSound
  <1>5. IsFiniteSet(Agents) /\ Cardinality(Agents) = Count
    BY FS_Interval, ConfigAssumption DEF Agents
  <1>6. IsFiniteSet(Taken) /\ IsFiniteSet(Failed)
    BY <1>5, FS_Subset
  <1>7. Cardinality(Taken) <= n
    <2>. DEFINE At(b) == CHOOSE j \in 1 .. n : responses[c][j].agent = b
                f == [b \in Taken |-> At(b)]
    <2>1. \A b \in Taken : At(b) \in 1 .. n /\ responses[c][At(b)].agent = b
      BY <1>1 DEF CInv, CollectedCounted
    <2>2. f \in Injection(Taken, 1 .. n)
      BY <2>1 DEF Injection, IsInjective
    <2>3. IsFiniteSet(1 .. n) /\ Cardinality(1 .. n) = n
      BY <1>2, FS_Interval
    <2>. HIDE DEF f
    <2>. QED BY <2>2, <2>3, FS_Injection
  <1>8. Cardinality(Others) = Count - 1 /\ IsFiniteSet(Others)
    <2>1. Home[c] \in Agents
      BY ConfigAssumption
    <2>. QED BY <1>5, <2>1, FS_RemoveElement
  <1>9. Cardinality(Others) <= Cardinality(Taken) + Cardinality(Failed)
    <2>1. Others \subseteq Taken \cup Failed
      BY <1>4
    <2>2. /\ IsFiniteSet(Taken \cup Failed) /\ IsFiniteSet(Taken \cap Failed)
          /\ Cardinality(Taken \cup Failed) =
               Cardinality(Taken) + Cardinality(Failed) - Cardinality(Taken \cap Failed)
      BY <1>6, FS_Union, FS_Subset
    <2>3. Cardinality(Others) <= Cardinality(Taken \cup Failed)
      BY <2>1, <2>2, FS_Subset
    <2>4. /\ Cardinality(Taken \cap Failed) \in Nat /\ Cardinality(Taken) \in Nat
          /\ Cardinality(Failed) \in Nat /\ Cardinality(Others) \in Nat
          /\ Cardinality(Taken \cup Failed) \in Nat
      BY <1>6, <1>8, <2>2, FS_CardinalityType
    <2>. QED BY <2>2, <2>3, <2>4
  <1>10. Cardinality(Failed) > Count - Threshold
    <2>1. Cardinality(Taken) \in Nat /\ Cardinality(Failed) \in Nat
      BY <1>6, FS_CardinalityType
    <2>. QED BY <1>2, <1>7, <1>8, <1>9, <2>1, ConfigAssumption
  <1>. QED BY <1>3, <1>4, <1>10 DEF NoQuorumLeft

\* A request that was taken stays as it is in a call that has ended.
LEMMA SettledWire ==
  ASSUME TypeOK, NEW c \in Calls, Settled(c), [Next]_vars,
         \A b \in Agents \ {Home[c]} : wire[c][b] \in {"collected", "discarded"},
         wire[c][Home[c]] = "unasked"
  PROVE  wire'[c] = wire[c]
PROOF
  <1>. USE DEF Settled
  <1>0. \A b \in Agents : wire[c][b] # "sent"
    OBVIOUS
  <1>1. ASSUME NEW d \in Calls, Start(d) PROVE wire'[c] = wire[c]
    BY <1>1 DEF Start
  <1>2. ASSUME NEW d \in Calls, Advance(d) PROVE wire'[c] = wire[c]
    <2>1. phase[d] = "collecting"
      BY <1>2 DEF Advance, Ask, SkipAbsent, AskUnresolved, Collect, Discard, Pulls, Polling,
                  GiveUp, UnblindPanics, Finish, Conclude, StreamEnded
    <2>2. d # c
      BY <2>1
    <2>3. ASSUME NEW b \in Agents,
                 Ask(d, b) \/ SkipAbsent(d, b) \/ AskUnresolved(d, b) \/ Collect(d, b) \/ Discard(d, b)
          PROVE  wire'[c] = wire[c]
      BY <2>2, <2>3 DEF Ask, SkipAbsent, AskUnresolved, Collect, Discard, TypeOK
    <2>4. CASE GiveUp(d) \/ UnblindPanics(d) \/ Finish(d)
      BY <2>2, <2>4 DEF GiveUp, UnblindPanics, Finish, Conclude, TypeOK
    <2>. QED BY <1>2, <2>3, <2>4 DEF Advance
  <1>3. ASSUME NEW d \in Calls, NEW e \in Agents, Serve(d, e) \/ LoseRequest(d, e)
        PROVE  wire'[c] = wire[c]
    <2>1. d # c
      BY <1>0, <1>3 DEF Serve, LoseRequest
    <2>. QED BY <1>3, <2>1 DEF Serve, LoseRequest, TypeOK
  <1>4. ASSUME NEW a \in Restartable, Restart(a) PROVE wire'[c] = wire[c]
    <2>1. Interrupt(a) /\ a \in Agents
      BY <1>4, ConfigAssumption DEF Restart, RestartServer, RestartLight
    <2>2. wire'[c] = [wire[c] EXCEPT ![a] = IF @ = "sent" THEN "failed" ELSE @]
      BY <2>1 DEF Interrupt
    <2>. QED BY <1>0, <2>1, <2>2 DEF TypeOK
  <1>5. CASE UNCHANGED vars
    BY <1>5 DEF vars
  <1>. QED BY <1>1, <1>2, <1>3, <1>4, <1>5 DEF Next

\* A call never gives up before it has heard from every agent, nor while a
\* quorum could still answer.
THEOREM GivesUpLast == Spec => []GivesUpOnlyWithoutQuorum
PROOF
  <1>1. Init => GivesUpOnlyWithoutQuorum
    BY DEF Init, GivesUpOnlyWithoutQuorum
  <1>2. ASSUME TypeOK, IInv, CollectingInv, GivesUpOnlyWithoutQuorum, [Next]_vars
        PROVE  GivesUpOnlyWithoutQuorum'
    <2>. SUFFICES ASSUME NEW c \in Calls, phase'[c] = "error" PROVE NoQuorumLeft(c)'
      BY DEF GivesUpOnlyWithoutQuorum, NoQuorumLeft
    <2>1. phase[c] \in {"idle", "collecting", "ok", "error", "panicked", "lost"}
      BY <1>2 DEF TypeOK
    <2>2. CASE phase[c] = "collecting"
      <3>1. StreamEnded(c) /\ wire'[c] = Dropped(c) /\ Len(WithOwn(c)) < Threshold
        BY <1>2, <2>2, Concluded
      <3>2. NoQuorumLeft(c) /\ InFlight(c) = {}
        BY <1>2, <3>1, RanDry
      <3>3. wire'[c] = wire[c]
        BY <1>2, <3>1, <3>2 DEF Dropped, TypeOK
      <3>. QED BY <3>2, <3>3 DEF NoQuorumLeft
    <2>3. CASE Settled(c)
      <3>1. phase[c] = "error"
        BY <1>2, <2>3, SettledStep
      <3>2. NoQuorumLeft(c) /\ wire[c][Home[c]] = "unasked"
        BY <1>2, <3>1 DEF GivesUpOnlyWithoutQuorum, NoQuorumLeft, IInv, ResponsesGenuine,
                          GenuineResponses
      <3>3. wire'[c] = wire[c]
        BY <1>2, <2>3, <3>2, SettledWire DEF NoQuorumLeft
      <3>. QED BY <3>2, <3>3 DEF NoQuorumLeft
    <2>4. CASE phase[c] = "idle"
      <3>1. phase'[c] \in {"idle", "collecting"}
        BY <1>2, <2>4, IdleStep
      <3>. QED BY <3>1
    <2>. QED BY <2>1, <2>2, <2>3, <2>4 DEF Settled
  <1>. QED BY <1>1, <1>2, Invariant, CollectingAlways, PTL DEF Spec
-----------------------------------------------------------------------------
(***************************************************************************)
(* What holds a call up, and how far it can go.                            *)
(***************************************************************************)

\* Sets of agents and their numbers of elements.
LEMMA SomeAgents ==
  ASSUME NEW S \in SUBSET Agents
  PROVE  IsFiniteSet(S) /\ Cardinality(S) \in Nat /\ S \in SUBSET Nat
PROOF
  <1>1. IsFiniteSet(Agents) /\ Agents \subseteq Nat
    BY FS_Interval, ConfigAssumption DEF Agents
  <1>2. IsFiniteSet(S)
    BY <1>1, FS_Subset
  <1>. QED BY <1>1, <1>2, FS_CardinalityType

\* The window is never overrun.
WindowBound == \A c \in Calls : phase[c] = "collecting" => Cardinality(InFlight(c)) <= Window

\* A step that leaves a call collecting puts at most one more request in flight,
\* and that only if the window had room.
LEMMA WindowStep ==
  ASSUME TypeOK, IdleUntouched, WindowBound, [Next]_vars, NEW c \in Calls, phase'[c] = "collecting"
  PROVE  Cardinality(InFlight(c)') <= Window
PROOF
  <1>1. CollectingSteps(c)
    BY StepsOfCollecting
  <1>2. Window \in Nat \ {0} /\ InFlight(c) \in SUBSET Agents /\ Cardinality(InFlight(c)) \in Nat
    BY ConfigAssumption, SomeAgents DEF InFlight
  <1>3. CASE wire'[c] = [b \in Agents |-> "unasked"]
    <2>1. InFlight(c)' = {}
      BY <1>3 DEF InFlight
    <2>. QED BY <1>2, <2>1, FS_EmptySet
  <1>4. ASSUME phase[c] = "collecting", InFlight(c)' \subseteq InFlight(c)
        PROVE  Cardinality(InFlight(c)') <= Window
    <2>1. IsFiniteSet(InFlight(c)) /\ Cardinality(InFlight(c)) <= Window
      BY <1>2, <1>4, SomeAgents DEF WindowBound
    <2>2. Cardinality(InFlight(c)') <= Cardinality(InFlight(c))
      BY <1>4, <2>1, FS_Subset
    <2>3. Cardinality(InFlight(c)') \in Nat
      BY <1>2, <1>4, SomeAgents
    <2>. QED BY <1>2, <2>1, <2>2, <2>3
  <1>5. ASSUME NEW e \in Agents, NEW state, phase[c] = "collecting",
               wire'[c] = [wire[c] EXCEPT ![e] = state]
        PROVE  /\ InFlight(c)' \subseteq InFlight(c) \cup {e}
               /\ wire[c][e] \in {"sent", "answered", "failed"}
                    => InFlight(c)' \subseteq InFlight(c)
    <2>1. \A b \in Agents : wire'[c][b] = IF b = e THEN state ELSE wire[c][b]
      BY <1>5 DEF TypeOK
    <2>. QED BY <2>1 DEF InFlight
  <1>6. ASSUME NEW e \in Agents, NEW state, phase[c] = "collecting", Pulls(c, e),
               wire'[c] = [wire[c] EXCEPT ![e] = state]
        PROVE  Cardinality(InFlight(c)') <= Window
    <2>1. InFlight(c)' \subseteq InFlight(c) \cup {e} /\ InFlight(c) \cup {e} \in SUBSET Agents
      BY <1>2, <1>5, <1>6
    <2>2. Cardinality(InFlight(c) \cup {e}) <= Cardinality(InFlight(c)) + 1
      <3>1. IsFiniteSet(InFlight(c))
        BY <1>2, SomeAgents
      <3>2. Cardinality(InFlight(c) \cup {e}) \in {Cardinality(InFlight(c)), Cardinality(InFlight(c)) + 1}
        BY <3>1, FS_AddElement
      <3>. QED BY <1>2, <3>2
    <2>3. /\ Cardinality(InFlight(c)') <= Cardinality(InFlight(c) \cup {e})
          /\ Cardinality(InFlight(c)') \in Nat /\ Cardinality(InFlight(c) \cup {e}) \in Nat
      <3>1. InFlight(c)' \in SUBSET Agents
        BY <2>1
      <3>. QED BY <2>1, <3>1, SomeAgents, FS_Subset
    <2>4. Cardinality(InFlight(c)) < Window
      BY <1>6 DEF Pulls
    <2>. QED BY <1>2, <2>2, <2>3, <2>4
  <1>7. CASE phase[c] = "collecting" /\ wire'[c] = wire[c]
    <2>1. InFlight(c)' = InFlight(c)
      BY <1>7 DEF InFlight
    <2>. QED BY <1>4, <1>7, <2>1
  <1>8. ASSUME NEW e \in Agents, NEW state, phase[c] = "collecting",
               wire[c][e] \in {"sent", "answered", "failed"},
               wire'[c] = [wire[c] EXCEPT ![e] = state]
        PROVE  Cardinality(InFlight(c)') <= Window
    BY <1>4, <1>5, <1>8
  <1>. QED BY <1>1, <1>3, <1>6, <1>7, <1>8 DEF CollectingSteps

\* A call that neither ended its stream nor can go on has only requests that
\* agents hold.
LEMMA HeldUp ==
  ASSUME TypeOK, OwnResponseLast, WindowBound, NEW c \in Calls, phase[c] = "collecting",
         ~ CanAdvance(c)
  PROVE  /\ InFlight(c) # {} /\ \A b \in InFlight(c) : wire[c][b] = "sent"
         /\ Pending(c) = {} \/ Cardinality(InFlight(c)) = Window
PROOF
  <1>1. /\ Window \in Nat \ {0} /\ Threshold \in Nat \ {0}
        /\ InFlight(c) \in SUBSET Agents /\ Pending(c) \in SUBSET Agents
        /\ Cardinality(InFlight(c)) \in Nat /\ Cardinality(InFlight(c)) <= Window
    BY ConfigAssumption, SomeAgents DEF InFlight, Pending, WindowBound
  <1>2. ~ StreamEnded(c) /\ Polling(c)
    <2>1. Len(responses[c]) \in Nat
      BY DEF TypeOK
    <2>. QED BY <1>1, <2>1 DEF CanAdvance, StreamEnded, Polling
  <1>3. Pending(c) = {} \/ Cardinality(InFlight(c)) = Window
    <2>. SUFFICES ASSUME Pending(c) # {}, Cardinality(InFlight(c)) # Window PROVE FALSE
      OBVIOUS
    <2>1. PICK b \in Pending(c) : \A d \in Pending(c) : b <= d
      BY <1>1, SomeAgents, LeastNumber
    <2>2. Pulls(c, b) /\ b \in Agents
      BY <1>1, <1>2, <2>1 DEF Pulls
    <2>. QED BY <2>2 DEF CanAdvance
  <1>4. InFlight(c) # {}
    <2>1. CASE Pending(c) = {}
      BY <1>2, <2>1 DEF StreamEnded
    <2>2. CASE Cardinality(InFlight(c)) = Window
      BY <1>1, <2>2, FS_EmptySet
    <2>. QED BY <1>3, <2>1, <2>2
  <1>5. ToppedUp(c)
    BY <1>1, <1>3 DEF ToppedUp
  <1>6. \A b \in InFlight(c) : wire[c][b] = "sent"
    BY <1>2, <1>5 DEF CanAdvance, InFlight
  <1>. QED BY <1>3, <1>4, <1>6

\* Window and threshold never lock a call: only agents that do not answer do.
THEOREM HeldUpOnly == Spec => []HeldUpOnlyByAgents
PROOF
  <1>1. Init => WindowBound
    BY DEF Init, WindowBound
  <1>2. ASSUME TypeOK, IInv, WindowBound, [Next]_vars PROVE WindowBound'
    BY <1>2, WindowStep DEF WindowBound, IInv
  <1>3. TypeOK /\ IInv /\ WindowBound => HeldUpOnlyByAgents
    BY HeldUp DEF HeldUpOnlyByAgents, WindowBound, IInv
  <1>. QED BY <1>1, <1>2, <1>3, Invariant, PTL DEF Spec

\* Dropping the stream takes the requests in flight to their end.
LEMMA DroppedForward ==
  ASSUME TypeOK, NEW c \in Calls, NEW b \in Agents
  PROVE  Stage(wire[c][b]) <= Stage(Dropped(c)[b])
PROOF
  <1>1. wire[c][b] \in WireStates
    BY DEF TypeOK
  <1>. QED BY <1>1, DroppedFacts DEF Stage, WireStates

\* The steps of a call itself take a request further, or end the call.
LEMMA AdvanceForward ==
  ASSUME TypeOK, NEW c \in Calls, Advance(c)
  PROVE  /\ \A b \in Agents : Stage(wire[c][b]) <= Stage(wire'[c][b])
         /\ \/ phase'[c] # "collecting"
            \/ \E b \in Agents : Stage(wire[c][b]) < Stage(wire'[c][b])
         /\ \A d \in Calls : d # c => wire'[d] = wire[d]
PROOF
  <1>0. \A b \in Agents : Stage(wire[c][b]) \in Nat
    BY DEF Stage
  <1>1. ASSUME NEW b \in Agents, NEW state \in WireStates,
               wire' = [wire EXCEPT ![c][b] = state], Stage(wire[c][b]) < Stage(state)
        PROVE  /\ \A d \in Agents : Stage(wire[c][d]) <= Stage(wire'[c][d])
               /\ \E d \in Agents : Stage(wire[c][d]) < Stage(wire'[c][d])
               /\ \A d \in Calls : d # c => wire'[d] = wire[d]
    <2>1. \A d \in Agents : wire'[c][d] = IF d = b THEN state ELSE wire[c][d]
      BY <1>1 DEF TypeOK
    <2>2. Stage(state) \in Nat
      BY DEF Stage
    <2>3. \A d \in Calls : d # c => wire'[d] = wire[d]
      BY <1>1 DEF TypeOK
    <2>. QED BY <1>0, <1>1, <2>1, <2>2, <2>3
  <1>2. ASSUME wire' = [wire EXCEPT ![c] = Dropped(c)]
        PROVE  /\ \A d \in Agents : Stage(wire[c][d]) <= Stage(wire'[c][d])
               /\ \A d \in Calls : d # c => wire'[d] = wire[d]
    <2>1. wire'[c] = Dropped(c) /\ \A d \in Calls : d # c => wire'[d] = wire[d]
      BY <1>2 DEF TypeOK
    <2>. QED BY <2>1, DroppedForward
  <1>3. ASSUME NEW b \in Agents, Ask(c, b) \/ SkipAbsent(c, b)
        PROVE  \E state \in WireStates :
                 wire' = [wire EXCEPT ![c][b] = state] /\ Stage(wire[c][b]) < Stage(state)
    BY <1>3 DEF Ask, SkipAbsent, Pulls, Pending, Stage, WireStates
  <1>4. ASSUME NEW b \in Agents, Collect(c, b) \/ Discard(c, b)
        PROVE  \E state \in WireStates :
                 wire' = [wire EXCEPT ![c][b] = state] /\ Stage(wire[c][b]) < Stage(state)
    BY <1>4 DEF Collect, Discard, Stage, WireStates
  <1>5. ASSUME NEW b \in Agents, AskUnresolved(c, b)
        PROVE  wire' = [wire EXCEPT ![c] = Dropped(c)] /\ phase'[c] # "collecting"
    BY <1>5 DEF AskUnresolved, TypeOK
  <1>6. ASSUME GiveUp(c) \/ UnblindPanics(c) \/ Finish(c)
        PROVE  wire' = [wire EXCEPT ![c] = Dropped(c)] /\ phase'[c] # "collecting"
    BY <1>6 DEF GiveUp, UnblindPanics, Finish, Conclude, TypeOK
  <1>. QED BY <1>1, <1>2, <1>3, <1>4, <1>5, <1>6 DEF Advance

\* One step of the system takes no request back.
LEMMA StepForward ==
  ASSUME TypeOK, NEW c \in Calls, [Next]_vars
  PROVE  /\ \A b \in Agents : Stage(wire[c][b]) <= Stage(wire'[c][b])
         /\ Advance(c) => \/ phase'[c] # "collecting"
                          \/ \E b \in Agents : Stage(wire[c][b]) < Stage(wire'[c][b])
PROOF
  <1>. SUFFICES \A b \in Agents : Stage(wire[c][b]) <= Stage(wire'[c][b])
    BY AdvanceForward
  <1>0. \A b \in Agents : Stage(wire[c][b]) \in Nat
    BY DEF Stage
  <1>1. CASE wire'[c] = wire[c]
    BY <1>0, <1>1
  <1>2. ASSUME NEW d \in Calls, Advance(d)
        PROVE  \A b \in Agents : Stage(wire[c][b]) <= Stage(wire'[c][b])
    BY <1>1, <1>2, AdvanceForward
  <1>3. ASSUME NEW d \in Calls, NEW e \in Agents, Serve(d, e) \/ LoseRequest(d, e)
        PROVE  \A b \in Agents : Stage(wire[c][b]) <= Stage(wire'[c][b])
    <2>1. PICK state \in {"answered", "failed"} : wire' = [wire EXCEPT ![d][e] = state]
      <3>1. CASE Serve(d, e)
        BY <3>1 DEF Serve
      <3>2. CASE LoseRequest(d, e)
        BY <3>2 DEF LoseRequest
      <3>. QED BY <1>3, <3>1, <3>2
    <2>2. wire[d][e] = "sent"
      BY <1>3 DEF Serve, LoseRequest
    <2>. SUFFICES ASSUME NEW b \in Agents PROVE Stage(wire[c][b]) <= Stage(wire'[c][b])
      OBVIOUS
    <2>3. wire'[c][b] = IF c = d /\ b = e THEN state ELSE wire[c][b]
      BY <2>1 DEF TypeOK
    <2>. QED BY <1>0, <2>2, <2>3 DEF Stage
  <1>4. ASSUME NEW a \in Restartable, Restart(a)
        PROVE  \A b \in Agents : Stage(wire[c][b]) <= Stage(wire'[c][b])
    <2>1. Interrupt(a) /\ a \in Agents
      BY <1>4, ConfigAssumption DEF Restart, RestartServer, RestartLight
    <2>2. wire'[c] = IF Home[c] = a /\ phase[c] = "collecting" THEN Dropped(c)
                     ELSE [wire[c] EXCEPT ![a] = IF @ = "sent" THEN "failed" ELSE @]
      BY <2>1 DEF Interrupt
    <2>. SUFFICES ASSUME NEW b \in Agents PROVE Stage(wire[c][b]) <= Stage(wire'[c][b])
      OBVIOUS
    <2>3. CASE wire'[c] = Dropped(c)
      BY <2>3, DroppedForward
    <2>4. CASE wire'[c] = [wire[c] EXCEPT ![a] = IF @ = "sent" THEN "failed" ELSE @]
      <3>1. wire'[c][b] = wire[c][b] \/ (wire[c][b] = "sent" /\ wire'[c][b] = "failed")
        BY <2>1, <2>4 DEF TypeOK
      <3>. QED BY <1>0, <3>1 DEF Stage
    <2>. QED BY <2>2, <2>3, <2>4
  <1>5. ASSUME NEW d \in Calls, Start(d) PROVE wire'[c] = wire[c]
    BY <1>5 DEF Start
  <1>6. CASE UNCHANGED vars
    BY <1>1, <1>6 DEF vars
  <1>. QED BY <1>1, <1>2, <1>3, <1>4, <1>5, <1>6 DEF Next

\* A call takes at most three steps for each agent and one more of its own.
THEOREM MovesForward == Spec => RequestsMoveForward
PROOF
  <1>1. ASSUME TypeOK, [Next]_vars
        PROVE  [\A c \in Calls :
                  /\ \A b \in Agents : Stage(wire[c][b]) <= Stage(wire'[c][b])
                  /\ Advance(c) => \/ phase'[c] # "collecting"
                                   \/ \E b \in Agents : Stage(wire[c][b]) < Stage(wire'[c][b])]_vars
    BY <1>1, StepForward
  <1>. QED BY <1>1, TypeCorrect, PTL DEF Spec, RequestsMoveForward
-----------------------------------------------------------------------------
(***************************************************************************)
(* What an agent learns from a request.                                    *)
(***************************************************************************)

\* Some blinding factor takes a point other than zero to any other point.
LEMMA AnyPoint ==
  ASSUME NEW h \in Field, h # 0, NEW y \in Field
  PROVE  \E r \in Field : Mul(h, r) = y
PROOF
  <1>. DEFINE i == Invert(h)
              r == Mul(i, y)
  <1>1. h \in Int /\ y \in Int /\ 0 <= y /\ y < P
    BY FieldAssumption DEF Field
  <1>2. i \in Int /\ Mul(h, i) = 1
    BY InvertInverts, FieldAssumption DEF Field
  <1>. HIDE DEF i
  <1>3. r \in Field
    BY <1>1, <1>2, MulInField
  <1>4. Mul(h, r) = Mul(Mul(i, y), h)
    <2>1. r \in Int
      BY <1>3, FieldAssumption DEF Field
    <2>2. h * r = r * h
      BY <1>1, <2>1
    <2>. QED BY <2>2 DEF Mul
  <1>5. Mul(Mul(i, y), h) = (i * y * h) % P /\ Mul(Mul(h, i), y) = (h * i * y) % P
    BY <1>1, <1>2, MulAssociates
  <1>6. i * y * h = h * i * y
    BY <1>1, <1>2
  <1>7. Mul(1, y) = y
    <2>1. 1 * y = P * 0 + y
      BY <1>1, FieldAssumption
    <2>2. y % P = y
      BY <1>1, FieldAssumption
    <2>. QED BY <1>1, <2>2 DEF Mul
  <1>8. Mul(h, r) = y
    BY <1>2, <1>4, <1>5, <1>6, <1>7
  <1>. QED BY <1>3, <1>8

\* With blinding factors drawn from the whole field, and inputs that do not hash
\* to the neutral element, a request fits every input equally.
THEOREM Hiding ==
  ASSUME Blinds = Field, \A x \in Inputs : HashToCurve[x] # 0
  PROVE  Spec => []Oblivious
PROOF
  <1>1. TypeOK => Oblivious
    <2>. SUFFICES ASSUME TypeOK, NEW c \in Calls, NEW x \in Inputs
                  PROVE  \E r \in Blinds : Blinded(x, r) = BlindedHash(c)
      BY DEF Oblivious
    <2>1. BlindedHash(c) \in Field
      <3>1. HashToCurve[input[c]] \in Int /\ blind[c] \in Int
        BY HashAssumption, FieldAssumption DEF TypeOK, Field
      <3>. QED BY <3>1, MulInField DEF BlindedHash, Blinded
    <2>2. HashToCurve[x] \in Field /\ HashToCurve[x] # 0
      BY HashAssumption
    <2>3. PICK r \in Field : Mul(HashToCurve[x], r) = BlindedHash(c)
      BY <2>1, <2>2, AnyPoint
    <2>. QED BY <2>3 DEF Blinded
  <1>. QED BY <1>1, TypeCorrect, PTL
-----------------------------------------------------------------------------
(***************************************************************************)
(* Answers of several key ceremonies in one call.                          *)
(***************************************************************************)

\* The share behind the answer of agent b to call c.
ShareUsed(c, b) == Share(polynomial[origin[c][b]], b)

\* The agents behind the responses of a call that returned a fingerprint are a
\* group, every contributor is one of them, and each used a field element.
LEMMA ContributorGroup ==
  ASSUME TypeOK, IInv, NEW c \in Calls, phase[c] = "ok"
  PROVE  \E list \in Injection(1 .. Threshold, Agents) :
           /\ list \in Groups(Threshold) /\ Threshold \in Nat \ {0}
           /\ Contributors(c) = {list[j] : j \in 1 .. Threshold}
           /\ \A j \in 1 .. Threshold : ShareUsed(c, list[j]) \in Field
           /\ Combine(responses[c]) =
                Combine([j \in 1 .. Threshold |->
                          [agent |-> list[j], point |-> Mul(BlindedHash(c), ShareUsed(c, list[j]))]])
PROOF
  <1>. DEFINE agents == [j \in 1 .. Threshold |-> responses[c][j].agent]
              points == [j \in 1 .. Threshold |-> responses[c][j].point]
  <1>1. /\ agents \in Injection(1 .. Threshold, Agents)
        /\ Combine(responses[c]) = Combined(agents, points)
    BY FinalResponses, ResponsesSplit
  <1>2. Contributors(c) = {agents[j] : j \in 1 .. Threshold}
    BY FinalResponses DEF Contributors
  <1>3. \A j \in 1 .. Threshold :
          /\ agents[j] \in Agents
          /\ points[j] = Mul(BlindedHash(c), ShareUsed(c, agents[j]))
    BY FinalResponses DEF PartialResult, ShareUsed
  <1>. HIDE DEF agents, points
  <1>4. agents \in Groups(Threshold) /\ Threshold \in Nat \ {0}
    BY <1>1, AgentGroups, ConfigAssumption
  <1>5. \A b \in Agents : ShareUsed(c, b) \in Field
    BY PointTypes DEF TypeOK, ShareUsed
  <1>6. Combined(agents, points) =
          Combine([j \in 1 .. Threshold |->
                    [agent |-> agents[j], point |-> Mul(BlindedHash(c), ShareUsed(c, agents[j]))]])
    BY <1>3 DEF Combined
  <1>. QED BY <1>1, <1>2, <1>3, <1>4, <1>5, <1>6

\* q is the polynomial through the shares that call c used, and the result is the
\* fingerprint under its secret.
MixedPolynomial(c, q) ==
  /\ q \in Polynomial(Threshold)
  /\ \A b \in Contributors(c) : Share(q, b) = ShareUsed(c, b)
  /\ result[c] = NaiveProcess(input[c], Secret(q))

\* Every call that returns a fingerprint has such a polynomial.
LEMMA MixedResult ==
  ASSUME TypeOK, IInv, NEW c \in Calls, phase[c] = "ok"
  PROVE  \E q : MixedPolynomial(c, q)
PROOF
  <1>1. PICK list \in Injection(1 .. Threshold, Agents) :
          /\ list \in Groups(Threshold) /\ Threshold \in Nat \ {0}
          /\ Contributors(c) = {list[j] : j \in 1 .. Threshold}
          /\ \A j \in 1 .. Threshold : ShareUsed(c, list[j]) \in Field
          /\ Combine(responses[c]) =
               Combine([j \in 1 .. Threshold |->
                         [agent |-> list[j], point |-> Mul(BlindedHash(c), ShareUsed(c, list[j]))]])
    BY ContributorGroup
  <1>. DEFINE share == [j \in 1 .. Threshold |-> ShareUsed(c, list[j])]
  <1>2. share \in Terms(Threshold) /\ \A j \in 1 .. Threshold : share[j] = ShareUsed(c, list[j])
    BY <1>1 DEF Terms
  <1>3. Combine(responses[c]) =
          Combine([j \in 1 .. Threshold |-> [agent |-> list[j], point |-> Mul(BlindedHash(c), share[j])]])
    BY <1>1
  <1>. HIDE DEF share
  <1>4. PICK q \in Polynomial(Threshold) :
          /\ \A j \in 1 .. Threshold : Share(q, list[j]) = share[j]
          /\ \A point \in Field :
               Combine([j \in 1 .. Threshold |-> [agent |-> list[j], point |-> Mul(point, share[j])]])
                 = Mul(point, Secret(q))
    BY <1>1, <1>2, AnySharesCombine
  <1>5. HashToCurve[input[c]] \in Field /\ BlindedHash(c) \in Field
    <2>1. Home[c] \in Agents /\ 0 \in Generations
      BY ConfigAssumption DEF Generations
    <2>. QED BY <2>1, PointTypes
  <1>6. Combine(responses[c]) = Mul(BlindedHash(c), Secret(q))
    BY <1>3, <1>4, <1>5
  <1>7. Secret(q) \in Field
    BY <1>1, SecretIsFirst DEF Polynomial
  <1>8. /\ blind[c] \in Field /\ blind[c] # 0
        /\ result[c] = Squeeze(Mul(Combine(responses[c]), Invert(blind[c])))
    BY DEF TypeOK, IInv, ResultFromResponses
  <1>9. Mul(Combine(responses[c]), Invert(blind[c])) = Mul(HashToCurve[input[c]], Secret(q))
    BY <1>5, <1>6, <1>7, <1>8, Unblind DEF BlindedHash, Blinded
  <1>10. result[c] = NaiveProcess(input[c], Secret(q))
    BY <1>8, <1>9 DEF NaiveProcess
  <1>11. \A b \in Contributors(c) : Share(q, b) = ShareUsed(c, b)
    BY <1>1, <1>2, <1>4
  <1>. QED BY <1>10, <1>11 DEF MixedPolynomial

\* Even in the middle of a rotation a result is the fingerprint under one secret:
\* that of the polynomial through the shares used, which no key ceremony may
\* ever have drawn.
THEOREM MixedAnswers ==
  Spec => [](\A c \in Calls : phase[c] = "ok" => \E q : MixedPolynomial(c, q))
PROOF
  <1>1. TypeOK /\ IInv => \A c \in Calls : phase[c] = "ok" => \E q : MixedPolynomial(c, q)
    BY MixedResult
  <1>. QED BY <1>1, Invariant, PTL

\* Two calls with the same input whose answers used the same shares return the
\* same fingerprint: who asked, in which order the agents answered and what the
\* points were blinded with does not show, not even in the middle of a rotation.
THEOREM SharesDetermine == Spec => []SharesDetermineResult
PROOF
  <1>1. TypeOK /\ IInv => SharesDetermineResult
    <2>. SUFFICES
           ASSUME TypeOK, IInv, NEW c \in Calls, NEW d \in Calls,
                  phase[c] = "ok", phase[d] = "ok", input[c] = input[d],
                  Contributors(c) = Contributors(d),
                  \A b \in Contributors(c) : origin[c][b] = origin[d][b]
           PROVE  result[c] = result[d]
      BY DEF SharesDetermineResult
    <2>1. PICK p : MixedPolynomial(c, p)
      BY MixedResult
    <2>2. PICK q : MixedPolynomial(d, q)
      BY MixedResult
    <2>3. PICK list \in Injection(1 .. Threshold, Agents) :
            /\ list \in Groups(Threshold) /\ Threshold \in Nat \ {0}
            /\ Contributors(c) = {list[j] : j \in 1 .. Threshold}
      BY ContributorGroup
    <2>4. \A b \in Contributors(c) : Share(p, b) = Share(q, b)
      BY <2>1, <2>2 DEF MixedPolynomial, ShareUsed
    <2>5. \A j \in 1 .. Threshold : Share(p, list[j]) = Share(q, list[j])
      BY <2>3, <2>4
    <2>6. p \in Polynomial(Threshold) /\ q \in Polynomial(Threshold)
      BY <2>1, <2>2 DEF MixedPolynomial
    <2>7. p = q
      BY <2>3, <2>5, <2>6, SameShares
    <2>. QED BY <2>1, <2>2, <2>7 DEF MixedPolynomial
  <1>. QED BY <1>1, Invariant, PTL

\* Different group elements give different fingerprints of an input that does
\* not hash to the neutral element.
LEMMA SecretsDiffer ==
  ASSUME NEW x \in Inputs, HashToCurve[x] # 0, NEW k \in Field, NEW l \in Field,
         NaiveProcess(x, k) = NaiveProcess(x, l)
  PROVE  k = l
PROOF
  <1>1. Mul(HashToCurve[x], k) = Mul(HashToCurve[x], l)
    BY DEF NaiveProcess, Squeeze
  <1>. QED BY <1>1, HashAssumption, CancelFactor

\* A single share of another key ceremony among those of one always changes the
\* fingerprint: the error of a half-done rotation is silent, but never hidden
\* by the interpolation.
THEOREM DeviationShows == Spec => []OneDeviationShows
PROOF
  <1>1. TypeOK /\ IInv => OneDeviationShows
    <2>. SUFFICES
           ASSUME TypeOK, IInv, NEW c \in Calls, NEW g \in Generations,
                  phase[c] = "ok", Cardinality(Deviating(c, g)) = 1, HashToCurve[input[c]] # 0,
                  result[c] = NaiveProcess(input[c], Secret(polynomial[g]))
           PROVE  FALSE
      BY DEF OneDeviationShows
    <2>. DEFINE p == polynomial[g]
    <2>1. PICK q : MixedPolynomial(c, q)
      BY MixedResult
    <2>2. PICK list \in Injection(1 .. Threshold, Agents) :
            /\ list \in Groups(Threshold) /\ Threshold \in Nat \ {0}
            /\ Contributors(c) = {list[j] : j \in 1 .. Threshold}
      BY ContributorGroup
    <2>3. /\ p \in Polynomial(Threshold) /\ q \in Polynomial(Threshold)
          /\ Secret(p) \in Field /\ Secret(q) \in Field
      <3>1. p \in Polynomial(Threshold) /\ q \in Polynomial(Threshold)
        BY <2>1, ConfigAssumption DEF TypeOK, MixedPolynomial
      <3>. HIDE DEF p
      <3>. QED BY <2>2, <3>1, SecretIsFirst DEF Polynomial
    <2>. HIDE DEF p
    <2>4. Secret(p) = Secret(q)
      <3>1. NaiveProcess(input[c], Secret(p)) = NaiveProcess(input[c], Secret(q))
        BY <2>1 DEF MixedPolynomial, p
      <3>. QED BY <2>3, <3>1, SecretsDiffer DEF TypeOK
    <2>5. \A b \in Contributors(c) : b \in Deviating(c, g) <=> Share(q, b) # Share(p, b)
      BY <2>1 DEF Deviating, MixedPolynomial, ShareUsed, p
    <2>6. PICK b \in Contributors(c) : Deviating(c, g) = {b}
      <3>1. Deviating(c, g) \subseteq Contributors(c) /\ Contributors(c) \subseteq Agents
        BY <2>2 DEF Deviating, Injection
      <3>2. IsFiniteSet(Agents)
        BY FS_Interval, ConfigAssumption DEF Agents
      <3>3. IsFiniteSet(Deviating(c, g))
        BY <3>1, <3>2, FS_Subset
      <3>. QED BY <3>1, <3>3, FS_Singleton
    <2>7. PICK k \in 1 .. Threshold : list[k] = b
      BY <2>2
    <2>8. \A j \in 1 .. Threshold : j # k => list[j] # b
      BY <2>2, <2>7, GroupPoints DEF Points
    <2>9. \A j \in 1 .. Threshold : j # k => Share(q, list[j]) = Share(p, list[j])
      BY <2>2, <2>5, <2>6, <2>8
    <2>10. q = p
      BY ONLY <2>2, <2>3, <2>4, <2>9, OneShareMatters
    <2>. QED BY <2>5, <2>6, <2>10
  <1>. QED BY <1>1, Invariant, PTL
=============================================================================
