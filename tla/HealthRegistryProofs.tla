------------------------- MODULE HealthRegistryProofs -----------------------
(***************************************************************************)
(* The safety properties of HealthRegistry, for every capacity and every   *)
(* number of services and watchers.                                        *)
(***************************************************************************)
EXTENDS HealthRegistry, WellFoundedInduction, TLAPS

\* A set of naturals that is not empty has a least element.
LEMMA LeastElement ==
  ASSUME NEW S \in SUBSET Nat, S # {}
  PROVE  \E i \in S : \A j \in S : i <= j
PROOF
  <1>. DEFINE Less == {p \in Nat \X Nat : p[1] < p[2]}
  <1>1. IsWellFoundedOn(Less, Nat)
    BY NatLessThanWellFounded, Zenon DEF OpToRel
  <1>2. \E i \in S : \A j \in S : <<j, i>> \notin Less
    <2>. HIDE DEF Less
    <2>. QED BY <1>1, WFMin
  <1>3. \A i, j \in Nat : j < i => <<j, i>> \in Less
    OBVIOUS
  <1>. HIDE DEF Less
  <1>4. PICK i \in S : \A j \in S : <<j, i>> \notin Less
    BY <1>2
  <1>5. \A j \in S : i \in Nat /\ j \in Nat /\ ~ (j < i)
    BY <1>3, <1>4
  <1>6. \A j \in S : i <= j
    BY <1>5
  <1>. QED BY <1>4, <1>6

\* The status of a service is a status.
LEMMA StatusType == \A i : Status(i) \in Statuses
  BY DEF Status, Statuses

\* Find returns a registered service of the name, or 0.
LEMMA FindFinds ==
  ASSUME TypeOK, NEW n
  PROVE  Find(n) = 0 \/ (Find(n) \in Named(n) /\ Find(n) \in 1 .. MaxServices)
PROOF
  <1>. SUFFICES ASSUME Named(n) # {}
                PROVE  Find(n) \in Named(n) /\ Find(n) \in 1 .. MaxServices
    BY DEF Find
  <1>1. Named(n) \subseteq 1 .. Len(services) /\ Len(services) \in Nat
    BY DEF Named, Registered, TypeOK
  <1>2. \E i \in Named(n) : \A j \in Named(n) : i <= j
    BY <1>1, LeastElement
  <1>3. Find(n) \in Named(n)
    BY <1>2 DEF Find
  <1>. QED BY <1>1, <1>3, HealthAssumption DEF TypeOK
-----------------------------------------------------------------------------
(***************************************************************************)
(* Typing.                                                                 *)
(***************************************************************************)

\* The typing holds at first.
LEMMA InitTyped == Init => TypeOK
PROOF
  <1>. SUFFICES ASSUME Init PROVE TypeOK
    OBVIOUS
  <1>1. <<>> \in Seq(Names) /\ <<>> \in Seq(Statuses) /\ Len(<<>>) = 0
    OBVIOUS
  <1>2. channel \in [Watchers -> Seq(Statuses)]
    BY <1>1 DEF Init
  <1>3. \A w \in Watchers : Len(channel[w]) <= Capacity
    BY <1>1, HealthAssumption DEF Init
  <1>4. \A w \in Watchers :
          /\ pending[w] = "nothing" <=> task[w] # "sending"
          /\ task[w] = "none" <=> stream[w] \in {"idle", "not_found"}
    BY DEF Init
  <1>5. since \in [Watchers -> 0 .. Capacity + 2] /\ due \in [Watchers -> 0 .. MaxDue]
    BY HealthAssumption DEF Init
  <1>6. services \in Seq(Names) /\ Len(services) <= MaxServices
    BY <1>1, HealthAssumption DEF Init
  <1>7. target \in [Watchers -> 0 .. MaxServices]
    BY HealthAssumption DEF Init
  <1>. QED BY <1>2, <1>3, <1>4, <1>5, <1>6, <1>7 DEF Init, TypeOK

\* Every step keeps the typing.
LEMMA StepTyped == TypeOK /\ [Next]_vars => TypeOK'
PROOF
  <1>. SUFFICES ASSUME TypeOK, [Next]_vars
                PROVE  TypeOK'
    OBVIOUS
  <1>. USE HealthAssumption
  <1>1. ASSUME NEW n \in Names, Register(n) PROVE TypeOK'
    BY <1>1 DEF TypeOK, Register
  <1>2. ASSUME Serve PROVE TypeOK'
    BY <1>2 DEF TypeOK, Serve
  <1>3. ASSUME NEW i \in 1 .. MaxServices, Change(i) PROVE TypeOK'
    <2>1. since' \in [Watchers -> 0 .. Capacity + 2]
      BY <1>3 DEF TypeOK, Change
    <2>. QED BY <1>3, <2>1 DEF TypeOK, Change
  <1>4. ASSUME NEW w \in Watchers, Watch(w) PROVE TypeOK'
    <2>1. Find(asked[w]) \in 0 .. MaxServices
      BY FindFinds
    <2>2. CASE Find(asked[w]) = 0
      BY <1>4, <2>1, <2>2 DEF TypeOK, Watch
    <2>3. CASE Find(asked[w]) # 0
      <3>1. /\ stream' = [stream EXCEPT ![w] = "open"]
            /\ task' = [task EXCEPT ![w] = "waiting"]
            /\ due' = [due EXCEPT ![w] = 1]
            /\ target' = [target EXCEPT ![w] = Find(asked[w])]
            /\ UNCHANGED <<services, running, asked, serving, pending, channel, seen, since>>
        BY <1>4, <2>3 DEF Watch
      <3>2. task[w] # "sending"
        BY <1>4 DEF TypeOK, Watch
      <3>3. /\ stream' \in [Watchers -> {"idle", "open", "not_found", "left"}]
            /\ task' \in [Watchers -> {"none", "waiting", "sending", "ended"}]
            /\ due' \in [Watchers -> 0 .. MaxDue]
            /\ target' \in [Watchers -> 0 .. MaxServices]
        BY <2>1, <3>1 DEF TypeOK
      <3>4. \A x \in Watchers :
              /\ pending'[x] = "nothing" <=> task'[x] # "sending"
              /\ task'[x] = "none" <=> stream'[x] \in {"idle", "not_found"}
        BY <3>1, <3>2 DEF TypeOK
      <3>. QED BY <3>1, <3>3, <3>4 DEF TypeOK
    <2>. QED BY <2>2, <2>3
  <1>5. ASSUME NEW w \in Watchers, Tick(w) PROVE TypeOK'
    <2>1. due' \in [Watchers -> 0 .. MaxDue]
      BY <1>5 DEF TypeOK, Tick
    <2>2. UNCHANGED <<services, running, asked, serving, stream, target, task, pending, channel, seen, since>>
      BY <1>5 DEF Tick
    <2>. QED BY <2>1, <2>2 DEF TypeOK
  <1>6. ASSUME NEW w \in Watchers, Sample(w) PROVE TypeOK'
    <2>1. Status(target[w]) \in Statuses /\ Status(target[w]) # "nothing"
      BY StatusType DEF Statuses
    <2>2. /\ due' = [due EXCEPT ![w] = due[w] - 1] /\ due[w] > 0
          /\ pending' = [pending EXCEPT ![w] = Status(target[w])]
          /\ task' = [task EXCEPT ![w] = "sending"] /\ task[w] = "waiting"
          /\ UNCHANGED <<services, running, asked, serving, stream, target, channel, seen, since>>
      BY <1>6 DEF Sample
    <2>3. due' \in [Watchers -> 0 .. MaxDue]
      BY <2>2 DEF TypeOK
    <2>4. /\ pending' \in [Watchers -> Statuses \cup {"nothing"}]
          /\ task' \in [Watchers -> {"none", "waiting", "sending", "ended"}]
      BY <2>1, <2>2 DEF TypeOK
    <2>5. \A x \in Watchers :
            /\ pending'[x] = "nothing" <=> task'[x] # "sending"
            /\ task'[x] = "none" <=> stream'[x] \in {"idle", "not_found"}
      BY <2>1, <2>2 DEF TypeOK
    <2>. QED BY <2>2, <2>3, <2>4, <2>5 DEF TypeOK
  <1>7. ASSUME NEW w \in Watchers, Send(w) PROVE TypeOK'
    <2>1. /\ Append(channel[w], pending[w]) \in Seq(Statuses)
          /\ Len(Append(channel[w], pending[w])) = Len(channel[w]) + 1
      BY <1>7 DEF TypeOK, Send
    <2>2. Len(channel[w]) \in Nat
      BY DEF TypeOK
    <2>. QED BY <1>7, <2>1, <2>2 DEF TypeOK, Send
  <1>8. ASSUME NEW w \in Watchers, SendFails(w) PROVE TypeOK'
    BY <1>8 DEF TypeOK, SendFails
  <1>9. ASSUME NEW w \in Watchers, Receive(w) PROVE TypeOK'
    <2>1. /\ Head(channel[w]) \in Statuses
          /\ Tail(channel[w]) \in Seq(Statuses)
          /\ Len(Tail(channel[w])) <= Capacity
      BY <1>9 DEF TypeOK, Receive
    <2>2. since' \in [Watchers -> 0 .. Capacity + 2]
      BY <1>9 DEF TypeOK, Receive
    <2>. QED BY <1>9, <2>1, <2>2 DEF TypeOK, Receive
  <1>10. ASSUME NEW w \in Watchers, Leave(w) PROVE TypeOK'
    BY <1>10 DEF TypeOK, Leave
  <1>11. CASE UNCHANGED vars
    BY <1>11 DEF TypeOK, vars
  <1>. QED
    BY <1>1, <1>2, <1>3, <1>4, <1>5, <1>6, <1>7, <1>8, <1>9, <1>10, <1>11 DEF Next, Loop

\* Every state of the registry and its watchers is well typed; no channel ever
\* holds more than its capacity.
THEOREM TypeCorrect == Spec => []TypeOK
  BY InitTyped, StepTyped, PTL DEF Spec
-----------------------------------------------------------------------------
(***************************************************************************)
(* The lag of a watcher.                                                   *)
(***************************************************************************)

WatcherInv(w) == Attached(w) /\ OldStatusesLeave(w)

\* The elements of what is on its way.
LEMMA OnTheWayElements ==
  ASSUME TypeOK, NEW w \in Watchers
  PROVE  /\ Len(channel[w]) \in Nat
         /\ task[w] = "sending" =>
              /\ Len(OnTheWay(w)) = Len(channel[w]) + 1
              /\ OnTheWay(w)[Len(channel[w]) + 1] = pending[w]
         /\ task[w] # "sending" => OnTheWay(w) = channel[w]
         /\ \A k \in 1 .. Len(channel[w]) : OnTheWay(w)[k] = channel[w][k]
  BY DEF TypeOK, OnTheWay

\* A step that leaves alone what belongs to a watcher keeps its invariant.
LEMMA Unaffected ==
  ASSUME NEW w \in Watchers, TypeOK, WatcherInv(w),
         UNCHANGED <<running, asked, stream[w], target[w], task[w], pending[w],
                     channel[w], seen[w], since[w]>>,
         target[w] # 0 => UNCHANGED <<services, serving[target[w]]>>
  PROVE  WatcherInv(w)'
PROOF
  <1>1. Attached(w)'
    BY DEF WatcherInv, Attached, Named, Registered
  <1>2. OnTheWay(w)' = OnTheWay(w) /\ (target[w] # 0 => Status(target[w])' = Status(target[w]))
    BY DEF OnTheWay, Status
  <1>3. OldStatusesLeave(w)'
    BY <1>2 DEF WatcherInv, OldStatusesLeave
  <1>. QED BY <1>1, <1>3 DEF WatcherInv

\* The services of a running registry are what they are.
LEMMA ChangeKeeps ==
  ASSUME NEW w \in Watchers, TypeOK, WatcherInv(w), NEW i \in 1 .. MaxServices, Change(i)
  PROVE  WatcherInv(w)'
PROOF
  <1>1. CASE target[w] = i
    <2>1. since'[w] = 0 /\ OnTheWay(w)' = OnTheWay(w) /\ target'[w] = target[w]
      BY <1>1 DEF Change, OnTheWay, TypeOK
    <2>2. Attached(w)'
      BY <1>1, <2>1 DEF WatcherInv, Attached, Change, Named, Registered
    <2>3. OldStatusesLeave(w)'
      BY <2>1, HealthAssumption DEF WatcherInv, OldStatusesLeave
    <2>. QED BY <2>2, <2>3 DEF WatcherInv
  <1>2. CASE target[w] # i
    <2>1. target[w] # 0 => target[w] \in 1 .. MaxServices
      BY DEF TypeOK
    <2>. QED BY <1>2, <2>1, Unaffected DEF Change, TypeOK
  <1>. QED BY <1>1, <1>2

\* A new watch starts with an empty channel and a fresh count.
LEMMA WatchKeeps ==
  ASSUME NEW w \in Watchers, TypeOK, WatcherInv(w), Watch(w)
  PROVE  WatcherInv(w)'
PROOF
  <1>1. since'[w] = 0 /\ channel'[w] = <<>> /\ seen'[w] = seen[w] /\ running'
    BY DEF WatcherInv, Attached, Watch
  <1>2. target'[w] = Find(asked[w]) /\ asked'[w] = asked[w]
    BY DEF Watch, TypeOK
  <1>3. Find(asked[w]) = 0 \/ Find(asked[w]) \in Named(asked[w])
    BY FindFinds
  <1>4. Named(asked[w])' = Named(asked[w])
    BY DEF Watch, Named, Registered
  <1>5. CASE Find(asked[w]) = 0
    <2>1. stream'[w] = "not_found" /\ task'[w] = task[w] /\ target'[w] = 0
      BY <1>2, <1>5 DEF Watch, TypeOK
    <2>. QED BY <1>1, <1>2, <1>5, <2>1, HealthAssumption
         DEF WatcherInv, Attached, OldStatusesLeave, TypeOK, Watch
  <1>6. CASE Find(asked[w]) # 0
    <2>1. stream'[w] = "open" /\ task'[w] = "waiting"
      BY <1>6 DEF Watch, TypeOK
    <2>2. Attached(w)'
      BY <1>1, <1>2, <1>3, <1>4, <1>6, <2>1 DEF Attached
    <2>3. OnTheWay(w)' = <<>>
      BY <1>1, <2>1 DEF OnTheWay
    <2>4. OldStatusesLeave(w)'
      BY <1>1, <2>3, HealthAssumption DEF OldStatusesLeave
    <2>. QED BY <2>2, <2>4 DEF WatcherInv
  <1>. QED BY <1>5, <1>6

\* A sample adds the current status at the end of what is on its way.
LEMMA SampleKeeps ==
  ASSUME NEW w \in Watchers, TypeOK, WatcherInv(w), Sample(w)
  PROVE  WatcherInv(w)'
PROOF
  <1>1. Attached(w)'
    BY DEF WatcherInv, Attached, Sample, TypeOK, Named, Registered
  <1>2. OnTheWay(w)' = Append(channel[w], Status(target[w])) /\ OnTheWay(w) = channel[w]
    BY DEF Sample, TypeOK, OnTheWay
  <1>3. Status(target[w])' = Status(target[w]) /\ since' = since /\ seen' = seen /\ target' = target
    BY DEF Sample, Status
  <1>4. channel[w] \in Seq(Statuses) /\ Len(channel[w]) <= Capacity /\ since[w] \in Nat
    BY DEF TypeOK
  <1>5. OldStatusesLeave(w)'
    <2>. SUFFICES ASSUME target[w] # 0
                  PROVE  OldStatusesLeave(w)'
      BY <1>3 DEF OldStatusesLeave
    <2>. DEFINE q == Append(channel[w], Status(target[w]))
    <2>1. /\ Len(q) = Len(channel[w]) + 1
          /\ q[Len(channel[w]) + 1] = Status(target[w])
          /\ \A k \in 1 .. Len(channel[w]) : q[k] = channel[w][k]
      BY <1>4
    <2>2. \A k \in 1 .. Len(q) : since[w] + k > Capacity + 1 => q[k] = Status(target[w])
      BY <1>2, <1>4, <2>1 DEF WatcherInv, OldStatusesLeave
    <2>. HIDE DEF q
    <2>. QED BY <1>2, <1>3, <1>4, <2>1, <2>2, HealthAssumption
         DEF WatcherInv, OldStatusesLeave, q
  <1>. QED BY <1>1, <1>5 DEF WatcherInv

\* A send moves a status into the channel and changes nothing on the way.
LEMMA SendKeeps ==
  ASSUME NEW w \in Watchers, TypeOK, WatcherInv(w), Send(w)
  PROVE  WatcherInv(w)'
PROOF
  <1>1. Attached(w)'
    BY DEF WatcherInv, Attached, Send, TypeOK, Named, Registered
  <1>2. OnTheWay(w)' = OnTheWay(w)
    BY DEF Send, TypeOK, OnTheWay
  <1>3. Status(target[w])' = Status(target[w]) /\ UNCHANGED <<since, seen, target>>
    BY DEF Send, Status
  <1>4. OldStatusesLeave(w)'
    BY <1>2, <1>3 DEF WatcherInv, OldStatusesLeave
  <1>. QED BY <1>1, <1>4 DEF WatcherInv

\* A send that fails loses the last status on the way.
LEMMA SendFailsKeeps ==
  ASSUME NEW w \in Watchers, TypeOK, WatcherInv(w), SendFails(w)
  PROVE  WatcherInv(w)'
PROOF
  <1>1. Attached(w)'
    BY DEF WatcherInv, Attached, SendFails, TypeOK, Named, Registered
  <1>2. OnTheWay(w)' = channel[w] /\ task[w] = "sending"
    BY DEF SendFails, TypeOK, OnTheWay
  <1>3. Status(target[w])' = Status(target[w]) /\ UNCHANGED <<since, seen, target>>
    BY DEF SendFails, Status
  <1>4. OldStatusesLeave(w)'
    BY <1>2, <1>3, OnTheWayElements, HealthAssumption DEF WatcherInv, OldStatusesLeave
  <1>. QED BY <1>1, <1>4 DEF WatcherInv

\* What remains is one message nearer to the client, which has received one more.
LEMMA ReceiveKeeps ==
  ASSUME NEW w \in Watchers, TypeOK, WatcherInv(w), Receive(w)
  PROVE  WatcherInv(w)'
PROOF
  <1>1. Attached(w)'
    BY DEF WatcherInv, Attached, Receive, TypeOK, Named, Registered
  <1>2. /\ channel[w] \in Seq(Statuses) /\ channel[w] # <<>>
        /\ channel'[w] = Tail(channel[w])
        /\ seen'[w] = channel[w][1]
        /\ since[w] \in 0 .. Capacity + 2
        /\ since'[w] = IF since[w] < Capacity + 2 THEN since[w] + 1 ELSE since[w]
    BY DEF Receive, TypeOK
  <1>3. Status(target[w])' = Status(target[w]) /\ UNCHANGED <<task, pending, target>>
    BY DEF Receive, Status
  <1>4. /\ Len(OnTheWay(w)) \in Nat /\ Len(OnTheWay(w)) > 0
        /\ OnTheWay(w)[1] = channel[w][1]
        /\ Len(OnTheWay(w)') = Len(OnTheWay(w)) - 1
        /\ \A k \in 1 .. Len(OnTheWay(w)') : OnTheWay(w)'[k] = OnTheWay(w)[k + 1]
    <2>1. CASE task[w] = "sending"
      <3>1. OnTheWay(w) = Append(channel[w], pending[w])
        BY <2>1 DEF OnTheWay
      <3>2. OnTheWay(w)' = Append(Tail(channel[w]), pending[w])
        BY <1>2, <1>3, <2>1 DEF OnTheWay
      <3>. QED BY <1>2, <3>1, <3>2
    <2>2. CASE task[w] # "sending"
      <3>1. OnTheWay(w) = channel[w] /\ OnTheWay(w)' = Tail(channel[w])
        BY <1>2, <1>3, <2>2 DEF OnTheWay
      <3>. QED BY <1>2, <3>1
    <2>. QED BY <2>1, <2>2
  <1>5. OldStatusesLeave(w)'
    <2>. SUFFICES ASSUME target[w] # 0
                  PROVE  OldStatusesLeave(w)'
      BY <1>3 DEF OldStatusesLeave
    <2>. DEFINE q == OnTheWay(w)
                r == OnTheWay(w)'
                s == Status(target[w])
    <2>1. /\ Len(q) <= Capacity + 1
          /\ \A k \in 1 .. Len(q) : since[w] + k > Capacity + 1 => q[k] = s
          /\ since[w] > Capacity + 1 => seen[w] = s
      BY DEF WatcherInv, OldStatusesLeave
    <2>2. /\ Len(q) \in Nat /\ Len(q) > 0 /\ Len(r) = Len(q) - 1 /\ seen'[w] = q[1]
          /\ \A k \in 1 .. Len(r) : r[k] = q[k + 1]
      BY <1>2, <1>4
    <2>. HIDE DEF q, r, s
    <2>3. \A k \in 1 .. Len(r) : since'[w] + k > Capacity + 1 => r[k] = s
      BY <1>2, <2>1, <2>2, HealthAssumption
    <2>4. since'[w] > Capacity + 1 => seen'[w] = s
      BY <1>2, <2>1, <2>2, HealthAssumption
    <2>5. Len(r) <= Capacity + 1
      BY <2>1, <2>2, HealthAssumption
    <2>. QED BY <1>3, <2>3, <2>4, <2>5 DEF OldStatusesLeave, r, s
  <1>. QED BY <1>1, <1>5 DEF WatcherInv

\* A client that leaves loses what is in its channel.
LEMMA LeaveKeeps ==
  ASSUME NEW w \in Watchers, TypeOK, WatcherInv(w), Leave(w)
  PROVE  WatcherInv(w)'
PROOF
  <1>1. Attached(w)'
    BY DEF WatcherInv, Attached, Leave, TypeOK, Named, Registered
  <1>2. Status(target[w])' = Status(target[w]) /\ UNCHANGED <<task, pending, target, since, seen>>
    BY DEF Leave, Status
  <1>3. channel'[w] = <<>> /\ since[w] \in Nat /\ Len(channel[w]) \in Nat
    BY DEF Leave, TypeOK
  <1>4. CASE task[w] = "sending"
    <2>1. OnTheWay(w)' = <<pending[w]>>
      BY <1>2, <1>3, <1>4 DEF OnTheWay
    <2>2. target[w] # 0 /\ since[w] + 1 > Capacity + 1 => pending[w] = Status(target[w])
      BY <1>3, <1>4, OnTheWayElements, HealthAssumption DEF WatcherInv, OldStatusesLeave
    <2>3. OldStatusesLeave(w)'
      BY <1>2, <1>3, <2>1, <2>2, HealthAssumption DEF WatcherInv, OldStatusesLeave
    <2>. QED BY <1>1, <2>3 DEF WatcherInv
  <1>5. CASE task[w] # "sending"
    <2>1. OnTheWay(w)' = <<>>
      BY <1>2, <1>3, <1>5 DEF OnTheWay
    <2>2. OldStatusesLeave(w)'
      BY <1>2, <2>1, HealthAssumption DEF WatcherInv, OldStatusesLeave
    <2>. QED BY <1>1, <2>2 DEF WatcherInv
  <1>. QED BY <1>4, <1>5

\* The inductive invariant holds at first.
LEMMA InitInv == Init => IInv
PROOF
  <1>. SUFFICES ASSUME Init, NEW w \in Watchers PROVE Attached(w) /\ OldStatusesLeave(w)
    BY InitTyped DEF IInv
  <1>. QED BY DEF Init, Attached, OldStatusesLeave

\* Every step keeps the inductive invariant.
LEMMA StepInv == IInv /\ [Next]_vars => IInv'
PROOF
  <1>. SUFFICES ASSUME IInv, [Next]_vars, NEW v \in Watchers PROVE WatcherInv(v)'
    BY StepTyped DEF IInv, WatcherInv
  <1>0. TypeOK /\ TypeOK' /\ WatcherInv(v)
    BY StepTyped DEF IInv, WatcherInv
  <1>. USE <1>0
  <1>1. ASSUME NEW n \in Names, Register(n) PROVE WatcherInv(v)'
    <2>1. target[v] = 0
      BY <1>1 DEF Register, WatcherInv, Attached
    <2>. QED BY <1>1, <2>1, Unaffected DEF Register
  <1>2. ASSUME Serve PROVE WatcherInv(v)'
    <2>1. target[v] = 0
      BY <1>2 DEF Serve, WatcherInv, Attached
    <2>. QED BY <1>2, <2>1 DEF Serve, WatcherInv, Attached, OldStatusesLeave
  <1>3. ASSUME NEW i \in 1 .. MaxServices, Change(i) PROVE WatcherInv(v)'
    BY <1>3, ChangeKeeps
  <1>4. ASSUME NEW w \in Watchers, Watch(w) PROVE WatcherInv(v)'
    <2>1. CASE w = v
      BY <1>4, <2>1, WatchKeeps
    <2>2. CASE w # v
      <3>1. UNCHANGED <<target[v], stream[v], task[v]>>
        BY <1>4, <2>2 DEF Watch, TypeOK
      <3>. QED BY <1>4, <3>1, Unaffected DEF Watch
    <2>. QED BY <2>1, <2>2
  <1>5. ASSUME NEW w \in Watchers, Tick(w) PROVE WatcherInv(v)'
    BY <1>5, Unaffected DEF Tick
  <1>6. ASSUME NEW w \in Watchers, Sample(w) PROVE WatcherInv(v)'
    <2>1. CASE w = v
      BY <1>6, <2>1, SampleKeeps
    <2>2. CASE w # v
      <3>1. UNCHANGED <<running, asked, services, serving, stream[v], target[v], task[v],
                        pending[v], channel[v], seen[v], since[v]>>
        BY <1>6, <2>2 DEF Sample, TypeOK
      <3>. QED BY <3>1, Unaffected
    <2>. QED BY <2>1, <2>2
  <1>7. ASSUME NEW w \in Watchers, Send(w) PROVE WatcherInv(v)'
    <2>1. CASE w = v
      BY <1>7, <2>1, SendKeeps
    <2>2. CASE w # v
      <3>1. UNCHANGED <<running, asked, services, serving, stream[v], target[v], task[v],
                        pending[v], channel[v], seen[v], since[v]>>
        BY <1>7, <2>2 DEF Send, TypeOK
      <3>. QED BY <3>1, Unaffected
    <2>. QED BY <2>1, <2>2
  <1>8. ASSUME NEW w \in Watchers, SendFails(w) PROVE WatcherInv(v)'
    <2>1. CASE w = v
      BY <1>8, <2>1, SendFailsKeeps
    <2>2. CASE w # v
      <3>1. UNCHANGED <<running, asked, services, serving, stream[v], target[v], task[v],
                        pending[v], channel[v], seen[v], since[v]>>
        BY <1>8, <2>2 DEF SendFails, TypeOK
      <3>. QED BY <3>1, Unaffected
    <2>. QED BY <2>1, <2>2
  <1>9. ASSUME NEW w \in Watchers, Receive(w) PROVE WatcherInv(v)'
    <2>1. CASE w = v
      BY <1>9, <2>1, ReceiveKeeps
    <2>2. CASE w # v
      <3>1. UNCHANGED <<running, asked, services, serving, stream[v], target[v], task[v],
                        pending[v], channel[v], seen[v], since[v]>>
        BY <1>9, <2>2 DEF Receive, TypeOK
      <3>. QED BY <3>1, Unaffected
    <2>. QED BY <2>1, <2>2
  <1>10. ASSUME NEW w \in Watchers, Leave(w) PROVE WatcherInv(v)'
    <2>1. CASE w = v
      BY <1>10, <2>1, LeaveKeeps
    <2>2. CASE w # v
      <3>1. UNCHANGED <<running, asked, services, serving, stream[v], target[v], task[v],
                        pending[v], channel[v], seen[v], since[v]>>
        BY <1>10, <2>2 DEF Leave, TypeOK
      <3>. QED BY <3>1, Unaffected
    <2>. QED BY <2>1, <2>2
  <1>11. CASE UNCHANGED vars
    BY <1>11, Unaffected DEF vars
  <1>. QED
    BY <1>1, <1>2, <1>3, <1>4, <1>5, <1>6, <1>7, <1>8, <1>9, <1>10, <1>11 DEF Next, Loop

\* The inductive invariant: however the ticks burst, the messages that date from
\* before the last change are among the next Capacity + 1.
THEOREM Invariant == Spec => []IInv
  BY InitInv, StepInv, PTL DEF Spec

\* The status a client got last is what Check answers, once Capacity + 2 messages
\* have come since the last change.
THEOREM Lag == Spec => []LagBounded
PROOF
  <1>1. IInv => LagBounded
    <2>. SUFFICES ASSUME IInv, NEW w \in Watchers, since[w] > Capacity + 1,
                         \A i, j \in Named(asked[w]) : i = j
                  PROVE  seen[w] = Check(asked[w])
      BY DEF LagBounded
    <2>1. target[w] # 0
      BY HealthAssumption DEF IInv, Attached
    <2>2. seen[w] = Status(target[w]) /\ target[w] \in Named(asked[w])
      BY <2>1 DEF IInv, Attached, OldStatusesLeave
    <2>3. Named(asked[w]) = {target[w]} /\ target[w] \in Nat
      BY <2>2 DEF Named, Registered
    <2>4. Check(asked[w]) = Status(target[w])
      BY <2>3 DEF Check
    <2>. QED BY <2>2, <2>4
  <1>. QED BY <1>1, Invariant, PTL

\* Every step keeps the promise of a first status.
LEMMA StepFirstStatus ==
  TypeOK /\ TypeOK' /\ FirstStatusAtOnce /\ [Next]_vars => FirstStatusAtOnce'
PROOF
  <1>. SUFFICES ASSUME TypeOK, TypeOK', FirstStatusAtOnce, [Next]_vars, NEW v \in Watchers,
                       stream'[v] = "open", task'[v] = "waiting", due'[v] = 0
                PROVE  channel'[v] # <<>> \/ seen'[v] # "nothing"
    BY DEF FirstStatusAtOnce, OnTheWay
  <1>1. CASE UNCHANGED <<stream[v], task[v], due[v], channel[v], seen[v]>>
    BY <1>1 DEF FirstStatusAtOnce, OnTheWay
  <1>2. CASE Watch(v)
    BY <1>2 DEF Watch, TypeOK
  <1>3. CASE Tick(v)
    BY <1>3 DEF Tick, TypeOK
  <1>4. CASE Sample(v)
    BY <1>4 DEF Sample, TypeOK
  <1>5. CASE Send(v)
    <2>1. channel'[v] = Append(channel[v], pending[v]) /\ channel[v] \in Seq(Statuses)
      BY <1>5 DEF Send, TypeOK
    <2>. QED BY <2>1
  <1>6. CASE SendFails(v)
    BY <1>6 DEF SendFails, TypeOK
  <1>7. CASE Receive(v)
    BY <1>7 DEF Receive, TypeOK, Statuses
  <1>8. CASE Leave(v)
    BY <1>8 DEF Leave, TypeOK
  <1>9. \/ UNCHANGED <<stream[v], task[v], due[v], channel[v], seen[v]>>
        \/ Watch(v) \/ Tick(v) \/ Sample(v) \/ Send(v) \/ SendFails(v) \/ Receive(v) \/ Leave(v)
    <2>1. CASE \/ \E n \in Names : Register(n)
               \/ Serve
               \/ \E i \in 1 .. MaxServices : Change(i)
               \/ UNCHANGED vars
      BY <2>1 DEF Register, Serve, Change, vars
    <2>2. ASSUME NEW w \in Watchers, w # v,
                 Watch(w) \/ Tick(w) \/ Sample(w) \/ Send(w) \/ SendFails(w)
                   \/ Receive(w) \/ Leave(w)
          PROVE  UNCHANGED <<stream[v], task[v], due[v], channel[v], seen[v]>>
      <3>1. CASE Watch(w)
        BY <2>2, <3>1 DEF Watch, TypeOK
      <3>2. CASE Tick(w) \/ Sample(w)
        BY <2>2, <3>2 DEF Tick, Sample, TypeOK
      <3>3. CASE Send(w) \/ SendFails(w)
        BY <2>2, <3>3 DEF Send, SendFails, TypeOK
      <3>4. CASE Receive(w) \/ Leave(w)
        BY <2>2, <3>4 DEF Receive, Leave, TypeOK
      <3>. QED BY <2>2, <3>1, <3>2, <3>3, <3>4
    <2>. QED BY <2>1, <2>2 DEF Next, Loop
  <1>. QED BY <1>1, <1>2, <1>3, <1>4, <1>5, <1>6, <1>7, <1>8, <1>9

\* No watch begins with an interval of silence.
THEOREM FirstStatus == Spec => []FirstStatusAtOnce
PROOF
  <1>1. Init => FirstStatusAtOnce
    BY DEF Init, FirstStatusAtOnce
  <1>. QED BY <1>1, TypeCorrect, StepFirstStatus, PTL DEF Spec
=============================================================================
