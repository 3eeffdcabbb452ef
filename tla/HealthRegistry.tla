---------------------------- MODULE HealthRegistry --------------------------
(***************************************************************************)
(* The health service of the management servers: a registry of services,   *)
(* the unary Check, and Watch, whose spawned task samples the status of a  *)
(* service once per interval and sends it through a bounded channel to the *)
(* response stream.                                                        *)
(*                                                                         *)
(* Time passes for each task by Tick.  The interval bursts: a tick that    *)
(* falls due while the task waits for room in the channel is not lost but  *)
(* completes at once when the task asks for it.  The status of a service   *)
(* is changed by its owner at any time.                                    *)
(***************************************************************************)
EXTENDS Integers, Sequences

CONSTANTS
  Names,        \* the names of services
  MaxServices,  \* bound on the number of services registered
  Watchers,     \* the calls of Watch
  Readers,      \* the watchers whose client reads on until it leaves
  Capacity,     \* the capacity of the channel: 16 in the code
  MaxDue        \* bound on the ticks that are due at once

ASSUME HealthAssumption ==
  /\ MaxServices \in Nat
  /\ Readers \subseteq Watchers
  /\ Capacity \in Nat \ {0}
  /\ MaxDue \in Nat \ {0}

Statuses == {"SERVING", "NOT_SERVING"}

VARIABLES
  services,  \* HealthRegistry::services: the name of each
  running,   \* the registry has been handed to its server
  asked,     \* the name each call of Watch asks for
  serving,   \* what is_serving of each service would return
  stream,    \* the client's side: "idle" | "open" | "not_found" | "left"
  target,    \* the service a watcher follows, 0 if none
  task,      \* "none" | "waiting" | "sending" | "ended"
  due,       \* the ticks of the interval that are due and not yet taken
  pending,   \* the status the task is sending, or "nothing"
  channel,   \* the statuses in the channel
  seen,      \* the last status the client received, or "nothing"
  since      \* history: messages received since the status last changed

vars == <<services, running, asked, serving, stream, target, task, due, pending,
          channel, seen, since>>

Registered == 1 .. Len(services)

\* The services of a name, by their place in the registry.
Named(n) == {i \in Registered : services[i] = n}

Status(i) == IF serving[i] THEN "SERVING" ELSE "NOT_SERVING"

\* Check answers with the last service of the name.
Check(n) ==
  IF Named(n) = {} THEN "not_found"
  ELSE Status(CHOOSE i \in Named(n) : \A j \in Named(n) : j <= i)

\* A bug this model must notice: the first service is watched, whatever its name.
FindAny(n) == IF Named(n) = {} THEN 0 ELSE 1

\* Watch follows the first service of the name; 0 is not found.
Find(n) ==
  IF Named(n) = {} THEN 0
  ELSE CHOOSE i \in Named(n) : \A j \in Named(n) : i <= j

Init ==
  /\ services = <<>>
  /\ running = FALSE
  /\ asked \in [Watchers -> Names]
  /\ serving \in [1 .. MaxServices -> BOOLEAN]
  /\ stream = [w \in Watchers |-> "idle"]
  /\ target = [w \in Watchers |-> 0]
  /\ task = [w \in Watchers |-> "none"]
  /\ due = [w \in Watchers |-> 0]
  /\ pending = [w \in Watchers |-> "nothing"]
  /\ channel = [w \in Watchers |-> <<>>]
  /\ seen = [w \in Watchers |-> "nothing"]
  /\ since = [w \in Watchers |-> 0]
-----------------------------------------------------------------------------
(***************************************************************************)
(* The registry and its services.                                          *)
(***************************************************************************)

\* register takes the registry by &mut: only before it serves.
Register(n) ==
  /\ ~ running /\ Len(services) < MaxServices
  /\ services' = Append(services, n)
  /\ UNCHANGED <<running, asked, serving, stream, target, task, due, pending, channel, seen, since>>

\* HealthServer::new takes the registry over.
Serve ==
  /\ ~ running
  /\ running' = TRUE
  /\ UNCHANGED <<services, asked, serving, stream, target, task, due, pending, channel, seen, since>>

\* The owner of service i changes its status.
Change(i) ==
  /\ i \in Registered
  /\ serving' = [serving EXCEPT ![i] = ~ @]
  /\ since' = [w \in Watchers |-> IF target[w] = i THEN 0 ELSE since[w]]
  /\ UNCHANGED <<services, running, asked, stream, target, task, due, pending, channel, seen>>
-----------------------------------------------------------------------------
(***************************************************************************)
(* Watch and its task.                                                     *)
(***************************************************************************)

\* A bug this model must notice: the first tick comes after a whole interval.
WatchDelayed(w) ==
  /\ running /\ stream[w] = "idle"
  /\ target' = [target EXCEPT ![w] = Find(asked[w])]
  /\ IF Find(asked[w]) = 0
     THEN /\ stream' = [stream EXCEPT ![w] = "not_found"]
          /\ UNCHANGED <<task, due>>
     ELSE /\ stream' = [stream EXCEPT ![w] = "open"]
          /\ task' = [task EXCEPT ![w] = "waiting"]
          /\ UNCHANGED due
  /\ UNCHANGED <<services, running, asked, serving, pending, channel, seen, since>>

\* Watch answers NOT_FOUND, or spawns the task; its first tick is due at once.
Watch(w) ==
  /\ running /\ stream[w] = "idle"
  /\ target' = [target EXCEPT ![w] = Find(asked[w])]
  /\ IF Find(asked[w]) = 0
     THEN /\ stream' = [stream EXCEPT ![w] = "not_found"]
          /\ UNCHANGED <<task, due>>
     ELSE /\ stream' = [stream EXCEPT ![w] = "open"]
          /\ task' = [task EXCEPT ![w] = "waiting"]
          /\ due' = [due EXCEPT ![w] = 1]
  /\ UNCHANGED <<services, running, asked, serving, pending, channel, seen, since>>

\* An interval of ten seconds has passed.
Tick(w) ==
  /\ task[w] \in {"waiting", "sending"}
  /\ due[w] < MaxDue
  /\ due' = [due EXCEPT ![w] = @ + 1]
  /\ UNCHANGED <<services, running, asked, serving, stream, target, task, pending, channel, seen, since>>

\* A bug this model must notice: the status sent last is sent again.
SampleCached(w) ==
  /\ task[w] = "waiting" /\ due[w] > 0
  /\ due' = [due EXCEPT ![w] = @ - 1]
  /\ pending' = [pending EXCEPT
       ![w] = IF seen[w] = "nothing" THEN Status(target[w]) ELSE seen[w]]
  /\ task' = [task EXCEPT ![w] = "sending"]
  /\ UNCHANGED <<services, running, asked, serving, stream, target, channel, seen, since>>

\* A tick completes and the status is read.
Sample(w) ==
  /\ task[w] = "waiting" /\ due[w] > 0
  /\ due' = [due EXCEPT ![w] = @ - 1]
  /\ pending' = [pending EXCEPT ![w] = Status(target[w])]
  /\ task' = [task EXCEPT ![w] = "sending"]
  /\ UNCHANGED <<services, running, asked, serving, stream, target, channel, seen, since>>

\* A bug this model must notice: the task stops sending when nothing changed.
SendChangesOnly(w) ==
  /\ task[w] = "sending" /\ stream[w] = "open"
  /\ Len(channel[w]) < Capacity
  /\ channel' = [channel EXCEPT
       ![w] = IF seen[w] = "nothing" THEN Append(@, pending[w]) ELSE @]
  /\ pending' = [pending EXCEPT ![w] = "nothing"]
  /\ task' = [task EXCEPT ![w] = "waiting"]
  /\ UNCHANGED <<services, running, asked, serving, stream, target, due, seen, since>>

\* A bug this model must notice: an unbounded channel.
SendUnbounded(w) ==
  /\ task[w] = "sending" /\ stream[w] = "open"
  /\ Len(channel[w]) <= Capacity
  /\ channel' = [channel EXCEPT ![w] = Append(@, pending[w])]
  /\ pending' = [pending EXCEPT ![w] = "nothing"]
  /\ task' = [task EXCEPT ![w] = "waiting"]
  /\ UNCHANGED <<services, running, asked, serving, stream, target, due, seen, since>>

\* tx.send(..).await: the channel has room.
Send(w) ==
  /\ task[w] = "sending" /\ stream[w] = "open"
  /\ Len(channel[w]) < Capacity
  /\ channel' = [channel EXCEPT ![w] = Append(@, pending[w])]
  /\ pending' = [pending EXCEPT ![w] = "nothing"]
  /\ task' = [task EXCEPT ![w] = "waiting"]
  /\ UNCHANGED <<services, running, asked, serving, stream, target, due, seen, since>>

\* A bug this model must notice: a failed send does not end the loop.
SendIgnoresErrors(w) ==
  /\ task[w] = "sending" /\ stream[w] = "left"
  /\ pending' = [pending EXCEPT ![w] = "nothing"]
  /\ task' = [task EXCEPT ![w] = "waiting"]
  /\ UNCHANGED <<services, running, asked, serving, stream, target, due, channel, seen, since>>

\* The receiver is gone: break.
SendFails(w) ==
  /\ task[w] = "sending" /\ stream[w] = "left"
  /\ pending' = [pending EXCEPT ![w] = "nothing"]
  /\ task' = [task EXCEPT ![w] = "ended"]
  /\ UNCHANGED <<services, running, asked, serving, stream, target, due, channel, seen, since>>

\* The response stream yields the next status; since counts up to Capacity + 2.
Receive(w) ==
  /\ stream[w] = "open" /\ channel[w] # <<>>
  /\ seen' = [seen EXCEPT ![w] = Head(channel[w])]
  /\ channel' = [channel EXCEPT ![w] = Tail(@)]
  /\ since' = [since EXCEPT ![w] = IF @ < Capacity + 2 THEN @ + 1 ELSE @]
  /\ UNCHANGED <<services, running, asked, serving, stream, target, task, due, pending>>

\* The client disconnects: the receiver goes, with what is in the channel.
Leave(w) ==
  /\ stream[w] = "open"
  /\ stream' = [stream EXCEPT ![w] = "left"]
  /\ channel' = [channel EXCEPT ![w] = <<>>]
  /\ UNCHANGED <<services, running, asked, serving, target, task, due, pending, seen, since>>
-----------------------------------------------------------------------------
\* The steps the task of a watcher takes by itself.
Loop(w) == Sample(w) \/ Send(w) \/ SendFails(w)

Next ==
  \/ \E n \in Names : Register(n)
  \/ Serve
  \/ \E i \in 1 .. MaxServices : Change(i)
  \/ \E w \in Watchers : Watch(w) \/ Tick(w) \/ Loop(w) \/ Receive(w) \/ Leave(w)

Spec == Init /\ [][Next]_vars

\* Time passes, the runtime polls a task that can proceed, and some clients read.
Fairness ==
  /\ \A w \in Watchers : WF_vars(Tick(w)) /\ WF_vars(Loop(w))
  /\ \A w \in Readers : WF_vars(Receive(w))

FairSpec == Spec /\ Fairness
-----------------------------------------------------------------------------
(***************************************************************************)
(* Properties.                                                             *)
(***************************************************************************)

\* Typing.  The channel never holds more than its capacity, the task holds a
\* status exactly while it sends, and only a watch that was accepted has one.
TypeOK ==
  /\ services \in Seq(Names) /\ Len(services) <= MaxServices
  /\ running \in BOOLEAN
  /\ asked \in [Watchers -> Names]
  /\ serving \in [1 .. MaxServices -> BOOLEAN]
  /\ stream \in [Watchers -> {"idle", "open", "not_found", "left"}]
  /\ target \in [Watchers -> 0 .. MaxServices]
  /\ task \in [Watchers -> {"none", "waiting", "sending", "ended"}]
  /\ due \in [Watchers -> 0 .. MaxDue]
  /\ pending \in [Watchers -> Statuses \cup {"nothing"}]
  /\ channel \in [Watchers -> Seq(Statuses)]
  /\ seen \in [Watchers -> Statuses \cup {"nothing"}]
  /\ since \in [Watchers -> 0 .. Capacity + 2]
  /\ \A w \in Watchers :
       /\ Len(channel[w]) <= Capacity
       /\ pending[w] = "nothing" <=> task[w] # "sending"
       /\ task[w] = "none" <=> stream[w] \in {"idle", "not_found"}

\* The statuses on their way to a client, in the order it will get them.
OnTheWay(w) ==
  IF task[w] = "sending" THEN Append(channel[w], pending[w]) ELSE channel[w]

\* A watcher follows a service of its own, and only while it has a task.
Attached(w) ==
  /\ stream[w] \in {"open", "left"} <=> target[w] # 0
  /\ target[w] # 0 => target[w] \in Named(asked[w])
  /\ task[w] = "ended" => stream[w] = "left"
  /\ target[w] = 0 => since[w] = 0 /\ seen[w] = "nothing" /\ channel[w] = <<>>
  /\ target[w] # 0 => running

\* The inductive invariant of the lag: of what is on its way only so much can
\* date from before the last change that Capacity + 1 messages take it away.
OldStatusesLeave(w) ==
  target[w] # 0 =>
    /\ Len(OnTheWay(w)) <= Capacity + 1
    /\ \A k \in 1 .. Len(OnTheWay(w)) :
         since[w] + k > Capacity + 1 => OnTheWay(w)[k] = Status(target[w])
    /\ since[w] > Capacity + 1 => seen[w] = Status(target[w])

IInv == TypeOK /\ \A w \in Watchers : Attached(w) /\ OldStatusesLeave(w)

\* However slowly a client reads and whatever bursts of ticks follow, the
\* statuses it gets after a change are out of date for at most Capacity + 1
\* messages: from then on the last one is what Check answers for the name,
\* provided the name was registered once.
LagBounded ==
  \A w \in Watchers :
    since[w] > Capacity + 1 /\ (\A i, j \in Named(asked[w]) : i = j)
      => seen[w] = Check(asked[w])

\* A client is told a first status before its task waits for an interval to
\* pass: a watch never starts with ten seconds of silence.
FirstStatusAtOnce ==
  \A w \in Watchers : stream[w] = "open" /\ task[w] = "waiting" /\ due[w] = 0
    => OnTheWay(w) # <<>> \/ seen[w] # "nothing"

\* When a status stays what it is, a client that reads on comes to know it and
\* is never told otherwise again.
WatchConverges ==
  \A w \in Readers, s \in Statuses :
    <>[](stream[w] = "open" /\ Status(target[w]) = s) => <>[](seen[w] = s)

\* The task of a client that left comes to an end.
TaskFollowsClient ==
  \A w \in Watchers : stream[w] = "left" ~> task[w] = "ended"
=============================================================================
