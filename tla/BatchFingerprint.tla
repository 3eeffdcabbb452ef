--------------------------- MODULE BatchFingerprint -------------------------
(***************************************************************************)
(* compute_batch_fingerprint: one batch, the task spawned for it, the      *)
(* channel to the response stream, and the client that reads it.           *)
(*                                                                         *)
(* The task drives a window of items, each with its protocol run, which    *)
(* proceeds only when the task polls: the poll that completes an item is   *)
(* the one that takes it out of the window.  The task then sends the reply *)
(* through a bounded channel and, while that is full, polls nothing.       *)
(* Items are the numbers of the batch's requests.                          *)
(***************************************************************************)
EXTENDS TransactionData, FiniteSets

CONSTANTS
  P, Inputs, HashToCurve, NoResult,  \* of FingerprintProtocol
  Batches,    \* the batches clients send: sequences of transaction_data
  MaxItems,   \* the length of the longest batch
  Secrets,    \* the secrets the protocol may hold
  Window,     \* the argument of buffer_unordered: 16 in the code
  Capacity,   \* the capacity of the channel: 16 in the code
  Nothing     \* no reply to be sent

ASSUME BatchAssumption ==
  /\ MaxItems \in Nat
  /\ \A b \in Batches : Len(b) \in 0 .. MaxItems /\ DOMAIN b = 1 .. Len(b)
  /\ Window \in Nat \ {0} /\ Capacity \in Nat \ {0}

Calls == 1 .. MaxItems

VARIABLES
  secret, input, phase, result,  \* of FingerprintProtocol, for each item
  batch,    \* transaction_batch of the request
  item,     \* "waiting" | "window" | "taken" | "dropped", for each item
  task,     \* "polling" | "sending" | "ended" | "panicked"
  pending,  \* the reply the task is sending, or Nothing
  channel,  \* the replies in the channel
  stream,   \* what the client sees: "open" | "clean" | "failed" | "left"
  received  \* the replies the client has got

protocol == <<secret, input, phase, result>>
vars == <<secret, input, phase, result, batch, item, task, pending, channel, stream, received>>

Protocol == INSTANCE FingerprintProtocol

Items == DOMAIN batch

Squeezed(data) ==
  LET raw == Prepare(data)
  IN  IF raw.status # "ok" THEN raw ELSE SqueezeDateTime(raw.value)

Argument(b, i) ==
  IF i \in DOMAIN b /\ Squeezed(b[i]).status = "ok"
  THEN Squeezed(b[i]).value ELSE CHOOSE x \in Inputs : TRUE

InWindow == {i \in Items : item[i] = "window"}

Waiting == {i \in Items : item[i] = "waiting"}

\* The receiver lives in the response stream and goes with it.
ReceiverDropped == stream \in {"failed", "left"}

Init ==
  /\ batch \in Batches
  /\ secret \in Secrets
  /\ input = [i \in Calls |-> Argument(batch, i)]
  /\ phase = [i \in Calls |-> "idle"]
  /\ result = [i \in Calls |-> NoResult]
  /\ item = [i \in Calls |-> "waiting"]
  /\ task = "polling"
  /\ pending = Nothing
  /\ channel = <<>>
  /\ stream = "open"
  /\ received = <<>>
-----------------------------------------------------------------------------
(***************************************************************************)
(* The spawned task.                                                       *)
(***************************************************************************)

\* A bug this model must notice: all items are started at once.
PullAll(i) ==
  /\ task = "polling"
  /\ i \in Waiting /\ \A j \in Waiting : i <= j
  /\ item' = [item EXCEPT ![i] = "window"]
  /\ IF Squeezed(batch[i]).status = "ok"
     THEN Protocol!Begin(i)
     ELSE UNCHANGED protocol
  /\ UNCHANGED <<batch, task, pending, channel, stream, received>>

\* buffer_unordered takes the next item and, polling it for the first time,
\* converts it and starts the protocol if the conversion succeeds.
Pull(i) ==
  /\ task = "polling"
  /\ Cardinality(InWindow) < Window
  /\ i \in Waiting /\ \A j \in Waiting : i <= j
  /\ item' = [item EXCEPT ![i] = "window"]
  /\ IF Squeezed(batch[i]).status = "ok"
     THEN Protocol!Begin(i)
     ELSE UNCHANGED protocol
  /\ UNCHANGED <<batch, task, pending, channel, stream, received>>

\* The window is topped up before any of its items is polled.
Polls(i) ==
  /\ task = "polling"
  /\ Waiting = {} \/ Cardinality(InWindow) >= Window
  /\ i \in InWindow

\* A bug this model must notice: the replies are numbered as they come.
TakeNumbered(i, outcome) ==
  /\ pending' = IF outcome.status = "ok"
                THEN [status |-> "ok", fingerprint |-> outcome.value,
                      item_id |-> 1 + Cardinality({j \in Items : item[j] = "taken"})]
                ELSE outcome
  /\ item' = [item EXCEPT ![i] = "taken"]
  /\ task' = "sending"
  /\ UNCHANGED <<batch, channel, stream, received>>

\* An item leaves the window with its reply: only a fingerprint has an item_id.
Take(i, outcome) ==
  /\ pending' = IF outcome.status = "ok"
                THEN [status |-> "ok", item_id |-> i, fingerprint |-> outcome.value]
                ELSE outcome
  /\ item' = [item EXCEPT ![i] = "taken"]
  /\ task' = "sending"
  /\ UNCHANGED <<batch, channel, stream, received>>

\* Conversion or the date-time component fails.
TakeRejected(i) ==
  /\ Polls(i)
  /\ Squeezed(batch[i]).status \notin {"ok", "panicked"}
  /\ Take(i, Squeezed(batch[i]))
  /\ UNCHANGED protocol

\* The protocol returns; the other components may still fail.
TakeCompleted(i) ==
  /\ Polls(i)
  /\ Protocol!Return(i)
  /\ Take(i, Assemble(Prepare(batch[i]).value, result'[i]))

\* The protocol returns an Err.
TakeAborted(i) ==
  /\ Polls(i)
  /\ Protocol!Fail(i) /\ phase'[i] = "error"
  /\ Take(i, Failed("aborted"))

\* A bug this model must notice: the protocol runs were spawned and go on.
DropItemsOnly ==
  /\ item' = [i \in Calls |-> IF item[i] \in {"window", "waiting"} THEN "dropped" ELSE item[i]]
  /\ UNCHANGED <<secret, input, phase, result, batch>>

\* The end of the task drops the stream: the protocol runs of the window are lost.
DropWindow ==
  /\ item' = [i \in Calls |-> IF item[i] \in {"window", "waiting"} THEN "dropped" ELSE item[i]]
  /\ phase' = [i \in Calls |-> IF phase[i] = "running" THEN "lost" ELSE phase[i]]
  /\ UNCHANGED <<secret, input, result, batch>>

\* A panic in one item, in its conversion or in its protocol run, unwinds the
\* task; nobody looks at the handle that spawn returned.
TaskPanics(i) ==
  /\ Polls(i)
  /\ Squeezed(batch[i]).status = "panicked" \/ phase[i] = "running"
  /\ task' = "panicked"
  /\ DropWindow
  /\ UNCHANGED <<pending, channel, stream, received>>

\* A bug this model must notice: an unbounded channel.
SendUnbounded ==
  /\ task = "sending" /\ ~ ReceiverDropped
  /\ channel' = Append(channel, pending)
  /\ pending' = Nothing
  /\ task' = "polling"
  /\ UNCHANGED <<secret, input, phase, result, batch, item, stream, received>>

\* tx.send(..).await: the channel has room.
Send ==
  /\ task = "sending" /\ ~ ReceiverDropped
  /\ Len(channel) < Capacity
  /\ channel' = Append(channel, pending)
  /\ pending' = Nothing
  /\ task' = "polling"
  /\ UNCHANGED <<secret, input, phase, result, batch, item, stream, received>>

\* A bug this model must notice: a failed send is tried again.
SendRetries ==
  /\ task = "sending" /\ ReceiverDropped
  /\ UNCHANGED vars

\* The receiver is gone: break.
SendFails ==
  /\ task = "sending" /\ ReceiverDropped
  /\ pending' = Nothing
  /\ task' = "ended"
  /\ DropWindow
  /\ UNCHANGED <<channel, stream, received>>

\* stream.next() is None.
TaskEnds ==
  /\ task = "polling" /\ Waiting = {} /\ InWindow = {}
  /\ task' = "ended"
  /\ UNCHANGED <<secret, input, phase, result, batch, item, pending, channel, stream, received>>
-----------------------------------------------------------------------------
(***************************************************************************)
(* The response stream and its client.                                     *)
(***************************************************************************)

\* A bug this model must notice: an Err does not end the stream.
ReceiveIgnoresErrors ==
  /\ stream = "open" /\ channel # <<>>
  /\ received' = Append(received, Head(channel))
  /\ channel' = Tail(channel)
  /\ UNCHANGED <<secret, input, phase, result, batch, item, task, pending, stream>>

\* A message for an Ok; an Err is the status of the call and ends the stream.
Receive ==
  /\ stream = "open" /\ channel # <<>>
  /\ received' = Append(received, Head(channel))
  /\ channel' = Tail(channel)
  /\ stream' = IF Head(channel).status = "ok" THEN "open" ELSE "failed"
  /\ UNCHANGED <<secret, input, phase, result, batch, item, task, pending>>

\* A bug this model must notice: a task that panicked keeps its sender.
EndUnlessPanicked ==
  /\ stream = "open" /\ channel = <<>>
  /\ task = "ended"
  /\ stream' = "clean"
  /\ UNCHANGED <<secret, input, phase, result, batch, item, task, pending, channel, received>>

\* The sender is gone and the channel is empty: the stream ends with status OK.
EndOfStream ==
  /\ stream = "open" /\ channel = <<>>
  /\ task \in {"ended", "panicked"}
  /\ stream' = "clean"
  /\ UNCHANGED <<secret, input, phase, result, batch, item, task, pending, channel, received>>

\* The client disconnects or cancels.
ClientLeaves ==
  /\ stream = "open"
  /\ stream' = "left"
  /\ UNCHANGED <<secret, input, phase, result, batch, item, task, pending, channel, received>>
-----------------------------------------------------------------------------
Poll(i) == TakeRejected(i) \/ TakeCompleted(i) \/ TakeAborted(i) \/ TaskPanics(i)

Next ==
  \/ \E i \in Items : Pull(i) \/ Poll(i)
  \/ Send \/ SendFails \/ TaskEnds
  \/ Receive \/ EndOfStream \/ ClientLeaves

Spec == Init /\ [][Next]_vars

\* The runtime polls the task and the connection, and every protocol run ends.
Fairness ==
  /\ \A i \in Calls : WF_vars(i \in Items /\ (Pull(i) \/ Poll(i)))
  /\ WF_vars(Send \/ SendFails \/ TaskEnds)
  /\ WF_vars(EndOfStream)

\* The client either reads on or goes away.
FairSpec == Spec /\ Fairness /\ WF_vars(Receive)
-----------------------------------------------------------------------------
(***************************************************************************)
(* Properties.                                                             *)
(***************************************************************************)

\* Typing.  The channel never holds more than its capacity.
TypeOK ==
  /\ batch \in Batches
  /\ item \in [Calls -> {"waiting", "window", "taken", "dropped"}]
  /\ task \in {"polling", "sending", "ended", "panicked"}
  /\ pending = Nothing <=> task # "sending"
  /\ stream \in {"open", "clean", "failed", "left"}
  /\ Len(channel) <= Capacity

\* The replies sent so far, in the order the client gets them.
Sent == received \o channel \o (IF pending = Nothing THEN <<>> ELSE <<pending>>)

\* However the items overtake each other, a reply carries the fingerprint of
\* the item it names, and no item is answered twice.
RepliesMatchItems ==
  \A j \in DOMAIN Sent : Sent[j].status = "ok" =>
    /\ Sent[j].item_id \in Items
    /\ LET data == batch[Sent[j].item_id]
       IN  Ok(Sent[j].fingerprint) =
             Assemble(Prepare(data).value, Protocol!NaiveProcess(Squeezed(data).value, secret))
    /\ \A k \in DOMAIN Sent : k # j /\ Sent[k].status = "ok"
         => Sent[k].item_id # Sent[j].item_id

\* Back-pressure: when the client does not read, no more items are started
\* than the window, the channel and the task's hand can hold.
BoundedAhead ==
  Cardinality({i \in Items : item[i] \in {"window", "taken"}})
    <= Len(received) + Capacity + Window + 1

\* The items whose fingerprints the client has.
Answered ==
  {received[j].item_id : j \in {k \in DOMAIN received : received[k].status = "ok"}}

\* A stream that ended with status OK while its task did not panic has
\* answered every item of the batch with a fingerprint.
CleanEndIsComplete ==
  stream = "clean" /\ task # "panicked" => Items = Answered

\* Protocol runs belong to their task: one is going on for each item of the
\* window that asked for it and for no other, so that the task never waits for
\* a run that ended, and none goes on, asking other agents, after its task.
RunsLiveWithTask ==
  /\ \A i \in Calls :
       phase[i] = "running" <=> i \in InWindow /\ Squeezed(batch[i]).status = "ok"
  /\ task \in {"ended", "panicked"} => InWindow = {}

\* Nothing is left behind when the client goes away or the stream fails: the
\* task ends and takes its protocol runs with it, if every run ends.
TaskAlwaysEnds == <>(task \in {"ended", "panicked"})

\* A client that reads on gets an end of the stream.
StreamAlwaysEnds == <>(stream # "open")
-----------------------------------------------------------------------------
\* external_service.proto: "ABORTED - when the fingerprint computation is
\* aborted": a stream that ends with status OK has computed the whole batch.
OkMeansComputed == stream = "clean" => Items = Answered
=============================================================================
