----------------------- MODULE BatchFingerprintProofs -----------------------
(***************************************************************************)
(* Theorems about BatchFingerprint, for every batch, window and capacity:  *)
(* the back-pressure holds, a stream that ends with status OK without a    *)
(* panic has answered everything, and in every order in which the items    *)
(* finish the replies match the items they name.                           *)
(***************************************************************************)
EXTENDS BatchFingerprint, FiniteSetTheorems, SequenceTheorems, TLAPS

\* The elements of a sequence.
Values(s) == {s[j] : j \in 1 .. Len(s)}

\* A sequence, of whatever elements.
Listed(s) == \E S : s \in Seq(S)

\* Appending adds one value.
LEMMA Appended ==
  ASSUME NEW s, Listed(s), NEW e
  PROVE  /\ Listed(Append(s, e)) /\ Len(s) \in Nat
         /\ Len(Append(s, e)) = Len(s) + 1
         /\ Values(Append(s, e)) = Values(s) \cup {e}
PROOF
  <1>1. PICK S : s \in Seq(S)
    BY DEF Listed
  <1>2. s \in Seq(S \cup {e})
    BY <1>1
  <1>3. /\ Append(s, e) \in Seq(S \cup {e}) /\ Len(s) \in Nat
        /\ Len(Append(s, e)) = Len(s) + 1
        /\ \A j \in 1 .. Len(s) : Append(s, e)[j] = s[j]
        /\ Append(s, e)[Len(s) + 1] = e
    BY <1>2
  <1>4. Values(Append(s, e)) = Values(s) \cup {e}
    <2>1. 1 .. Len(Append(s, e)) = (1 .. Len(s)) \cup {Len(s) + 1}
      BY <1>3
    <2>. QED BY <1>3, <2>1 DEF Values
  <1>. QED BY <1>3, <1>4 DEF Listed

\* Taking the head removes at most one value.
LEMMA Taking ==
  ASSUME NEW s, Listed(s), s # <<>>
  PROVE  /\ Listed(Tail(s)) /\ Len(s) \in Nat
         /\ Len(Tail(s)) = Len(s) - 1
         /\ Values(s) = Values(Tail(s)) \cup {Head(s)}
PROOF
  <1>1. PICK S : s \in Seq(S)
    BY DEF Listed
  <1>2. /\ Tail(s) \in Seq(S) /\ Len(s) \in Nat /\ Len(s) >= 1
        /\ Len(Tail(s)) = Len(s) - 1 /\ Head(s) = s[1]
        /\ \A j \in 1 .. Len(s) - 1 : Tail(s)[j] = s[j + 1]
    BY <1>1
  <1>3. Values(s) = Values(Tail(s)) \cup {Head(s)}
    <2>1. \A j \in 1 .. Len(s) : j = 1 \/ j - 1 \in 1 .. Len(s) - 1
      BY <1>2
    <2>2. \A j \in 1 .. Len(s) : s[j] \in Values(Tail(s)) \cup {Head(s)}
      <3>. SUFFICES ASSUME NEW j \in 1 .. Len(s), j # 1 PROVE s[j] \in Values(Tail(s))
        BY <1>2
      <3>1. j - 1 \in 1 .. Len(s) - 1 /\ (j - 1) + 1 = j
        BY <2>1
      <3>2. Tail(s)[j - 1] = s[j]
        BY <1>2, <3>1
      <3>. QED BY <1>2, <3>1, <3>2 DEF Values
    <2>3. \A j \in 1 .. Len(s) - 1 : Tail(s)[j] \in Values(s)
      BY <1>2 DEF Values
    <2>4. Head(s) \in Values(s)
      BY <1>2 DEF Values
    <2>. QED BY <1>2, <2>2, <2>3, <2>4 DEF Values
  <1>. QED BY <1>2, <1>3 DEF Listed
-----------------------------------------------------------------------------
(***************************************************************************)
(* The inductive invariant.                                                *)
(***************************************************************************)

Taken == {i \in Items : item[i] = "taken"}

\* The replies on their way and those that arrived.
Replies ==
  Values(received) \cup Values(channel) \cup (IF task = "sending" THEN {pending} ELSE {})

Shape ==
  /\ batch \in Batches
  /\ item \in [Calls -> {"waiting", "window", "taken", "dropped"}]
  /\ task \in {"polling", "sending", "ended", "panicked"}
  /\ stream \in {"open", "clean", "failed", "left"}
  /\ Listed(channel) /\ Listed(received)

\* A taken item is a reply, but for one in the hand of a task that stopped.
Counted ==
  Cardinality(Taken) <=
    Len(received) + Len(channel) + (IF task = "polling" THEN 0 ELSE 1)

Bounded == Cardinality(InWindow) <= Window /\ Len(channel) <= Capacity

\* A fingerprint names an item of the batch.
Named == \A r \in Replies : r.status = "ok" => r.item_id \in Items

Following == stream \in {"open", "clean"}

\* As long as the client follows no reply is lost: an item that was taken has
\* its fingerprint among the replies, or an error is, and what has arrived are
\* fingerprints.  A task that ended has taken every item.
NothingLost ==
  Following =>
    /\ \A i \in Taken : \E r \in Replies : r.status = "ok" => r.item_id = i
    /\ \A r \in Values(received) : r.status = "ok"
    /\ task = "ended" => Items = Taken

\* The end of the stream is seen after the last reply.
EndIsLast == stream = "clean" => channel = <<>> /\ task \in {"ended", "panicked"}

\* A task that runs has dropped nothing.
Whole == task \in {"polling", "sending"} => \A i \in Items : item[i] # "dropped"

BInv == Shape /\ Counted /\ Bounded /\ Named /\ NothingLost /\ EndIsLast /\ Whole

\* The items of the batch are numbers of calls, and finitely many.
LEMMA ItemsFinite ==
  ASSUME Shape
  PROVE  /\ Items \subseteq Calls /\ IsFiniteSet(Items)
         /\ IsFiniteSet(Taken) /\ IsFiniteSet(InWindow)
         /\ Cardinality(Taken) \in Nat /\ Cardinality(InWindow) \in Nat
PROOF
  <1>1. Items \subseteq Calls
    BY BatchAssumption DEF Shape, Items, Calls
  <1>2. IsFiniteSet(Calls)
    BY FS_Interval, BatchAssumption DEF Calls
  <1>3. Taken \subseteq Calls /\ InWindow \subseteq Calls
    BY <1>1 DEF Taken, InWindow
  <1>4. IsFiniteSet(Items) /\ IsFiniteSet(Taken) /\ IsFiniteSet(InWindow)
    BY <1>1, <1>2, <1>3, FS_Subset
  <1>. QED BY <1>1, <1>4, FS_CardinalityType

\* A batch that was just received.
LEMMA InitBatch == Init => BInv
PROOF
  <1>. SUFFICES ASSUME Init PROVE BInv
    OBVIOUS
  <1>1. Listed(<<>>) /\ Len(<<>>) = 0 /\ Values(<<>>) = {}
    <2>1. <<>> \in Seq({})
      OBVIOUS
    <2>. QED BY <2>1 DEF Listed, Values
  <1>2. Shape
    BY <1>1 DEF Init, Shape
  <1>3. Taken = {} /\ InWindow = {} /\ Replies = {}
    BY <1>1, <1>2, BatchAssumption
       DEF Init, Shape, Taken, InWindow, Items, Calls, Replies
  <1>4. Cardinality({}) = 0
    BY FS_EmptySet
  <1>5. Whole
    BY <1>2, ItemsFinite DEF Init, Whole, Shape
  <1>. QED BY <1>1, <1>2, <1>3, <1>4, <1>5, BatchAssumption
           DEF Init, BInv, Counted, Bounded, Named, NothingLost, EndIsLast

\* An item enters the window.
LEMMA PullStep ==
  ASSUME BInv, NEW i \in Items, Pull(i)
  PROVE  BInv'
PROOF
  <1>. USE DEF BInv
  <1>1. /\ item' = [item EXCEPT ![i] = "window"] /\ item[i] = "waiting"
        /\ Cardinality(InWindow) < Window /\ task = "polling"
        /\ UNCHANGED <<batch, task, pending, channel, stream, received>>
    BY DEF Pull, Waiting
  <1>2. Items' = Items /\ Replies' = Replies
    BY <1>1 DEF Items, Replies, Values
  <1>3. i \in Calls /\ Shape'
    BY <1>1, ItemsFinite DEF Shape
  <1>4. Taken' = Taken
    BY <1>1, <1>2, <1>3 DEF Taken, Shape
  <1>5. InWindow' = InWindow \cup {i}
    BY <1>1, <1>2, <1>3 DEF InWindow, Shape
  <1>6. Cardinality(InWindow') <= Window
    <2>1. Cardinality(InWindow') \in {Cardinality(InWindow), Cardinality(InWindow) + 1}
      BY <1>5, ItemsFinite, FS_AddElement
    <2>. QED BY <1>1, <2>1, ItemsFinite, BatchAssumption
  <1>7. Counted' /\ Bounded'
    BY <1>1, <1>4, <1>6 DEF Counted, Bounded
  <1>8. Named' /\ NothingLost' /\ EndIsLast'
    BY <1>1, <1>2, <1>4 DEF Named, NothingLost, Following, EndIsLast
  <1>9. Whole'
    BY <1>1, <1>2, <1>3 DEF Whole, Shape
  <1>. QED BY <1>3, <1>7, <1>8, <1>9

\* An item leaves the window with a reply that, if it is a fingerprint, names it.
LEMMA TakeStep ==
  ASSUME BInv, NEW i \in Items, Polls(i), NEW outcome, Take(i, outcome)
  PROVE  BInv'
PROOF
  <1>. USE DEF BInv
  <1>1. /\ item' = [item EXCEPT ![i] = "taken"] /\ item[i] = "window"
        /\ task = "polling" /\ task' = "sending"
        /\ UNCHANGED <<batch, channel, stream, received>>
    BY DEF Take, Polls, InWindow
  <1>2. pending'.status = "ok" => pending'.item_id = i
    BY DEF Take
  <1>3. Items' = Items /\ Replies' = Replies \cup {pending'}
    BY <1>1 DEF Items, Replies, Values
  <1>4. i \in Calls /\ Shape'
    BY <1>1, ItemsFinite DEF Shape
  <1>5. Taken' = Taken \cup {i} /\ InWindow' = InWindow \ {i}
    BY <1>1, <1>3, <1>4 DEF Taken, InWindow, Shape
  <1>6. Cardinality(Taken') <= Cardinality(Taken) + 1 /\ Cardinality(Taken') \in Nat
    <2>1. /\ IsFiniteSet(Taken')
          /\ Cardinality(Taken') \in {Cardinality(Taken), Cardinality(Taken) + 1}
      BY <1>5, ItemsFinite, FS_AddElement
    <2>. QED BY <2>1, ItemsFinite
  <1>7. Cardinality(InWindow') <= Cardinality(InWindow) /\ Cardinality(InWindow') \in Nat
    <2>1. InWindow' \subseteq InWindow /\ IsFiniteSet(InWindow')
      BY <1>5, ItemsFinite, FS_Subset
    <2>. QED BY <2>1, ItemsFinite, FS_Subset, FS_CardinalityType
  <1>8. Len(channel) \in Nat /\ Len(received) \in Nat
    BY Appended DEF Shape
  <1>9. Counted' /\ Bounded'
    BY <1>1, <1>6, <1>7, <1>8, ItemsFinite, BatchAssumption DEF Counted, Bounded
  <1>10. Named'
    BY <1>2, <1>3 DEF Named
  <1>11. NothingLost' /\ EndIsLast'
    BY <1>1, <1>2, <1>3, <1>5 DEF NothingLost, Following, EndIsLast
  <1>12. Whole'
    BY <1>1, <1>3, <1>4 DEF Whole, Shape
  <1>. QED BY <1>4, <1>9, <1>10, <1>11, <1>12

\* The window of a task that stops is dropped, and what was taken stays taken.
LEMMA Dropping ==
  ASSUME Shape, DropWindow
  PROVE  /\ Items' = Items /\ Taken' = Taken /\ InWindow' = {}
         /\ item' \in [Calls -> {"waiting", "window", "taken", "dropped"}]
         /\ batch' = batch
PROOF
  <1>1. /\ item' = [i \in Calls |-> IF item[i] \in {"window", "waiting"}
                                    THEN "dropped" ELSE item[i]]
        /\ batch' = batch
    BY DEF DropWindow
  <1>2. Items' = Items /\ Items \subseteq Calls
    BY <1>1, ItemsFinite DEF Items
  <1>. QED BY <1>1, <1>2 DEF Taken, InWindow, Shape

\* The task panics: nothing was in its hand.
LEMMA PanicStep ==
  ASSUME BInv, NEW i \in Items, TaskPanics(i)
  PROVE  BInv'
PROOF
  <1>. USE DEF BInv
  <1>1. /\ task = "polling" /\ task' = "panicked" /\ DropWindow
        /\ UNCHANGED <<pending, channel, stream, received>>
    BY DEF TaskPanics, Polls
  <1>2. /\ Items' = Items /\ Taken' = Taken /\ InWindow' = {} /\ Replies' = Replies
        /\ Shape'
    BY <1>1, Dropping DEF Shape, Replies, Values
  <1>3. Len(channel) \in Nat /\ Len(received) \in Nat
    BY Appended DEF Shape
  <1>4. Counted' /\ Bounded'
    BY <1>1, <1>2, <1>3, ItemsFinite, FS_EmptySet, BatchAssumption DEF Counted, Bounded
  <1>5. Named' /\ NothingLost' /\ EndIsLast'
    BY <1>1, <1>2 DEF Named, NothingLost, Following, EndIsLast
  <1>6. Whole'
    BY <1>1 DEF Whole, Shape
  <1>. QED BY <1>2, <1>4, <1>5, <1>6

\* The reply moves from the task's hand into the channel.
LEMMA SendStep ==
  ASSUME BInv, Send
  PROVE  BInv'
PROOF
  <1>. USE DEF BInv
  <1>1. /\ task = "sending" /\ task' = "polling" /\ Len(channel) < Capacity
        /\ channel' = Append(channel, pending)
        /\ UNCHANGED <<batch, item, stream, received>>
    BY DEF Send
  <1>2. /\ Listed(channel') /\ Len(channel) \in Nat /\ Len(channel') = Len(channel) + 1
        /\ Values(channel') = Values(channel) \cup {pending}
    BY <1>1, Appended DEF Shape
  <1>3. Len(received) \in Nat
    BY Appended DEF Shape
  <1>4. Items' = Items /\ Taken' = Taken /\ InWindow' = InWindow /\ Shape'
    BY <1>1, <1>2 DEF Items, Taken, InWindow, Shape
  <1>5. Replies' = Replies /\ Values(received)' = Values(received)
    BY <1>1, <1>2 DEF Replies, Values
  <1>6. Counted' /\ Bounded'
    BY <1>1, <1>2, <1>3, <1>4, ItemsFinite, BatchAssumption DEF Counted, Bounded
  <1>7. Named' /\ NothingLost' /\ EndIsLast'
    BY <1>1, <1>4, <1>5 DEF Named, NothingLost, Following, EndIsLast
  <1>8. Whole'
    BY <1>1, <1>4 DEF Whole, Shape
  <1>. QED BY <1>4, <1>6, <1>7, <1>8

\* The reply in the hand is dropped when nobody is left to read it.
LEMMA SendFailsStep ==
  ASSUME BInv, SendFails
  PROVE  BInv'
PROOF
  <1>. USE DEF BInv
  <1>1. /\ task = "sending" /\ task' = "ended" /\ DropWindow
        /\ stream \in {"failed", "left"} /\ UNCHANGED <<channel, stream, received>>
    BY DEF SendFails, ReceiverDropped
  <1>2. /\ Items' = Items /\ Taken' = Taken /\ InWindow' = {} /\ Shape'
    BY <1>1, Dropping DEF Shape
  <1>3. Replies' \subseteq Replies
    BY <1>1 DEF Replies, Values
  <1>4. Counted' /\ Bounded'
    BY <1>1, <1>2, FS_EmptySet, BatchAssumption DEF Counted, Bounded
  <1>5. Named' /\ NothingLost' /\ EndIsLast'
    BY <1>1, <1>2, <1>3 DEF Named, NothingLost, Following, EndIsLast
  <1>6. Whole'
    BY <1>1 DEF Whole, Shape
  <1>. QED BY <1>2, <1>4, <1>5, <1>6

\* The stream of items is exhausted, and none of them was dropped.
LEMMA TaskEndsStep ==
  ASSUME BInv, TaskEnds
  PROVE  BInv'
PROOF
  <1>. USE DEF BInv
  <1>1. /\ task = "polling" /\ task' = "ended" /\ Waiting = {} /\ InWindow = {}
        /\ UNCHANGED <<batch, item, pending, channel, stream, received>>
    BY DEF TaskEnds
  <1>2. /\ Items' = Items /\ Taken' = Taken /\ InWindow' = InWindow /\ Shape'
        /\ Replies' = Replies
    BY <1>1 DEF Items, Taken, InWindow, Shape, Replies, Values
  <1>3. Items = Taken
    BY <1>1, ItemsFinite DEF Shape, Waiting, InWindow, Taken, Whole
  <1>4. Len(channel) \in Nat /\ Len(received) \in Nat
    BY Appended DEF Shape
  <1>5. Counted' /\ Bounded'
    BY <1>1, <1>2, <1>4, ItemsFinite DEF Counted, Bounded
  <1>6. Named' /\ NothingLost' /\ EndIsLast'
    BY <1>1, <1>2, <1>3 DEF Named, NothingLost, Following, EndIsLast
  <1>7. Whole'
    BY <1>1 DEF Whole, Shape
  <1>. QED BY <1>2, <1>5, <1>6, <1>7

\* The client takes the oldest reply from the channel.
LEMMA ReceiveStep ==
  ASSUME BInv, Receive
  PROVE  BInv'
PROOF
  <1>. USE DEF BInv
  <1>. DEFINE head == Head(channel)
  <1>1. /\ stream = "open" /\ channel # <<>>
        /\ received' = Append(received, head) /\ channel' = Tail(channel)
        /\ stream' = (IF head.status = "ok" THEN "open" ELSE "failed")
        /\ UNCHANGED <<batch, item, task, pending>>
    BY DEF Receive
  <1>2. /\ Listed(channel') /\ Len(channel) \in Nat /\ Len(channel') = Len(channel) - 1
        /\ Values(channel) = Values(channel') \cup {head}
    BY <1>1, Taking DEF Shape
  <1>3. /\ Listed(received') /\ Len(received) \in Nat /\ Len(received') = Len(received) + 1
        /\ Values(received') = Values(received) \cup {head}
    BY <1>1, Appended DEF Shape
  <1>4. Items' = Items /\ Taken' = Taken /\ InWindow' = InWindow /\ Shape'
    BY <1>1, <1>2, <1>3 DEF Items, Taken, InWindow, Shape
  <1>. HIDE DEF head
  <1>5. Replies' = Replies
    BY <1>1, <1>2, <1>3 DEF Replies
  <1>6. Counted' /\ Bounded'
    BY <1>1, <1>2, <1>3, <1>4, ItemsFinite, BatchAssumption DEF Counted, Bounded
  <1>7. NothingLost'
    BY <1>1, <1>3, <1>4, <1>5 DEF NothingLost, Following
  <1>8. Named' /\ EndIsLast'
    BY <1>1, <1>4, <1>5 DEF Named, EndIsLast
  <1>9. Whole'
    BY <1>1, <1>4 DEF Whole, Shape
  <1>. QED BY <1>4, <1>6, <1>7, <1>8, <1>9

\* The stream ends, or the client leaves it.
LEMMA StreamStep ==
  ASSUME BInv, EndOfStream \/ ClientLeaves
  PROVE  BInv'
PROOF
  <1>. USE DEF BInv
  <1>1. /\ stream = "open" /\ stream' \in {"clean", "left"}
        /\ stream' = "clean" => channel = <<>> /\ task \in {"ended", "panicked"}
        /\ UNCHANGED <<batch, item, task, pending, channel, received>>
    BY DEF EndOfStream, ClientLeaves
  <1>2. /\ Items' = Items /\ Taken' = Taken /\ InWindow' = InWindow /\ Shape'
        /\ Replies' = Replies
    BY <1>1 DEF Items, Taken, InWindow, Shape, Replies, Values
  <1>3. Counted' /\ Bounded' /\ Named'
    BY <1>1, <1>2 DEF Counted, Bounded, Named
  <1>4. NothingLost' /\ EndIsLast'
    BY <1>1, <1>2 DEF NothingLost, Following, EndIsLast
  <1>5. Whole'
    BY <1>1, <1>2 DEF Whole, Shape
  <1>. QED BY <1>2, <1>3, <1>4, <1>5

\* Every step keeps the invariant.
LEMMA NextBatch == BInv /\ [Next]_vars => BInv'
PROOF
  <1>. SUFFICES ASSUME BInv, [Next]_vars PROVE BInv'
    OBVIOUS
  <1>1. ASSUME NEW i \in Items, Poll(i) PROVE BInv'
    <2>1. CASE TakeRejected(i)
      BY <2>1, TakeStep DEF TakeRejected
    <2>2. CASE TakeCompleted(i)
      BY <2>2, TakeStep DEF TakeCompleted
    <2>3. CASE TakeAborted(i)
      BY <2>3, TakeStep DEF TakeAborted
    <2>4. CASE TaskPanics(i)
      BY <2>4, PanicStep
    <2>. QED BY <1>1, <2>1, <2>2, <2>3, <2>4 DEF Poll
  <1>2. ASSUME UNCHANGED vars PROVE BInv'
    <2>1. UNCHANGED <<batch, item, task, pending, channel, stream, received>>
      BY <1>2 DEF vars
    <2>2. /\ Items' = Items /\ Taken' = Taken /\ InWindow' = InWindow /\ Shape' = Shape
          /\ Replies' = Replies
      BY <2>1 DEF Items, Taken, InWindow, Shape, Replies, Values
    <2>. QED BY <2>1, <2>2 DEF BInv, Counted, Bounded, Named, NothingLost, Following,
                               EndIsLast, Whole
  <1>. QED BY <1>1, <1>2, PullStep, SendStep, SendFailsStep, TaskEndsStep, ReceiveStep,
              StreamStep DEF Next

\* The invariant of every batch.
LEMMA BatchInvariant == Spec => []BInv
PROOF
  <1>. QED BY InitBatch, NextBatch, PTL DEF Spec
-----------------------------------------------------------------------------
(***************************************************************************)
(* What follows from it.                                                   *)
(***************************************************************************)

\* A client that reads slowly slows the computation down: only what the window,
\* the channel and the task's hand can hold is computed ahead of it.
THEOREM BackPressure == Spec => []BoundedAhead
PROOF
  <1>1. BInv => BoundedAhead
    <2>. SUFFICES ASSUME BInv PROVE BoundedAhead
      OBVIOUS
    <2>. DEFINE ahead == {i \in Items : item[i] \in {"window", "taken"}}
    <2>1. ahead = InWindow \cup Taken
      BY DEF InWindow, Taken
    <2>2. Cardinality(ahead) =
            Cardinality(InWindow) + Cardinality(Taken) - Cardinality(InWindow \cap Taken)
      BY <2>1, ItemsFinite, FS_Union DEF BInv
    <2>3. Cardinality(InWindow \cap Taken) \in Nat
      <3>1. IsFiniteSet(InWindow \cap Taken)
        BY ItemsFinite, FS_Subset DEF BInv
      <3>. QED BY <3>1, FS_CardinalityType
    <2>4. Len(channel) \in Nat /\ Len(received) \in Nat
      BY Appended DEF BInv, Shape
    <2>. QED BY <2>2, <2>3, <2>4, ItemsFinite, BatchAssumption
             DEF BInv, Counted, Bounded, BoundedAhead
  <1>. QED BY <1>1, BatchInvariant, PTL

\* Only a panic can make a stream end with status OK before its last reply.
THEOREM CleanEnd == Spec => []CleanEndIsComplete
PROOF
  <1>1. BInv => CleanEndIsComplete
    <2>. SUFFICES ASSUME BInv, stream = "clean", task # "panicked" PROVE Items = Answered
      BY DEF CleanEndIsComplete
    <2>1. task = "ended" /\ channel = <<>> /\ Following
      BY DEF BInv, EndIsLast, Following
    <2>2. Replies = Values(received)
      BY <2>1 DEF Replies, Values
    <2>3. /\ Items = Taken
          /\ \A i \in Taken : \E r \in Values(received) : r.item_id = i
          /\ \A r \in Values(received) : r.status = "ok" /\ r.item_id \in Items
      BY <2>1, <2>2 DEF BInv, NothingLost, Named
    <2>4. DOMAIN received = 1 .. Len(received)
      <3>1. PICK S : received \in Seq(S)
        BY DEF BInv, Shape, Listed
      <3>. QED BY <3>1
    <2>5. Answered = {received[j].item_id : j \in 1 .. Len(received)}
      BY <2>3, <2>4 DEF Answered, Values
    <2>. QED BY <2>3, <2>5 DEF Values
  <1>. QED BY <1>1, BatchInvariant, PTL
-----------------------------------------------------------------------------
(***************************************************************************)
(* The protocol runs live and end with the task and its window.            *)
(***************************************************************************)

\* The phases of a protocol run.
Phases == {"idle", "running", "ok", "error", "panicked", "lost"}

\* The items whose conversion asks for a protocol run.
Asks(i) == Squeezed(batch[i]).status = "ok"

RunsTyped == phase \in [Calls -> Phases]

\* One item and its run change together.
LEMMA RunChanges ==
  ASSUME BInv, RunsTyped, RunsLiveWithTask, NEW i \in Items, NEW state, NEW p \in Phases,
         batch' = batch, item' = [item EXCEPT ![i] = state],
         phase' = [phase EXCEPT ![i] = p],
         p = "running" <=> state = "window" /\ Asks(i),
         task' \notin {"ended", "panicked"}
  PROVE  (RunsTyped /\ RunsLiveWithTask)'
PROOF
  <1>1. i \in Calls /\ Items' = Items
    BY ItemsFinite DEF BInv, Items
  <1>2. RunsTyped'
    BY <1>1 DEF RunsTyped
  <1>3. \A j \in Calls : phase'[j] = (IF j = i THEN p ELSE phase[j])
    BY <1>1 DEF RunsTyped
  <1>4. InWindow' = IF state = "window" THEN InWindow \cup {i} ELSE InWindow \ {i}
    BY <1>1, ItemsFinite DEF BInv, Shape, InWindow
  <1>5. \A j \in Calls : Squeezed(batch'[j]) = Squeezed(batch[j])
    BY DEF Squeezed
  <1>6. ASSUME NEW j \in Calls
        PROVE  phase'[j] = "running" <=> j \in InWindow' /\ Squeezed(batch'[j]).status = "ok"
    <2>1. CASE j = i
      BY <1>3, <1>4, <1>5, <2>1 DEF Asks
    <2>2. CASE j # i
      BY <1>3, <1>4, <1>5, <2>2 DEF RunsLiveWithTask
    <2>. QED BY <2>1, <2>2
  <1>. QED BY <1>2, <1>6 DEF RunsLiveWithTask

\* The window goes, and the runs that were going on go with it.
LEMMA RunsDropped ==
  ASSUME BInv, RunsTyped, RunsLiveWithTask, DropWindow
  PROVE  (RunsTyped /\ RunsLiveWithTask)'
PROOF
  <1>1. phase' = [j \in Calls |-> IF phase[j] = "running" THEN "lost" ELSE phase[j]]
    BY DEF DropWindow
  <1>2. RunsTyped' /\ \A j \in Calls : phase'[j] # "running"
    BY <1>1 DEF RunsTyped, Phases
  <1>3. InWindow' = {}
    BY Dropping DEF BInv
  <1>. QED BY <1>2, <1>3 DEF RunsLiveWithTask

\* The steps that leave the items and their runs alone.
LEMMA RunsStay ==
  ASSUME RunsTyped, RunsLiveWithTask, UNCHANGED <<batch, item, phase>>,
         task' \in {"ended", "panicked"} => task' = task \/ InWindow = {}
  PROVE  (RunsTyped /\ RunsLiveWithTask)'
PROOF
  <1>1. InWindow' = InWindow
    BY DEF InWindow, Items
  <1>2. \A j \in Calls : Squeezed(batch'[j]) = Squeezed(batch[j])
    BY DEF Squeezed
  <1>3. RunsTyped'
    BY DEF RunsTyped
  <1>. QED BY <1>1, <1>2, <1>3 DEF RunsLiveWithTask

\* A poll that completes an item ends its run.
LEMMA RunsPolled ==
  ASSUME BInv, RunsTyped, RunsLiveWithTask, NEW i \in Items, Poll(i)
  PROVE  (RunsTyped /\ RunsLiveWithTask)'
PROOF
  <1>1. i \in Calls /\ i \in InWindow
    BY ItemsFinite DEF BInv, Poll, TakeRejected, TakeCompleted, TakeAborted, TaskPanics, Polls
  <1>2. ASSUME NEW outcome, Take(i, outcome)
        PROVE  /\ batch' = batch /\ item' = [item EXCEPT ![i] = "taken"]
               /\ task' \notin {"ended", "panicked"}
    BY <1>2 DEF Take
  <1>3. CASE TakeRejected(i)
    <2>1. phase' = phase /\ ~ Asks(i)
      BY <1>3 DEF TakeRejected, protocol, Asks
    <2>2. phase[i] # "running" /\ phase[i] \in Phases
      BY <1>1, <2>1 DEF RunsLiveWithTask, RunsTyped, Asks
    <2>3. phase' = [phase EXCEPT ![i] = phase[i]]
      BY <2>1 DEF RunsTyped
    <2>4. Take(i, Squeezed(batch[i]))
      BY <1>3 DEF TakeRejected
    <2>. QED BY <1>2, <2>2, <2>3, <2>4, RunChanges
  <1>4. CASE TakeCompleted(i)
    <2>1. phase' = [phase EXCEPT ![i] = "ok"]
      BY <1>4 DEF TakeCompleted, Protocol!Return
    <2>2. Take(i, Assemble(Prepare(batch[i]).value, result'[i]))
      BY <1>4 DEF TakeCompleted
    <2>3. "ok" \in Phases
      BY DEF Phases
    <2>. QED BY <1>2, <2>1, <2>2, <2>3, RunChanges
  <1>5. CASE TakeAborted(i)
    <2>1. phase' = [phase EXCEPT ![i] = "error"]
      BY <1>1, <1>5 DEF TakeAborted, Protocol!Fail, RunsTyped
    <2>2. Take(i, Failed("aborted"))
      BY <1>5 DEF TakeAborted
    <2>3. "error" \in Phases
      BY DEF Phases
    <2>. QED BY <1>2, <2>1, <2>2, <2>3, RunChanges
  <1>6. CASE TaskPanics(i)
    BY <1>6, RunsDropped DEF TaskPanics
  <1>. QED BY <1>3, <1>4, <1>5, <1>6 DEF Poll

\* An item that enters the window begins its run, if its conversion succeeds.
LEMMA RunsPulled ==
  ASSUME BInv, RunsTyped, RunsLiveWithTask, NEW i \in Items, Pull(i)
  PROVE  (RunsTyped /\ RunsLiveWithTask)'
PROOF
  <1>1. /\ i \in Calls /\ i \notin InWindow /\ batch' = batch
        /\ item' = [item EXCEPT ![i] = "window"] /\ task' \notin {"ended", "panicked"}
    BY ItemsFinite DEF BInv, Pull, Waiting, InWindow
  <1>2. CASE Asks(i)
    <2>1. phase' = [phase EXCEPT ![i] = "running"] /\ "running" \in Phases
      BY <1>2 DEF Pull, Asks, Protocol!Begin, Phases
    <2>. QED BY <1>1, <1>2, <2>1, RunChanges
  <1>3. CASE ~ Asks(i)
    <2>1. phase' = phase
      BY <1>3 DEF Pull, Asks, protocol
    <2>2. phase[i] # "running" /\ phase[i] \in Phases
      BY <1>1 DEF RunsLiveWithTask, RunsTyped
    <2>3. phase' = [phase EXCEPT ![i] = phase[i]]
      BY <2>1 DEF RunsTyped
    <2>. QED BY <1>1, <1>3, <2>2, <2>3, RunChanges
  <1>. QED BY <1>2, <1>3

\* The task never waits for a run that ended, and no run goes on without it.
THEOREM RunsLive == Spec => []RunsLiveWithTask
PROOF
  <1>1. Init => RunsTyped /\ RunsLiveWithTask
    BY DEF Init, RunsTyped, Phases, RunsLiveWithTask, InWindow, Items
  <1>2. ASSUME BInv, RunsTyped, RunsLiveWithTask, [Next]_vars
        PROVE  (RunsTyped /\ RunsLiveWithTask)'
    <2>1. CASE \E i \in Items : Pull(i) \/ Poll(i)
      BY <1>2, <2>1, RunsPulled, RunsPolled
    <2>2. CASE SendFails
      BY <1>2, <2>2, RunsDropped DEF SendFails
    <2>3. CASE TaskEnds
      BY <1>2, <2>3, RunsStay DEF TaskEnds
    <2>4. CASE Send
      BY <1>2, <2>4, RunsStay DEF Send
    <2>5. CASE Receive \/ EndOfStream \/ ClientLeaves
      BY <1>2, <2>5, RunsStay DEF Receive, EndOfStream, ClientLeaves
    <2>6. CASE UNCHANGED vars
      BY <1>2, <2>6, RunsStay DEF vars
    <2>. QED BY <1>2, <2>1, <2>2, <2>3, <2>4, <2>5, <2>6 DEF Next
  <1>. QED BY <1>1, <1>2, BatchInvariant, PTL DEF Spec
-----------------------------------------------------------------------------
(***************************************************************************)
(* The replies match the items they name, and no item is answered twice.   *)
(***************************************************************************)

\* The reply in the hand of the task.
Hand == IF task = "sending" THEN <<pending>> ELSE <<>>

\* The replies in the order in which they were taken, without those of a task
\* that has stopped.
Line == received \o channel \o Hand

\* What the protocol is asked about an item is what the item squeezes to.
Asked ==
  /\ input = [i \in Calls |-> Argument(batch, i)]
  /\ phase \in [Calls -> Phases]
  /\ DOMAIN result = Calls
  /\ \A i \in Items : phase[i] = "running" => Squeezed(batch[i]).status = "ok"

\* A reply with a fingerprint is that of an item which has left the window.
Right(r, b, progress, k) ==
  r.status = "ok" =>
    /\ r.item_id \in DOMAIN b /\ progress[r.item_id] = "taken"
    /\ LET data == b[r.item_id]
       IN  Ok(r.fingerprint) =
             Assemble(Prepare(data).value, Protocol!NaiveProcess(Squeezed(data).value, k))

AllRight == \A j \in 1 .. Len(Line) : Right(Line[j], batch, item, secret)

NoneTwice ==
  \A j, k \in 1 .. Len(Line) :
    j # k /\ Line[j].status = "ok" /\ Line[k].status = "ok" => Line[j].item_id # Line[k].item_id

EmptyHand == task # "sending" => pending = Nothing

RInv == Asked /\ EmptyHand /\ AllRight /\ NoneTwice
-----------------------------------------------------------------------------
(***************************************************************************)
(* The line of replies.                                                    *)
(***************************************************************************)

\* Two sequences are sequences over one set.
LEMMA Common ==
  ASSUME NEW s, NEW t, Listed(s), Listed(t)
  PROVE  \E S : s \in Seq(S) /\ t \in Seq(S)
PROOF
  <1>1. PICK S : s \in Seq(S)
    BY DEF Listed
  <1>2. PICK T : t \in Seq(T)
    BY DEF Listed
  <1>3. s \in Seq(S \cup T)
    BY <1>1, SeqMonotonic
  <1>4. t \in Seq(S \cup T)
    BY <1>2, SeqMonotonic
  <1>. QED BY <1>3, <1>4

\* An element more in the second of two sequences is the last one of both.
LEMMA AppendedLater ==
  ASSUME NEW s, NEW t, Listed(s), Listed(t), NEW e
  PROVE  /\ Listed(s \o t)
         /\ s \o Append(t, e) \o <<>> = s \o t \o <<e>>
         /\ s \o t \o <<>> = s \o t
         /\ s \o t \o <<e>> = Append(s \o t, e)
PROOF
  <1>1. PICK T : s \in Seq(T) /\ t \in Seq(T)
    BY Common
  <1>. DEFINE S == T \cup {e}
  <1>2. s \in Seq(S) /\ t \in Seq(S) /\ e \in S /\ <<e>> \in Seq(S)
    BY <1>1, SeqMonotonic
  <1>. HIDE DEF S
  <1>3. s \o t \in Seq(S) /\ Append(t, e) \in Seq(S) /\ s \o Append(t, e) \in Seq(S)
    BY <1>2, ConcatProperties, AppendProperties
  <1>4. Append(t, e) = t \o <<e>> /\ s \o t \o <<e>> = Append(s \o t, e)
    BY <1>2, <1>3, AppendIsConcat
  <1>5. s \o Append(t, e) \o <<>> = s \o Append(t, e) /\ s \o t \o <<>> = s \o t
    BY <1>3, ConcatEmptySeq
  <1>6. s \o (t \o <<e>>) = s \o t \o <<e>>
    BY <1>2, ConcatAssociative
  <1>. QED BY <1>3, <1>4, <1>5, <1>6 DEF Listed

\* The head of the second sequence moves to the end of the first.
LEMMA HeadMoves ==
  ASSUME NEW s, NEW t, Listed(s), Listed(t), t # <<>>
  PROVE  Append(s, Head(t)) \o Tail(t) = s \o t
PROOF
  <1>1. PICK S : s \in Seq(S) /\ t \in Seq(S)
    BY Common
  <1>2. /\ Head(t) \in S /\ Tail(t) \in Seq(S) /\ Len(t) \in Nat \ {0}
        /\ t = <<Head(t)>> \o Tail(t) /\ <<Head(t)>> \in Seq(S)
    <2>1. /\ Head(t) \in S /\ Tail(t) \in Seq(S) /\ Len(t) \in Nat \ {0}
          /\ Head(t) = t[1] /\ Tail(t) = SubSeq(t, 2, Len(t))
      BY <1>1, HeadTailProperties, TailIsSubSeq, EmptySeq
    <2>2. SubSeq(t, 1, Len(t)) = <<t[1]>> \o SubSeq(t, 2, Len(t))
      BY <1>1, <2>1, SubSeqRecursiveFirst
    <2>. QED BY <1>1, <2>1, <2>2, SubSeqFull
  <1>3. Append(s, Head(t)) = s \o <<Head(t)>>
    BY <1>1, <1>2, AppendIsConcat
  <1>4. (s \o <<Head(t)>>) \o Tail(t) = s \o (<<Head(t)>> \o Tail(t))
    BY <1>1, <1>2, ConcatAssociative
  <1>. QED BY <1>2, <1>3, <1>4

\* The line is a sequence.
LEMMA LineListed ==
  ASSUME Shape
  PROVE  Listed(Line) /\ Listed(received \o channel)
PROOF
  <1>1. Listed(received \o channel) /\ received \o channel \o <<>> = received \o channel
    BY AppendedLater DEF Shape
  <1>2. received \o channel \o <<pending>> = Append(received \o channel, pending)
    BY AppendedLater DEF Shape
  <1>3. Listed(Append(received \o channel, pending))
    BY <1>1, Appended
  <1>. QED BY <1>1, <1>2, <1>3 DEF Line, Hand
-----------------------------------------------------------------------------
(***************************************************************************)
(* The steps.                                                              *)
(***************************************************************************)

\* The batch and the secret stay, and what was taken stays taken.
Steady ==
  /\ batch' = batch /\ secret' = secret
  /\ \A i \in Items : item[i] = "taken" => item'[i] = "taken"

\* What is right about a reply stays right.
LEMMA StaysRight ==
  ASSUME Steady, NEW r, Right(r, batch, item, secret)
  PROVE  Right(r, batch', item', secret')
PROOF
  <1>. QED BY DEF Steady, Right, Items

\* A step that leaves the line as it is.
LEMMA LineStays ==
  ASSUME AllRight, NoneTwice, Steady, Line' = Line
  PROVE  AllRight' /\ NoneTwice'
PROOF
  <1>1. \A j \in 1 .. Len(Line) : Right(Line[j], batch', item', secret')
    BY StaysRight DEF AllRight
  <1>. QED BY <1>1 DEF AllRight, NoneTwice

\* The elements of a sequence with one more.
LEMMA AppendedElements ==
  ASSUME NEW s, Listed(s), NEW e
  PROVE  /\ Len(s) \in Nat /\ Len(Append(s, e)) = Len(s) + 1
         /\ \A j \in 1 .. Len(s) : Append(s, e)[j] = s[j]
         /\ Append(s, e)[Len(s) + 1] = e
PROOF
  <1>1. PICK S : s \in Seq(S)
    BY DEF Listed
  <1>2. s \in Seq(S \cup {e})
    BY <1>1, SeqMonotonic
  <1>. QED BY <1>2, LenProperties, AppendProperties

\* A step that drops the last reply of the line.
LEMMA LineCut ==
  ASSUME AllRight, NoneTwice, Steady, Listed(Line'), NEW e, Line = Append(Line', e)
  PROVE  AllRight' /\ NoneTwice'
PROOF
  <1>1. /\ Len(Line') \in Nat /\ Len(Line) = Len(Line') + 1
        /\ \A j \in 1 .. Len(Line') : Line[j] = Line'[j]
    BY AppendedElements
  <1>2. \A j \in 1 .. Len(Line') : j \in 1 .. Len(Line)
    BY <1>1
  <1>3. \A j \in 1 .. Len(Line') : Right(Line'[j], batch', item', secret')
    BY <1>1, <1>2, StaysRight DEF AllRight
  <1>. QED BY <1>1, <1>2, <1>3 DEF AllRight, NoneTwice

\* A step that adds the reply of an item which was in the window.
LEMMA LineGrows ==
  ASSUME AllRight, NoneTwice, Steady, Listed(Line), NEW i \in Items, item[i] # "taken",
         Line' = Append(Line, pending'),
         pending'.status = "ok" => pending'.item_id = i, Right(pending', batch', item', secret')
  PROVE  AllRight' /\ NoneTwice'
PROOF
  <1>1. /\ Len(Line) \in Nat /\ Len(Line') = Len(Line) + 1
        /\ \A j \in 1 .. Len(Line) : Line'[j] = Line[j]
        /\ Line'[Len(Line) + 1] = pending'
    BY AppendedElements
  <1>2. \A j \in 1 .. Len(Line') : j \in 1 .. Len(Line) \/ j = Len(Line) + 1
    BY <1>1
  <1>3. \A j \in 1 .. Len(Line) : Right(Line[j], batch', item', secret')
    BY StaysRight DEF AllRight
  <1>4. \A j \in 1 .. Len(Line') : Right(Line'[j], batch', item', secret')
    BY <1>1, <1>2, <1>3
  <1>5. \A j \in 1 .. Len(Line) : Line[j].status = "ok" => Line[j].item_id # i
    BY DEF AllRight, Right
  <1>6. NoneTwice'
    BY <1>1, <1>2, <1>5 DEF NoneTwice
  <1>. QED BY <1>4, <1>6 DEF AllRight

\* Right speaks of the reply only.
LEMMA RightReply ==
  ASSUME Steady, NEW i \in Items, item'[i] = "taken", NEW r, NEW dateTime,
         r.status = "ok" => r.item_id = i,
         r.status = "ok" => Ok(r.fingerprint) = Assemble(Prepare(batch[i]).value, dateTime),
         dateTime = Protocol!NaiveProcess(Squeezed(batch[i]).value, secret)
  PROVE  Right(r, batch', item', secret')
PROOF
  <1>. QED BY DEF Steady, Right, Items

\* A batch that was just received.
LEMMA InitReplies == Init => RInv
PROOF
  <1>. SUFFICES ASSUME Init PROVE RInv
    OBVIOUS
  <1>1. Asked /\ EmptyHand
    <2>1. Items \subseteq Calls
      BY InitBatch, ItemsFinite DEF BInv
    <2>. QED BY <2>1 DEF Init, Asked, EmptyHand, Phases
  <1>2. Line = <<>>
    BY DEF Init, Line, Hand
  <1>3. Len(Line) = 0
    BY <1>2
  <1>. QED BY <1>1, <1>3 DEF RInv, AllRight, NoneTwice

\* An item enters the window, and the protocol is asked if it can be.
LEMMA PullReplies ==
  ASSUME BInv, RInv, NEW i \in Items, Pull(i)
  PROVE  RInv'
PROOF
  <1>. USE DEF RInv
  <1>1. /\ item' = [item EXCEPT ![i] = "window"] /\ item[i] = "waiting"
        /\ IF Squeezed(batch[i]).status = "ok" THEN Protocol!Begin(i) ELSE UNCHANGED protocol
        /\ UNCHANGED <<batch, task, pending, channel, stream, received>>
    BY DEF Pull, Waiting
  <1>2. /\ UNCHANGED <<secret, input, result>>
        /\ phase' = phase \/ (phase' = [phase EXCEPT ![i] = "running"] /\ Squeezed(batch[i]).status = "ok")
    BY <1>1 DEF Protocol!Begin, protocol
  <1>3. Items \subseteq Calls /\ Steady
    BY <1>1, <1>2, ItemsFinite DEF BInv, Shape, Steady
  <1>4. phase' \in [Calls -> Phases]
    BY <1>2 DEF Asked, Phases
  <1>5. Asked'
    BY <1>1, <1>2, <1>3, <1>4 DEF Asked, Items
  <1>6. Line' = Line
    BY <1>1 DEF Line, Hand
  <1>. QED BY <1>1, <1>3, <1>5, <1>6, LineStays DEF EmptyHand

\* An item is taken with a reply that is right about it.
LEMMA TakeReplies ==
  ASSUME BInv, RInv, NEW i \in Items, Polls(i), NEW outcome, Take(i, outcome),
         secret' = secret, Asked',
         outcome.status = "ok" =>
           outcome = Assemble(Prepare(batch[i]).value,
                              Protocol!NaiveProcess(Squeezed(batch[i]).value, secret))
  PROVE  RInv'
PROOF
  <1>. USE DEF RInv
  <1>. DEFINE dateTime == Protocol!NaiveProcess(Squeezed(batch[i]).value, secret)
  <1>1. /\ item' = [item EXCEPT ![i] = "taken"] /\ item[i] = "window"
        /\ task = "polling" /\ task' = "sending"
        /\ UNCHANGED <<batch, channel, stream, received>>
    BY DEF Take, Polls, InWindow
  <1>2. i \in Calls /\ item'[i] = "taken" /\ Steady
    BY <1>1, ItemsFinite DEF BInv, Shape, Steady
  <1>3. /\ pending'.status = "ok" => outcome.status = "ok"
        /\ pending'.status = "ok" => pending'.item_id = i /\ pending'.fingerprint = outcome.value
    BY DEF Take
  <1>4. ASSUME outcome.status = "ok" PROVE outcome = Ok(outcome.value)
    <2>1. outcome = Assemble(Prepare(batch[i]).value, dateTime)
      BY <1>4
    <2>. HIDE DEF dateTime
    <2>. QED BY <1>4, <2>1 DEF Assemble, Ok
  <1>5. pending'.status = "ok" =>
          Ok(pending'.fingerprint) = Assemble(Prepare(batch[i]).value, dateTime)
    BY <1>3, <1>4
  <1>6. Right(pending', batch', item', secret')
    BY <1>2, <1>3, <1>5, RightReply
  <1>7. Line' = Append(Line, pending') /\ Listed(Line)
    <2>1. Line = received \o channel \o <<>> /\ Line' = received \o channel \o <<pending'>>
      BY <1>1 DEF Line, Hand
    <2>2. Listed(received) /\ Listed(channel)
      BY DEF BInv, Shape
    <2>. QED BY <2>1, <2>2, AppendedLater
  <1>8. AllRight' /\ NoneTwice'
    BY <1>1, <1>2, <1>3, <1>6, <1>7, LineGrows
  <1>. QED BY <1>1, <1>8 DEF EmptyHand

\* A poll that completes an item, in one of three ways.
LEMMA PollReplies ==
  ASSUME BInv, RInv, NEW i \in Items, TakeRejected(i) \/ TakeCompleted(i) \/ TakeAborted(i)
  PROVE  RInv'
PROOF
  <1>. USE DEF RInv
  <1>1. Items \subseteq Calls
    BY ItemsFinite DEF BInv
  <1>2. CASE TakeRejected(i)
    <2>1. Polls(i) /\ Take(i, Squeezed(batch[i])) /\ Squeezed(batch[i]).status # "ok"
      BY <1>2 DEF TakeRejected
    <2>2. UNCHANGED <<secret, input, phase, result, batch>>
      BY <1>2, <2>1 DEF TakeRejected, Take, protocol
    <2>3. Asked'
      BY <2>2 DEF Asked, Items
    <2>. QED BY <2>1, <2>2, <2>3, TakeReplies
  <1>3. CASE TakeCompleted(i)
    <2>. DEFINE outcome == Assemble(Prepare(batch[i]).value, result'[i])
    <2>1. Polls(i) /\ Take(i, outcome) /\ Protocol!Return(i) /\ batch' = batch
      BY <1>3 DEF TakeCompleted, Take
    <2>2. /\ phase[i] = "running" /\ phase' = [phase EXCEPT ![i] = "ok"]
          /\ result' = [result EXCEPT ![i] = Protocol!NaiveProcess(input[i], secret)]
          /\ UNCHANGED <<secret, input>>
      BY <2>1 DEF Protocol!Return
    <2>3. input[i] = Squeezed(batch[i]).value
      BY <1>1, <2>2 DEF Asked, Argument, Items
    <2>4. result'[i] = Protocol!NaiveProcess(Squeezed(batch[i]).value, secret)
      BY <1>1, <2>2, <2>3 DEF Asked
    <2>5. phase' \in [Calls -> Phases] /\ DOMAIN result' = Calls
      BY <2>2 DEF Asked, Phases
    <2>6. Asked'
      BY <1>1, <2>1, <2>2, <2>5 DEF Asked, Items
    <2>7. outcome = Assemble(Prepare(batch[i]).value,
                             Protocol!NaiveProcess(Squeezed(batch[i]).value, secret))
      BY <2>4
    <2>. HIDE DEF outcome
    <2>. QED BY <2>1, <2>2, <2>6, <2>7, TakeReplies
  <1>4. CASE TakeAborted(i)
    <2>1. Polls(i) /\ Take(i, Failed("aborted")) /\ Protocol!Fail(i) /\ batch' = batch
      BY <1>4 DEF TakeAborted, Take
    <2>2. /\ phase' = [phase EXCEPT ![i] = "error"] \/ phase' = [phase EXCEPT ![i] = "panicked"]
          /\ UNCHANGED <<secret, input, result>>
      BY <2>1 DEF Protocol!Fail
    <2>3. phase' \in [Calls -> Phases]
      BY <2>2 DEF Asked, Phases
    <2>4. Asked'
      BY <1>1, <2>1, <2>2, <2>3 DEF Asked, Items
    <2>5. Failed("aborted").status # "ok"
      BY DEF Failed
    <2>. QED BY <2>1, <2>2, <2>4, <2>5, TakeReplies
  <1>. QED BY <1>2, <1>3, <1>4

\* What a task that stops drops is not among the replies.
LEMMA DroppingReplies ==
  ASSUME BInv, RInv, DropWindow
  PROVE  Steady /\ Asked'
PROOF
  <1>1. /\ item' = [i \in Calls |-> IF item[i] \in {"window", "waiting"}
                                    THEN "dropped" ELSE item[i]]
        /\ phase' = [i \in Calls |-> IF phase[i] = "running" THEN "lost" ELSE phase[i]]
        /\ UNCHANGED <<secret, input, result, batch>>
    BY DEF DropWindow
  <1>2. Items \subseteq Calls
    BY ItemsFinite DEF BInv
  <1>3. Steady
    BY <1>1, <1>2 DEF Steady
  <1>4. phase' \in [Calls -> Phases]
    BY <1>1 DEF RInv, Asked, Phases
  <1>5. Asked'
    BY <1>1, <1>2, <1>4 DEF RInv, Asked, Items
  <1>. QED BY <1>3, <1>5

\* The task panics with an empty hand, or drops what it holds.
LEMMA StopReplies ==
  ASSUME BInv, RInv, SendFails \/ \E i \in Items : TaskPanics(i)
  PROVE  RInv'
PROOF
  <1>. USE DEF RInv
  <1>1. CASE SendFails
    <2>1. /\ task = "sending" /\ task' = "ended" /\ DropWindow /\ pending' = Nothing
          /\ UNCHANGED <<channel, stream, received>>
      BY <1>1 DEF SendFails
    <2>2. Line = received \o channel \o <<pending>> /\ Line' = received \o channel \o <<>>
      BY <2>1 DEF Line, Hand
    <2>3. Listed(received) /\ Listed(channel)
      BY DEF BInv, Shape
    <2>4. Line = Append(Line', pending) /\ Listed(Line')
      BY <2>2, <2>3, AppendedLater
    <2>. QED BY <2>1, <2>4, DroppingReplies, LineCut DEF EmptyHand
  <1>2. CASE \E i \in Items : TaskPanics(i)
    <2>1. /\ task = "polling" /\ task' = "panicked" /\ DropWindow
          /\ UNCHANGED <<pending, channel, stream, received>>
      BY <1>2 DEF TaskPanics, Polls
    <2>2. Line' = Line
      BY <2>1 DEF Line, Hand
    <2>. QED BY <2>1, <2>2, DroppingReplies, LineStays DEF EmptyHand
  <1>. QED BY <1>1, <1>2

\* The replies move along, or nothing happens to them.
LEMMA MoveReplies ==
  ASSUME BInv, RInv,
         Send \/ TaskEnds \/ Receive \/ EndOfStream \/ ClientLeaves \/ UNCHANGED vars
  PROVE  RInv'
PROOF
  <1>. USE DEF RInv
  <1>1. UNCHANGED <<secret, input, phase, result, batch, item>>
    BY DEF Send, TaskEnds, Receive, EndOfStream, ClientLeaves, vars
  <1>2. Asked' /\ Steady
    BY <1>1 DEF Asked, Items, Steady
  <1>3. Listed(received) /\ Listed(channel)
    BY DEF BInv, Shape
  <1>4. Line' = Line /\ EmptyHand'
    <2>1. CASE Send
      <3>1. /\ task = "sending" /\ task' = "polling" /\ pending' = Nothing
            /\ channel' = Append(channel, pending) /\ received' = received
        BY <2>1 DEF Send
      <3>2. /\ Line = received \o channel \o <<pending>>
            /\ Line' = received \o Append(channel, pending) \o <<>>
        BY <3>1 DEF Line, Hand
      <3>. QED BY <1>3, <3>1, <3>2, AppendedLater DEF EmptyHand
    <2>2. CASE Receive
      <3>1. /\ channel # <<>> /\ received' = Append(received, Head(channel))
            /\ channel' = Tail(channel) /\ UNCHANGED <<task, pending>>
        BY <2>2 DEF Receive
      <3>2. received' \o channel' = received \o channel
        BY <1>3, <3>1, HeadMoves
      <3>. QED BY <3>1, <3>2 DEF Line, Hand, EmptyHand
    <2>3. CASE TaskEnds
      BY <2>3 DEF TaskEnds, Line, Hand, EmptyHand
    <2>4. CASE EndOfStream \/ ClientLeaves \/ UNCHANGED vars
      BY <2>4 DEF EndOfStream, ClientLeaves, vars, Line, Hand, EmptyHand
    <2>. QED BY <2>1, <2>2, <2>3, <2>4
  <1>. QED BY <1>2, <1>4, LineStays

\* Every step keeps the invariant.
LEMMA NextReplies == BInv /\ RInv /\ [Next]_vars => RInv'
PROOF
  <1>. QED BY PullReplies, PollReplies, StopReplies, MoveReplies DEF Next, Poll

-----------------------------------------------------------------------------
\* However the items of a batch overtake each other, and wherever their replies
\* are, each carries the fingerprint of the item it names and no other does.
THEOREM RepliesMatch == Spec => []RepliesMatchItems
PROOF
  <1>1. BInv /\ RInv => RepliesMatchItems
    <2>. SUFFICES ASSUME BInv, RInv PROVE RepliesMatchItems
      OBVIOUS
    <2>1. /\ Listed(received) /\ Listed(channel) /\ Listed(received \o channel)
          /\ received \o channel \o <<>> = received \o channel
          /\ received \o channel \o <<pending>> = Append(received \o channel, pending)
          /\ Listed(Append(received \o channel, pending))
      BY AppendedLater, Appended DEF BInv, Shape
    <2>2. Listed(Sent) /\ (Line = Sent \/ Line = Append(Sent, pending))
      BY <2>1 DEF Sent, Line, Hand, RInv, EmptyHand
    <2>3. /\ DOMAIN Sent = 1 .. Len(Sent) /\ Len(Sent) \in Nat
          /\ \A j \in 1 .. Len(Sent) : j \in 1 .. Len(Line) /\ Line[j] = Sent[j]
      <3>1. DOMAIN Sent = 1 .. Len(Sent) /\ Len(Sent) \in Nat
        BY <2>2, LenProperties DEF Listed
      <3>. QED BY <2>2, <3>1, AppendedElements
    <2>4. \A j \in DOMAIN Sent : Right(Sent[j], batch, item, secret)
      BY <2>3 DEF RInv, AllRight
    <2>5. \A j, k \in DOMAIN Sent :
            j # k /\ Sent[j].status = "ok" /\ Sent[k].status = "ok"
              => Sent[k].item_id # Sent[j].item_id
      BY <2>3 DEF RInv, NoneTwice
    <2>. QED BY <2>4, <2>5 DEF Right, RepliesMatchItems, Items
  <1>. QED BY <1>1, InitReplies, NextReplies, BatchInvariant, PTL DEF Spec
-----------------------------------------------------------------------------
(***************************************************************************)
(* Types.                                                                  *)
(***************************************************************************)

\* Nothing is told apart from every reply, as None is from Some in the code.
NothingIsNoReply ==
  \A status, i, value :
    /\ Nothing # Failed(status)
    /\ Nothing # [status |-> "ok", item_id |-> i, fingerprint |-> value]

\* What is not a value of a conversion or of a component is a status.
LEMMA RejectionIsStatus ==
  ASSUME NEW data, Squeezed(data).status # "ok"
  PROVE  \E status : Squeezed(data) = Failed(status)
PROOF
  <1>1. \A raw : SqueezeDateTime(raw).status # "ok" =>
          \E status : SqueezeDateTime(raw) = Failed(status)
    BY DEF SqueezeDateTime, Ok
  <1>2. \A amount : Convert(amount).status # "ok" =>
          \E status : Convert(amount) = Failed(status)
    BY DEF Convert, Ok
  <1>3. Prepare(data).status # "ok" => \E status : Prepare(data) = Failed(status)
    BY <1>2 DEF Prepare, Ok
  <1>. QED BY <1>1, <1>3 DEF Squeezed

\* The same of the rest of the components.
LEMMA AssemblyIsStatus ==
  ASSUME NEW raw, NEW dateTime, Assemble(raw, dateTime).status # "ok"
  PROVE  \E status : Assemble(raw, dateTime) = Failed(status)
PROOF
  <1>1. \A bic : BankAndCountry(bic).status # "ok" =>
          \E status : BankAndCountry(bic) = Failed(status)
    BY DEF BankAndCountry, Ok
  <1>. QED BY <1>1 DEF Assemble, Ok

\* The task has a reply in its hand when it sends.
HoldsReply == task = "sending" => pending # Nothing

\* An item that is taken leaves its reply in the hand.
LEMMA TakenIsHeld ==
  ASSUME NothingIsNoReply, NEW i \in Items, Poll(i), task' = "sending"
  PROVE  pending' # Nothing
PROOF
  <1>1. ASSUME NEW outcome, Take(i, outcome),
               outcome.status # "ok" => \E status : outcome = Failed(status)
        PROVE  pending' # Nothing
    <2>1. CASE outcome.status = "ok"
      BY <1>1, <2>1 DEF Take, NothingIsNoReply
    <2>2. CASE outcome.status # "ok"
      BY <1>1, <2>2 DEF Take, NothingIsNoReply
    <2>. QED BY <2>1, <2>2
  <1>2. CASE TakeRejected(i)
    BY <1>1, <1>2, RejectionIsStatus DEF TakeRejected
  <1>3. CASE TakeCompleted(i)
    BY <1>1, <1>3, AssemblyIsStatus DEF TakeCompleted
  <1>4. CASE TakeAborted(i)
    BY <1>1, <1>4 DEF TakeAborted
  <1>5. ~ TaskPanics(i)
    BY DEF TaskPanics
  <1>. QED BY <1>2, <1>3, <1>4, <1>5 DEF Poll

\* Every other step leaves the hand as it is, or empties it and polls or ends.
LEMMA NextHeld == NothingIsNoReply /\ HoldsReply /\ [Next]_vars => HoldsReply'
PROOF
  <1>. SUFFICES ASSUME NothingIsNoReply, HoldsReply, [Next]_vars PROVE HoldsReply'
    OBVIOUS
  <1>1. CASE \E i \in Items : Poll(i)
    BY <1>1, TakenIsHeld DEF HoldsReply
  <1>2. CASE \E i \in Items : Pull(i)
    BY <1>2 DEF Pull, HoldsReply
  <1>3. CASE Send \/ SendFails \/ TaskEnds
    BY <1>3 DEF Send, SendFails, TaskEnds, HoldsReply
  <1>4. CASE Receive \/ EndOfStream \/ ClientLeaves \/ UNCHANGED vars
    BY <1>4 DEF Receive, EndOfStream, ClientLeaves, vars, HoldsReply
  <1>. QED BY <1>1, <1>2, <1>3, <1>4 DEF Next

\* The task has a reply exactly while it sends, and the channel never holds
\* more than its capacity.
THEOREM TypeCorrect ==
  ASSUME NothingIsNoReply
  PROVE  Spec => []TypeOK
PROOF
  <1>1. Init => HoldsReply
    BY DEF Init, HoldsReply
  <1>2. BInv /\ RInv /\ HoldsReply => TypeOK
    BY DEF BInv, Shape, Bounded, RInv, EmptyHand, HoldsReply, TypeOK
  <1>3. HoldsReply /\ [Next]_vars => HoldsReply'
    BY NextHeld
  <1>4. BInv /\ RInv /\ [Next]_vars => RInv'
    BY NextReplies
  <1>. QED BY <1>1, <1>2, <1>3, <1>4, InitReplies, BatchInvariant, PTL DEF Spec
=============================================================================
