-------------------------- MODULE SingleFingerprint -------------------------
(***************************************************************************)
(* compute_single_fingerprint of FingerprintService, called concurrently,  *)
(* over any implementation of the trait FingerprintProtocol.  The protocol *)
(* is what module FingerprintProtocol promises and nothing more.           *)
(*                                                                         *)
(* A caller of the library, whose amount is a decimal or an integer, takes *)
(* the same steps itself; it gets as an Err what the service answers with  *)
(* a status.                                                               *)
(***************************************************************************)
EXTENDS TransactionData, CurveHash, FiniteSets

CONSTANTS
  Calls, NoResult,  \* of FingerprintProtocol
  Requests,  \* the transaction_data of the requests clients send
  Secrets,   \* the secrets the protocol may hold
  NoReply

VARIABLES
  secret, input, phase, result,  \* of FingerprintProtocol
  request,  \* the transaction_data of each call
  reply     \* NoReply, or the outcome the client sees

vars == <<secret, input, phase, result, request, reply>>

Protocol == INSTANCE FingerprintProtocol

\* What the date-time component passes to the protocol.
Squeezed(data) ==
  LET raw == Prepare(data)
  IN  IF raw.status # "ok" THEN raw ELSE SqueezeDateTime(raw.value)

\* The argument of process; calls that never get there have an arbitrary one.
Argument(data) ==
  IF Squeezed(data).status = "ok" THEN Squeezed(data).value ELSE CHOOSE x \in Inputs : TRUE

Init ==
  /\ request \in [Calls -> Requests]
  /\ secret \in Secrets
  /\ input = [c \in Calls |-> Argument(request[c])]
  /\ phase = [c \in Calls |-> "idle"]
  /\ result = [c \in Calls |-> NoResult]
  /\ reply = [c \in Calls |-> NoReply]

\* Conversion or the date-time component fails before the protocol is asked.
Reject(c) ==
  /\ phase[c] = "idle" /\ reply[c] = NoReply
  /\ Squeezed(request[c]).status # "ok"
  /\ reply' = [reply EXCEPT ![c] = Squeezed(request[c])]
  /\ UNCHANGED <<secret, input, phase, result, request>>

\* The call awaits the protocol.
Await(c) ==
  /\ reply[c] = NoReply
  /\ Squeezed(request[c]).status = "ok"
  /\ Protocol!Begin(c)
  /\ UNCHANGED <<request, reply>>

\* The protocol succeeds, the rest is serialized and hashed, and sent.
Complete(c) ==
  /\ Protocol!Return(c)
  /\ reply' = [reply EXCEPT ![c] = Assemble(Prepare(request[c]).value, result'[c])]
  /\ UNCHANGED request

\* A bug this model must notice: the Err of the protocol is not passed on.
AbortUnanswered(c) ==
  /\ Protocol!Fail(c)
  /\ UNCHANGED <<request, reply>>

\* The protocol fails, with an Err or a panic.
Abort(c) ==
  /\ Protocol!Fail(c)
  /\ reply' = [reply EXCEPT
       ![c] = Failed(IF phase'[c] = "error" THEN "aborted" ELSE "panicked")]
  /\ UNCHANGED request

\* The client goes away and the server drops the call where it awaits.
Cancel(c) ==
  /\ phase[c] = "running"
  /\ phase' = [phase EXCEPT ![c] = "lost"]
  /\ reply' = [reply EXCEPT ![c] = Failed("cancelled")]
  /\ UNCHANGED <<secret, input, result, request>>

Next == \E c \in Calls : Reject(c) \/ Await(c) \/ Complete(c) \/ Abort(c) \/ Cancel(c)

Spec == Init /\ [][Next]_vars
-----------------------------------------------------------------------------
(***************************************************************************)
(* Properties.                                                             *)
(***************************************************************************)

Statuses == {"ok", "invalid_argument", "unknown", "aborted", "panicked", "cancelled"}

\* Typing.  A call whose protocol run has ended has an outcome.
TypeOK ==
  /\ request \in [Calls -> Requests]
  /\ phase \in [Calls -> {"idle", "running", "ok", "error", "panicked", "lost"}]
  /\ \A c \in Calls : reply[c] # NoReply => reply[c].status \in Statuses
  /\ \A c \in Calls : reply[c] = NoReply => phase[c] \in {"idle", "running"}

Abs(n) == IF n < 0 THEN -n ELSE n

Fingerprinted(c) == reply[c] # NoReply /\ reply[c].status = "ok"

\* What identifies a transaction, without reference to how the code computes it.
\* The bank and country of the code its identifier ends with, the longest one.
Code(bic) ==
  CHOOSE code \in Suffixes(bic) :
    /\ Len(code) \in {8, 11} /\ EndsInCode(bic, Len(code))
    /\ Len(code) = 8 => ~ EndsInCode(bic, 11)

\* The amount in atto, however it is written and whatever its sign.
Atto(amount) ==
  CASE amount.kind = "parts"   -> amount.units * AttoPerUnit + amount.atto
    [] amount.kind = "integer" -> Abs(amount.value) * AttoPerUnit
    [] amount.kind = "decimal" -> Abs(amount.repr) \div DecimalsPerAtto

\* The reading of the clock to the second.  A leap second, which only exists at
\* midnight, is not the first second of the day it precedes; one that a client
\* claims within a day reads as the next second.
Clock(t) ==
  LET leap == t.nanos >= NanosPerSecond
      last == t.seconds % SecondsPerDay = SecondsPerDay - 1
  IN  <<IF leap /\ ~ last THEN t.seconds + 1 ELSE t.seconds, leap /\ last>>

SameTransaction(a, b) ==
  /\ SubSeq(Code(a.bic), 1, 6) = SubSeq(Code(b.bic), 1, 6)
  /\ Atto(a.amount) = Atto(b.amount)
  /\ a.amount.currency = b.amount.currency
  /\ Clock(a.date_time) = Clock(b.date_time)

\* What the types of the interface and of the library let a request be.  Of
\* the decimals, those that are not negative and whose units fit their u64.
Representable(data) ==
  data # Missing =>
    /\ DOMAIN data = {"bic", "amount", "date_time"}
    /\ Len(data.bic) \in Nat
    /\ data.bic = [k \in 1 .. Len(data.bic) |-> data.bic[k]]
    /\ data.date_time # Missing =>
         data.date_time.seconds \in Int /\ data.date_time.nanos \in Nat
    /\ data.amount # Missing =>
         \/ data.amount.kind = "parts" /\ {data.amount.units, data.amount.atto} \subseteq Nat
         \/ data.amount.kind = "integer" /\ data.amount.value \in Int
         \/ data.amount.kind = "decimal" /\ data.amount.repr \in 0 .. U64 * FracScale - 1

\* A hash to the curve without collisions, and a secret that is not zero.
Ideal ==
  /\ FracScale <= U64
  /\ Secrets \subseteq Field \ {0}
  /\ \A x, y \in Inputs : HashToCurve[x] = HashToCurve[y] => x = y
  /\ \A data \in Requests : Squeezed(data).status = "ok" => Squeezed(data).value \in Inputs

\* Two calls return the same fingerprint exactly for the same transaction,
\* however it is written: no component, nonce or normalisation makes different
\* transactions collide or tears formats of one transaction apart.
FingerprintsIdentify ==
  \A c, d \in Calls : Fingerprinted(c) /\ Fingerprinted(d) =>
    (reply[c].value = reply[d].value <=> SameTransaction(request[c], request[d]))

\* No transaction of a time before the epoch, not even by a fraction of the
\* last second, which num_seconds rounds to zero, gets a fingerprint.
NothingBeforeEpoch ==
  \A c \in Calls : Fingerprinted(c) => request[c].date_time.seconds >= EpochSecond
-----------------------------------------------------------------------------
(***************************************************************************)
(* What the documentation says and the code does not keep.                 *)
(***************************************************************************)

\* date_time_raw.rs: the days since the epoch are "validated in range
\* [0, u32::MAX]": a date in that range is one the component can squeeze.
ValidatedDatesAreUsable ==
  \A c \in Calls : reply[c] # NoReply /\ Prepare(request[c]).status = "ok" =>
    (DaysSinceEpoch(request[c].date_time) \in 0 .. MaxDays /\ phase[c] = "idle"
       => reply[c].status # "panicked")

\* README: "Collision Resistant: Extensive testing ensures no fingerprint
\* collisions": transactions with the same fingerprint have the same amount,
\* when the sign of both is disregarded.
NoCollisions ==
  \A c, d \in Calls : Fingerprinted(c) /\ Fingerprinted(d) =>
    (reply[c].value = reply[d].value => Atto(request[c].amount) = Atto(request[d].amount))
=============================================================================
