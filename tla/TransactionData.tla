--------------------------- MODULE TransactionData --------------------------
(***************************************************************************)
(* How a request of the gRPC interface becomes a fingerprint: the          *)
(* conversion into RawTransaction and TransactionFingerprintData, and the  *)
(* components, each with its guards.  Strings are sequences of characters; *)
(* hashes are tagged tuples of what they digest.  The outcome of a step    *)
(* that may fail is [status |-> ...] with a value when the status is "ok". *)
(***************************************************************************)
EXTENDS MoneyConversion, SequencesExt

CONSTANTS
  Letters,           \* the characters [A-Z] that occur
  Digits,            \* the characters [0-9] that occur
  NanosPerSecond,    \* 10^9
  SecondsPerMinute,  \* 60
  SecondsPerDay,     \* 86400
  MaxTimestamp,      \* the last second chrono can represent
  EpochSecond,       \* the Unix time of EPOCH, 2025-01-01T00:00:00
  MaxDays,           \* u32::MAX
  LowAmount,         \* 2^48: the amounts the last six bytes of one can hold
  Missing            \* an absent message field

ASSUME ScaleAssumption ==
  /\ {NanosPerSecond, SecondsPerMinute, SecondsPerDay, LowAmount} \subseteq Nat \ {0}
  /\ {MaxTimestamp, EpochSecond, MaxDays} \subseteq Nat
  /\ EpochSecond % SecondsPerDay = 0
  /\ SecondsPerDay % SecondsPerMinute = 0

Alphanumeric == Letters \cup Digits
-----------------------------------------------------------------------------
(***************************************************************************)
(* Conversion of the request (dto_convert and TryFrom<RawTransaction>).    *)
(***************************************************************************)

\* DateTime::from_timestamp: a leap second is the last of its minute.
ValidTimestamp(t) ==
  /\ t.seconds <= MaxTimestamp
  /\ \/ t.nanos < NanosPerSecond
     \/ t.nanos < 2 * NanosPerSecond /\ t.seconds % SecondsPerMinute = SecondsPerMinute - 1

\* The first error decides; anyhow errors become the status "unknown".
Prepare(data) ==
  IF data = Missing THEN Failed("invalid_argument")
  ELSE IF data.date_time = Missing \/ data.amount = Missing THEN Failed("invalid_argument")
  ELSE IF ~ ValidTimestamp(data.date_time) THEN Failed("unknown")
  ELSE IF Convert(data.amount).status # "ok" THEN Convert(data.amount)
  ELSE Ok([data EXCEPT !.amount = Convert(data.amount).value])
-----------------------------------------------------------------------------
(***************************************************************************)
(* The components.                                                         *)
(***************************************************************************)

\* signed_duration_since and num_seconds: a leap second counts as the next one.
SecondsSinceEpoch(t) ==
  Truncate((t.seconds - EpochSecond) * NanosPerSecond + t.nanos, NanosPerSecond)

\* date_naive() of the time stamp, as days since the epoch.
DaysSinceEpoch(t) ==
  (t.seconds \div SecondsPerDay) - (EpochSecond \div SecondsPerDay)

\* A bug a model of the components must notice: units and atto are added up.
UnscaledAmount(amount) == amount.units + amount.atto

FullAmount(amount) == amount.units * AttoPerUnit + amount.atto

CantorPair(x, y) == (x * x + 3 * x + 2 * x * y + y + y * y) \div 2

\* A bug a model of the components must notice: the days of an earlier date
\* are counted without their sign.
SqueezeAbsoluteDays(raw) ==
  LET seconds == SecondsSinceEpoch(raw.date_time)
      days    == IF DaysSinceEpoch(raw.date_time) < 0
                 THEN -DaysSinceEpoch(raw.date_time) ELSE DaysSinceEpoch(raw.date_time)
  IN  IF seconds < 0 \/ days > MaxDays THEN Failed("aborted")
      ELSE IF days = 0 THEN Failed("panicked")
      ELSE Ok(<<"poseidon3", seconds, days,
                CantorPair(seconds, FullAmount(raw.amount) \div days)>>)

\* DateTimeComponent::squeeze.  The nonce divides by the number of days.
SqueezeDateTime(raw) ==
  LET seconds == SecondsSinceEpoch(raw.date_time)
      days    == DaysSinceEpoch(raw.date_time)
  IN  IF seconds < 0 THEN Failed("aborted")
      ELSE IF days < 0 \/ days > MaxDays THEN Failed("aborted")
      ELSE IF days = 0 THEN Failed("panicked")
      ELSE Ok(<<"poseidon3", seconds, days,
                CantorPair(seconds, FullAmount(raw.amount) \div days)>>)

\* The last n characters are a business identifier code of that length.
EndsInCode(bic, n) ==
  /\ Len(bic) >= n
  /\ \A k \in 1 .. n :
       bic[Len(bic) - n + k] \in (IF k <= 6 THEN Letters ELSE Alphanumeric)

\* The regular expression has no anchor at its start: it takes the leftmost
\* code, with or without a branch, that ends where the string ends.
BankAndCountry(bic) ==
  LET From(n) == Ok(SubSeq(bic, Len(bic) - n + 1, Len(bic) - n + 6))
  IN  IF EndsInCode(bic, 11) THEN From(11)
      ELSE IF EndsInCode(bic, 8) THEN From(8)
      ELSE Failed("aborted")

\* HashSqueeze for Bytes: the limbs, each below the modulus, chained by Poseidon.
SqueezeBytes(limbs) ==
  FoldLeft(LAMBDA hash, limb : <<"poseidon2", limb, hash>>, 0, limbs)

\* The eighty bytes a transaction is serialized to, cut in four: the prefix, the
\* code and the six first bytes of the amount, which are zero; the amount but
\* for its six last bytes; these, the currency and a part of the protocol's
\* result; the rest of that.
Limbs(bic, amount, currency, date_time) ==
  <<bic, amount \div LowAmount,
    <<amount % LowAmount, currency, "head", date_time>>, <<"tail", date_time>>>>

\* TransactionFingerprintData::fingerprint.
Assemble(raw, date_time) ==
  LET bic == BankAndCountry(raw.bic)
  IN  IF bic.status # "ok" THEN bic
      ELSE Ok(SqueezeBytes(Limbs(bic.value, FullAmount(raw.amount), raw.amount.currency, date_time)))
=============================================================================
