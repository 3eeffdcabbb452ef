---------------------- MODULE SingleFingerprintProofs ----------------------
(***************************************************************************)
(* Theorems about SingleFingerprint for every calendar, every set of       *)
(* requests and every number of concurrent calls: no transaction of a time *)
(* before the epoch gets a fingerprint, and two calls return the same one  *)
(* exactly for the same transaction.                                       *)
(***************************************************************************)
EXTENDS SingleFingerprint, SecretSharingProofs

\* What protobuf hands to the service: a message that is there has its fields,
\* and the seconds of a time stamp are an integer.
WellFormed(data) ==
  data # Missing =>
    /\ "date_time" \in DOMAIN data
    /\ data.date_time # Missing => data.date_time.seconds \in Int

\* A time before the epoch is of an earlier day: the epoch is a midnight.
LEMMA EarlierDay ==
  ASSUME NEW t, t.seconds \in Int, t.seconds < EpochSecond
  PROVE  DaysSinceEpoch(t) < 0
PROOF
  <1>. DEFINE day   == t.seconds \div SecondsPerDay
              epoch == EpochSecond \div SecondsPerDay
              rest  == t.seconds % SecondsPerDay
  <1>1. SecondsPerDay \in Nat \ {0} /\ EpochSecond \in Nat /\ EpochSecond % SecondsPerDay = 0
    BY ScaleAssumption
  <1>2. /\ day \in Int /\ epoch \in Int /\ rest \in Nat
        /\ t.seconds = SecondsPerDay * day + rest
        /\ EpochSecond = SecondsPerDay * epoch
    BY <1>1
  <1>. HIDE DEF day, epoch, rest
  <1>3. SecondsPerDay * (day - epoch) < 0
    BY <1>1, <1>2
  <1>4. day < epoch
    <2>. SUFFICES ASSUME day >= epoch PROVE FALSE
      BY <1>2
    <2>1. SecondsPerDay * (day - epoch) >= 0
      BY <1>1, <1>2
    <2>. QED BY <1>1, <1>2, <1>3, <2>1
  <1>. QED BY <1>2, <1>4 DEF DaysSinceEpoch, day, epoch

\* The conversion leaves the time stamp alone, and the component rejects a
\* negative number of days, also where the seconds have been rounded to zero.
LEMMA SqueezedLater ==
  ASSUME NEW data, WellFormed(data), Squeezed(data).status = "ok"
  PROVE  data.date_time.seconds >= EpochSecond
PROOF
  <1>. DEFINE raw == Prepare(data)
              t   == data.date_time
  <1>1. raw.status = "ok" /\ SqueezeDateTime(raw.value).status = "ok"
    BY DEF Squeezed
  <1>2. /\ data # Missing /\ t # Missing
        /\ raw.value = [data EXCEPT !.amount = Convert(data.amount).value]
    BY <1>1 DEF Prepare, Failed, Ok
  <1>3. raw.value.date_time = t /\ t.seconds \in Int
    BY <1>2 DEF WellFormed
  <1>4. ~ (DaysSinceEpoch(t) < 0)
    BY <1>1, <1>3 DEF SqueezeDateTime, Failed
  <1>5. EpochSecond \in Int
    BY ScaleAssumption
  <1>. QED BY <1>3, <1>4, <1>5, EarlierDay

\* A call has asked the protocol only about a date it could squeeze, and only
\* such a call has a fingerprint.
AskedWithDate ==
  /\ request \in [Calls -> Requests]
  /\ phase \in [Calls -> {"idle", "running", "ok", "error", "panicked", "lost"}]
  /\ \A c \in Calls :
       /\ phase[c] # "idle" => Squeezed(request[c]).status = "ok"
       /\ Fingerprinted(c) => phase[c] # "idle"

\* Every step keeps it.
LEMMA NextAsked == AskedWithDate /\ [Next]_vars => AskedWithDate'
PROOF
  <1>. SUFFICES ASSUME AskedWithDate, [Next]_vars PROVE AskedWithDate'
    OBVIOUS
  <1>. USE DEF AskedWithDate, Fingerprinted
  <1>1. ASSUME NEW c \in Calls, Reject(c) PROVE AskedWithDate'
    BY <1>1 DEF Reject
  <1>2. ASSUME NEW c \in Calls, Await(c) PROVE AskedWithDate'
    BY <1>2 DEF Await, Protocol!Begin
  <1>3. ASSUME NEW c \in Calls, Complete(c) PROVE AskedWithDate'
    BY <1>3 DEF Complete, Protocol!Return
  <1>4. ASSUME NEW c \in Calls, Abort(c) PROVE AskedWithDate'
    BY <1>4 DEF Abort, Protocol!Fail, Failed
  <1>5. ASSUME NEW c \in Calls, Cancel(c) PROVE AskedWithDate'
    BY <1>5 DEF Cancel, Failed
  <1>6. CASE UNCHANGED vars
    BY <1>6 DEF vars
  <1>. QED BY <1>1, <1>2, <1>3, <1>4, <1>5, <1>6 DEF Next

\* Whatever the number of calls and whichever requests they carry.
THEOREM EpochIsFirst ==
  ASSUME \A data \in Requests : WellFormed(data)
  PROVE  Spec => []NothingBeforeEpoch
PROOF
  <1>1. Init => AskedWithDate
    BY DEF Init, AskedWithDate, Fingerprinted
  <1>2. AskedWithDate => NothingBeforeEpoch
    <2>. SUFFICES ASSUME AskedWithDate, NEW c \in Calls, Fingerprinted(c)
                  PROVE  request[c].date_time.seconds >= EpochSecond
      BY DEF NothingBeforeEpoch
    <2>1. Squeezed(request[c]).status = "ok" /\ WellFormed(request[c])
      BY DEF AskedWithDate
    <2>. QED BY <2>1, SqueezedLater
  <1>. QED BY <1>1, <1>2, NextAsked, PTL DEF Spec
-----------------------------------------------------------------------------
(***************************************************************************)
(* Quotients.                                                              *)
(***************************************************************************)

\* There is one quotient and one remainder.
LEMMA QuotientUnique ==
  ASSUME NEW d \in Nat \ {0}, NEW a \in Int, NEW q \in Int, NEW m \in 0 .. d - 1,
         a = d * q + m
  PROVE  a \div d = q /\ a % d = m
PROOF
  <1>. DEFINE v == a \div d
              r == a % d
  <1>1. v \in Int /\ r \in 0 .. d - 1 /\ a = d * v + r
    OBVIOUS
  <1>. HIDE DEF v, r
  <1>2. v = q
    <2>1. d * (v - q) = m - r
      BY <1>1
    <2>2. CASE v - q >= 1
      <3>1. d * (v - q) >= d
        BY <1>1, <2>2
      <3>. QED BY <1>1, <2>1, <3>1
    <2>3. CASE v - q <= -1
      <3>1. d * (v - q) <= -d
        BY <1>1, <2>3
      <3>. QED BY <1>1, <2>1, <3>1
    <2>. QED BY <1>1, <2>2, <2>3
  <1>3. r = m
    BY <1>1, <1>2
  <1>. QED BY <1>2, <1>3 DEF v, r

\* A number is its quotient times the divisor and its remainder.
LEMMA QuotientExists ==
  ASSUME NEW d \in Nat \ {0}, NEW a \in Int
  PROVE  a \div d \in Int /\ a % d \in 0 .. d - 1 /\ a = d * (a \div d) + (a % d)
PROOF
  <1>. QED OBVIOUS

\* The number after another one begins a new multiple exactly if the other ends
\* one.
LEMMA NextQuotient ==
  ASSUME NEW d \in Nat \ {0}, NEW a \in Int
  PROVE  (a + 1) \div d = IF a % d = d - 1 THEN (a \div d) + 1 ELSE a \div d
PROOF
  <1>. DEFINE v == a \div d
              r == a % d
  <1>1. v \in Int /\ r \in 0 .. d - 1 /\ a = d * v + r
    BY QuotientExists
  <1>. HIDE DEF v, r
  <1>2. CASE r = d - 1
    <2>1. a + 1 = d * (v + 1) + 0 /\ 0 \in 0 .. d - 1 /\ a + 1 \in Int /\ v + 1 \in Int
      BY <1>1, <1>2
    <2>2. PICK zero \in 0 .. d - 1 : zero = 0
      BY <2>1
    <2>3. (a + 1) \div d = v + 1
      BY <2>1, <2>2, QuotientUnique
    <2>. QED BY <1>2, <2>3 DEF v, r
  <1>3. CASE r # d - 1
    <2>1. a + 1 = d * v + (r + 1) /\ r + 1 \in 0 .. d - 1 /\ a + 1 \in Int
      BY <1>1, <1>3
    <2>2. (a + 1) \div d = v
      BY <1>1, <2>1, QuotientUnique
    <2>. QED BY <1>3, <2>2 DEF v, r
  <1>. QED BY <1>2, <1>3
-----------------------------------------------------------------------------
(***************************************************************************)
(* What the components keep of a transaction.                              *)
(***************************************************************************)

\* An amount that could be converted is the same number of atto after it.
LEMMA AmountKept ==
  ASSUME NEW data, data # Missing, Representable(data), FracScale <= U64,
         Prepare(data).status = "ok"
  PROVE  LET money == Prepare(data).value.amount
         IN  /\ FullAmount(money) = Atto(data.amount)
             /\ FullAmount(money) \in Nat
             /\ money.currency = data.amount.currency
PROOF
  <1>. DEFINE amount == data.amount
              money  == Convert(amount).value
  <1>1. /\ AttoPerUnit \in Nat \ {0} /\ DecimalsPerAtto \in Nat \ {0} /\ U64 \in Nat \ {0}
        /\ FracScale \in Nat \ {0} /\ FracScale = AttoPerUnit * DecimalsPerAtto
    BY MoneyAssumption DEF FracScale
  <1>2. /\ amount # Missing /\ Convert(amount).status = "ok"
        /\ Prepare(data).value = [data EXCEPT !.amount = money]
    BY DEF Prepare, Failed, Ok
  <1>3. Prepare(data).value.amount = money
    BY <1>2 DEF Representable
  <1>4. CASE amount.kind = "parts"
    <2>1. money = [currency |-> amount.currency, units |-> amount.units, atto |-> amount.atto]
      BY <1>2, <1>4 DEF Convert, Failed, Ok
    <2>2. amount.units \in Nat /\ amount.atto \in Nat
      BY <1>2, <1>4 DEF Representable
    <2>3. FullAmount(money) = amount.units * AttoPerUnit + amount.atto
      BY <2>1 DEF FullAmount
    <2>4. Atto(amount) = amount.units * AttoPerUnit + amount.atto
      BY <1>4 DEF Atto
    <2>5. amount.units * AttoPerUnit + amount.atto \in Nat
      <3>. HIDE DEF amount
      <3>. QED BY <1>1, <2>2
    <2>. QED BY <1>3, <2>1, <2>3, <2>4, <2>5
  <1>5. CASE amount.kind = "integer"
    <2>1. money = [currency |-> amount.currency, units |-> Abs(amount.value), atto |-> 0]
      BY <1>2, <1>5 DEF Convert, Failed, Ok, FromInteger, Abs
    <2>2. amount.value \in Int
      BY <1>2, <1>5 DEF Representable
    <2>3. Abs(amount.value) \in Nat
      BY <2>2 DEF Abs
    <2>4. FullAmount(money) = Abs(amount.value) * AttoPerUnit
      <3>1. FullAmount(money) = Abs(amount.value) * AttoPerUnit + 0
        BY <2>1 DEF FullAmount
      <3>. HIDE DEF amount
      <3>. QED BY <1>1, <2>3, <3>1
    <2>5. Atto(amount) = Abs(amount.value) * AttoPerUnit
      BY <1>5 DEF Atto
    <2>6. Abs(amount.value) * AttoPerUnit \in Nat
      BY <1>1, <2>3
    <2>. QED BY <1>3, <2>1, <2>4, <2>5, <2>6
  <1>6. CASE amount.kind = "decimal"
    <2>. DEFINE r == amount.repr
                q == r \div FracScale
                m == r % FracScale
                k == m \div DecimalsPerAtto
    <2>1. r \in 0 .. U64 * FracScale - 1
      BY <1>2, <1>6 DEF Representable
    <2>2. money = [currency |-> amount.currency, units |-> FromDecimal(r).units,
                   atto |-> FromDecimal(r).atto]
      BY <1>2, <1>6 DEF Convert, Failed, Ok
    <2>. HIDE DEF amount, money
    <2>3. r \in Int /\ q \in Int /\ m \in 0 .. FracScale - 1 /\ r = FracScale * q + m
      <3>1. r \in Int
        BY <1>1, <2>1
      <3>. HIDE DEF r
      <3>. QED BY <1>1, <3>1, QuotientExists
    <2>4. 0 <= q /\ q < U64
      <3>. HIDE DEF q, m, r
      <3>1. CASE q < 0
        <4>1. FracScale * q <= -FracScale
          BY <1>1, <2>3, <3>1
        <4>. QED BY <1>1, <2>1, <2>3, <4>1
      <3>2. CASE q >= U64
        <4>1. FracScale * q >= FracScale * U64
          BY <1>1, <2>3, <3>2
        <4>2. FracScale * U64 = U64 * FracScale
          BY <1>1
        <4>. QED BY <1>1, <2>1, <2>3, <4>1, <4>2
      <3>. QED BY <1>1, <2>3, <3>1, <3>2
    <2>5. Truncate(r, FracScale) = q /\ Remainder(r, FracScale) = m
      <3>1. Truncate(r, FracScale) = q
        BY <2>1 DEF Truncate
      <3>2. Remainder(r, FracScale) = r - FracScale * q
        BY <3>1 DEF Remainder
      <3>. HIDE DEF r, q, m
      <3>. QED BY <1>1, <2>3, <3>1, <3>2
    <2>6. q % U64 = q /\ m % U64 = m
      <3>. HIDE DEF r, q, m
      <3>1. q \in 0 .. U64 - 1 /\ m \in 0 .. U64 - 1
        BY <1>1, <2>3, <2>4
      <3>. QED BY <1>1, <3>1
    <2>7. FromDecimal(r).units = q /\ FromDecimal(r).atto = k
      <3>. HIDE DEF r, q, m
      <3>. QED BY <2>5, <2>6 DEF FromDecimal
    <2>8. FullAmount(money) = q * AttoPerUnit + k
      BY <2>2, <2>7 DEF FullAmount
    <2>9. k \in Nat /\ q * AttoPerUnit + k \in Nat /\ r \div DecimalsPerAtto = q * AttoPerUnit + k
      <3>. DEFINE l == m % DecimalsPerAtto
      <3>1. m \in Nat /\ k \in Int /\ l \in 0 .. DecimalsPerAtto - 1 /\ m = DecimalsPerAtto * k + l
        <4>. HIDE DEF m
        <4>. QED BY <1>1, <2>3, QuotientExists
      <3>. HIDE DEF r, q, m, k, l
      <3>2. k >= 0
        <4>. SUFFICES ASSUME k <= -1 PROVE FALSE
          BY <3>1
        <4>1. DecimalsPerAtto * k <= -DecimalsPerAtto
          BY <1>1, <3>1
        <4>. QED BY <1>1, <3>1, <4>1
      <3>3. q \in Nat /\ q * AttoPerUnit \in Nat /\ q * AttoPerUnit + k \in Nat
        BY <1>1, <2>3, <2>4, <3>1, <3>2
      <3>4. FracScale * q = DecimalsPerAtto * (q * AttoPerUnit)
        BY <1>1, <3>3
      <3>5. DecimalsPerAtto * (q * AttoPerUnit + k)
              = DecimalsPerAtto * (q * AttoPerUnit) + DecimalsPerAtto * k
        BY <1>1, <3>1, <3>3
      <3>6. r = DecimalsPerAtto * (q * AttoPerUnit + k) + l
        <4>. DEFINE x == DecimalsPerAtto * (q * AttoPerUnit)
                    y == DecimalsPerAtto * k
        <4>1. x \in Int /\ y \in Int /\ FracScale * q \in Int
          BY <1>1, <3>1, <3>3
        <4>2. r = x + (y + l) /\ DecimalsPerAtto * (q * AttoPerUnit + k) = x + y
          BY <2>3, <3>1, <3>4, <3>5
        <4>. HIDE DEF x, y
        <4>. QED BY <3>1, <4>1, <4>2
      <3>7. r \div DecimalsPerAtto = q * AttoPerUnit + k
        <4>. DEFINE z == q * AttoPerUnit + k
        <4>1. z \in Int /\ r = DecimalsPerAtto * z + l
          BY <3>3, <3>6
        <4>. HIDE DEF z
        <4>2. r \div DecimalsPerAtto = z
          BY <1>1, <2>3, <3>1, <4>1, QuotientUnique
        <4>. QED BY <4>2 DEF z
      <3>. QED BY <3>1, <3>2, <3>3, <3>7
    <2>10. Atto(amount) = r \div DecimalsPerAtto
      <3>1. Abs(r) = r
        BY <2>1 DEF Abs
      <3>2. Atto(amount) = Abs(amount.repr) \div DecimalsPerAtto
        BY <1>6 DEF Atto
      <3>. QED BY <3>1, <3>2
    <2>11. money.currency = amount.currency
      BY <2>2
    <2>. QED BY <1>3, <2>8, <2>9, <2>10, <2>11 DEF amount, money
  <1>7. amount.kind \in {"parts", "integer", "decimal"}
    BY <1>2 DEF Representable
  <1>. QED BY <1>4, <1>5, <1>6, <1>7

\* A piece of a suffix.
LEMMA PieceOfSuffix ==
  ASSUME NEW s, Len(s) \in Nat, s = [k \in 1 .. Len(s) |-> s[k]],
         NEW n \in 6 .. Len(s)
  PROVE  /\ Len(SubSeq(s, Len(s) - n + 1, Len(s))) = n
         /\ SubSeq(SubSeq(s, Len(s) - n + 1, Len(s)), 1, 6)
              = SubSeq(s, Len(s) - n + 1, Len(s) - n + 6)
PROOF
  <1>. DEFINE S == {s[k] : k \in 1 .. Len(s)}
              t == SubSeq(s, Len(s) - n + 1, Len(s))
  <1>1. s \in Seq(S)
    <2>1. s \in [1 .. Len(s) -> S]
      OBVIOUS
    <2>. QED BY <2>1
  <1>. HIDE DEF S
  <1>2. /\ Len(s) - n + 1 \in Int /\ Len(s) - n + 6 \in Int
        /\ Len(s) - n + 1 >= 1 /\ Len(s) - n + 6 <= Len(s) /\ n \in Nat
    OBVIOUS
  <1>3. t \in Seq(S) /\ Len(t) = n /\ \A k \in 1 .. n : t[k] = s[Len(s) - n + k]
    BY <1>1, <1>2
  <1>4. /\ SubSeq(t, 1, 6) \in Seq(S) /\ Len(SubSeq(t, 1, 6)) = 6
        /\ \A k \in 1 .. 6 : SubSeq(t, 1, 6)[k] = t[k]
    <2>. HIDE DEF t
    <2>. QED BY <1>3
  <1>. DEFINE u == SubSeq(s, Len(s) - n + 1, Len(s) - n + 6)
  <1>5. u \in Seq(S) /\ Len(u) = 6 /\ \A k \in 1 .. 6 : u[k] = s[Len(s) - n + k]
    <2>. DEFINE a == Len(s) - n + 1
                b == Len(s) - n + 6
    <2>1. a \in Int /\ b \in Int /\ a >= 1 /\ b <= Len(s) /\ b - a + 1 = 6
      BY <1>2
    <2>. HIDE DEF a, b
    <2>2. a <= b /\ \A i \in a .. b : s[i] \in S
      BY <1>1, <2>1
    <2>3. /\ SubSeq(s, a, b) \in Seq(S)
          /\ Len(SubSeq(s, a, b)) = IF a <= b THEN b - a + 1 ELSE 0
          /\ \A i \in 1 .. b - a + 1 : SubSeq(s, a, b)[i] = s[a + i - 1]
      BY <2>1, <2>2, SubSeqProperties
    <2>4. /\ SubSeq(s, a, b) \in Seq(S) /\ Len(SubSeq(s, a, b)) = 6
          /\ \A k \in 1 .. 6 : SubSeq(s, a, b)[k] = s[a + k - 1]
      BY <2>1, <2>2, <2>3
    <2>5. \A k \in 1 .. 6 : a + k - 1 = Len(s) - n + k
      BY DEF a
    <2>. QED BY <2>4, <2>5 DEF a, b
  <1>6. SubSeq(t, 1, 6) = u
    <2>. HIDE DEF t, u
    <2>1. \A k \in 1 .. 6 : k \in 1 .. n
      BY <1>2
    <2>2. \A k \in 1 .. 6 : SubSeq(t, 1, 6)[k] = u[k]
      BY <1>3, <1>4, <1>5, <2>1
    <2>. QED BY <1>4, <1>5, <2>2, SeqEqual
  <1>. QED BY <1>3, <1>6 DEF t, u

\* The bank and country that are hashed are those of the code the identifier
\* ends with: with a branch if it can be read so.
LEMMA BankKept ==
  ASSUME NEW bic, Len(bic) \in Nat, bic = [k \in 1 .. Len(bic) |-> bic[k]],
         BankAndCountry(bic).status = "ok"
  PROVE  BankAndCountry(bic).value = SubSeq(Code(bic), 1, 6)
PROOF
  <1>. DEFINE n == Len(bic)
              End(m) == SubSeq(bic, n - m + 1, n)
              Is(code) == /\ Len(code) \in {8, 11} /\ EndsInCode(bic, Len(code))
                          /\ Len(code) = 8 => ~ EndsInCode(bic, 11)
  <1>1. Code(bic) = CHOOSE code \in Suffixes(bic) : Is(code)
    BY DEF Code
  <1>2. ASSUME NEW code \in Suffixes(bic), Len(code) \in {8, 11}
        PROVE  code = End(Len(code))
    <2>1. CASE code = <<>>
      BY <1>2, <2>1
    <2>2. CASE \E l \in 1 .. n : code = SubSeq(bic, l, n)
      <3>1. PICK l \in 1 .. n : code = SubSeq(bic, l, n)
        BY <2>2
      <3>2. Len(code) = n - l + 1
        BY <3>1
      <3>3. l = n - Len(code) + 1
        BY <3>2
      <3>. QED BY <3>1, <3>3
    <2>. QED BY <2>1, <2>2 DEF Suffixes
  <1>3. ASSUME NEW m \in {8, 11}, EndsInCode(bic, m), m = 8 => ~ EndsInCode(bic, 11)
        PROVE  Code(bic) = End(m) /\ SubSeq(End(m), 1, 6) = SubSeq(bic, n - m + 1, n - m + 6)
    <2>1. m \in 6 .. n
      BY <1>3 DEF EndsInCode
    <2>2. Len(End(m)) = m /\ SubSeq(End(m), 1, 6) = SubSeq(bic, n - m + 1, n - m + 6)
      BY <2>1, PieceOfSuffix
    <2>3. End(m) \in Suffixes(bic)
      <3>1. n - m + 1 \in 1 .. n
        BY <2>1
      <3>. QED BY <3>1 DEF Suffixes
    <2>4. Is(End(m))
      BY <1>3, <2>2
    <2>5. \A code \in Suffixes(bic) : Is(code) => code = End(m)
      <3>. SUFFICES ASSUME NEW code \in Suffixes(bic), Is(code) PROVE code = End(m)
        OBVIOUS
      <3>1. Len(code) = m
        <4>1. CASE Len(code) = 8 /\ m = 11
          <5>1. ~ EndsInCode(bic, m)
            BY <4>1, Zenon
          <5>. QED BY <1>3, <5>1
        <4>2. CASE Len(code) = 11 /\ m = 8
          <5>1. EndsInCode(bic, 11)
            BY <4>2, Zenon
          <5>. QED BY <1>3, <4>2, <5>1
        <4>. QED BY <1>3, <4>1, <4>2
      <3>. QED BY <1>2, <3>1
    <2>. HIDE DEF End, Is
    <2>. QED BY <1>1, <2>2, <2>3, <2>4, <2>5
  <1>4. CASE EndsInCode(bic, 11)
    <2>1. BankAndCountry(bic).value = SubSeq(bic, n - 11 + 1, n - 11 + 6)
      BY <1>4 DEF BankAndCountry, Ok
    <2>2. PICK m \in {8, 11} : m = 11
      OBVIOUS
    <2>3. EndsInCode(bic, m) /\ BankAndCountry(bic).value = SubSeq(bic, n - m + 1, n - m + 6)
      BY <1>4, <2>1, <2>2, Zenon
    <2>4. m # 8
      BY <2>2
    <2>. HIDE DEF n, End, Is
    <2>5. SubSeq(End(m), 1, 6) = SubSeq(bic, n - m + 1, n - m + 6) /\ Code(bic) = End(m)
      BY <1>3, <2>3, <2>4
    <2>. QED BY <2>3, <2>5, Zenon
  <1>5. CASE ~ EndsInCode(bic, 11)
    <2>1. EndsInCode(bic, 8) /\ BankAndCountry(bic).value = SubSeq(bic, n - 8 + 1, n - 8 + 6)
      BY <1>5 DEF BankAndCountry, Ok, Failed
    <2>2. PICK m \in {8, 11} : m = 8
      OBVIOUS
    <2>3. EndsInCode(bic, m) /\ BankAndCountry(bic).value = SubSeq(bic, n - m + 1, n - m + 6)
      BY <2>1, <2>2, Zenon
    <2>. HIDE DEF n, End, Is
    <2>4. SubSeq(End(m), 1, 6) = SubSeq(bic, n - m + 1, n - m + 6) /\ Code(bic) = End(m)
      BY <1>3, <1>5, <2>3
    <2>. QED BY <2>3, <2>4, Zenon
  <1>. QED BY <1>4, <1>5

\* The seconds and the days that are hashed are the same exactly for the same
\* reading of the clock.
LEMMA ClockKept ==
  ASSUME NEW t, t.seconds \in Int, t.nanos \in Nat, ValidTimestamp(t), ~ DaysSinceEpoch(t) < 0,
         NEW u, u.seconds \in Int, u.nanos \in Nat, ValidTimestamp(u), ~ DaysSinceEpoch(u) < 0
  PROVE  (SecondsSinceEpoch(t) = SecondsSinceEpoch(u) /\ DaysSinceEpoch(t) = DaysSinceEpoch(u))
           <=> Clock(t) = Clock(u)
PROOF
  <1>. DEFINE Leap(x) == x.nanos >= NanosPerSecond
              Shown(x) == IF Leap(x) THEN x.seconds + 1 ELSE x.seconds
              EndsDay(x) == x.seconds % SecondsPerDay = SecondsPerDay - 1
              Day(x) == x.seconds \div SecondsPerDay
  <1>1. /\ NanosPerSecond \in Nat \ {0} /\ SecondsPerDay \in Nat \ {0} /\ EpochSecond \in Int
    BY ScaleAssumption
  <1>2. ASSUME NEW x, x.seconds \in Int, x.nanos \in Nat, ValidTimestamp(x),
               ~ DaysSinceEpoch(x) < 0
        PROVE  SecondsSinceEpoch(x) = Shown(x) - EpochSecond
    <2>1. x.seconds - EpochSecond \in Nat
      BY <1>1, <1>2, EarlierDay
    <2>. DEFINE s == x.seconds - EpochSecond
                f == IF Leap(x) THEN 1 ELSE 0
                m == x.nanos - f * NanosPerSecond
    <2>2. x.nanos < 2 * NanosPerSecond
      BY <1>1, <1>2 DEF ValidTimestamp
    <2>3. f \in Int /\ m \in 0 .. NanosPerSecond - 1 /\ x.nanos = f * NanosPerSecond + m
      BY <1>1, <1>2, <2>2
    <2>. HIDE DEF f, m
    <2>4. s * NanosPerSecond + x.nanos = NanosPerSecond * (s + f) + m
      <3>. HIDE DEF s
      <3>1. s \in Int
        BY <2>1 DEF s
      <3>2. NanosPerSecond * (s + f) = s * NanosPerSecond + f * NanosPerSecond
        BY <1>1, <2>3, <3>1
      <3>. DEFINE a == s * NanosPerSecond
                  b == f * NanosPerSecond
      <3>3. a \in Int /\ b \in Int
        BY <1>1, <2>3, <3>1
      <3>. HIDE DEF a, b
      <3>4. a + x.nanos = (a + b) + m
        BY <2>3, <3>3 DEF b
      <3>. QED BY <3>2, <3>4 DEF a, b
    <2>5. (s * NanosPerSecond + x.nanos) \div NanosPerSecond = s + f
      <3>1. s * NanosPerSecond + x.nanos \in Int /\ s + f \in Int
        BY <1>1, <1>2, <2>1, <2>3
      <3>. HIDE DEF s
      <3>. QED BY <1>1, <2>3, <2>4, <3>1, QuotientUnique
    <2>6. s * NanosPerSecond + x.nanos >= 0
      <3>1. s * NanosPerSecond >= 0 /\ s * NanosPerSecond \in Int
        BY <1>1, <2>1
      <3>. QED BY <1>2, <3>1
    <2>7. SecondsSinceEpoch(x) = s + f
      BY <2>5, <2>6 DEF SecondsSinceEpoch, Truncate
    <2>8. s + f = Shown(x) - EpochSecond
      BY <1>1, <1>2 DEF f
    <2>. QED BY <2>7, <2>8
  <1>3. DaysSinceEpoch(t) = DaysSinceEpoch(u) <=> Day(t) = Day(u)
    <2>. DEFINE epoch == EpochSecond \div SecondsPerDay
    <2>1. Day(t) \in Int /\ Day(u) \in Int /\ epoch \in Int
      BY <1>1, QuotientExists
    <2>2. DaysSinceEpoch(t) = Day(t) - epoch /\ DaysSinceEpoch(u) = Day(u) - epoch
      BY DEF DaysSinceEpoch
    <2>. HIDE DEF Day, epoch
    <2>. QED BY <2>1, <2>2
  <1>4. SecondsSinceEpoch(t) = SecondsSinceEpoch(u) <=> Shown(t) = Shown(u)
    <2>1. Shown(t) \in Int /\ Shown(u) \in Int
      OBVIOUS
    <2>2. /\ SecondsSinceEpoch(t) = Shown(t) - EpochSecond
          /\ SecondsSinceEpoch(u) = Shown(u) - EpochSecond
      BY <1>2
    <2>. HIDE DEF Shown
    <2>. QED BY <1>1, <2>1, <2>2
  <1>5. ASSUME NEW x, x.seconds \in Int
        PROVE  /\ Clock(x) = <<IF Leap(x) /\ ~ EndsDay(x) THEN x.seconds + 1 ELSE x.seconds,
                               Leap(x) /\ EndsDay(x)>>
               /\ Day(x) \in Int
               /\ (x.seconds + 1) \div SecondsPerDay = IF EndsDay(x) THEN Day(x) + 1 ELSE Day(x)
    <2>1. (x.seconds + 1) \div SecondsPerDay = IF EndsDay(x) THEN Day(x) + 1 ELSE Day(x)
      BY <1>1, <1>5, NextQuotient
    <2>. QED BY <1>1, <1>5, <2>1, QuotientExists DEF Clock
  <1>. DEFINE Time(x) == IF Leap(x) /\ ~ EndsDay(x) THEN x.seconds + 1 ELSE x.seconds
              Extra(x) == Leap(x) /\ EndsDay(x)
  <1>6. Clock(t) = Clock(u) <=> Time(t) = Time(u) /\ Extra(t) = Extra(u)
    <2>1. Clock(t) = <<Time(t), Extra(t)>> /\ Clock(u) = <<Time(u), Extra(u)>>
      BY <1>5
    <2>. HIDE DEF Time, Extra
    <2>. QED BY <2>1
  <1>7. Extra(t) = Extra(u) <=> (Extra(t) <=> Extra(u))
    BY Zenon
  <1>8. Shown(t) = Shown(u) /\ Day(t) = Day(u)
          <=> Time(t) = Time(u) /\ (Extra(t) <=> Extra(u))
    <2>. DEFINE v == t.seconds
                w == u.seconds
                D(n) == n \div SecondsPerDay
    <2>1. /\ v \in Int /\ w \in Int /\ Day(t) = D(v) /\ Day(u) = D(w)
          /\ D(v) \in Int /\ D(w) \in Int
          /\ D(v + 1) = IF EndsDay(t) THEN D(v) + 1 ELSE D(v)
          /\ D(w + 1) = IF EndsDay(u) THEN D(w) + 1 ELSE D(w)
      BY <1>5
    <2>2. /\ Shown(t) = (IF Leap(t) THEN v + 1 ELSE v)
          /\ Shown(u) = (IF Leap(u) THEN w + 1 ELSE w)
          /\ Time(t) = (IF Leap(t) /\ ~ EndsDay(t) THEN v + 1 ELSE v)
          /\ Time(u) = (IF Leap(u) /\ ~ EndsDay(u) THEN w + 1 ELSE w)
          /\ Extra(t) <=> Leap(t) /\ EndsDay(t)
          /\ Extra(u) <=> Leap(u) /\ EndsDay(u)
      OBVIOUS
    <2>3. EndsDay(t) = EndsDay(u) \/ v # w
      OBVIOUS
    <2>4. (v + 1 = w => D(v + 1) = D(w)) /\ (w + 1 = v => D(w + 1) = D(v)) /\ (v = w => D(v) = D(w))
      OBVIOUS
    <2>. HIDE DEF Day, EndsDay, Leap, D, Shown, Time, Extra, v, w
    <2>. QED BY <2>1, <2>2, <2>3, <2>4
  <1>. HIDE DEF Shown, Day, Time, Extra
  <1>. QED BY <1>3, <1>4, <1>6, <1>7, <1>8
-----------------------------------------------------------------------------
(***************************************************************************)
(* The digest of the eighty bytes.                                         *)
(***************************************************************************)

\* One step of the chain.
Digest(limb, hash) == <<"poseidon2", limb, hash>>

\* The digests of the limbs at the positions of a set, in their order.
Digests(a, b, c, d) ==
  [s \in SUBSET (1 .. 4) |->
     LET one   == IF 1 \in s THEN Digest(a, 0) ELSE 0
         two   == IF 2 \in s THEN Digest(b, one) ELSE one
         three == IF 3 \in s THEN Digest(c, two) ELSE two
     IN  IF 4 \in s THEN Digest(d, three) ELSE three]

\* They solve the recursion that takes out the last position.
LEMMA DigestsSolve ==
  ASSUME NEW a, NEW b, NEW c, NEW d, NEW s \in SUBSET (1 .. 4)
  PROVE  Digests(a, b, c, d)[s] =
           IF s = {} THEN 0
           ELSE Digest(<<a, b, c, d>>[Max(s)], Digests(a, b, c, d)[s \ {Max(s)}])
PROOF
  <1>. DEFINE m == Max(s)
              r == s \ {m}
              One(e)   == IF 1 \in e THEN Digest(a, 0) ELSE 0
              Two(e)   == IF 2 \in e THEN Digest(b, One(e)) ELSE One(e)
              Three(e) == IF 3 \in e THEN Digest(c, Two(e)) ELSE Two(e)
              Four(e)  == IF 4 \in e THEN Digest(d, Three(e)) ELSE Three(e)
  <1>1. \A e \in SUBSET (1 .. 4) : Digests(a, b, c, d)[e] = Four(e)
    BY DEF Digests
  <1>2. CASE s = {}
    BY <1>1, <1>2
  <1>3. CASE s # {}
    <2>1. m \in {1, 2, 3, 4} /\ m \in s /\ \A y \in s : y <= m
      <3>1. PICK n \in Nat : n = 4
        OBVIOUS
      <3>2. s \in SUBSET (1 .. n)
        BY <3>1
      <3>3. m \in 1 .. n /\ m \in s /\ \A y \in s : y <= m
        BY <1>3, <3>2, LastInside
      <3>. QED BY <3>1, <3>3
    <2>2. r \in SUBSET (1 .. 4) /\ \A k : k \in r <=> k \in s /\ k # m
      OBVIOUS
    <2>3. \A k \in 1 .. 4 : k > m => k \notin s
      BY <2>1
    <2>4. Digests(a, b, c, d)[s] = Four(s) /\ Digests(a, b, c, d)[r] = Four(r)
      BY <1>1, <2>2
    <2>5. Four(s) = Digest(<<a, b, c, d>>[m], Four(r))
      <3>. HIDE DEF m, r
      <3>1. CASE m = 4
        <4>1. /\ 4 \in s /\ 4 \notin r /\ (3 \in s <=> 3 \in r)
              /\ (2 \in s <=> 2 \in r) /\ (1 \in s <=> 1 \in r)
          BY <2>1, <2>2, <3>1
        <4>. QED BY <3>1, <4>1
      <3>2. CASE m = 3
        <4>1. /\ 4 \notin s /\ 4 \notin r /\ 3 \in s /\ 3 \notin r
              /\ (2 \in s <=> 2 \in r) /\ (1 \in s <=> 1 \in r)
          BY <2>1, <2>2, <2>3, <3>2
        <4>. QED BY <3>2, <4>1
      <3>3. CASE m = 2
        <4>1. /\ 4 \notin s /\ 4 \notin r /\ 3 \notin s /\ 3 \notin r
              /\ 2 \in s /\ 2 \notin r /\ (1 \in s <=> 1 \in r)
          BY <2>1, <2>2, <2>3, <3>3
        <4>. QED BY <3>3, <4>1
      <3>4. CASE m = 1
        <4>1. /\ 4 \notin s /\ 4 \notin r /\ 3 \notin s /\ 3 \notin r
              /\ 2 \notin s /\ 2 \notin r /\ 1 \in s /\ 1 \notin r
          BY <2>1, <2>2, <2>3, <3>4
        <4>. QED BY <3>4, <4>1
      <3>. QED BY <2>1, <3>1, <3>2, <3>3, <3>4
    <2>. HIDE DEF Four
    <2>. QED BY <1>3, <2>4, <2>5
  <1>. QED BY <1>2, <1>3

\* The digest of four limbs is their chain.
LEMMA BytesChained ==
  ASSUME NEW a, NEW b, NEW c, NEW d
  PROVE  SqueezeBytes(<<a, b, c, d>>) = Digest(d, Digest(c, Digest(b, Digest(a, 0))))
PROOF
  <1>. DEFINE t == <<a, b, c, d>>
              Body(f) == [s \in SUBSET (1 .. 4) |->
                            IF s = {} THEN 0 ELSE Digest(t[Max(s)], f[s \ {Max(s)}])]
              F == CHOOSE f : f = Body(f)
  <1>1. SqueezeBytes(t) = F[1 .. 4]
    <2>1. DOMAIN t = 1 .. 4
      OBVIOUS
    <2>. HIDE DEF t
    <2>. QED BY <2>1 DEF SqueezeBytes, FoldLeft, MapThenFoldSet, Digest
  <1>2. F = Body(F)
    <2>. DEFINE g == Digests(a, b, c, d)
    <2>1. g = [s \in SUBSET (1 .. 4) |-> g[s]]
      BY DEF Digests
    <2>2. \A s \in SUBSET (1 .. 4) : g[s] = IF s = {} THEN 0 ELSE Digest(t[Max(s)], g[s \ {Max(s)}])
      <3>1. \A s \in SUBSET (1 .. 4) :
              Digests(a, b, c, d)[s] =
                IF s = {} THEN 0
                ELSE Digest(<<a, b, c, d>>[Max(s)], Digests(a, b, c, d)[s \ {Max(s)}])
        <4>. HIDE DEF g, t, Body, F
        <4>. QED BY DigestsSolve
      <3>. QED BY <3>1
    <2>. HIDE DEF g
    <2>3. g = Body(g)
      BY <2>1, <2>2
    <2>. HIDE DEF Body
    <2>. QED BY <2>3
  <1>. HIDE DEF F
  <1>3. F[{}] = 0
    <2>1. {} \in SUBSET (1 .. 4)
      OBVIOUS
    <2>2. Body(F)[{}] = 0
      BY <2>1
    <2>. HIDE DEF Body
    <2>. QED BY <1>2, <2>2
  <1>4. ASSUME NEW k \in 1 .. 4 PROVE F[1 .. k] = Digest(t[k], F[1 .. k - 1])
    <2>1. PICK n \in Nat : n = 4
      OBVIOUS
    <2>2. k \in 1 .. n
      BY <2>1
    <2>3. 1 .. k \in SUBSET (1 .. 4) /\ 1 .. k # {} /\ Max(1 .. k) = k /\ (1 .. k) \ {k} = 1 .. k - 1
      BY <2>1, <2>2, Positions
    <2>4. Body(F)[1 .. k] = Digest(t[k], F[1 .. k - 1])
      <3>. HIDE DEF t
      <3>. QED BY <2>3
    <2>. HIDE DEF Body
    <2>. QED BY <1>2, <2>4
  <1>5. /\ F[1 .. 4] = Digest(d, F[1 .. 3]) /\ F[1 .. 3] = Digest(c, F[1 .. 2])
        /\ F[1 .. 2] = Digest(b, F[1 .. 1]) /\ F[1 .. 1] = Digest(a, F[1 .. 0])
    <2>1. t[1] = a /\ t[2] = b /\ t[3] = c /\ t[4] = d
      OBVIOUS
    <2>. HIDE DEF t
    <2>2. F[1 .. 4] = Digest(t[4], F[1 .. 3])
      BY <1>4
    <2>3. F[1 .. 3] = Digest(t[3], F[1 .. 2])
      BY <1>4
    <2>4. F[1 .. 2] = Digest(t[2], F[1 .. 1])
      BY <1>4
    <2>5. F[1 .. 1] = Digest(t[1], F[1 .. 0])
      BY <1>4
    <2>. QED BY <2>1, <2>2, <2>3, <2>4, <2>5
  <1>6. 1 .. 0 = {}
    OBVIOUS
  <1>. QED BY <1>1, <1>3, <1>5, <1>6

\* Digests differ when anything that is digested does.
LEMMA DigestInjective ==
  ASSUME NEW a, NEW b, NEW g, NEW h
  PROVE  Digest(a, g) = Digest(b, h) <=> a = b /\ g = h
PROOF
  <1>. QED BY DEF Digest

\* The limbs keep the prefix, the amount, the currency and the time apart.
LEMMA LimbsKept ==
  ASSUME NEW a, NEW b, NEW x \in Nat, NEW y \in Nat, NEW c, NEW d, NEW s, NEW t
  PROVE  SqueezeBytes(Limbs(a, x, c, s)) = SqueezeBytes(Limbs(b, y, d, t))
           <=> a = b /\ x = y /\ c = d /\ s = t
PROOF
  <1>. DEFINE third(z, e, u) == <<z % LowAmount, e, "head", u>>
              fourth(u) == <<"tail", u>>
              high(z) == z \div LowAmount
              low(z) == z % LowAmount
  <1>1. x = y <=> high(x) = high(y) /\ low(x) = low(y)
    <2>1. LowAmount \in Nat \ {0}
      BY ScaleAssumption
    <2>2. /\ high(x) \in Int /\ low(x) \in Int /\ x = LowAmount * high(x) + low(x)
          /\ high(y) \in Int /\ low(y) \in Int /\ y = LowAmount * high(y) + low(y)
      BY <2>1, QuotientExists
    <2>3. x = y => high(x) = high(y) /\ low(x) = low(y)
      OBVIOUS
    <2>. HIDE DEF high, low
    <2>. QED BY <2>2, <2>3
  <1>2. /\ SqueezeBytes(Limbs(a, x, c, s)) =
             Digest(fourth(s), Digest(third(x, c, s), Digest(high(x), Digest(a, 0))))
        /\ SqueezeBytes(Limbs(b, y, d, t)) =
             Digest(fourth(t), Digest(third(y, d, t), Digest(high(y), Digest(b, 0))))
    BY BytesChained DEF Limbs
  <1>3. third(x, c, s) = third(y, d, t) <=> low(x) = low(y) /\ c = d /\ s = t
    <2>. HIDE DEF low
    <2>. QED BY DEF low
  <1>4. fourth(s) = fourth(t) <=> s = t
    OBVIOUS
  <1>. HIDE DEF third, fourth, high, low
  <1>. QED BY <1>1, <1>2, <1>3, <1>4, DigestInjective
-----------------------------------------------------------------------------
(***************************************************************************)
(* The fingerprint of a transaction.                                       *)
(***************************************************************************)

\* The protocol is that of CurveHash.
LEMMA ProtocolResult ==
  ASSUME NEW x, NEW k
  PROVE  Protocol!NaiveProcess(x, k) = <<"poseidon", Mul(HashToCurve[x], k)>>
PROOF
  <1>. QED BY DEF Protocol!NaiveProcess, Protocol!Squeeze, Protocol!Mul, Mul

\* Under one secret it returns different results for different inputs.
LEMMA ResultsDiffer ==
  ASSUME Ideal, NEW k \in Secrets, NEW x \in Inputs, NEW y \in Inputs
  PROVE  Protocol!NaiveProcess(x, k) = Protocol!NaiveProcess(y, k) <=> x = y
PROOF
  <1>1. k \in Field /\ k # 0
    BY DEF Ideal
  <1>2. HashToCurve[x] \in Field /\ HashToCurve[y] \in Field
    BY HashAssumption
  <1>3. Mul(HashToCurve[x], k) = Mul(HashToCurve[y], k) => HashToCurve[x] = HashToCurve[y]
    <2>1. /\ Mul(HashToCurve[x], k) = Mul(k, HashToCurve[x])
          /\ Mul(HashToCurve[y], k) = Mul(k, HashToCurve[y])
      BY <1>1, <1>2, Multiplication
    <2>. QED BY <1>1, <1>2, <2>1, CancelFactor
  <1>. QED BY <1>3, ProtocolResult DEF Ideal

\* What a request with a fingerprint was turned into.
LEMMA FingerprintedData ==
  ASSUME Ideal, NEW data \in Requests, Representable(data), NEW dateTime,
         Squeezed(data).status = "ok",
         Assemble(Prepare(data).value, dateTime).status = "ok"
  PROVE  LET t == data.date_time
             seconds == SecondsSinceEpoch(t)
             days == DaysSinceEpoch(t)
             amount == Atto(data.amount)
         IN  /\ amount \in Nat
             /\ t.seconds \in Int /\ t.nanos \in Nat /\ ValidTimestamp(t) /\ ~ days < 0
             /\ Squeezed(data).value =
                  <<"poseidon3", seconds, days, CantorPair(seconds, amount \div days)>>
             /\ Assemble(Prepare(data).value, dateTime).value =
                  SqueezeBytes(Limbs(SubSeq(Code(data.bic), 1, 6), amount,
                                     data.amount.currency, dateTime))
PROOF
  <1>. DEFINE raw == Prepare(data).value
              t == data.date_time
  <1>1. Prepare(data).status = "ok" /\ SqueezeDateTime(raw).status = "ok"
        /\ Squeezed(data).value = SqueezeDateTime(raw).value
    BY DEF Squeezed
  <1>2. /\ data # Missing /\ t # Missing /\ data.amount # Missing /\ ValidTimestamp(t)
        /\ raw = [data EXCEPT !.amount = Convert(data.amount).value]
    BY <1>1 DEF Prepare, Failed, Ok
  <1>3. /\ FullAmount(raw.amount) = Atto(data.amount) /\ Atto(data.amount) \in Nat
        /\ raw.amount.currency = data.amount.currency
    <2>1. FracScale <= U64
      BY DEF Ideal
    <2>2. /\ FullAmount(Prepare(data).value.amount) = Atto(data.amount)
          /\ FullAmount(Prepare(data).value.amount) \in Nat
          /\ Prepare(data).value.amount.currency = data.amount.currency
      <3>1. data # Missing
        BY <1>2
      <3>. QED BY <1>1, <2>1, <3>1, AmountKept
    <2>. QED BY <2>2
  <1>4. raw.date_time = t /\ raw.bic = data.bic
    BY <1>2
  <1>5. /\ t.seconds \in Int /\ t.nanos \in Nat
        /\ Len(data.bic) \in Nat /\ data.bic = [k \in 1 .. Len(data.bic) |-> data.bic[k]]
    BY <1>2 DEF Representable
  <1>. HIDE DEF raw, t
  <1>6. /\ ~ DaysSinceEpoch(t) < 0
        /\ Squeezed(data).value =
             <<"poseidon3", SecondsSinceEpoch(t), DaysSinceEpoch(t),
               CantorPair(SecondsSinceEpoch(t), Atto(data.amount) \div DaysSinceEpoch(t))>>
    BY <1>1, <1>3, <1>4 DEF SqueezeDateTime, Failed, Ok
  <1>7. BankAndCountry(data.bic).status = "ok"
        /\ Assemble(raw, dateTime).value =
             SqueezeBytes(Limbs(BankAndCountry(data.bic).value, Atto(data.amount),
                                data.amount.currency, dateTime))
    BY <1>3, <1>4 DEF Assemble, Ok, raw
  <1>8. BankAndCountry(data.bic).value = SubSeq(Code(data.bic), 1, 6)
    BY <1>5, <1>7, BankKept
  <1>. QED BY <1>2, <1>3, <1>5, <1>6, <1>7, <1>8 DEF raw, t

\* The fingerprint under a secret.
Fingerprinting(data, k) ==
  Assemble(Prepare(data).value, Protocol!NaiveProcess(Squeezed(data).value, k))

\* Fingerprints are equal exactly for the same transaction.
LEMMA Identified ==
  ASSUME Ideal, NEW k \in Secrets,
         NEW a \in Requests, Representable(a), Squeezed(a).status = "ok",
         Fingerprinting(a, k).status = "ok",
         NEW b \in Requests, Representable(b), Squeezed(b).status = "ok",
         Fingerprinting(b, k).status = "ok"
  PROVE  Fingerprinting(a, k).value = Fingerprinting(b, k).value <=> SameTransaction(a, b)
PROOF
  <1>. DEFINE x == Squeezed(a).value
              y == Squeezed(b).value
              s == a.date_time
              t == b.date_time
              bank(d) == SubSeq(Code(d.bic), 1, 6)
              square(u, n) == CantorPair(SecondsSinceEpoch(u), n \div DaysSinceEpoch(u))
  <1>1. /\ Atto(a.amount) \in Nat
        /\ s.seconds \in Int /\ s.nanos \in Nat /\ ValidTimestamp(s) /\ ~ DaysSinceEpoch(s) < 0
        /\ x = <<"poseidon3", SecondsSinceEpoch(s), DaysSinceEpoch(s), square(s, Atto(a.amount))>>
        /\ Fingerprinting(a, k).value =
             SqueezeBytes(Limbs(bank(a), Atto(a.amount), a.amount.currency,
                                Protocol!NaiveProcess(x, k)))
    BY FingerprintedData DEF Fingerprinting
  <1>2. /\ Atto(b.amount) \in Nat
        /\ t.seconds \in Int /\ t.nanos \in Nat /\ ValidTimestamp(t) /\ ~ DaysSinceEpoch(t) < 0
        /\ y = <<"poseidon3", SecondsSinceEpoch(t), DaysSinceEpoch(t), square(t, Atto(b.amount))>>
        /\ Fingerprinting(b, k).value =
             SqueezeBytes(Limbs(bank(b), Atto(b.amount), b.amount.currency,
                                Protocol!NaiveProcess(y, k)))
    BY FingerprintedData DEF Fingerprinting
  <1>3. x \in Inputs /\ y \in Inputs
    BY DEF Ideal
  <1>4. Protocol!NaiveProcess(x, k) = Protocol!NaiveProcess(y, k) <=> x = y
    <2>. HIDE DEF x, y
    <2>. QED BY <1>3, ResultsDiffer
  <1>5. Fingerprinting(a, k).value = Fingerprinting(b, k).value
          <=> /\ bank(a) = bank(b) /\ Atto(a.amount) = Atto(b.amount)
              /\ a.amount.currency = b.amount.currency /\ x = y
    <2>. HIDE DEF x, y, bank
    <2>. QED BY <1>1, <1>2, <1>4, LimbsKept
  <1>6. SecondsSinceEpoch(s) = SecondsSinceEpoch(t) /\ DaysSinceEpoch(s) = DaysSinceEpoch(t)
          <=> Clock(s) = Clock(t)
    <2>. HIDE DEF s, t
    <2>. QED BY <1>1, <1>2, ClockKept
  <1>7. Atto(a.amount) = Atto(b.amount) =>
          (x = y <=> SecondsSinceEpoch(s) = SecondsSinceEpoch(t)
                       /\ DaysSinceEpoch(s) = DaysSinceEpoch(t))
    <2>. SUFFICES ASSUME Atto(a.amount) = Atto(b.amount)
                  PROVE  x = y <=> SecondsSinceEpoch(s) = SecondsSinceEpoch(t)
                                     /\ DaysSinceEpoch(s) = DaysSinceEpoch(t)
      OBVIOUS
    <2>1. SecondsSinceEpoch(s) = SecondsSinceEpoch(t) /\ DaysSinceEpoch(s) = DaysSinceEpoch(t)
            => square(s, Atto(a.amount)) = square(t, Atto(b.amount))
      OBVIOUS
    <2>. HIDE DEF x, y, s, t, square
    <2>. QED BY <1>1, <1>2, <2>1
  <1>8. SameTransaction(a, b)
          <=> /\ bank(a) = bank(b) /\ Atto(a.amount) = Atto(b.amount)
              /\ a.amount.currency = b.amount.currency /\ Clock(s) = Clock(t)
    BY DEF SameTransaction
  <1>. HIDE DEF x, y, s, t, bank
  <1>. QED BY <1>5, <1>6, <1>7, <1>8
-----------------------------------------------------------------------------
\* What a call asks the protocol is what its request is squeezed to, and what
\* it returns is made of what the protocol returned.
Returned ==
  /\ request \in [Calls -> Requests] /\ secret \in Secrets
  /\ input = [c \in Calls |-> Argument(request[c])]
  /\ DOMAIN result = Calls /\ DOMAIN reply = Calls
  /\ \A c \in Calls :
       Fingerprinted(c) => reply[c] = Fingerprinting(request[c], secret)

\* Every step keeps it.
LEMMA NextReturned == AskedWithDate /\ Returned /\ [Next]_vars => Returned'
PROOF
  <1>. SUFFICES ASSUME AskedWithDate, Returned, [Next]_vars PROVE Returned'
    OBVIOUS
  <1>. USE DEF Returned, Fingerprinted
  <1>1. ASSUME NEW c \in Calls, Reject(c) PROVE Returned'
    BY <1>1 DEF Reject
  <1>2. ASSUME NEW c \in Calls, Await(c) PROVE Returned'
    BY <1>2 DEF Await, Protocol!Begin
  <1>3. ASSUME NEW c \in Calls, Complete(c) PROVE Returned'
    <2>1. /\ phase[c] = "running" /\ UNCHANGED <<secret, input, request>>
          /\ result' = [result EXCEPT ![c] = Protocol!NaiveProcess(input[c], secret)]
          /\ reply' = [reply EXCEPT ![c] = Assemble(Prepare(request[c]).value, result'[c])]
      BY <1>3 DEF Complete, Protocol!Return
    <2>2. input[c] = Squeezed(request[c]).value
      BY <2>1 DEF AskedWithDate, Argument
    <2>3. result'[c] = Protocol!NaiveProcess(Squeezed(request[c]).value, secret)
      BY <2>1, <2>2
    <2>4. reply'[c] = Fingerprinting(request[c], secret)
      BY <2>1, <2>3 DEF Fingerprinting
    <2>. QED BY <2>1, <2>4
  <1>4. ASSUME NEW c \in Calls, Abort(c) PROVE Returned'
    BY <1>4 DEF Abort, Protocol!Fail, Failed
  <1>5. ASSUME NEW c \in Calls, Cancel(c) PROVE Returned'
    BY <1>5 DEF Cancel, Failed
  <1>6. CASE UNCHANGED vars
    BY <1>6 DEF vars
  <1>. QED BY <1>1, <1>2, <1>3, <1>4, <1>5, <1>6 DEF Next

\* Two calls return the same fingerprint exactly for the same transaction, in
\* whatever notation and whichever calls: no collision but one of the hash to
\* the curve, and no amount, time or identifier is torn apart.
THEOREM Identification ==
  ASSUME Ideal, \A data \in Requests : Representable(data)
  PROVE  Spec => []FingerprintsIdentify
PROOF
  <1>1. Init => AskedWithDate /\ Returned
    BY DEF Init, AskedWithDate, Returned, Fingerprinted
  <1>2. AskedWithDate /\ Returned => FingerprintsIdentify
    <2>. SUFFICES ASSUME AskedWithDate, Returned, NEW c \in Calls, NEW d \in Calls,
                         Fingerprinted(c), Fingerprinted(d)
                  PROVE  reply[c].value = reply[d].value
                           <=> SameTransaction(request[c], request[d])
      BY DEF FingerprintsIdentify
    <2>. DEFINE a == request[c]
                b == request[d]
    <2>1. /\ a \in Requests /\ Representable(a) /\ Squeezed(a).status = "ok"
          /\ reply[c] = Fingerprinting(a, secret) /\ Fingerprinting(a, secret).status = "ok"
      BY DEF AskedWithDate, Returned, Fingerprinted
    <2>2. /\ b \in Requests /\ Representable(b) /\ Squeezed(b).status = "ok"
          /\ reply[d] = Fingerprinting(b, secret) /\ Fingerprinting(b, secret).status = "ok"
      BY DEF AskedWithDate, Returned, Fingerprinted
    <2>3. secret \in Secrets
      BY DEF Returned
    <2>. HIDE DEF a, b
    <2>4. Fingerprinting(a, secret).value = Fingerprinting(b, secret).value <=> SameTransaction(a, b)
      BY <2>1, <2>2, <2>3, Identified
    <2>. QED BY <2>1, <2>2, <2>4 DEF a, b
  <1>. QED BY <1>1, <1>2, NextAsked, NextReturned, PTL DEF Spec
-----------------------------------------------------------------------------
(***************************************************************************)
(* Types.                                                                  *)
(***************************************************************************)

\* NoReply is told apart from every outcome.
NoReplyIsNoOutcome ==
  \A status, value : NoReply # Failed(status) /\ NoReply # Ok(value)

\* What a step that may fail hands on.
IsOutcome(outcome) ==
  /\ outcome.status \in Statuses
  /\ \/ \E status : outcome = Failed(status)
     \/ \E value : outcome = Ok(value)

\* Conversion and components have outcomes.
LEMMA Outcomes ==
  ASSUME NEW data, NEW dateTime
  PROVE  IsOutcome(Squeezed(data)) /\ IsOutcome(Assemble(Prepare(data).value, dateTime))
PROOF
  <1>1. IsOutcome(Failed("invalid_argument")) /\ IsOutcome(Failed("unknown"))
        /\ IsOutcome(Failed("aborted")) /\ IsOutcome(Failed("panicked"))
    BY DEF IsOutcome, Failed, Statuses
  <1>2. \A value : IsOutcome(Ok(value))
    BY DEF IsOutcome, Ok, Statuses
  <1>3. \A amount : IsOutcome(Convert(amount))
    BY <1>1, <1>2 DEF Convert
  <1>4. IsOutcome(Prepare(data))
    BY <1>1, <1>2, <1>3 DEF Prepare
  <1>5. \A raw : IsOutcome(SqueezeDateTime(raw))
    BY <1>1, <1>2 DEF SqueezeDateTime
  <1>6. \A bic : IsOutcome(BankAndCountry(bic))
    BY <1>1, <1>2 DEF BankAndCountry
  <1>. QED BY <1>2, <1>4, <1>5, <1>6 DEF Squeezed, Assemble

\* A call has an outcome, once its protocol run has ended.
Answered ==
  /\ DOMAIN reply = Calls
  /\ \A c \in Calls :
       /\ reply[c] # NoReply => reply[c].status \in Statuses
       /\ reply[c] = NoReply => phase[c] \in {"idle", "running"}

\* Every step that ends a run gives the call its outcome.
LEMMA NextAnswered ==
  ASSUME NoReplyIsNoOutcome, AskedWithDate, Answered, [Next]_vars
  PROVE  Answered'
PROOF
  <1>. USE DEF Answered
  <1>1. ASSUME NEW outcome, IsOutcome(outcome)
        PROVE  outcome # NoReply /\ outcome.status \in Statuses
    BY <1>1 DEF IsOutcome, NoReplyIsNoOutcome
  <1>2. ASSUME NEW c \in Calls, NEW outcome, IsOutcome(outcome),
               reply' = [reply EXCEPT ![c] = outcome],
               \A d \in Calls : d # c => phase'[d] = phase[d]
        PROVE  Answered'
    <2>1. reply'[c] = outcome /\ \A d \in Calls : d # c => reply'[d] = reply[d]
      BY <1>2
    <2>. QED BY <1>1, <1>2, <2>1
  <1>3. ASSUME NEW c \in Calls, Reject(c) PROVE Answered'
    BY <1>2, <1>3, Outcomes DEF Reject
  <1>4. ASSUME NEW c \in Calls, Await(c) PROVE Answered'
    BY <1>4 DEF Await, Protocol!Begin, AskedWithDate
  <1>5. ASSUME NEW c \in Calls, Complete(c) PROVE Answered'
    BY <1>2, <1>5, Outcomes DEF Complete, Protocol!Return, AskedWithDate
  <1>6. ASSUME NEW c \in Calls, Abort(c) PROVE Answered'
    <2>1. /\ reply' = [reply EXCEPT
               ![c] = Failed(IF phase'[c] = "error" THEN "aborted" ELSE "panicked")]
          /\ \A d \in Calls : d # c => phase'[d] = phase[d]
      BY <1>6 DEF Abort, Protocol!Fail, AskedWithDate
    <2>2. IsOutcome(Failed(IF phase'[c] = "error" THEN "aborted" ELSE "panicked"))
      BY DEF IsOutcome, Failed, Statuses
    <2>. QED BY <1>2, <2>1, <2>2
  <1>7. ASSUME NEW c \in Calls, Cancel(c) PROVE Answered'
    <2>1. IsOutcome(Failed("cancelled"))
      BY DEF IsOutcome, Failed, Statuses
    <2>. QED BY <1>2, <1>7, <2>1 DEF Cancel, AskedWithDate
  <1>8. CASE UNCHANGED vars
    BY <1>8 DEF vars
  <1>. QED BY <1>3, <1>4, <1>5, <1>6, <1>7, <1>8 DEF Next

\* A call whose protocol run has ended has answered, with a status the service
\* knows.
THEOREM TypeCorrect ==
  ASSUME NoReplyIsNoOutcome
  PROVE  Spec => []TypeOK
PROOF
  <1>1. Init => AskedWithDate /\ Answered
    BY DEF Init, AskedWithDate, Answered, Fingerprinted
  <1>2. AskedWithDate /\ Answered => TypeOK
    BY DEF AskedWithDate, Answered, TypeOK
  <1>3. AskedWithDate /\ Answered /\ [Next]_vars => Answered'
    BY NextAnswered
  <1>. QED BY <1>1, <1>2, <1>3, NextAsked, PTL DEF Spec
=============================================================================
