------------------------- MODULE MCSingleFingerprint ------------------------
(***************************************************************************)
(* TLC instances of SingleFingerprint: a small calendar (two seconds to    *)
(* the minute, four to the day, three atto to the unit) and requests that  *)
(* differ in one normalised or one significant part at a time.             *)
(***************************************************************************)
EXTENDS SingleFingerprint

Plain    == <<"A", "B", "A", "B", "L", "U", "1", "1">>
Branch   == Plain \o <<"B", "1", "A">>
Location == <<"A", "B", "A", "B", "L", "U", "2", "A">>
OtherBank == <<"B", "B", "A", "B", "L", "U", "1", "1">>
AllLetters == [k \in 1 .. 11 |-> IF k <= 4 THEN "A" ELSE "B"]
\* The same code after a character of some other text.
Prefixed == <<"1">> \o Plain
PrefixedBranch == <<"A">> \o Branch
\* After three letters it reads as the code, with a branch, of another bank.
Shifted == <<"B", "B", "A">> \o Plain
Lowercase == <<"a">> \o Tail(Plain)

Time(s, n) == [seconds |-> s, nanos |-> n]
Money(c, u, a) == [kind |-> "parts", currency |-> c, units |-> u, atto |-> a]
Decimal(c, r) == [kind |-> "decimal", currency |-> c, repr |-> r]
Whole(c, n) == [kind |-> "integer", currency |-> c, value |-> n]

\* Days 1 to 3 after the epoch: with fractions, a leap second at the end of the
\* day, one claimed within it and the second it reads as, two midnights.
GoodTimes == {Time(12, 0), Time(12, 1), Time(13, 2), Time(14, 0), Time(15, 2),
              Time(16, 0), Time(20, 0)}
\* One unit in five notations, one atto more, another currency.
GoodMoney == {Money("EUR", 1, 0), Money("EUR", 0, 3), Money("EUR", 1, 1), Money("USD", 1, 0)}
LibraryMoney == {Decimal("EUR", 6), Decimal("EUR", 7), Decimal("EUR", 8), Decimal("EUR", 5),
                 Whole("EUR", 1), Whole("EUR", -1), Whole("EUR", 2)}
GoodCodes == {Plain, Branch, Location, OtherBank, AllLetters, Prefixed, PrefixedBranch,
              Shifted}

Tx(b, m, t) == [bic |-> b, amount |-> m, date_time |-> t]
GoodRequests ==
  {Tx(Plain, m, t) : m \in GoodMoney, t \in GoodTimes}
    \cup {Tx(Plain, m, t) : m \in LibraryMoney, t \in {Time(12, 0), Time(20, 0)}}
    \cup {Tx(b, Money("EUR", 1, 0), Time(12, 0)) : b \in GoodCodes}

\* Just before the epoch, out of every range, an invalid leap second, and
\* a currency, a code and fields that are not there.
OddRequests ==
  {Tx(Plain, Money("EUR", 1, 0), t) : t \in
     {Time(7, 1), Time(7, 0), Time(32, 0), Time(12, 2), Time(40, 0), Missing}}
    \cup {Tx(Plain, m, Time(12, 0)) : m \in {Money("none", 1, 0), Decimal("none", 6), Missing}}
    \cup {Tx(Lowercase, Money("EUR", 1, 0), Time(12, 0)), Missing}

EpochDay == {Tx(Plain, Money("EUR", 1, 0), t) : t \in {Time(8, 0), Time(11, 1)}}

\* Amounts below zero, and every amount up to three units.
NegativeMoney ==
  {Decimal("EUR", r) : r \in {-7, -6, -3, -1}}
    \cup {Money("EUR", u, a) : u \in 0 .. 2, a \in 0 .. 2}
MCNegative == {Tx(Plain, m, Time(12, 0)) : m \in NegativeMoney}

MCRequests == GoodRequests \cup OddRequests \cup EpochDay
MCValidRequests == GoodRequests \cup EpochDay

\* A hash to the curve without collisions: the rank of the digest.
MCInputs ==
  {Squeezed(r).value :
     r \in {q \in MCRequests \cup MCNegative : Squeezed(q).status = "ok"}}

Before(x, y) ==
  \/ x[2] < y[2]
  \/ x[2] = y[2] /\ x[3] < y[3]
  \/ x[2] = y[2] /\ x[3] = y[3] /\ x[4] < y[4]

MCHashToCurve ==
  [x \in MCInputs |-> 1 + Cardinality({y \in MCInputs : Before(y, x)})]

\* The hypotheses of the theorems, which leave out negative decimals.
ASSUME HypothesesAssumption == Ideal /\ \A data \in MCRequests : Representable(data)
=============================================================================
