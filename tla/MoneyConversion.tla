--------------------------- MODULE MoneyConversion --------------------------
(***************************************************************************)
(* The ways an amount becomes Money: the units and atto of a request of    *)
(* the gRPC interface, and what callers of the library hand to the         *)
(* conversions of fingerprinting-types: a decimal of nineteen places as    *)
(* its representation, the integer value times 10^19, or an integer.       *)
(***************************************************************************)
EXTENDS Integers

CONSTANTS
  CurrencyCodes,   \* the codes iso4217_static knows
  AttoPerUnit,     \* 10^18
  DecimalsPerAtto, \* 10: a decimal has one more place
  U64              \* 2^64

ASSUME MoneyAssumption ==
  {AttoPerUnit, DecimalsPerAtto, U64} \subseteq Nat \ {0}

Ok(value) == [status |-> "ok", value |-> value]
Failed(status) == [status |-> status]

\* The integer division of Rust, and its remainder.
Truncate(a, b) == IF a >= 0 THEN a \div b ELSE -((-a) \div b)
Remainder(a, b) == a - b * Truncate(a, b)

\* FRAC_SCALE_I128
FracScale == AttoPerUnit * DecimalsPerAtto

\* TryFrom<(Dec19x19, &str)>: `as u64` keeps a negative number modulo 2^64.
FromDecimal(repr) ==
  [units |-> Truncate(repr, FracScale) % U64,
   atto  |-> (Remainder(repr, FracScale) % U64) \div DecimalsPerAtto]

\* TryFrom of i32, u32, i64 and u64: unsigned_abs.
FromInteger(n) == [units |-> IF n < 0 THEN -n ELSE n, atto |-> 0]

\* The amount as units and atto, whatever its kind; the currency is looked up
\* first.
Convert(amount) ==
  IF amount.currency \notin CurrencyCodes THEN Failed("unknown")
  ELSE LET parts == CASE amount.kind = "parts" -> amount
                      [] amount.kind = "decimal" -> FromDecimal(amount.repr)
                      [] amount.kind = "integer" -> FromInteger(amount.value)
       IN  Ok([currency |-> amount.currency, units |-> parts.units, atto |-> parts.atto])
=============================================================================
