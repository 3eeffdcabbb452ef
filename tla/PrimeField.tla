----------------------------- MODULE PrimeField -----------------------------
(***************************************************************************)
(* The scalar field Fr of the curve BN256 as the program uses it through   *)
(* the PrimeField, Field and Group traits of halo2curves: addition,        *)
(* multiplication, negation, inversion, and the embedding of integers.     *)
(*                                                                         *)
(* The group G1 has prime order P, so a point is represented by its        *)
(* discrete logarithm: point + point is Add, point * scalar is Mul, and    *)
(* the zero point is 0.                                                    *)
(***************************************************************************)
EXTENDS Integers

CONSTANT P \* the order of the field and of the group

Field == 0 .. P - 1

FromInt(n) == n % P

Add(x, y) == (x + y) % P

Mul(x, y) == (x * y) % P

Neg(x) == (P - x) % P

Sub(x, y) == Add(x, Neg(y))

\* invert() has a value for every element but zero.
Invert(x) == CHOOSE y \in Field : Mul(x, y) = 1

\* P is prime, in the form the proofs use: every nonzero element is invertible.
ASSUME FieldAssumption ==
  /\ P \in Nat
  /\ P > 1
  /\ \A x \in Field \ {0} : \E y \in Field : Mul(x, y) = 1

=============================================================================
