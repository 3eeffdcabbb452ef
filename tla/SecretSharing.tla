--------------------------- MODULE SecretSharing ----------------------------
(***************************************************************************)
(* Shamir's secret sharing as crates/fingerprinting-core computes it:      *)
(* the share of an agent, the Lagrange coefficient of an agent in a list   *)
(* of cooperating agents, and the combination of partial results in which  *)
(* a fingerprint computation uses them.                                    *)
(***************************************************************************)
EXTENDS PrimeField, SequencesExt

\* A polynomial is the vector of its coefficients; the first is the secret.
Polynomial(t) == [1 .. t -> Field]

Secret(coefficients) == Head(coefficients)

\* Bugs a model of secret sharing must notice: the power of x starts at one,
\* or is never multiplied on.
ShareFromPowerZero(coefficients, i) ==
  LET x == FromInt(i)
      AddTerm(acc, coeff) ==
        [share   |-> Add(acc.share, Mul(coeff, acc.x_power)),
         x_power |-> Mul(acc.x_power, x)]
  IN  FoldLeft(AddTerm,
               [share |-> Secret(coefficients), x_power |-> 1],
               Tail(coefficients)).share

ShareFrozenPower(coefficients, i) ==
  FoldLeft(LAMBDA acc, coeff : Add(acc, Mul(coeff, FromInt(i))),
           Secret(coefficients), Tail(coefficients))

\* The share of agent i.  The loop keeps the partial sum and the power of x
\* that multiplies the next coefficient.
Share(coefficients, i) ==
  LET x == FromInt(i)
      AddTerm(acc, coeff) ==
        [share   |-> Add(acc.share, Mul(coeff, acc.x_power)),
         x_power |-> Mul(acc.x_power, x)]
  IN  FoldLeft(AddTerm,
               [share |-> Secret(coefficients), x_power |-> x],
               Tail(coefficients)).share

\* The coefficient of agent i when exactly the agents in indices cooperate.
LagrangeCoefficient(i, indices) ==
  LET Factor(j) == Mul(Neg(FromInt(j)),
                       Invert(Sub(FromInt(i), FromInt(j))))
      Times(acc, j) == IF i # j THEN Mul(acc, Factor(j)) ELSE acc
  IN  FoldLeft(Times, 1, indices)

\* The weighted sum of a list of (agent, point) responses.
Combine(responses) ==
  LET indices == [j \in DOMAIN responses |-> responses[j].agent]
      Weigh(y, e) == Add(y, Mul(e.point, LagrangeCoefficient(e.agent, indices)))
  IN  FoldLeft(Weigh, 0, responses)

=============================================================================
