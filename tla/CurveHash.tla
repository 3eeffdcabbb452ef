------------------------------ MODULE CurveHash -----------------------------
(***************************************************************************)
(* The two hash functions at the ends of a protocol run: G1::hash_to_curve *)
(* maps the squeezed date component to a point, and HashSqueeze maps the   *)
(* resulting point to the scalar that is returned.                         *)
(***************************************************************************)
EXTENDS PrimeField

CONSTANTS
  Inputs,      \* the scalars handed to FingerprintProtocol::process
  HashToCurve  \* their images under the hash to the curve

ASSUME HashAssumption == HashToCurve \in [Inputs -> Field]

\* squeeze() cuts the 32 bytes of the compressed point into two limbs of 16
\* bytes, each of which fits the field, and hashes them with Poseidon: the
\* digest is a tagged value, different for different points.
Squeeze(point) == <<"poseidon", point>>

Fingerprint == {Squeeze(point) : point \in Field}

\* NaiveProtocol::process with secret k.
NaiveProcess(x, k) == Squeeze(Mul(HashToCurve[x], k))

=============================================================================
