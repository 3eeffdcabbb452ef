----------------------------- MODULE CompactText ----------------------------
(***************************************************************************)
(* The text form of scalars in configurations and in the output of the key *)
(* ceremony: Compact for Fr.  A text is whether it is base58 and, if so,   *)
(* the bytes it stands for.                                                *)
(***************************************************************************)
EXTENDS PrimeField, Sequences

CONSTANTS
  ByteValues,   \* the values of a byte: 256 in the code
  ScalarBytes   \* the bytes of a scalar: 32 in the code

ASSUME BytesAssumption ==
  /\ ByteValues \in Nat \ {0, 1} /\ ScalarBytes \in Nat \ {0}
  /\ P <= ByteValues ^ ScalarBytes

NoScalar == [status |-> "error"]

\* The scalar's little-endian bytes.
Compact(x) ==
  [base58 |-> TRUE,
   bytes  |-> [k \in 1 .. ScalarBytes |-> (x \div ByteValues ^ (k - 1)) % ByteValues]]

\* Fr::from_bytes of the first chunk of that length.
FromBytes(bytes) ==
  LET value[k \in 0 .. ScalarBytes] ==
        IF k = 0 THEN 0 ELSE value[k - 1] + bytes[k] * ByteValues ^ (k - 1)
  IN  value[ScalarBytes]

\* A bug the models must notice: the value is not compared with the modulus.
UnwrapUnchecked(text) ==
  IF ~ text.base58 \/ Len(text.bytes) < ScalarBytes THEN NoScalar
  ELSE [status |-> "ok", value |-> FromBytes(text.bytes)]

\* first_chunk refuses fewer bytes and ignores more; from_bytes refuses what is
\* not below the modulus.
Unwrap(text) ==
  IF ~ text.base58 \/ Len(text.bytes) < ScalarBytes THEN NoScalar
  ELSE IF FromBytes(text.bytes) \notin Field THEN NoScalar
  ELSE [status |-> "ok", value |-> FromBytes(text.bytes)]
=============================================================================
