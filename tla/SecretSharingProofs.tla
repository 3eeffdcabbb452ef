------------------------ MODULE SecretSharingProofs -------------------------
(***************************************************************************)
(* Shamir's theorem about SecretSharing, for every prime order and every   *)
(* number of agents: what the loops of the program compute, that the       *)
(* shares of threshold agents combine to the secret and fewer say nothing  *)
(* of it, and what shares of different polynomials combine to.             *)
(***************************************************************************)
EXTENDS SecretSharing, NaturalsInduction, WellFoundedInduction, SequenceTheorems,
        FiniteSetTheorems, TLAPS

(***************************************************************************)
(* Induction over the natural numbers, for a set instead of a predicate.   *)
(***************************************************************************)

\* A set of natural numbers that is not empty has a least element.
LEMMA LeastNumber ==
  ASSUME NEW S \in SUBSET Nat, S # {}
  PROVE  \E i \in S : \A j \in S : i <= j
PROOF
  <1>. DEFINE Less == {p \in Nat \X Nat : p[1] < p[2]}
  <1>1. IsWellFoundedOn(Less, Nat)
    BY NatLessThanWellFounded, Zenon DEF OpToRel
  <1>2. \E i \in S : \A j \in S : <<j, i>> \notin Less
    <2>. HIDE DEF Less
    <2>. QED BY <1>1, WFMin
  <1>3. \A i, j \in Nat : j < i => <<j, i>> \in Less
    OBVIOUS
  <1>. HIDE DEF Less
  <1>4. PICK i \in S : \A j \in S : <<j, i>> \notin Less
    BY <1>2
  <1>5. \A j \in S : i \in Nat /\ j \in Nat /\ ~ (j < i)
    BY <1>3, <1>4
  <1>6. \A j \in S : i <= j
    BY <1>5
  <1>. QED BY <1>4, <1>6

\* The numbers up to n are in a set that has zero and is closed under successor.
LEMMA UpTo ==
  ASSUME NEW n \in Nat, NEW S, 0 \in S,
         \A k \in 0 .. n - 1 : k \in S => k + 1 \in S
  PROVE  \A k \in 0 .. n : k \in S
PROOF
  <1>. SUFFICES ASSUME NEW m \in 0 .. n, m \notin S PROVE FALSE
    OBVIOUS
  <1>. DEFINE Missing == {k \in 0 .. n : k \notin S}
  <1>1. Missing \in SUBSET Nat /\ Missing # {}
    OBVIOUS
  <1>. HIDE DEF Missing
  <1>2. PICK i \in Missing : \A j \in Missing : i <= j
    BY <1>1, LeastNumber
  <1>. USE DEF Missing
  <1>3. i \in Nat /\ i # 0 /\ i <= n
    BY <1>2
  <1>4. i - 1 \in 0 .. n - 1 /\ i - 1 \in 0 .. n
    BY <1>3
  <1>5. i - 1 \notin Missing
    BY <1>2, <1>4, <1>3
  <1>6. i - 1 \in S
    BY <1>4, <1>5
  <1>7. (i - 1) + 1 = i
    BY <1>3
  <1>. QED BY <1>2, <1>4, <1>6, <1>7

\* A loop over 1 to n, as the table of the values after each of its steps.
Loop(n, A, base, step) ==
  CHOOSE f \in [0 .. n -> A] : f[0] = base /\ \A k \in 1 .. n : f[k] = step[k][f[k - 1]]

\* There is such a table.
LEMMA LoopTable ==
  ASSUME NEW n \in Nat, NEW A, NEW base \in A, NEW step \in [1 .. n -> [A -> A]]
  PROVE  /\ Loop(n, A, base, step) \in [0 .. n -> A]
         /\ Loop(n, A, base, step)[0] = base
         /\ \A k \in 1 .. n : Loop(n, A, base, step)[k] = step[k][Loop(n, A, base, step)[k - 1]]
PROOF
  <1>. DEFINE Good(f, m) == f[0] = base /\ \A k \in 1 .. m : f[k] = step[k][f[k - 1]]
              S == {m \in 0 .. n : \E f \in [0 .. m -> A] : Good(f, m)}
  <1>1. 0 \in S
    <2>. DEFINE f == [k \in 0 .. 0 |-> base]
    <2>1. f \in [0 .. 0 -> A] /\ Good(f, 0)
      OBVIOUS
    <2>. HIDE DEF f
    <2>2. 0 \in 0 .. n
      OBVIOUS
    <2>. QED BY <2>1, <2>2
  <1>2. ASSUME NEW m \in 0 .. n - 1, m \in S PROVE m + 1 \in S
    <2>1. PICK f \in [0 .. m -> A] : Good(f, m)
      BY <1>2
    <2>2. m \in Nat /\ m + 1 \in 1 .. n /\ m \in 0 .. m /\ 0 .. m + 1 = (0 .. m) \cup {m + 1}
      BY <1>2
    <2>. DEFINE g == [k \in 0 .. m + 1 |-> IF k = m + 1 THEN step[m + 1][f[m]] ELSE f[k]]
    <2>3. step[m + 1] \in [A -> A] /\ f[m] \in A
      BY <2>2
    <2>4. step[m + 1][f[m]] \in A
      BY <2>3
    <2>5. g \in [0 .. m + 1 -> A]
      BY <2>2, <2>4
    <2>6. g[0] = base
      BY <2>1, <2>2
    <2>7. ASSUME NEW k \in 1 .. m + 1 PROVE g[k] = step[k][g[k - 1]]
      <3>1. CASE k = m + 1
        <4>1. k - 1 = m /\ m # m + 1 /\ m \in 0 .. m + 1 /\ k \in 0 .. m + 1
          BY <2>2, <3>1
        <4>2. g[m] = f[m]
          BY <4>1
        <4>. QED BY <3>1, <4>1, <4>2
      <3>2. CASE k # m + 1
        <4>1. k \in 1 .. m /\ k \in 0 .. m /\ k - 1 \in 0 .. m /\ k - 1 # m + 1
          BY <2>2, <3>2
        <4>2. g[k] = f[k] /\ g[k - 1] = f[k - 1]
          BY <2>2, <3>2, <4>1
        <4>. QED BY <2>1, <4>1, <4>2
      <3>. QED BY <3>1, <3>2
    <2>. HIDE DEF g
    <2>8. Good(g, m + 1)
      BY <2>6, <2>7
    <2>9. m + 1 \in 0 .. n
      OBVIOUS
    <2>. HIDE DEF Good
    <2>. QED BY <2>5, <2>8, <2>9
  <1>3. \A m \in 0 .. n : m \in S
    <2>. HIDE DEF S
    <2>. QED BY <1>1, <1>2, UpTo
  <1>4. n \in 0 .. n
    OBVIOUS
  <1>5. \E f \in [0 .. n -> A] : Good(f, n)
    BY <1>3, <1>4
  <1>. QED BY <1>5, Zenon DEF Loop

-----------------------------------------------------------------------------
(***************************************************************************)
(* Folds.  The operators of Folds recurse on a set of positions and take   *)
(* out the last one; on a sequence this is a loop from the first to the    *)
(* last element.                                                           *)
(***************************************************************************)

\* The last of the positions up to m.
LEMMA LastPosition ==
  ASSUME NEW m \in Nat, NEW s \in SUBSET (1 .. m + 1), m + 1 \in s
  PROVE  Max(s) = m + 1 /\ s \ {Max(s)} \in SUBSET (1 .. m)
PROOF
  <1>1. \A y \in s : m + 1 >= y
    OBVIOUS
  <1>2. \A x \in s : (\A y \in s : x >= y) => x = m + 1
    OBVIOUS
  <1>3. Max(s) = m + 1
    BY <1>1, <1>2 DEF Max
  <1>. QED BY <1>3

\* What a fold of n elements does at each position.
Steps(n, A) == [1 .. n -> [A -> A]]

\* The tables of a recursion on the sets of positions that takes out the last.
Solutions(n, A, base, step) ==
  {f \in [SUBSET (1 .. n) -> A] :
     \A s \in SUBSET (1 .. n) :
       f[s] = IF s = {} THEN base ELSE step[Max(s)][f[s \ {Max(s)}]]}

\* There is one.
LEMMA FoldTable ==
  ASSUME NEW n \in Nat, NEW A, NEW base \in A, NEW step \in Steps(n, A)
  PROVE  Solutions(n, A, base, step) # {}
PROOF
  <1>. USE DEF Steps
  <1>. DEFINE Good(f, m) ==
                \A s \in SUBSET (1 .. m) :
                  f[s] = IF s = {} THEN base ELSE step[Max(s)][f[s \ {Max(s)}]]
              S == {m \in 0 .. n : \E f \in [SUBSET (1 .. m) -> A] : Good(f, m)}
  <1>1. 0 \in S
    <2>. DEFINE f == [s \in SUBSET (1 .. 0) |-> base]
    <2>1. 1 .. 0 = {}
      OBVIOUS
    <2>2. f \in [SUBSET (1 .. 0) -> A] /\ Good(f, 0)
      BY <2>1
    <2>. HIDE DEF f
    <2>3. 0 \in 0 .. n
      OBVIOUS
    <2>. QED BY <2>2, <2>3
  <1>2. ASSUME NEW m \in 0 .. n - 1, m \in S PROVE m + 1 \in S
    <2>1. PICK f \in [SUBSET (1 .. m) -> A] : Good(f, m)
      BY <1>2
    <2>2. m \in Nat /\ m + 1 \in 1 .. n /\ m + 1 \in 0 .. n
      BY <1>2
    <2>. DEFINE g == [s \in SUBSET (1 .. m + 1) |->
                        IF m + 1 \in s THEN step[m + 1][f[s \ {m + 1}]] ELSE f[s]]
    <2>3. ASSUME NEW s \in SUBSET (1 .. m + 1), m + 1 \notin s
          PROVE  s \in SUBSET (1 .. m) /\ g[s] = f[s] /\ g[s] \in A
      <3>1. s \in SUBSET (1 .. m)
        BY <2>2, <2>3
      <3>. QED BY <2>3, <3>1
    <2>4. ASSUME NEW s \in SUBSET (1 .. m + 1), m + 1 \in s
          PROVE  /\ Max(s) = m + 1 /\ g[s \ {m + 1}] = f[s \ {m + 1}]
                 /\ g[s] = step[m + 1][f[s \ {m + 1}]] /\ g[s] \in A
      <3>1. Max(s) = m + 1 /\ s \ {m + 1} \in SUBSET (1 .. m)
        BY <2>2, <2>4, LastPosition
      <3>2. s \ {m + 1} \in SUBSET (1 .. m + 1) /\ m + 1 \notin s \ {m + 1}
        BY <2>4
      <3>3. g[s \ {m + 1}] = f[s \ {m + 1}]
        BY <2>3, <3>2
      <3>4. step[m + 1] \in [A -> A] /\ f[s \ {m + 1}] \in A
        BY <2>2, <3>1
      <3>5. step[m + 1][f[s \ {m + 1}]] \in A
        BY <3>4
      <3>6. g[s] = step[m + 1][f[s \ {m + 1}]]
        BY <2>4
      <3>. QED BY <3>1, <3>3, <3>5, <3>6
    <2>5. g \in [SUBSET (1 .. m + 1) -> A]
      <3>1. \A s \in SUBSET (1 .. m + 1) : g[s] \in A
        <4>. HIDE DEF g
        <4>. QED BY <2>3, <2>4
      <3>. QED BY <3>1
    <2>6. ASSUME NEW s \in SUBSET (1 .. m + 1)
          PROVE  g[s] = IF s = {} THEN base ELSE step[Max(s)][g[s \ {Max(s)}]]
      <3>. HIDE DEF g
      <3>1. CASE m + 1 \in s
        BY <2>4, <3>1
      <3>2. CASE s = {}
        BY <2>1, <2>3, <3>2
      <3>3. CASE m + 1 \notin s /\ s # {}
        <4>1. s \in SUBSET (1 .. m) /\ g[s] = f[s]
          BY <2>3, <3>3
        <4>2. f[s] = step[Max(s)][f[s \ {Max(s)}]]
          BY <2>1, <3>3, <4>1
        <4>3. s \ {Max(s)} \in SUBSET (1 .. m + 1) /\ m + 1 \notin s \ {Max(s)}
          BY <3>3
        <4>4. g[s \ {Max(s)}] = f[s \ {Max(s)}]
          BY <2>3, <4>3
        <4>. QED BY <3>3, <4>1, <4>2, <4>4
      <3>. QED BY <3>1, <3>2, <3>3
    <2>. HIDE DEF g
    <2>7. Good(g, m + 1)
      BY <2>6
    <2>. QED BY <2>2, <2>5, <2>7
  <1>3. \A m \in 0 .. n : m \in S
    <2>. HIDE DEF S
    <2>. QED BY <1>1, <1>2, UpTo
  <1>4. n \in 0 .. n
    OBVIOUS
  <1>5. \E f \in [SUBSET (1 .. n) -> A] : Good(f, n)
    BY <1>3, <1>4
  <1>. QED BY <1>5, Zenon DEF Solutions

-----------------------------------------------------------------------------
(***************************************************************************)
(* The field.                                                              *)
(***************************************************************************)

\* Multiplication of integers modulo P stays in the field.
LEMMA MulInField ==
  ASSUME NEW x \in Int, NEW y \in Int
  PROVE  Mul(x, y) \in Field
BY FieldAssumption DEF Mul, Field

\* A number is its quotient times P and its remainder, in the field.
LEMMA Division ==
  ASSUME NEW a \in Int
  PROVE  /\ a % P \in Int /\ 0 <= a % P /\ a % P < P
         /\ a \div P \in Int
         /\ a = P * (a \div P) + (a % P)
BY FieldAssumption

\* A multiple of P strictly between -P and P is zero.
LEMMA SmallMultiple ==
  ASSUME NEW k \in Int, -P < P * k, P * k < P
  PROVE  P * k = 0
<1>1. CASE k >= 1
  BY <1>1, FieldAssumption
<1>2. CASE k <= -1
  BY <1>2, FieldAssumption
<1>3. CASE k = 0
  BY <1>3, FieldAssumption
<1> QED BY <1>1, <1>2, <1>3

\* Numbers that differ by a multiple of P have the same remainder.
LEMMA SameRemainder ==
  ASSUME NEW a \in Int, NEW b \in Int, NEW q \in Int, a = P * q + b
  PROVE  a % P = b % P
<1> DEFINE k == (b \div P) + q - (a \div P)
<1>1. /\ a % P \in Int /\ 0 <= a % P /\ a % P < P
      /\ a \div P \in Int /\ a = P * (a \div P) + (a % P)
  BY Division
<1>2. /\ b % P \in Int /\ 0 <= b % P /\ b % P < P
      /\ b \div P \in Int /\ b = P * (b \div P) + (b % P)
  BY Division
<1>3. k \in Int
  BY <1>1, <1>2
<1>4. P * k = (a % P) - (b % P)
  BY <1>1, <1>2, FieldAssumption
<1>5. P * k = 0
  <2> HIDE DEF k
  <2> QED BY <1>1, <1>2, <1>3, <1>4, SmallMultiple, FieldAssumption
<1> QED BY <1>1, <1>2, <1>4, <1>5

\* A factor may be reduced modulo P before the multiplication.
LEMMA ReduceFactor ==
  ASSUME NEW x \in Int, NEW y \in Int
  PROVE  Mul(x % P, y) = Mul(x, y)
<1> DEFINE q == x \div P
           m == x % P
<1>1. m \in Int /\ q \in Int /\ x = P * q + m
  BY Division
<1>2. (P * q + m) * y = P * (q * y) + m * y
  <2> HIDE DEF q, m
  <2> QED BY <1>1, FieldAssumption
<1>3. x * y \in Int /\ m * y \in Int /\ q * y \in Int
  <2> HIDE DEF q, m
  <2> QED BY <1>1
<1>4. (x * y) % P = (m * y) % P
  <2> HIDE DEF q, m
  <2>1. x * y = P * (q * y) + m * y
    BY <1>1, <1>2
  <2> QED BY <1>3, <2>1, SameRemainder
<1> QED BY <1>4 DEF Mul

\* A product of two factors in front of a third need not be reduced.
LEMMA MulAssociates ==
  ASSUME NEW x \in Int, NEW y \in Int, NEW z \in Int
  PROVE  Mul(Mul(x, y), z) = (x * y * z) % P
<1>1. x * y \in Int
  OBVIOUS
<1>2. Mul((x * y) % P, z) = Mul(x * y, z)
  BY <1>1, ReduceFactor
<1> QED BY <1>2 DEF Mul

\* Every element but zero has an inverse, and Invert is one.
LEMMA InvertInverts ==
  ASSUME NEW r \in Field, r # 0
  PROVE  Invert(r) \in Field /\ Mul(r, Invert(r)) = 1
BY FieldAssumption DEF Invert

\* A summand may be reduced modulo P before the addition.
LEMMA ReduceSummand ==
  ASSUME NEW x \in Int, NEW y \in Int
  PROVE  ((x % P) + y) % P = (x + y) % P
PROOF
  <1>. DEFINE q == x \div P
              m == x % P
  <1>1. m \in Int /\ q \in Int /\ x = P * q + m
    BY Division
  <1>. HIDE DEF q, m
  <1>2. x + y \in Int /\ m + y \in Int /\ x + y = P * q + (m + y)
    BY <1>1, FieldAssumption
  <1>3. (x + y) % P = (m + y) % P
    BY <1>1, <1>2, SameRemainder
  <1>. QED BY <1>3 DEF m

\* The elements of the field are integers that reduction leaves alone, and the
\* operations stay in the field.
LEMMA Closed ==
  /\ Field \subseteq Int /\ 0 \in Field /\ 1 \in Field
  /\ \A x \in Int : x % P \in Field
  /\ \A x \in Field : x % P = x /\ Neg(x) \in Field
  /\ \A x, y \in Field : Add(x, y) \in Field /\ Mul(x, y) \in Field /\ Sub(x, y) \in Field
PROOF
  <1>1. /\ Field \subseteq Int /\ 0 \in Field /\ 1 \in Field
        /\ \A x \in Int : x % P \in Field
        /\ \A x \in Field : x % P = x
    BY FieldAssumption DEF Field
  <1>2. \A x \in Field : Neg(x) \in Field
    BY <1>1, FieldAssumption DEF Neg
  <1>3. \A x, y \in Field : Add(x, y) \in Field
    BY <1>1 DEF Add
  <1>4. \A x, y \in Field : Mul(x, y) \in Field
    BY <1>1, MulInField
  <1>. QED BY <1>1, <1>2, <1>3, <1>4 DEF Sub

\* Addition is that of a commutative group.
LEMMA Addition ==
  /\ \A x \in Field : Add(x, 0) = x /\ Add(0, x) = x /\ Add(x, Neg(x)) = 0
  /\ \A x, y \in Field : Add(x, y) = Add(y, x)
  /\ \A x, y, z \in Field : Add(Add(x, y), z) = Add(x, Add(y, z))
PROOF
  <1>1. \A x \in Field : Add(x, 0) = x /\ Add(0, x) = x
    BY Closed DEF Add
  <1>2. ASSUME NEW x \in Field PROVE Add(x, Neg(x)) = 0
    <2>1. x \in 0 .. P - 1 /\ P \in Nat /\ P > 1
      BY FieldAssumption DEF Field
    <2>2. CASE x = 0
      <3>1. Neg(x) = 0
        BY <2>1, <2>2 DEF Neg
      <3>. QED BY <2>2, <3>1, <2>1 DEF Add
    <2>3. CASE x # 0
      <3>1. Neg(x) = P - x
        BY <2>1, <2>3 DEF Neg
      <3>. QED BY <2>1, <3>1 DEF Add
    <2>. QED BY <2>2, <2>3
  <1>3. \A x, y \in Field : Add(x, y) = Add(y, x)
    BY Closed DEF Add
  <1>4. ASSUME NEW x \in Field, NEW y \in Field, NEW z \in Field
        PROVE  Add(Add(x, y), z) = Add(x, Add(y, z))
    <2>1. x \in Int /\ y \in Int /\ z \in Int /\ x + y \in Int /\ y + z \in Int
      BY Closed
    <2>2. Add(Add(x, y), z) = ((x + y) + z) % P
      BY <2>1, ReduceSummand DEF Add
    <2>3. Add(Add(y, z), x) = ((y + z) + x) % P
      BY <2>1, ReduceSummand DEF Add
    <2>4. (x + y) + z = (y + z) + x
      BY <2>1
    <2>. QED BY <1>3, <2>2, <2>3, <2>4, Closed
  <1>. QED BY <1>1, <1>2, <1>3, <1>4

\* Multiplication is commutative and associative, with one as its unit.
LEMMA Multiplication ==
  /\ \A x \in Field : Mul(x, 1) = x /\ Mul(1, x) = x /\ Mul(x, 0) = 0 /\ Mul(0, x) = 0
  /\ \A x, y \in Field : Mul(x, y) = Mul(y, x)
  /\ \A x, y, z \in Field : Mul(Mul(x, y), z) = Mul(x, Mul(y, z))
PROOF
  <1>1. \A x \in Field : Mul(x, 1) = x /\ Mul(1, x) = x
    BY Closed DEF Mul
  <1>2. \A x \in Field : Mul(x, 0) = 0 /\ Mul(0, x) = 0
    <2>1. \A x \in Field : x * 0 = 0 /\ 0 * x = 0
      BY Closed
    <2>2. 0 % P = 0
      BY FieldAssumption
    <2>. QED BY <2>1, <2>2 DEF Mul
  <1>3. \A x, y \in Field : Mul(x, y) = Mul(y, x)
    <2>1. \A x, y \in Int : x * y = y * x
      OBVIOUS
    <2>. QED BY <2>1, Closed DEF Mul
  <1>4. ASSUME NEW x \in Field, NEW y \in Field, NEW z \in Field
        PROVE  Mul(Mul(x, y), z) = Mul(x, Mul(y, z))
    <2>1. x \in Int /\ y \in Int /\ z \in Int
      BY Closed
    <2>2. Mul(Mul(x, y), z) = (x * y * z) % P /\ Mul(Mul(y, z), x) = (y * z * x) % P
      BY <2>1, MulAssociates
    <2>3. x * y * z = y * z * x
      BY <2>1
    <2>. QED BY <1>3, <2>2, <2>3, Closed
  <1>. QED BY <1>1, <1>2, <1>3, <1>4

\* Multiplication distributes over addition and negation.
LEMMA Distribution ==
  /\ \A x, y, z \in Field : Mul(x, Add(y, z)) = Add(Mul(x, y), Mul(x, z))
  /\ \A x, y \in Field : Mul(Neg(x), y) = Neg(Mul(x, y)) /\ Mul(x, Neg(y)) = Neg(Mul(x, y))
PROOF
  <1>1. ASSUME NEW x \in Field, NEW y \in Field, NEW z \in Field
        PROVE  Mul(x, Add(y, z)) = Add(Mul(x, y), Mul(x, z))
    <2>1. x \in Int /\ y \in Int /\ z \in Int /\ x * y \in Int /\ x * z \in Int /\ y + z \in Int
      BY Closed
    <2>2. Mul(x, Add(y, z)) = Mul(Add(y, z), x)
      BY Closed, Multiplication
    <2>3. Mul((y + z) % P, x) = Mul(y + z, x)
      BY <2>1, ReduceFactor
    <2>4. (y + z) * x = x * y + x * z
      BY <2>1
    <2>5. Mul(x, Add(y, z)) = (x * y + x * z) % P
      BY <2>2, <2>3, <2>4 DEF Add, Mul
    <2>6. (((x * y) % P) + (x * z)) % P = (x * y + x * z) % P
      BY <2>1, ReduceSummand
    <2>7. (((x * z) % P) + ((x * y) % P)) % P = ((x * z) + ((x * y) % P)) % P
      <3>1. (x * y) % P \in Int
        BY <2>1, Division
      <3>. QED BY <2>1, <3>1, ReduceSummand
    <2>8. (x * y) % P \in Int /\ (x * z) % P \in Int
      BY <2>1, Division
    <2>9. (((x * y) % P) + ((x * z) % P)) % P = (x * y + x * z) % P
      <3>1. ((x * y) % P) + ((x * z) % P) = ((x * z) % P) + ((x * y) % P)
        BY <2>8
      <3>2. (x * z) + ((x * y) % P) = ((x * y) % P) + (x * z)
        BY <2>1, <2>8
      <3>. QED BY <3>1, <3>2, <2>6, <2>7
    <2>. QED BY <2>5, <2>9 DEF Add, Mul
  <1>2. ASSUME NEW x \in Field, NEW y \in Field
        PROVE  Mul(x, Neg(y)) = Neg(Mul(x, y))
    <2>. DEFINE a == Mul(x, y)
                b == Mul(x, Neg(y))
    <2>1. a \in Field /\ b \in Field /\ Neg(a) \in Field
      BY Closed
    <2>2. Add(a, b) = 0
      <3>1. Neg(y) \in Field /\ Add(y, Neg(y)) = 0
        BY Closed, Addition
      <3>2. Add(a, b) = Mul(x, Add(y, Neg(y)))
        BY <1>1, <3>1
      <3>. QED BY <3>1, <3>2, Multiplication
    <2>. HIDE DEF a, b
    <2>3. Add(Add(Neg(a), a), b) = Add(Neg(a), 0)
      BY <2>1, <2>2, Addition
    <2>4. Add(Neg(a), a) = 0
      BY <2>1, Addition
    <2>5. b = Neg(a)
      BY <2>1, <2>3, <2>4, Addition
    <2>. QED BY <2>5 DEF a, b
  <1>3. ASSUME NEW x \in Field, NEW y \in Field
        PROVE  Mul(Neg(x), y) = Neg(Mul(x, y))
    <2>1. Mul(Neg(x), y) = Mul(y, Neg(x)) /\ Mul(y, x) = Mul(x, y)
      BY Closed, Multiplication
    <2>. QED BY <1>2, <2>1
  <1>. QED BY <1>1, <1>2, <1>3

\* Summands cancel, and negation and subtraction are what they should be.
LEMMA Subtraction ==
  /\ \A x, y, z \in Field : Add(x, y) = Add(x, z) => y = z
  /\ \A x, y \in Field : Sub(x, y) = 0 <=> x = y
  /\ \A x \in Field : Neg(Neg(x)) = x
  /\ \A x, y \in Field : Neg(Sub(x, y)) = Sub(y, x)
  /\ \A x, y \in Field : Add(Sub(x, y), y) = x
  /\ \A x, y, z \in Field : Add(Sub(x, y), Sub(y, z)) = Sub(x, z)
  /\ \A x, y, z \in Field : Mul(x, Sub(y, z)) = Sub(Mul(x, y), Mul(x, z))
PROOF
  <1>1. ASSUME NEW x \in Field, NEW y \in Field, NEW z \in Field, Add(x, y) = Add(x, z)
        PROVE  y = z
    <2>1. Neg(x) \in Field /\ Add(Neg(x), x) = 0
      BY Closed, Addition
    <2>2. Add(Add(Neg(x), x), y) = Add(Add(Neg(x), x), z)
      BY <1>1, <2>1, Addition
    <2>. QED BY <2>1, <2>2, Addition
  <1>2. ASSUME NEW x \in Field PROVE Neg(Neg(x)) = x
    <2>1. /\ Neg(x) \in Field /\ Neg(Neg(x)) \in Field
          /\ Add(Neg(x), x) = 0 /\ Add(Neg(x), Neg(Neg(x))) = 0
      BY Closed, Addition
    <2>. QED BY <1>1, <2>1
  <1>3. ASSUME NEW x \in Field, NEW y \in Field PROVE Add(Sub(x, y), y) = x
    <2>1. Neg(y) \in Field /\ Add(Neg(y), y) = 0
      BY Closed, Addition
    <2>2. Add(Add(x, Neg(y)), y) = Add(x, Add(Neg(y), y))
      BY <2>1, Addition
    <2>. QED BY <2>1, <2>2, Addition DEF Sub
  <1>4. ASSUME NEW x \in Field, NEW y \in Field PROVE Sub(x, y) = 0 <=> x = y
    <2>1. Sub(x, x) = 0
      BY Addition DEF Sub
    <2>2. Sub(x, y) = 0 => x = Add(0, y)
      BY <1>3
    <2>. QED BY <2>1, <2>2, Addition
  <1>5. ASSUME NEW x \in Field, NEW y \in Field, NEW z \in Field
        PROVE  Add(Sub(x, y), Sub(y, z)) = Sub(x, z)
    <2>1. Neg(z) \in Field /\ Sub(x, y) \in Field
      BY Closed
    <2>2. Add(Sub(x, y), Add(y, Neg(z))) = Add(Add(Sub(x, y), y), Neg(z))
      BY <2>1, Addition
    <2>. QED BY <1>3, <2>2 DEF Sub
  <1>6. ASSUME NEW x \in Field, NEW y \in Field PROVE Neg(Sub(x, y)) = Sub(y, x)
    <2>1. /\ Sub(x, y) \in Field /\ Sub(y, x) \in Field /\ Neg(Sub(x, y)) \in Field
          /\ Add(Sub(x, y), Neg(Sub(x, y))) = 0
      BY Closed, Addition
    <2>2. Add(Sub(x, y), Sub(y, x)) = 0
      BY <1>4, <1>5
    <2>. QED BY <1>1, <2>1, <2>2
  <1>7. ASSUME NEW x \in Field, NEW y \in Field, NEW z \in Field
        PROVE  Mul(x, Sub(y, z)) = Sub(Mul(x, y), Mul(x, z))
    <2>1. Neg(z) \in Field
      BY Closed
    <2>2. Mul(x, Add(y, Neg(z))) = Add(Mul(x, y), Mul(x, Neg(z)))
      BY <2>1, Distribution
    <2>3. Mul(x, Neg(z)) = Neg(Mul(x, z))
      BY Distribution
    <2>. QED BY <2>2, <2>3 DEF Sub
  <1>. QED BY <1>1, <1>2, <1>3, <1>4, <1>5, <1>6, <1>7

\* Factors that are not zero cancel.
LEMMA CancelFactor ==
  ASSUME NEW u \in Field, u # 0, NEW x \in Field, NEW y \in Field, Mul(u, x) = Mul(u, y)
  PROVE  x = y
PROOF
  <1>1. Invert(u) \in Field /\ Mul(u, Invert(u)) = 1
    BY InvertInverts
  <1>. DEFINE i == Invert(u)
  <1>. HIDE DEF i
  <1>2. Mul(i, u) = 1 /\ i \in Field
    BY <1>1, Multiplication DEF i
  <1>3. Mul(Mul(i, u), x) = Mul(Mul(i, u), y)
    BY <1>2, Multiplication
  <1>. QED BY <1>2, <1>3, Multiplication
-----------------------------------------------------------------------------
(***************************************************************************)
(* The factors of the coefficients.                                        *)
(***************************************************************************)

\* The factor that the point y contributes to the coefficient of the point x.
Factor(x, y) == Mul(Neg(y), Invert(Sub(x, y)))

\* It is an element of the field, and a fraction.
LEMMA FactorIsFraction ==
  ASSUME NEW x \in Field, NEW y \in Field, x # y
  PROVE  /\ Factor(x, y) \in Field /\ Sub(x, y) \in Field /\ Sub(x, y) # 0
         /\ Mul(Sub(x, y), Factor(x, y)) = Neg(y)
PROOF
  <1>. DEFINE d == Sub(x, y)
              i == Invert(d)
  <1>1. d \in Field /\ d # 0
    BY Closed, Subtraction
  <1>2. i \in Field /\ Mul(d, i) = 1 /\ Neg(y) \in Field
    BY <1>1, InvertInverts, Closed
  <1>3. Factor(x, y) = Mul(Neg(y), i)
    BY DEF Factor
  <1>. HIDE DEF d, i
  <1>4. Mul(Neg(y), i) \in Field /\ Mul(Neg(y), i) = Mul(i, Neg(y))
    BY <1>2, Closed, Multiplication
  <1>5. Mul(d, Mul(i, Neg(y))) = Mul(Mul(d, i), Neg(y))
    BY <1>1, <1>2, Multiplication
  <1>6. Mul(1, Neg(y)) = Neg(y)
    BY <1>2, Multiplication
  <1>7. Mul(d, Factor(x, y)) = Neg(y) /\ Factor(x, y) \in Field
    BY <1>2, <1>3, <1>4, <1>5, <1>6
  <1>. QED BY <1>1, <1>7 DEF d

\* Two points share the unit.
LEMMA FactorsComplement ==
  ASSUME NEW x \in Field, NEW y \in Field, x # y
  PROVE  Factor(x, y) = Sub(1, Factor(y, x))
PROOF
  <1>. DEFINE d == Sub(x, y)
              f == Factor(x, y)
              g == Factor(y, x)
  <1>1. /\ f \in Field /\ g \in Field /\ d \in Field /\ d # 0
        /\ Mul(d, f) = Neg(y) /\ Mul(Sub(y, x), g) = Neg(x) /\ Sub(y, x) = Neg(d)
    BY FactorIsFraction, Subtraction
  <1>. HIDE DEF f, g
  <1>2. Neg(Mul(d, g)) = Neg(x) /\ Mul(d, g) \in Field
    <2>1. Mul(Neg(d), g) = Neg(Mul(d, g))
      BY <1>1, Distribution
    <2>2. Mul(d, g) \in Field
      BY <1>1, Closed
    <2>. QED BY <1>1, <2>1, <2>2
  <1>3. Mul(d, g) = x
    BY <1>2, Subtraction
  <1>. HIDE DEF d
  <1>4. Mul(d, Sub(1, g)) = Sub(d, x) /\ Sub(1, g) \in Field
    <2>1. 1 \in Field /\ Sub(1, g) \in Field
      BY <1>1, Closed
    <2>2. Mul(d, Sub(1, g)) = Sub(Mul(d, 1), Mul(d, g))
      BY <1>1, <2>1, Subtraction
    <2>3. Mul(d, 1) = d
      BY <1>1, Multiplication
    <2>. QED BY <1>3, <2>1, <2>2, <2>3
  <1>5. Sub(d, x) = Neg(y)
    <2>1. Neg(x) \in Field /\ Neg(y) \in Field
      BY Closed
    <2>2. Add(x, Neg(y)) = Add(Neg(y), x)
      BY <2>1, Addition
    <2>3. Add(Add(Neg(y), x), Neg(x)) = Add(Neg(y), Add(x, Neg(x)))
      BY <2>1, Addition
    <2>4. Add(Neg(y), Add(x, Neg(x))) = Neg(y)
      BY <2>1, Addition
    <2>. QED BY <2>2, <2>3, <2>4 DEF Sub, d
  <1>6. f = Sub(1, g)
    BY <1>1, <1>4, <1>5, CancelFactor
  <1>. QED BY <1>6 DEF f, g

\* Three points: the product of two factors is split over a third.
LEMMA FactorsSplit ==
  ASSUME NEW a \in Field, NEW b \in Field, NEW z \in Field, a # b, z # a, z # b
  PROVE  Mul(Factor(a, b), Factor(z, a))
           = Mul(Factor(z, b), Sub(Factor(z, a), Factor(b, a)))
PROOF
  <1>. DEFINE p == Sub(a, b)
              q == Sub(z, a)
              r == Sub(z, b)
              f == Factor(a, b)
              g == Factor(z, a)
              h == Factor(z, b)
              e == Factor(b, a)
  <1>1. /\ f \in Field /\ g \in Field /\ h \in Field /\ e \in Field
        /\ p \in Field /\ q \in Field /\ r \in Field /\ p # 0 /\ q # 0 /\ r # 0
        /\ Mul(p, f) = Neg(b) /\ Mul(q, g) = Neg(a) /\ Mul(r, h) = Neg(b)
    BY FactorIsFraction
  <1>2. Mul(Neg(p), e) = Neg(a) /\ Neg(p) \in Field
    BY FactorIsFraction, Subtraction, Closed
  <1>3. Add(q, p) = r
    BY Subtraction
  <1>. HIDE DEF p, q, r, f, g, h, e
  <1>4. Mul(p, e) = a
    <2>1. Neg(Mul(p, e)) = Neg(a) /\ Mul(p, e) \in Field
      BY <1>1, <1>2, Distribution, Closed
    <2>. QED BY <2>1, Subtraction
  <1>5. Sub(g, e) \in Field /\ Neg(a) \in Field /\ Neg(b) \in Field /\ Mul(q, e) \in Field
    BY <1>1, Closed
  \* Multiplied by p and q, the difference of the two factors is -(a * r / p).
  <1>6. Mul(q, Sub(g, e)) = Neg(Mul(r, e))
    <2>1. Mul(q, Sub(g, e)) = Sub(Neg(a), Mul(q, e))
      BY <1>1, Subtraction
    <2>2. Mul(e, Add(q, p)) = Add(Mul(e, q), Mul(e, p))
      BY <1>1, Distribution
    <2>3. Mul(e, r) = Mul(r, e) /\ Mul(e, q) = Mul(q, e) /\ Mul(e, p) = a
      BY <1>1, <1>4, Multiplication
    <2>4. Mul(r, e) = Add(Mul(q, e), a) /\ Mul(r, e) \in Field
      BY <1>1, <1>3, <2>2, <2>3, Closed
    <2>5. Add(Mul(r, e), Sub(Neg(a), Mul(q, e))) = 0
      <3>. DEFINE m == Mul(q, e)
                  n == Neg(a)
      <3>1. m \in Field /\ n \in Field /\ Neg(m) \in Field /\ Add(a, n) = 0 /\ Add(m, Neg(m)) = 0
        BY <1>5, Closed, Addition
      <3>. HIDE DEF m, n
      <3>2. Add(n, Neg(m)) \in Field /\ Add(m, a) = Add(a, m)
        BY <3>1, Closed, Addition
      <3>3. Add(Add(m, a), Add(n, Neg(m))) = Add(m, Add(a, Add(n, Neg(m))))
        BY <3>1, <3>2, Addition
      <3>4. Add(a, Add(n, Neg(m))) = Add(Add(a, n), Neg(m))
        BY <3>1, Addition
      <3>5. Add(0, Neg(m)) = Neg(m)
        BY <3>1, Addition
      <3>. QED BY <2>4, <3>1, <3>3, <3>4, <3>5 DEF Sub, m, n
    <2>6. /\ Neg(Mul(r, e)) \in Field /\ Sub(Neg(a), Mul(q, e)) \in Field
          /\ Add(Mul(r, e), Neg(Mul(r, e))) = 0
      BY <1>5, <2>4, Closed, Addition
    <2>. QED BY <2>1, <2>4, <2>5, <2>6, Subtraction
  \* Both sides times p and q are the product of b and a.
  <1>7. Mul(Mul(p, q), Mul(f, g)) = Mul(Neg(b), Neg(a))
    <2>1. Mul(p, q) = Mul(q, p) /\ Mul(f, g) \in Field /\ Mul(p, q) \in Field
      BY <1>1, Closed, Multiplication
    <2>2. Mul(Mul(q, p), Mul(f, g)) = Mul(q, Mul(p, Mul(f, g)))
      BY <1>1, <2>1, Multiplication
    <2>3. Mul(p, Mul(f, g)) = Mul(Neg(b), g)
      BY <1>1, Multiplication
    <2>4. Mul(Neg(b), g) = Mul(g, Neg(b)) /\ Mul(q, Mul(g, Neg(b))) = Mul(Mul(q, g), Neg(b))
      BY <1>1, <1>5, Multiplication
    <2>5. Mul(Neg(a), Neg(b)) = Mul(Neg(b), Neg(a))
      BY <1>5, Multiplication
    <2>. QED BY <1>1, <2>1, <2>2, <2>3, <2>4, <2>5
  <1>8. Mul(Mul(p, q), Mul(h, Sub(g, e))) = Mul(Neg(b), Neg(a))
    <2>. DEFINE s == Sub(g, e)
    <2>1. s \in Field /\ Mul(h, s) \in Field /\ Mul(p, q) \in Field /\ Mul(q, s) = Neg(Mul(r, e))
      BY <1>1, <1>5, <1>6, Closed
    <2>. HIDE DEF s
    <2>2. Mul(Mul(p, q), Mul(h, s)) = Mul(p, Mul(q, Mul(h, s)))
      BY <1>1, <2>1, Multiplication
    <2>3. Mul(q, Mul(h, s)) = Mul(h, Mul(q, s))
      <3>1. Mul(h, s) = Mul(s, h) /\ Mul(q, Mul(s, h)) = Mul(Mul(q, s), h)
        BY <1>1, <2>1, Multiplication
      <3>2. Mul(q, s) \in Field
        BY <1>1, <2>1, Closed
      <3>. QED BY <1>1, <3>1, <3>2, Multiplication
    <2>4. Mul(h, Neg(Mul(r, e))) = Neg(Mul(h, Mul(r, e)))
      BY <1>1, Closed, Distribution
    <2>5. Mul(h, Mul(r, e)) = Mul(Neg(b), e)
      <3>1. Mul(Mul(h, r), e) = Mul(h, Mul(r, e)) /\ Mul(h, r) = Mul(r, h)
        BY <1>1, Multiplication
      <3>. QED BY <1>1, <3>1
    <2>6. Mul(p, Neg(Mul(Neg(b), e))) = Mul(Neg(b), Neg(a))
      <3>1. Mul(Neg(b), Neg(e)) = Neg(Mul(Neg(b), e)) /\ Neg(e) \in Field
        BY <1>1, <1>5, Closed, Distribution
      <3>2. Mul(Neg(b), Neg(e)) = Mul(Neg(e), Neg(b))
        BY <1>5, <3>1, Multiplication
      <3>3. Mul(p, Mul(Neg(e), Neg(b))) = Mul(Mul(p, Neg(e)), Neg(b))
        BY <1>1, <1>5, <3>1, Multiplication
      <3>4. Mul(p, Neg(e)) = Neg(a)
        BY <1>1, <1>4, Distribution
      <3>5. Mul(Neg(a), Neg(b)) = Mul(Neg(b), Neg(a))
        BY <1>5, Multiplication
      <3>. QED BY <3>1, <3>2, <3>3, <3>4, <3>5
    <2>. QED BY <2>1, <2>2, <2>3, <2>4, <2>5, <2>6 DEF s
  <1>9. Mul(p, q) \in Field /\ Mul(p, q) # 0
    <2>1. Mul(p, q) = Mul(p, 0) => q = 0
      BY <1>1, CancelFactor, Closed
    <2>. QED BY <1>1, <2>1, Multiplication, Closed
  <1>10. Mul(f, g) = Mul(h, Sub(g, e))
    <2>1. Mul(f, g) \in Field /\ Mul(h, Sub(g, e)) \in Field
      BY <1>1, <1>5, Closed
    <2>. QED BY <1>7, <1>8, <1>9, <2>1, CancelFactor
  <1>. QED BY <1>10 DEF f, g, h, e

-----------------------------------------------------------------------------
(***************************************************************************)
(* Sums, and the weights that the loop over the indices builds.            *)
(***************************************************************************)

\* n values of the field, and those that differ from each other.
Terms(n) == [1 .. n -> Field]

Points(n) == {x \in Terms(n) : \A j, k \in 1 .. n : j # k => x[j] # x[k]}

\* The table of the sums of the first k terms.
Sums(n, t) == Loop(n, Field, 0, [k \in 1 .. n |-> [y \in Field |-> Add(y, t[k])]])

\* Each is the one before it and a term.
LEMMA SumsLoop ==
  ASSUME NEW n \in Nat, NEW t \in Terms(n)
  PROVE  /\ Sums(n, t) \in [0 .. n -> Field]
         /\ Sums(n, t)[0] = 0
         /\ \A k \in 1 .. n : Sums(n, t)[k] = Add(Sums(n, t)[k - 1], t[k])
PROOF
  <1>. DEFINE step == [k \in 1 .. n |-> [y \in Field |-> Add(y, t[k])]]
              f == Loop(n, Field, 0, step)
  <1>1. step \in [1 .. n -> [Field -> Field]] /\ 0 \in Field
    BY Closed DEF Terms
  <1>2. \A k \in 1 .. n, y \in Field : step[k][y] = Add(y, t[k])
    OBVIOUS
  <1>3. Sums(n, t) = f
    BY DEF Sums
  <1>. HIDE DEF step
  <1>4. /\ f \in [0 .. n -> Field] /\ f[0] = 0
        /\ \A k \in 1 .. n : f[k] = step[k][f[k - 1]]
    BY <1>1, LoopTable
  <1>. HIDE DEF f
  <1>5. ASSUME NEW k \in 1 .. n PROVE f[k] = Add(f[k - 1], t[k])
    <2>1. k - 1 \in 0 .. n
      OBVIOUS
    <2>2. f[k - 1] \in Field
      BY <1>4, <2>1
    <2>. QED BY <1>2, <1>4, <2>2
  <1>. QED BY <1>3, <1>4, <1>5

\* A sum of a linear combination is the linear combination of the sums.
LEMMA SumsLinear ==
  ASSUME NEW n \in Nat, NEW m \in 0 .. n, NEW a \in Field, NEW b \in Field,
         NEW t \in Terms(n), NEW u \in Terms(n), NEW v \in Terms(n),
         \A j \in 1 .. m : t[j] = Add(Mul(a, u[j]), Mul(b, v[j]))
  PROVE  Sums(n, t)[m] = Add(Mul(a, Sums(n, u)[m]), Mul(b, Sums(n, v)[m]))
PROOF
  <1>. DEFINE T == Sums(n, t)
              U == Sums(n, u)
              V == Sums(n, v)
              S == {k \in 0 .. m : T[k] = Add(Mul(a, U[k]), Mul(b, V[k]))}
  <1>1. /\ T \in [0 .. n -> Field] /\ T[0] = 0
        /\ \A k \in 1 .. n : T[k] = Add(T[k - 1], t[k])
        /\ U \in [0 .. n -> Field] /\ U[0] = 0
        /\ \A k \in 1 .. n : U[k] = Add(U[k - 1], u[k])
        /\ V \in [0 .. n -> Field] /\ V[0] = 0
        /\ \A k \in 1 .. n : V[k] = Add(V[k - 1], v[k])
    BY SumsLoop
  <1>. HIDE DEF T, U, V
  <1>2. 0 \in S
    <2>1. Mul(a, 0) = 0 /\ Mul(b, 0) = 0 /\ Add(0, 0) = 0
      BY Multiplication, Addition, Closed
    <2>. QED BY <1>1, <2>1
  <1>3. ASSUME NEW k \in 0 .. m - 1, k \in S PROVE k + 1 \in S
    <2>1. /\ k + 1 \in 1 .. m /\ k + 1 \in 1 .. n /\ k \in 0 .. n /\ (k + 1) - 1 = k
          /\ k + 1 \in 0 .. m
      OBVIOUS
    <2>. DEFINE p == U[k]
                q == V[k]
                r == u[k + 1]
                s == v[k + 1]
    <2>2. p \in Field /\ q \in Field /\ r \in Field /\ s \in Field
      BY <1>1, <2>1 DEF Terms
    <2>3. T[k + 1] = Add(T[k], t[k + 1]) /\ U[k + 1] = Add(p, r) /\ V[k + 1] = Add(q, s)
      BY <1>1, <2>1
    <2>4. T[k] = Add(Mul(a, p), Mul(b, q)) /\ t[k + 1] = Add(Mul(a, r), Mul(b, s))
      BY <1>3, <2>1
    <2>. HIDE DEF p, q, r, s
    <2>. DEFINE ap == Mul(a, p)
                bq == Mul(b, q)
                ar == Mul(a, r)
                bs == Mul(b, s)
    <2>5. Mul(a, Add(p, r)) = Add(ap, ar) /\ Mul(b, Add(q, s)) = Add(bq, bs)
      BY <2>2, Distribution
    <2>6. ap \in Field /\ bq \in Field /\ ar \in Field /\ bs \in Field
      BY <2>2, Closed
    <2>. HIDE DEF ap, bq, ar, bs
    <2>7. Add(Add(ap, bq), Add(ar, bs)) = Add(Add(ap, ar), Add(bq, bs))
      <3>1. Add(ar, bs) \in Field /\ Add(bq, bs) \in Field
        BY <2>6, Closed
      <3>2. Add(Add(ap, bq), Add(ar, bs)) = Add(ap, Add(bq, Add(ar, bs)))
        BY <2>6, <3>1, Addition
      <3>3. Add(Add(ap, ar), Add(bq, bs)) = Add(ap, Add(ar, Add(bq, bs)))
        BY <2>6, <3>1, Addition
      <3>4. Add(bq, Add(ar, bs)) = Add(Add(bq, ar), bs) /\ Add(Add(ar, bq), bs) = Add(ar, Add(bq, bs))
        BY <2>6, Addition
      <3>5. Add(bq, ar) = Add(ar, bq)
        BY <2>6, Addition
      <3>. QED BY <3>2, <3>3, <3>4, <3>5
    <2>8. T[k + 1] = Add(Mul(a, U[k + 1]), Mul(b, V[k + 1]))
      BY <2>3, <2>4, <2>5, <2>7 DEF ap, bq, ar, bs
    <2>. QED BY <2>1, <2>8
  <1>4. \A k \in 0 .. m : k \in S
    <2>1. m \in Nat
      OBVIOUS
    <2>. HIDE DEF S
    <2>. QED BY <2>1, <1>2, <1>3, UpTo
  <1>5. m \in 0 .. m
    OBVIOUS
  <1>6. T[m] = Add(Mul(a, U[m]), Mul(b, V[m]))
    BY <1>4, <1>5
  <1>. QED BY <1>6 DEF T, U, V

\* Sums of the same terms are the same.
LEMMA SumsSame ==
  ASSUME NEW n \in Nat, NEW m \in 0 .. n, NEW t \in Terms(n), NEW u \in Terms(n),
         \A j \in 1 .. m : t[j] = u[j]
  PROVE  Sums(n, t)[m] = Sums(n, u)[m]
PROOF
  <1>1. \A x \in Field : Add(Mul(1, x), Mul(0, x)) = x
    BY Multiplication, Addition
  <1>2. \A j \in 1 .. m : u[j] \in Field
    BY DEF Terms
  <1>3. \A j \in 1 .. m : t[j] = Add(Mul(1, u[j]), Mul(0, u[j]))
    BY <1>1, <1>2
  <1>4. Sums(n, u)[m] \in Field
    BY SumsLoop
  <1>5. 0 \in Field /\ 1 \in Field
    BY Closed
  <1>6. Sums(n, t)[m] = Add(Mul(1, Sums(n, u)[m]), Mul(0, Sums(n, u)[m]))
    <2>1. ASSUME NEW a \in Field, NEW b \in Field, a = 1, b = 0
          PROVE  Sums(n, t)[m] = Add(Mul(a, Sums(n, u)[m]), Mul(b, Sums(n, u)[m]))
      <3>1. \A j \in 1 .. m : t[j] = Add(Mul(a, u[j]), Mul(b, u[j]))
        BY <1>3, <2>1
      <3>. QED BY <3>1, SumsLinear
    <2>. QED BY <1>5, <2>1
  <1>. QED BY <1>1, <1>4, <1>6

\* The weights after the first k factors: agent j skips its own.
WeightTables(n, x) ==
  {w \in [1 .. n -> [0 .. n -> Field]] : \A j \in 1 .. n :
     /\ w[j][0] = 1
     /\ \A k \in 1 .. n :
          w[j][k] = IF j # k THEN Mul(w[j][k - 1], Factor(x[j], x[k])) ELSE w[j][k - 1]}

\* The sum of the first k values, each with its weight after k factors.
Weighted(n, w, k, v) == Sums(n, [j \in 1 .. n |-> Mul(w[j][k], v[j])])[k]

\* A weight times a value is a term of a sum.
LEMMA WeightedTerms ==
  ASSUME NEW n \in Nat, NEW x \in Points(n), NEW w \in WeightTables(n, x),
         NEW k \in 0 .. n, NEW v \in Terms(n)
  PROVE  /\ [j \in 1 .. n |-> Mul(w[j][k], v[j])] \in Terms(n)
         /\ Weighted(n, w, k, v) \in Field
         /\ \A j \in 1 .. n : w[j][k] \in Field
PROOF
  <1>1. w \in [1 .. n -> [0 .. n -> Field]]
    BY DEF WeightTables
  <1>2. \A j \in 1 .. n : w[j][k] \in Field /\ v[j] \in Field
    BY <1>1 DEF Terms
  <1>3. [j \in 1 .. n |-> Mul(w[j][k], v[j])] \in Terms(n)
    BY <1>2, Closed DEF Terms
  <1>4. Weighted(n, w, k, v) \in Field
    BY <1>3, SumsLoop DEF Weighted
  <1>. QED BY <1>2, <1>3, <1>4

\* The first k values of t are a times those of u and b times those of v.
Mixes(k, a, b, t, u, v) == \A j \in 1 .. k : t[j] = Add(Mul(a, u[j]), Mul(b, v[j]))

\* The weighted sum is linear in the values.
LEMMA WeightedLinear ==
  ASSUME NEW n \in Nat, NEW x \in Points(n), NEW w \in WeightTables(n, x),
         NEW k \in 0 .. n, NEW a \in Field, NEW b \in Field,
         NEW t \in Terms(n), NEW u \in Terms(n), NEW v \in Terms(n),
         Mixes(k, a, b, t, u, v)
  PROVE  Weighted(n, w, k, t)
           = Add(Mul(a, Weighted(n, w, k, u)), Mul(b, Weighted(n, w, k, v)))
PROOF
  <1>. DEFINE T == [j \in 1 .. n |-> Mul(w[j][k], t[j])]
              U == [j \in 1 .. n |-> Mul(w[j][k], u[j])]
              V == [j \in 1 .. n |-> Mul(w[j][k], v[j])]
  <1>1. T \in Terms(n) /\ U \in Terms(n) /\ V \in Terms(n)
    BY WeightedTerms
  <1>2. ASSUME NEW j \in 1 .. k PROVE T[j] = Add(Mul(a, U[j]), Mul(b, V[j]))
    <2>1. j \in 1 .. n
      OBVIOUS
    <2>2. w[j][k] \in Field
      BY <2>1, WeightedTerms
    <2>3. u[j] \in Field /\ v[j] \in Field
      BY <2>1 DEF Terms
    <2>. DEFINE c == w[j][k]
                p == u[j]
                q == v[j]
    <2>4. T[j] = Mul(c, Add(Mul(a, p), Mul(b, q))) /\ U[j] = Mul(c, p) /\ V[j] = Mul(c, q)
      BY <2>1 DEF Mixes
    <2>. HIDE DEF c, p, q, T, U, V
    <2>5. c \in Field /\ p \in Field /\ q \in Field
      BY <2>2, <2>3 DEF c, p, q
    <2>6. \A d, y \in Field : Mul(c, Mul(d, y)) = Mul(d, Mul(c, y))
      <3>1. ASSUME NEW d \in Field, NEW y \in Field PROVE Mul(c, Mul(d, y)) = Mul(d, Mul(c, y))
        <4>1. Mul(Mul(c, d), y) = Mul(c, Mul(d, y)) /\ Mul(Mul(d, c), y) = Mul(d, Mul(c, y))
          BY <2>5, Multiplication
        <4>. QED BY <4>1, <2>5, Multiplication
      <3>. QED BY <3>1
    <2>7. Mul(c, Add(Mul(a, p), Mul(b, q))) = Add(Mul(c, Mul(a, p)), Mul(c, Mul(b, q)))
      <3>1. Mul(a, p) \in Field /\ Mul(b, q) \in Field
        BY <2>5, Closed
      <3>. QED BY <2>5, <3>1, Distribution
    <2>. QED BY <2>4, <2>5, <2>6, <2>7
  <1>. HIDE DEF T, U, V
  <1>3. Sums(n, T)[k] = Add(Mul(a, Sums(n, U)[k]), Mul(b, Sums(n, V)[k]))
    BY <1>1, <1>2, SumsLinear
  <1>. QED BY <1>3 DEF Weighted, T, U, V

\* The values of v before the k-th, each with the factor the k-th point
\* contributes to it.
TakesFactor(k, x, u, v) == \A j \in 1 .. k - 1 : u[j] = Mul(Factor(x[j], x[k]), v[j])

\* The k-th factor goes to the values of the earlier points, and the k-th
\* value joins with the weight its own loop has by then.
LEMMA WeightedStep ==
  ASSUME NEW n \in Nat, NEW x \in Points(n), NEW w \in WeightTables(n, x),
         NEW k \in 1 .. n, NEW u \in Terms(n), NEW v \in Terms(n),
         TakesFactor(k, x, u, v)
  PROVE  Weighted(n, w, k, v)
           = Add(Weighted(n, w, k - 1, u), Mul(w[k][k - 1], v[k]))
PROOF
  <1>. DEFINE T == [j \in 1 .. n |-> Mul(w[j][k], v[j])]
              U == [j \in 1 .. n |-> Mul(w[j][k - 1], u[j])]
  <1>1. k \in 0 .. n /\ k - 1 \in 0 .. n
    OBVIOUS
  <1>2. T \in Terms(n) /\ U \in Terms(n)
    BY <1>1, WeightedTerms
  <1>3. ASSUME NEW j \in 1 .. k - 1 PROVE T[j] = U[j]
    <2>1. j \in 1 .. n /\ j # k
      OBVIOUS
    <2>2. w[j][k] = Mul(w[j][k - 1], Factor(x[j], x[k]))
      BY <2>1 DEF WeightTables
    <2>3. w[j][k - 1] \in Field /\ v[j] \in Field
      BY <1>1, <2>1, WeightedTerms DEF Terms
    <2>4. Factor(x[j], x[k]) \in Field
      <3>1. x[j] \in Field /\ x[k] \in Field /\ x[j] # x[k]
        BY <2>1 DEF Points, Terms
      <3>. QED BY <3>1, FactorIsFraction
    <2>5. Mul(Mul(w[j][k - 1], Factor(x[j], x[k])), v[j])
            = Mul(w[j][k - 1], Mul(Factor(x[j], x[k]), v[j]))
      BY <2>3, <2>4, Multiplication
    <2>. QED BY <2>1, <2>2, <2>5 DEF TakesFactor
  <1>4. T[k] = Mul(w[k][k - 1], v[k])
    <2>1. w[k][k] = w[k][k - 1]
      BY DEF WeightTables
    <2>. QED BY <2>1
  <1>. HIDE DEF T, U
  <1>5. Sums(n, T)[k] = Add(Sums(n, T)[k - 1], T[k])
    BY <1>2, SumsLoop
  <1>6. Sums(n, T)[k - 1] = Sums(n, U)[k - 1]
    BY <1>1, <1>2, <1>3, SumsSame
  <1>. QED BY <1>4, <1>5, <1>6 DEF Weighted, T, U

\* The product of the factors of the points up to k to the coefficient of z.
Products(n, x, z) ==
  Loop(n, Field, 1,
       [k \in 1 .. n |-> [y \in Field |-> IF z # x[k] THEN Mul(y, Factor(z, x[k])) ELSE y]])

Weights(n, x) == [j \in 1 .. n |-> Products(n, x, x[j])]

\* Each is the one before it and a factor.
LEMMA ProductsLoop ==
  ASSUME NEW n \in Nat, NEW x \in Terms(n), NEW z \in Field
  PROVE  /\ Products(n, x, z) \in [0 .. n -> Field]
         /\ Products(n, x, z)[0] = 1
         /\ \A k \in 1 .. n :
              Products(n, x, z)[k] = IF z # x[k]
                                     THEN Mul(Products(n, x, z)[k - 1], Factor(z, x[k]))
                                     ELSE Products(n, x, z)[k - 1]
PROOF
  <1>. DEFINE next(k, y) == IF z # x[k] THEN Mul(y, Factor(z, x[k])) ELSE y
              step == [k \in 1 .. n |-> [y \in Field |-> next(k, y)]]
              f == Loop(n, Field, 1, step)
  <1>1. ASSUME NEW k \in 1 .. n, NEW y \in Field PROVE next(k, y) \in Field
    <2>1. x[k] \in Field
      BY DEF Terms
    <2>2. z # x[k] => Factor(z, x[k]) \in Field
      BY <2>1, FactorIsFraction
    <2>. QED BY <2>2, Closed
  <1>2. Products(n, x, z) = f
    BY DEF Products
  <1>. HIDE DEF next
  <1>3. step \in [1 .. n -> [Field -> Field]] /\ 1 \in Field
    BY <1>1, Closed
  <1>4. \A k \in 1 .. n, y \in Field : step[k][y] = next(k, y)
    OBVIOUS
  <1>. HIDE DEF step
  <1>5. /\ f \in [0 .. n -> Field] /\ f[0] = 1
        /\ \A k \in 1 .. n : f[k] = step[k][f[k - 1]]
    BY <1>3, LoopTable
  <1>. HIDE DEF f
  <1>6. ASSUME NEW k \in 1 .. n PROVE f[k] = next(k, f[k - 1])
    <2>1. k - 1 \in 0 .. n
      OBVIOUS
    <2>2. f[k - 1] \in Field
      BY <1>5, <2>1
    <2>. QED BY <1>4, <1>5, <2>2
  <1>7. \A k \in 1 .. n : f[k] = IF z # x[k] THEN Mul(f[k - 1], Factor(z, x[k])) ELSE f[k - 1]
    BY <1>6 DEF next
  <1>. QED BY <1>2, <1>5, <1>7

\* The products at the points themselves are tables of weights.
LEMMA WeightsAreProducts ==
  ASSUME NEW n \in Nat, NEW x \in Points(n)
  PROVE  Weights(n, x) \in WeightTables(n, x)
PROOF
  <1>. DEFINE w == Weights(n, x)
  <1>1. x \in Terms(n) /\ \A j \in 1 .. n : x[j] \in Field
    BY DEF Points, Terms
  <1>2. \A j \in 1 .. n : w[j] = Products(n, x, x[j])
    BY DEF Weights
  <1>3. w \in [1 .. n -> [0 .. n -> Field]]
    BY <1>1, ProductsLoop DEF Weights
  <1>. HIDE DEF w
  <1>4. ASSUME NEW j \in 1 .. n
        PROVE  /\ w[j][0] = 1
               /\ \A k \in 1 .. n :
                    w[j][k] = IF j # k THEN Mul(w[j][k - 1], Factor(x[j], x[k])) ELSE w[j][k - 1]
    <2>1. \A k \in 1 .. n : x[j] # x[k] <=> j # k
      BY DEF Points
    <2>2. /\ w[j][0] = 1
          /\ \A k \in 1 .. n :
               w[j][k] = IF x[j] # x[k] THEN Mul(w[j][k - 1], Factor(x[j], x[k])) ELSE w[j][k - 1]
      <3>. DEFINE z == x[j]
      <3>1. z \in Field /\ w[j] = Products(n, x, z)
        BY <1>1, <1>2
      <3>. HIDE DEF z
      <3>2. /\ w[j][0] = 1
            /\ \A k \in 1 .. n :
                 w[j][k] = IF z # x[k] THEN Mul(w[j][k - 1], Factor(z, x[k])) ELSE w[j][k - 1]
        BY <1>1, <3>1, ProductsLoop
      <3>. QED BY <3>2 DEF z
    <2>. QED BY <2>1, <2>2
  <1>5. w \in WeightTables(n, x)
    BY <1>3, <1>4 DEF WeightTables
  <1>. QED BY <1>5 DEF w

\* A sum without terms is zero.
LEMMA WeightedNothing ==
  ASSUME NEW n \in Nat, NEW x \in Points(n), NEW w \in WeightTables(n, x), NEW v \in Terms(n)
  PROVE  Weighted(n, w, 0, v) = 0
PROOF
  <1>1. 0 \in 0 .. n
    OBVIOUS
  <1>2. [j \in 1 .. n |-> Mul(w[j][0], v[j])] \in Terms(n)
    BY <1>1, WeightedTerms
  <1>. QED BY <1>2, SumsLoop DEF Weighted

\* Weighted by their coefficients, the factors of a further point sum to their
\* product.
LEMMA WeightedFactors ==
  ASSUME NEW n \in Nat, NEW x \in Points(n), NEW k \in 1 .. n,
         NEW z \in Field, NEW v \in Terms(n),
         \A j \in 1 .. k : z # x[j] /\ v[j] = Factor(z, x[j])
  PROVE  Weighted(n, Weights(n, x), k, v) = Products(n, x, z)[k]
PROOF
  <1>. DEFINE w == Weights(n, x)
              Holds(m) == \A y \in Field, t \in Terms(n) :
                            (\A j \in 1 .. m : y # x[j] /\ t[j] = Factor(y, x[j]))
                              => Weighted(n, w, m, t) = Products(n, x, y)[m]
              S == {m \in 0 .. n : m = 0 \/ Holds(m)}
  <1>1. w \in WeightTables(n, x) /\ x \in Terms(n)
    BY WeightsAreProducts DEF Points
  <1>2. \A j \in 1 .. n : w[j] = Products(n, x, x[j]) /\ x[j] \in Field
    BY <1>1 DEF Weights, Terms
  <1>. HIDE DEF w
  <1>3. 0 \in S
    OBVIOUS
  <1>4. ASSUME NEW i \in 0 .. n - 1, i \in S PROVE i + 1 \in S
    <2>. DEFINE m == i + 1
    <2>1. m \in 1 .. n /\ m \in 0 .. n /\ m - 1 = i /\ i \in 0 .. n /\ i \in Nat
      OBVIOUS
    <2>. HIDE DEF m
    <2>2. ASSUME NEW y \in Field, NEW t \in Terms(n),
                 \A j \in 1 .. m : y # x[j] /\ t[j] = Factor(y, x[j])
          PROVE  Weighted(n, w, m, t) = Products(n, x, y)[m]
      <3>. DEFINE h == t[m]
                  c == w[m][i]
                  g == Products(n, x, y)[i]
                  u == [j \in 1 .. n |-> IF j < m THEN Mul(Factor(x[j], x[m]), t[j]) ELSE 0]
                  o == [j \in 1 .. n |-> IF j < m THEN Factor(x[m], x[j]) ELSE 0]
      <3>1. \A j \in 1 .. i : j \in 1 .. n /\ j \in 1 .. m /\ j < m /\ j # m
        BY <2>1
      <3>2. \A j \in 1 .. n : j < m => /\ x[j] # x[m] /\ x[m] # x[j]
                                       /\ Factor(x[j], x[m]) \in Field
                                       /\ Factor(x[m], x[j]) \in Field
        <4>1. ASSUME NEW j \in 1 .. n, j < m PROVE x[j] # x[m]
          BY <2>1, <4>1 DEF Points
        <4>. QED BY <2>1, <1>2, <4>1, FactorIsFraction
      <3>3. h \in Field /\ c \in Field /\ \A j \in 1 .. n : t[j] \in Field
        BY <1>1, <2>1, WeightedTerms DEF Terms
      <3>4. g \in Field
        BY <1>1, <2>1, ProductsLoop
      <3>5. u \in Terms(n) /\ o \in Terms(n)
        BY <3>2, <3>3, Closed DEF Terms
      <3>6. TakesFactor(m, x, u, t) /\ \A j \in 1 .. i : u[j] = Mul(Factor(x[j], x[m]), t[j])
        BY <2>1, <3>1 DEF TakesFactor
      <3>. HIDE DEF u
      <3>7. Weighted(n, w, m, t) = Add(Weighted(n, w, i, u), Mul(c, h))
        BY <1>1, <2>1, <3>5, <3>6, WeightedStep
      <3>8. y # x[m] /\ h = Factor(y, x[m])
        BY <2>1, <2>2
      <3>9. Products(n, x, y)[m] = Mul(g, h)
        <4>1. Products(n, x, y)[m] = IF y # x[m]
                                     THEN Mul(Products(n, x, y)[m - 1], Factor(y, x[m]))
                                     ELSE Products(n, x, y)[m - 1]
          BY <1>1, <2>1, ProductsLoop
        <4>. QED BY <2>1, <3>8, <4>1
      <3>10. CASE i = 0
        <4>1. c = 1 /\ g = 1
          BY <1>1, <2>1, <3>10, ProductsLoop DEF WeightTables
        <4>2. Weighted(n, w, i, u) = 0
          BY <1>1, <3>5, <3>10, WeightedNothing
        <4>. HIDE DEF h, c, g
        <4>3. Mul(1, h) = h /\ Add(0, h) = h
          BY <3>3, Addition, Multiplication
        <4>. QED BY <3>7, <3>9, <4>1, <4>2, <4>3
      <3>11. CASE i # 0
        <4>1. Holds(i)
          BY <1>4, <3>11
        <4>2. Weighted(n, w, i, t) = g
          <5>1. \A j \in 1 .. i : y # x[j] /\ t[j] = Factor(y, x[j])
            BY <2>2, <3>1
          <5>. QED BY <4>1, <5>1
        <4>3. Weighted(n, w, i, o) = c
          <5>1. \A j \in 1 .. i : x[m] # x[j] /\ o[j] = Factor(x[m], x[j])
            BY <3>1, <3>2
          <5>2. x[m] \in Field /\ w[m] = Products(n, x, x[m])
            BY <1>2, <2>1
          <5>. QED BY <4>1, <3>5, <5>1, <5>2
        <4>4. Neg(h) \in Field
          BY <3>3, Closed
        <4>5. ASSUME NEW j \in 1 .. i PROVE u[j] = Add(Mul(h, t[j]), Mul(Neg(h), o[j]))
          <5>. DEFINE a == t[j]
                      b == o[j]
          <5>1. /\ j \in 1 .. n /\ j \in 1 .. m /\ j < m /\ y # x[j] /\ y # x[m]
                /\ x[j] \in Field /\ x[m] \in Field /\ x[j] # x[m]
            BY <1>2, <2>1, <2>2, <3>1, <3>2
          <5>2. u[j] = Mul(Factor(x[j], x[m]), a) /\ a = Factor(y, x[j]) /\ b = Factor(x[m], x[j])
            BY <2>1, <2>2, <3>6, <5>1
          <5>3. u[j] = Mul(h, Sub(a, b))
            BY <3>8, <5>1, <5>2, FactorsSplit
          <5>4. a \in Field /\ b \in Field
            BY <3>2, <3>3, <5>1, <5>2
          <5>. HIDE DEF a, b
          <5>5. Mul(h, Sub(a, b)) = Sub(Mul(h, a), Mul(h, b)) /\ Mul(Neg(h), b) = Neg(Mul(h, b))
            BY <3>3, <5>4, Subtraction, Distribution
          <5>6. u[j] = Add(Mul(h, a), Mul(Neg(h), b))
            BY <5>3, <5>5 DEF Sub
          <5>. QED BY <5>6 DEF a, b
        <4>. HIDE DEF h, c, g, o
        <4>6. Weighted(n, w, i, u) = Add(Mul(h, g), Mul(Neg(h), c))
          <5>1. Mixes(i, h, Neg(h), u, t, o)
            BY <4>5 DEF Mixes
          <5>. QED BY <1>1, <2>1, <3>3, <3>5, <4>2, <4>3, <4>4, <5>1, WeightedLinear
        <4>7. Add(Add(Mul(h, g), Mul(Neg(h), c)), Mul(c, h)) = Mul(g, h)
          <5>. DEFINE p == Mul(h, g)
                      q == Mul(c, h)
          <5>1. Mul(Neg(h), c) = Neg(q)
            BY <3>3, Distribution, Multiplication
          <5>2. p \in Field /\ q \in Field /\ p = Mul(g, h)
            BY <3>3, <3>4, Closed, Multiplication
          <5>. HIDE DEF p, q
          <5>3. Neg(q) \in Field /\ Add(Neg(q), q) = 0
            BY <5>2, Closed, Addition
          <5>4. Add(Add(p, Neg(q)), q) = Add(p, Add(Neg(q), q))
            BY <5>2, <5>3, Addition
          <5>5. Add(p, 0) = p
            BY <5>2, Addition
          <5>. QED BY <5>1, <5>2, <5>3, <5>4, <5>5 DEF p, q
        <4>. QED BY <3>7, <3>9, <4>6, <4>7
      <3>. QED BY <3>10, <3>11
    <2>3. Holds(m)
      BY <2>2
    <2>. HIDE DEF Holds
    <2>4. m \in S
      BY <2>1, <2>3
    <2>. QED BY <2>4 DEF m
  <1>5. \A m \in 0 .. n : m \in S
    <2>. HIDE DEF S
    <2>. QED BY <1>3, <1>4, UpTo
  <1>6. k \in 0 .. n /\ k # 0
    OBVIOUS
  <1>7. Holds(k)
    BY <1>5, <1>6
  <1>8. Weighted(n, w, k, v) = Products(n, x, z)[k]
    BY <1>7
  <1>. QED BY <1>8 DEF w

\* The weights of the first k points sum to one.
LEMMA WeightsSumToOne ==
  ASSUME NEW n \in Nat, NEW x \in Points(n), NEW k \in 1 .. n, NEW v \in Terms(n),
         \A j \in 1 .. k : v[j] = 1
  PROVE  Weighted(n, Weights(n, x), k, v) = 1
PROOF
  <1>. DEFINE w == Weights(n, x)
              one == [j \in 1 .. n |-> 1]
              S == {m \in 0 .. n : m = 0 \/ Weighted(n, w, m, one) = 1}
  <1>1. w \in WeightTables(n, x) /\ x \in Terms(n) /\ one \in Terms(n)
    BY WeightsAreProducts, Closed DEF Points, Terms
  <1>2. \A j \in 1 .. n : w[j] = Products(n, x, x[j]) /\ x[j] \in Field
    BY <1>1 DEF Weights, Terms
  <1>3. \A j \in 1 .. n : one[j] = 1
    OBVIOUS
  <1>. HIDE DEF one
  <1>4. 0 \in S
    OBVIOUS
  <1>5. ASSUME NEW i \in 0 .. n - 1, i \in S PROVE i + 1 \in S
    <2>. DEFINE m == i + 1
    <2>1. m \in 1 .. n /\ m \in 0 .. n /\ m - 1 = i /\ i \in 0 .. n /\ i \in Nat
      OBVIOUS
    <2>. HIDE DEF m, w
    <2>. DEFINE c == w[m][i]
                u == [j \in 1 .. n |-> IF j < m THEN Factor(x[j], x[m]) ELSE 0]
                o == [j \in 1 .. n |-> IF j < m THEN Factor(x[m], x[j]) ELSE 0]
    <2>2. \A j \in 1 .. n : j < m => /\ x[j] # x[m] /\ x[m] # x[j]
                                     /\ Factor(x[j], x[m]) \in Field
                                     /\ Factor(x[m], x[j]) \in Field
      <3>1. ASSUME NEW j \in 1 .. n, j < m PROVE x[j] # x[m]
        BY <2>1, <3>1 DEF Points
      <3>. QED BY <2>1, <1>2, <3>1, FactorIsFraction
    <2>3. u \in Terms(n) /\ o \in Terms(n)
      BY <2>2, Closed DEF Terms
    <2>4. \A j \in 1 .. i : j \in 1 .. n /\ j < m /\ j # m
      BY <2>1
    <2>5. TakesFactor(m, x, u, one)
      <3>1. ASSUME NEW j \in 1 .. i PROVE u[j] = Mul(Factor(x[j], x[m]), one[j])
        <4>1. u[j] = Factor(x[j], x[m]) /\ one[j] = 1 /\ Factor(x[j], x[m]) \in Field
          BY <1>3, <2>2, <2>4
        <4>. HIDE DEF u
        <4>. QED BY <4>1, Multiplication
      <3>. HIDE DEF u
      <3>. QED BY <2>1, <3>1 DEF TakesFactor
    <2>6. \A j \in 1 .. i : x[m] # x[j] /\ o[j] = Factor(x[m], x[j])
      BY <2>2, <2>4
    <2>7. \A j \in 1 .. i : u[j] = Sub(one[j], o[j])
      <3>1. ASSUME NEW j \in 1 .. i PROVE Factor(x[j], x[m]) = Sub(1, Factor(x[m], x[j]))
        <4>1. x[j] \in Field /\ x[m] \in Field /\ x[j] # x[m]
          BY <1>2, <2>1, <2>2, <2>4
        <4>. QED BY <4>1, FactorsComplement
      <3>2. \A j \in 1 .. i : u[j] = Factor(x[j], x[m]) /\ one[j] = 1
        BY <1>3, <2>4
      <3>. QED BY <2>6, <3>1, <3>2
    <2>. HIDE DEF u, o
    <2>8. Weighted(n, w, m, one) = Add(Weighted(n, w, i, u), Mul(c, one[m]))
      <3>1. Weighted(n, w, m, one) = Add(Weighted(n, w, m - 1, u), Mul(w[m][m - 1], one[m]))
        BY <1>1, <2>1, <2>3, <2>5, WeightedStep
      <3>. QED BY <2>1, <3>1
    <2>9. c \in Field /\ Mul(c, one[m]) = c
      <3>1. c \in Field /\ one[m] = 1
        BY <1>1, <1>3, <2>1, WeightedTerms DEF w
      <3>. HIDE DEF c
      <3>. QED BY <3>1, Multiplication
    <2>10. CASE i = 0
      <3>1. c = 1
        BY <1>1, <2>1, <2>10 DEF WeightTables, w
      <3>2. Weighted(n, w, i, u) = 0
        BY <1>1, <2>3, <2>10, WeightedNothing DEF w
      <3>. HIDE DEF c
      <3>3. Add(0, 1) = 1
        BY Addition, Closed
      <3>. QED BY <2>1, <2>8, <2>9, <3>1, <3>2, <3>3 DEF m
    <2>11. CASE i # 0
      <3>1. Weighted(n, w, i, one) = 1
        BY <1>5, <2>11
      <3>2. Weighted(n, w, i, o) = c
        <4>. DEFINE z == x[m]
        <4>1. z \in Field /\ w[m] = Products(n, x, z)
          BY <1>2, <2>1 DEF w
        <4>2. i \in 1 .. n
          BY <2>1, <2>11
        <4>3. \A j \in 1 .. i : z # x[j] /\ o[j] = Factor(z, x[j])
          BY <2>6
        <4>. HIDE DEF z
        <4>4. Weighted(n, w, i, o) = Products(n, x, z)[i]
          BY <2>3, <4>1, <4>2, <4>3, WeightedFactors DEF w
        <4>. QED BY <4>1, <4>4
      <3>. DEFINE e == Neg(1)
      <3>3. e \in Field /\ 1 \in Field
        BY Closed
      <3>4. \A y \in Field : Mul(1, y) = y /\ Mul(e, y) = Neg(y)
        BY <3>3, Distribution, Multiplication
      <3>. HIDE DEF e, c
      <3>5. \A j \in 1 .. i : u[j] = Add(Mul(1, one[j]), Mul(e, o[j]))
        <4>1. \A j \in 1 .. i : one[j] \in Field /\ o[j] \in Field
          BY <1>1, <2>3, <2>4 DEF Terms
        <4>. QED BY <2>7, <3>4, <4>1 DEF Sub
      <3>6. Weighted(n, w, i, u) = Add(Mul(1, 1), Mul(e, c))
        <4>1. ASSUME NEW a \in Field, NEW b \in Field, a = 1, b = e
              PROVE  Weighted(n, w, i, u)
                       = Add(Mul(a, Weighted(n, w, i, one)), Mul(b, Weighted(n, w, i, o)))
          <5>1. Mixes(i, a, b, u, one, o)
            BY <3>5, <4>1 DEF Mixes
          <5>. QED BY <1>1, <2>1, <2>3, <5>1, WeightedLinear
        <4>. QED BY <3>1, <3>2, <3>3, <4>1
      <3>7. Add(Add(1, Neg(c)), c) = 1
        <4>1. Neg(c) \in Field /\ Add(Neg(c), c) = 0
          BY <2>9, Closed, Addition
        <4>2. Add(Add(1, Neg(c)), c) = Add(1, Add(Neg(c), c))
          BY <2>9, <3>3, <4>1, Addition
        <4>. QED BY <3>3, <4>1, <4>2, Addition
      <3>8. Weighted(n, w, m, one) = 1
        BY <2>8, <2>9, <3>3, <3>4, <3>6, <3>7
      <3>. QED BY <2>1, <3>8 DEF m
    <2>. QED BY <2>10, <2>11
  <1>6. \A m \in 0 .. n : m \in S
    <2>. HIDE DEF S
    <2>. QED BY <1>4, <1>5, UpTo
  <1>7. k \in 0 .. n /\ k # 0 /\ k \in Int
    OBVIOUS
  <1>8. Weighted(n, w, k, one) = 1
    BY <1>6, <1>7
  <1>9. Weighted(n, w, k, v) = Weighted(n, w, k, one)
    <2>1. /\ [j \in 1 .. n |-> Mul(w[j][k], v[j])] \in Terms(n)
          /\ [j \in 1 .. n |-> Mul(w[j][k], one[j])] \in Terms(n)
      BY <1>1, <1>7, WeightedTerms
    <2>2. ASSUME NEW j \in 1 .. k
          PROVE  [i \in 1 .. n |-> Mul(w[i][k], v[i])][j] = [i \in 1 .. n |-> Mul(w[i][k], one[i])][j]
      <3>1. j \in 1 .. n /\ v[j] = one[j]
        BY <1>3, <1>7
      <3>. QED BY <3>1
    <2>. QED BY <1>7, <2>1, <2>2, SumsSame DEF Weighted
  <1>. QED BY <1>8, <1>9

\* The weighted powers of the points sum to zero, as those of zero do: all but
\* the first, as long as there are more points than the exponent.
LEMMA WeightedPowers ==
  ASSUME NEW n \in Nat, NEW x \in Points(n), NEW m \in Nat, NEW p \in [0 .. m -> Terms(n)],
         \A j \in 1 .. n : p[0][j] = 1,
         \A d \in 1 .. m, j \in 1 .. n : p[d][j] = Mul(p[d - 1][j], x[j])
  PROVE  \A d \in 0 .. m, k \in 1 .. n :
           d < k => Weighted(n, Weights(n, x), k, p[d]) = IF d = 0 THEN 1 ELSE 0
PROOF
  <1>. DEFINE w == Weights(n, x)
              W(k, d) == Weighted(n, w, k, p[d])
              S == {d \in 0 .. m : \A k \in 1 .. n : d < k => W(k, d) = IF d = 0 THEN 1 ELSE 0}
  <1>1. w \in WeightTables(n, x) /\ x \in Terms(n) /\ \A d \in 0 .. m : p[d] \in Terms(n)
    BY WeightsAreProducts DEF Points
  <1>2. 0 \in S
    <2>1. p[0] \in Terms(n) /\ 0 \in 0 .. m
      BY <1>1
    <2>2. \A k \in 1 .. n : \A j \in 1 .. k : p[0][j] = 1
      OBVIOUS
    <2>3. \A k \in 1 .. n : W(k, 0) = 1
      BY <2>1, <2>2, WeightsSumToOne
    <2>. HIDE DEF W
    <2>. QED BY <2>1, <2>3
  <1>3. ASSUME NEW e \in 0 .. m - 1, e \in S PROVE e + 1 \in S
    <2>. DEFINE d == e + 1
    <2>1. d \in 1 .. m /\ d \in 0 .. m /\ d - 1 = e /\ e \in 0 .. m /\ e \in Nat /\ d # 0
      OBVIOUS
    <2>. HIDE DEF d
    <2>2. ASSUME NEW k \in 1 .. n, d < k PROVE W(k, d) = 0
      <3>. DEFINE i == k - 1
                  y == x[k]
                  q == p[e]
                  r == p[d]
                  h == [j \in 1 .. n |-> Mul(Sub(x[j], y), q[j])]
                  z == [j \in 1 .. n |-> Mul(Neg(y), q[j])]
                  b == W(k, e)
      <3>1. i \in 1 .. n /\ i \in 0 .. n /\ k \in 0 .. n /\ e < i /\ e < k
        BY <2>1, <2>2
      <3>2. W(k, e) = W(i, e)
        BY <1>3, <3>1
      <3>3. q \in Terms(n) /\ r \in Terms(n) /\ y \in Field /\ Neg(y) \in Field
        BY <1>1, <2>1, Closed DEF Terms
      <3>4. \A j \in 1 .. n : x[j] \in Field /\ q[j] \in Field /\ r[j] = Mul(q[j], x[j])
        BY <1>1, <2>1, <3>3 DEF Terms
      <3>. HIDE DEF q, r, y
      <3>5. h \in Terms(n) /\ z \in Terms(n)
        BY <3>3, <3>4, Closed DEF Terms
      <3>6. \A j \in 1 .. n : h[j] = Mul(Sub(x[j], y), q[j]) /\ z[j] = Mul(Neg(y), q[j])
        OBVIOUS
      <3>. HIDE DEF h, z
      <3>7. b \in Field
        BY <1>1, <2>1, <3>1, WeightedTerms
      \* The part of the power that vanishes at the last point.
      <3>8. Weighted(n, w, k, h) = Mul(Neg(y), b)
        <4>1. \A j \in 1 .. k - 1 : z[j] = Mul(Factor(x[j], x[k]), h[j])
          <5>1. ASSUME NEW j \in 1 .. k - 1 PROVE z[j] = Mul(Factor(x[j], y), h[j])
            <6>. DEFINE u == Sub(x[j], y)
                        g == Factor(x[j], y)
                        a == q[j]
            <6>1. j \in 1 .. n /\ x[j] # y
              BY DEF Points, y
            <6>2. x[j] \in Field /\ a \in Field
              BY <3>4, <6>1
            <6>3. u \in Field /\ g \in Field /\ Mul(u, g) = Neg(y)
              BY <3>3, <6>1, <6>2, FactorIsFraction
            <6>4. z[j] = Mul(Neg(y), a) /\ h[j] = Mul(u, a)
              BY <3>6, <6>1
            <6>. HIDE DEF u, g, a
            <6>5. Mul(Mul(g, u), a) = Mul(g, Mul(u, a)) /\ Mul(g, u) = Mul(u, g)
              BY <6>2, <6>3, Multiplication
            <6>. QED BY <6>3, <6>4, <6>5 DEF g
          <5>. QED BY <5>1 DEF y
        <4>2. h[k] = 0
          <5>1. Sub(y, y) = 0 /\ q[k] \in Field
            BY <3>3, <3>4, Subtraction
          <5>. QED BY <3>6, <5>1, Multiplication DEF y
        <4>3. Weighted(n, w, k, h) = Add(Weighted(n, w, i, z), Mul(w[k][i], h[k]))
          <5>1. TakesFactor(k, x, z, h)
            BY <3>1, <4>1 DEF TakesFactor
          <5>2. Weighted(n, w, k, h) = Add(Weighted(n, w, k - 1, z), Mul(w[k][k - 1], h[k]))
            BY <1>1, <3>5, <5>1, WeightedStep
          <5>. QED BY <3>1, <5>2
        <4>4. w[k][i] \in Field /\ Weighted(n, w, i, z) \in Field
          BY <1>1, <3>1, <3>5, WeightedTerms
        <4>5. Weighted(n, w, k, h) = Weighted(n, w, i, z)
          BY <4>2, <4>3, <4>4, Addition, Multiplication
        <4>6. \A j \in 1 .. n : z[j] = Add(Mul(Neg(y), q[j]), Mul(0, q[j]))
          <5>1. \A c \in Field : Add(Mul(Neg(y), c), Mul(0, c)) = Mul(Neg(y), c)
            BY <3>3, Addition, Multiplication, Closed
          <5>. QED BY <3>4, <3>6, <5>1
        <4>7. Weighted(n, w, i, z) = Add(Mul(Neg(y), Weighted(n, w, i, q)), Mul(0, Weighted(n, w, i, q)))
          <5>1. ASSUME NEW a \in Field, NEW c \in Field, a = Neg(y), c = 0
                PROVE  Weighted(n, w, i, z)
                         = Add(Mul(a, Weighted(n, w, i, q)), Mul(c, Weighted(n, w, i, q)))
            <6>1. Mixes(i, a, c, z, q, q)
              BY <3>1, <4>6, <5>1 DEF Mixes
            <6>. HIDE DEF i, w
            <6>. QED BY <1>1, <3>1, <3>3, <3>5, <6>1, WeightedLinear
          <5>. QED BY <3>3, <5>1, Closed
        <4>8. Weighted(n, w, i, q) = b
          BY <3>2 DEF q
        <4>9. Add(Mul(Neg(y), b), Mul(0, b)) = Mul(Neg(y), b)
          BY <3>3, <3>7, Addition, Multiplication, Closed
        <4>. QED BY <4>5, <4>7, <4>8, <4>9
      \* The power is that part and the last point times the power before it.
      <3>9. Weighted(n, w, k, r) = Add(Mul(1, Weighted(n, w, k, h)), Mul(y, Weighted(n, w, k, q)))
        <4>1. ASSUME NEW c \in Field, c = 1
              PROVE  Weighted(n, w, k, r)
                       = Add(Mul(c, Weighted(n, w, k, h)), Mul(y, Weighted(n, w, k, q)))
          <5>1. ASSUME NEW j \in 1 .. k PROVE r[j] = Add(Mul(c, h[j]), Mul(y, q[j]))
            <6>. DEFINE a == q[j]
                        f == x[j]
                        u == Sub(f, y)
            <6>1. j \in 1 .. n
              BY <3>1
            <6>2. /\ a \in Field /\ f \in Field /\ u \in Field
                  /\ r[j] = Mul(a, f) /\ h[j] = Mul(u, a) /\ Add(u, y) = f
              BY <3>3, <3>4, <3>6, <6>1, Closed, Subtraction
            <6>. HIDE DEF a, f, u
            <6>3. Mul(a, Add(u, y)) = Add(Mul(a, u), Mul(a, y)) /\ Mul(a, u) = Mul(u, a) /\ Mul(a, y) = Mul(y, a)
              BY <3>3, <6>2, Distribution, Multiplication
            <6>4. Mul(1, Mul(u, a)) = Mul(u, a)
              BY <6>2, Closed, Multiplication
            <6>5. r[j] = Add(Mul(c, h[j]), Mul(y, a))
              BY <4>1, <6>2, <6>3, <6>4
            <6>. QED BY <6>5 DEF a
          <5>2. Mixes(k, c, y, r, h, q)
            BY <5>1 DEF Mixes
          <5>. QED BY <1>1, <3>1, <3>3, <3>5, <5>2, WeightedLinear
        <4>. QED BY <4>1, Closed
      <3>10. Weighted(n, w, k, q) = b
        BY DEF q
      <3>. HIDE DEF b
      <3>11. Add(Mul(1, Mul(Neg(y), b)), Mul(y, b)) = 0
        <4>1. Mul(Neg(y), b) = Neg(Mul(y, b)) /\ Mul(y, b) \in Field /\ Neg(Mul(y, b)) \in Field
          BY <3>3, <3>7, Closed, Distribution
        <4>. QED BY <4>1, Addition, Multiplication
      <3>12. Weighted(n, w, k, r) = 0
        BY <3>8, <3>9, <3>10, <3>11
      <3>. QED BY <3>12 DEF r
    <2>. HIDE DEF W
    <2>3. d \in S
      BY <2>1, <2>2
    <2>. QED BY <2>3 DEF d
  <1>4. \A d \in 0 .. m : d \in S
    <2>. HIDE DEF S
    <2>. QED BY <1>2, <1>3, UpTo
  <1>. QED BY <1>4

\* The tables that Evaluation builds at the points x, term by term: p[d] holds
\* the powers d of the points, v[d] the values of the first d + 1 terms.
BuiltTogether(n, x, m, c, p, v) ==
  /\ p \in [0 .. m -> Terms(n)] /\ v \in [0 .. m -> Terms(n)]
  /\ \A j \in 1 .. n : p[0][j] = 1 /\ v[0][j] = c[1]
  /\ \A d \in 1 .. m, j \in 1 .. n : /\ p[d][j] = Mul(p[d - 1][j], x[j])
                                     /\ v[d][j] = Add(v[d - 1][j], Mul(c[d + 1], p[d][j]))

\* The weighted values of a polynomial at more points than its degree sum to
\* its constant coefficient.  Values and powers are built term by term.
LEMMA Interpolation ==
  ASSUME NEW n \in Nat, NEW x \in Points(n), NEW m \in Nat, m < n,
         NEW c \in [1 .. m + 1 -> Field],
         NEW p, NEW v, BuiltTogether(n, x, m, c, p, v)
  PROVE  Weighted(n, Weights(n, x), n, v[m]) = c[1]
PROOF
  <1>. SUFFICES
         ASSUME p \in [0 .. m -> Terms(n)], v \in [0 .. m -> Terms(n)],
                \A j \in 1 .. n : p[0][j] = 1 /\ v[0][j] = c[1],
                \A d \in 1 .. m, j \in 1 .. n : /\ p[d][j] = Mul(p[d - 1][j], x[j])
                                                /\ v[d][j] = Add(v[d - 1][j], Mul(c[d + 1], p[d][j]))
         PROVE  Weighted(n, Weights(n, x), n, v[m]) = c[1]
    BY DEF BuiltTogether
  <1>. DEFINE w == Weights(n, x)
              S == {d \in 0 .. m : Weighted(n, w, n, v[d]) = c[1]}
  <1>1. /\ w \in WeightTables(n, x) /\ n \in 0 .. n /\ n \in 1 .. n
        /\ \A d \in 0 .. m : p[d] \in Terms(n) /\ v[d] \in Terms(n)
    BY WeightsAreProducts
  <1>2. \A d \in 0 .. m : Weighted(n, w, n, p[d]) = IF d = 0 THEN 1 ELSE 0
    <2>1. /\ \A j \in 1 .. n : p[0][j] = 1
          /\ \A d \in 1 .. m, j \in 1 .. n : p[d][j] = Mul(p[d - 1][j], x[j])
      OBVIOUS
    <2>2. \A d \in 0 .. m, k \in 1 .. n :
            d < k => Weighted(n, w, k, p[d]) = IF d = 0 THEN 1 ELSE 0
      BY <2>1, WeightedPowers
    <2>3. \A d \in 0 .. m : d < n
      OBVIOUS
    <2>. QED BY <1>1, <2>2, <2>3
  <1>. HIDE DEF w
  <1>3. 0 \in S
    <2>. DEFINE a == c[1]
                q == p[0]
                t == v[0]
    <2>1. a \in Field /\ q \in Terms(n) /\ t \in Terms(n) /\ 0 \in 0 .. m
      BY <1>1
    <2>2. \A j \in 1 .. n : q[j] = 1 /\ t[j] = a
      OBVIOUS
    <2>3. Weighted(n, w, n, q) = 1
      BY <1>2, <2>1
    <2>. HIDE DEF a, q, t
    <2>4. Weighted(n, w, n, t) = Add(Mul(a, Weighted(n, w, n, q)), Mul(0, Weighted(n, w, n, q)))
      <3>1. ASSUME NEW b \in Field, b = 0
            PROVE  Weighted(n, w, n, t)
                     = Add(Mul(a, Weighted(n, w, n, q)), Mul(b, Weighted(n, w, n, q)))
        <4>1. Mul(a, 1) = a /\ Mul(0, 1) = 0 /\ Add(a, 0) = a
          BY <2>1, Addition, Multiplication, Closed
        <4>2. Mixes(n, a, b, t, q, q)
          BY <2>2, <3>1, <4>1 DEF Mixes
        <4>3. n \in 0 .. n /\ w \in WeightTables(n, x)
          BY <1>1
        <4>. QED BY ONLY n \in Nat, x \in Points(n), b \in Field, <2>1, <4>2, <4>3, WeightedLinear
      <3>. QED BY <3>1, Closed
    <2>5. Mul(a, 1) = a /\ Mul(0, 1) = 0 /\ Add(a, 0) = a
      BY <2>1, Addition, Multiplication, Closed
    <2>6. Weighted(n, w, n, t) = a
      BY <2>3, <2>4, <2>5
    <2>. QED BY <2>1, <2>6 DEF a, t
  <1>4. ASSUME NEW e \in 0 .. m - 1, e \in S PROVE e + 1 \in S
    <2>. DEFINE d == e + 1
                a == c[d + 1]
                q == p[d]
                s == v[e]
                t == v[d]
    <2>1. d \in 1 .. m /\ d \in 0 .. m /\ d - 1 = e /\ e \in 0 .. m /\ d # 0 /\ d + 1 \in 1 .. m + 1
      OBVIOUS
    <2>2. a \in Field /\ q \in Terms(n) /\ s \in Terms(n) /\ t \in Terms(n)
      BY <1>1, <2>1
    <2>3. \A j \in 1 .. n : t[j] = Add(s[j], Mul(a, q[j]))
      BY <2>1
    <2>4. Weighted(n, w, n, s) = c[1] /\ Weighted(n, w, n, q) = 0
      BY <1>2, <1>4, <2>1
    <2>. HIDE DEF a, q, s, t, d
    <2>5. Weighted(n, w, n, t) = Add(Mul(1, Weighted(n, w, n, s)), Mul(a, Weighted(n, w, n, q)))
      <3>1. ASSUME NEW b \in Field, b = 1
            PROVE  Weighted(n, w, n, t)
                     = Add(Mul(b, Weighted(n, w, n, s)), Mul(a, Weighted(n, w, n, q)))
        <4>1. Mixes(n, b, a, t, s, q)
          <5>1. \A j \in 1 .. n : s[j] \in Field
            BY <2>2 DEF Terms
          <5>2. \A j \in 1 .. n : Mul(1, s[j]) = s[j]
            BY <5>1, Multiplication
          <5>. QED BY <2>3, <3>1, <5>2 DEF Mixes
        <4>2. n \in 0 .. n /\ w \in WeightTables(n, x)
          BY <1>1
        <4>. QED BY ONLY n \in Nat, x \in Points(n), b \in Field, <2>2, <4>1, <4>2, WeightedLinear
      <3>. QED BY <3>1, Closed
    <2>6. c[1] \in Field
      OBVIOUS
    <2>7. Weighted(n, w, n, t) = c[1]
      BY <2>2, <2>4, <2>5, <2>6, Addition, Multiplication
    <2>. QED BY <2>1, <2>7 DEF t, d
  <1>5. \A d \in 0 .. m : d \in S
    <2>. HIDE DEF S
    <2>. QED BY <1>3, <1>4, UpTo
  <1>6. m \in 0 .. m
    OBVIOUS
  <1>7. Weighted(n, w, n, v[m]) = c[1]
    BY <1>5, <1>6
  <1>. QED BY <1>7 DEF w

-----------------------------------------------------------------------------
(***************************************************************************)
(* What the folds of SecretSharing compute.                                *)
(***************************************************************************)

\* A recursion that takes out the last position is a loop.
LEMMA FoldIsLoop ==
  ASSUME NEW n \in Nat, NEW A, NEW base \in A, NEW step \in Steps(n, A), NEW f,
         f[{}] = base,
         \A k \in 1 .. n : f[1 .. k - 1] \in A => f[1 .. k] = step[k][f[1 .. k - 1]]
  PROVE  f[1 .. n] = Loop(n, A, base, step)[n]
PROOF
  <1>. USE DEF Steps
  <1>. DEFINE g == Loop(n, A, base, step)
              S == {k \in 0 .. n : f[1 .. k] = g[k]}
  <1>1. /\ g \in [0 .. n -> A] /\ g[0] = base
        /\ \A k \in 1 .. n : g[k] = step[k][g[k - 1]]
    BY LoopTable
  <1>. HIDE DEF g
  <1>2. 0 \in S
    <2>1. 1 .. 0 = {} /\ 0 \in 0 .. n
      OBVIOUS
    <2>. QED BY <1>1, <2>1
  <1>3. ASSUME NEW i \in 0 .. n - 1, i \in S PROVE i + 1 \in S
    <2>1. i + 1 \in 1 .. n /\ i + 1 \in 0 .. n /\ (i + 1) - 1 = i /\ i \in 0 .. n
      OBVIOUS
    <2>2. f[1 .. i] = g[i] /\ g[i] \in A
      BY <1>1, <1>3, <2>1
    <2>3. f[1 .. i + 1] = step[i + 1][f[1 .. i]]
      BY <2>1, <2>2
    <2>4. g[i + 1] = step[i + 1][g[i]]
      BY <1>1, <2>1
    <2>. QED BY <2>1, <2>2, <2>3, <2>4
  <1>4. \A k \in 0 .. n : k \in S
    <2>. HIDE DEF S
    <2>. QED BY <1>2, <1>3, UpTo
  <1>5. n \in 0 .. n
    OBVIOUS
  <1>6. f[1 .. n] = g[n]
    BY <1>4, <1>5
  <1>. QED BY <1>6 DEF g

\* The positions up to k, the last of which a fold takes out first.
LEMMA Positions ==
  ASSUME NEW n \in Nat, NEW k \in 1 .. n
  PROVE  /\ 1 .. k \in SUBSET (1 .. n) /\ 1 .. k # {}
         /\ Max(1 .. k) = k /\ (1 .. k) \ {k} = 1 .. k - 1
PROOF
  <1>1. k - 1 \in Nat /\ (k - 1) + 1 = k
    OBVIOUS
  <1>2. 1 .. k \in SUBSET (1 .. (k - 1) + 1) /\ (k - 1) + 1 \in 1 .. k
    BY <1>1
  <1>3. Max(1 .. k) = (k - 1) + 1
    BY <1>1, <1>2, LastPosition
  <1>. QED BY <1>1, <1>2, <1>3

\* The last element of a set of positions is a position.
LEMMA LastInside ==
  ASSUME NEW n \in Nat, NEW s \in SUBSET (1 .. n), s # {}
  PROVE  /\ Max(s) \in 1 .. n /\ s \ {Max(s)} \in SUBSET (1 .. n)
         /\ Max(s) \in s /\ \A y \in s : y <= Max(s)
PROOF
  <1>. DEFINE Down == {k \in 0 .. n : n - k \in s}
  <1>1. Down \in SUBSET Nat /\ Down # {}
    <2>1. PICK e \in s : TRUE
      OBVIOUS
    <2>2. e \in 1 .. n
      BY <2>1
    <2>3. n - e \in 0 .. n /\ n - (n - e) = e
      BY <2>2
    <2>4. n - e \in Down
      BY <2>1, <2>3
    <2>5. \A k \in Down : k \in Nat
      OBVIOUS
    <2>. HIDE DEF Down
    <2>. QED BY <2>4, <2>5
  <1>2. PICK i \in Down : \A j \in Down : i <= j
    <2>. HIDE DEF Down
    <2>. QED BY <1>1, LeastNumber
  <1>3. n - i \in s /\ \A y \in s : n - i >= y
    <2>1. n - i \in s /\ i \in 0 .. n
      BY <1>2
    <2>2. ASSUME NEW y \in s PROVE n - i >= y
      <3>1. n - y \in 0 .. n /\ n - (n - y) = y
        OBVIOUS
      <3>2. i <= n - y
        BY <1>2, <3>1
      <3>. QED BY <2>1, <3>2
    <2>. QED BY <2>1, <2>2
  <1>4. Max(s) \in s /\ \A y \in s : Max(s) >= y
    BY <1>3 DEF Max
  <1>. QED BY <1>4

\* The coefficient of an agent is the product of the factors of the others.
LEMMA CoefficientIsProduct ==
  ASSUME NEW n \in Nat, NEW indices \in [1 .. n -> 1 .. P - 1], NEW i \in 1 .. P - 1
  PROVE  /\ indices \in Terms(n) /\ i \in Field
         /\ LagrangeCoefficient(i, indices) = Products(n, indices, i)[n]
PROOF
  <1>1. indices \in Terms(n) /\ i \in Field
    BY FieldAssumption DEF Terms, Field
  <1>2. FromInt(i) = i /\ \A k \in 1 .. n : FromInt(indices[k]) = indices[k] /\ indices[k] \in Field
    BY <1>1, Closed DEF FromInt, Terms
  <1>. DEFINE next(k, y) == IF i # indices[k] THEN Mul(y, Factor(i, indices[k])) ELSE y
              step == [k \in 1 .. n |-> [y \in Field |-> next(k, y)]]
              Body(f) == [s \in SUBSET (1 .. n) |->
                            IF s = {} THEN 1 ELSE next(Max(s), f[s \ {Max(s)}])]
              F == CHOOSE f : f = Body(f)
  <1>3. LagrangeCoefficient(i, indices) = F[1 .. n]
    <2>1. DOMAIN indices = 1 .. n
      OBVIOUS
    <2>. DEFINE term(k) == Mul(Neg(FromInt(indices[k])),
                               Invert(Sub(FromInt(i), FromInt(indices[k]))))
                Code(f) == [s \in SUBSET (1 .. n) |->
                              IF s = {} THEN 1
                              ELSE IF i # indices[Max(s)]
                                   THEN Mul(f[s \ {Max(s)}], term(Max(s)))
                                   ELSE f[s \ {Max(s)}]]
    <2>2. LagrangeCoefficient(i, indices) = (CHOOSE f : f = Code(f))[1 .. n]
      BY <2>1 DEF LagrangeCoefficient, FoldLeft, MapThenFoldSet
    <2>3. \A f : Code(f) = Body(f)
      <3>1. \A k \in 1 .. n : term(k) = Factor(i, indices[k])
        BY <1>2 DEF Factor
      <3>2. \A s \in SUBSET (1 .. n) : s # {} => term(Max(s)) = Factor(i, indices[Max(s)])
        <4>. HIDE DEF term
        <4>. QED BY <3>1, LastInside
      <3>. HIDE DEF term
      <3>. QED BY <3>2
    <2>. HIDE DEF Code, Body
    <2>4. (CHOOSE f : f = Code(f)) = F
      BY <2>3
    <2>. QED BY <2>2, <2>4
  <1>4. ASSUME NEW k \in 1 .. n, NEW y \in Field PROVE next(k, y) \in Field
    <2>1. i # indices[k] => Factor(i, indices[k]) \in Field
      BY <1>1, <1>2, FactorIsFraction
    <2>. QED BY <2>1, Closed
  <1>. HIDE DEF next
  <1>5. step \in [1 .. n -> [Field -> Field]] /\ 1 \in Field
    BY <1>4, Closed
  <1>6. \A k \in 1 .. n, y \in Field : step[k][y] = next(k, y)
    OBVIOUS
  <1>. HIDE DEF step
  <1>7. F = Body(F)
    <2>1. step \in Steps(n, Field)
      BY <1>5 DEF Steps
    <2>2. PICK g \in Solutions(n, Field, 1, step) : TRUE
      BY <1>5, <2>1, FoldTable
    <2>3. /\ g \in [SUBSET (1 .. n) -> Field]
          /\ \A s \in SUBSET (1 .. n) :
               g[s] = IF s = {} THEN 1 ELSE step[Max(s)][g[s \ {Max(s)}]]
      BY <2>2 DEF Solutions
    <2>4. ASSUME NEW s \in SUBSET (1 .. n), s # {}
          PROVE  g[s] = next(Max(s), g[s \ {Max(s)}])
      <3>1. Max(s) \in 1 .. n /\ g[s \ {Max(s)}] \in Field
        BY <2>3, <2>4, LastInside
      <3>. QED BY <1>6, <2>3, <2>4, <3>1
    <2>5. g = Body(g)
      BY <2>3, <2>4
    <2>. HIDE DEF Body
    <2>. QED BY <2>5
  <1>. HIDE DEF F
  <1>8. F[{}] = 1
    <2>1. {} \in SUBSET (1 .. n)
      OBVIOUS
    <2>2. Body(F)[{}] = 1
      BY <2>1
    <2>. HIDE DEF Body
    <2>. QED BY <1>7, <2>2
  <1>9. ASSUME NEW k \in 1 .. n, F[1 .. k - 1] \in Field PROVE F[1 .. k] = step[k][F[1 .. k - 1]]
    <2>1. 1 .. k \in SUBSET (1 .. n) /\ 1 .. k # {} /\ Max(1 .. k) = k /\ (1 .. k) \ {k} = 1 .. k - 1
      BY Positions
    <2>2. Body(F)[1 .. k] = next(k, F[1 .. k - 1])
      BY <2>1
    <2>. HIDE DEF Body
    <2>. QED BY <1>6, <1>7, <1>9, <2>2
  <1>10. F[1 .. n] = Loop(n, Field, 1, step)[n]
    <2>1. step \in Steps(n, Field)
      BY <1>5 DEF Steps
    <2>. HIDE DEF Body
    <2>2. PICK one \in Field : one = 1
      BY <1>5
    <2>3. F[{}] = one
      BY <1>8, <2>2
    <2>4. F[1 .. n] = Loop(n, Field, one, step)[n]
      BY <1>9, <2>1, <2>3, FoldIsLoop
    <2>. QED BY <2>2, <2>4
  <1>11. Products(n, indices, i) = Loop(n, Field, 1, step)
    BY DEF Products, step, next
  <1>. QED BY <1>1, <1>3, <1>10, <1>11

\* A fold that adds up terms.
LEMMA FoldIsSum ==
  ASSUME NEW n \in Nat, NEW t \in Terms(n)
  PROVE  (CHOOSE f : f = [s \in SUBSET (1 .. n) |->
                            IF s = {} THEN 0 ELSE Add(f[s \ {Max(s)}], t[Max(s)])])[1 .. n]
           = Sums(n, t)[n]
PROOF
  <1>. DEFINE step == [k \in 1 .. n |-> [y \in Field |-> Add(y, t[k])]]
              Body(f) == [s \in SUBSET (1 .. n) |->
                            IF s = {} THEN 0 ELSE Add(f[s \ {Max(s)}], t[Max(s)])]
              F == CHOOSE f : f = Body(f)
  <1>1. step \in [1 .. n -> [Field -> Field]] /\ 0 \in Field
    BY Closed DEF Terms
  <1>2. \A k \in 1 .. n, y \in Field : step[k][y] = Add(y, t[k])
    OBVIOUS
  <1>3. Sums(n, t) = Loop(n, Field, 0, step)
    BY DEF Sums
  <1>. HIDE DEF step
  <1>4. F = Body(F)
    <2>1. step \in Steps(n, Field)
      BY <1>1 DEF Steps
    <2>2. PICK g \in Solutions(n, Field, 0, step) : TRUE
      BY <1>1, <2>1, FoldTable
    <2>3. /\ g \in [SUBSET (1 .. n) -> Field]
          /\ \A s \in SUBSET (1 .. n) :
               g[s] = IF s = {} THEN 0 ELSE step[Max(s)][g[s \ {Max(s)}]]
      BY <2>2 DEF Solutions
    <2>4. ASSUME NEW s \in SUBSET (1 .. n), s # {}
          PROVE  g[s] = Add(g[s \ {Max(s)}], t[Max(s)])
      <3>1. Max(s) \in 1 .. n /\ g[s \ {Max(s)}] \in Field
        BY <2>3, <2>4, LastInside
      <3>. QED BY <1>2, <2>3, <2>4, <3>1
    <2>5. g = Body(g)
      BY <2>3, <2>4
    <2>. HIDE DEF Body
    <2>. QED BY <2>5
  <1>5. F[{}] = 0
    <2>1. {} \in SUBSET (1 .. n)
      OBVIOUS
    <2>2. Body(F)[{}] = 0
      <3>. HIDE DEF F
      <3>. QED BY <2>1
    <2>. HIDE DEF Body, F
    <2>. QED BY <1>4, <2>2
  <1>. HIDE DEF F
  <1>6. ASSUME NEW k \in 1 .. n, F[1 .. k - 1] \in Field PROVE F[1 .. k] = step[k][F[1 .. k - 1]]
    <2>1. 1 .. k \in SUBSET (1 .. n) /\ 1 .. k # {} /\ Max(1 .. k) = k /\ (1 .. k) \ {k} = 1 .. k - 1
      BY Positions
    <2>2. Body(F)[1 .. k] = Add(F[1 .. k - 1], t[k])
      BY <2>1
    <2>. HIDE DEF Body
    <2>. QED BY <1>2, <1>4, <1>6, <2>2
  <1>7. F[1 .. n] = Loop(n, Field, 0, step)[n]
    <2>1. step \in Steps(n, Field)
      BY <1>1 DEF Steps
    <2>. HIDE DEF F
    <2>. QED BY <1>1, <1>5, <1>6, <2>1, FoldIsLoop
  <1>. QED BY <1>3, <1>7 DEF F

\* The weight of each of n agents, and its sum, is an element of the field.
LEMMA CoefficientType ==
  ASSUME NEW n \in Nat, NEW indices \in [1 .. n -> 1 .. P - 1], NEW i \in 1 .. P - 1
  PROVE  LagrangeCoefficient(i, indices) \in Field
PROOF
  <1>1. /\ indices \in Terms(n) /\ i \in Field /\ n \in 0 .. n
        /\ LagrangeCoefficient(i, indices) = Products(n, indices, i)[n]
    BY CoefficientIsProduct
  <1>2. Products(n, indices, i) \in [0 .. n -> Field]
    BY <1>1, ProductsLoop
  <1>. QED BY <1>1, <1>2

\* The responses of n agents, and their summands in Combine.
Responses(n) == [1 .. n -> [agent : 1 .. P - 1, point : Field]]

Indices(n, r) == [j \in 1 .. n |-> r[j].agent]

Contributions(n, r) ==
  [j \in 1 .. n |-> Mul(r[j].point, LagrangeCoefficient(r[j].agent, Indices(n, r)))]

\* Combine sums the weighted points; the result is in the field.
LEMMA CombineIsSum ==
  ASSUME NEW n \in Nat, NEW r \in Responses(n)
  PROVE  /\ Indices(n, r) \in [1 .. n -> 1 .. P - 1]
         /\ Contributions(n, r) \in Terms(n)
         /\ Combine(r) = Sums(n, Contributions(n, r))[n]
         /\ Combine(r) \in Field
PROOF
  <1>. DEFINE x == Indices(n, r)
              t == Contributions(n, r)
  <1>1. \A j \in 1 .. n : r[j].agent \in 1 .. P - 1 /\ r[j].point \in Field
    BY DEF Responses
  <1>2. x \in [1 .. n -> 1 .. P - 1]
    BY <1>1 DEF Indices
  <1>3. t \in Terms(n)
    <2>1. \A j \in 1 .. n : LagrangeCoefficient(r[j].agent, x) \in Field
      <3>. HIDE DEF x
      <3>. QED BY <1>1, <1>2, CoefficientType
    <2>2. \A j \in 1 .. n : Mul(r[j].point, LagrangeCoefficient(r[j].agent, x)) \in Field
      BY <1>1, <2>1, Closed
    <2>. QED BY <2>2 DEF Terms, Contributions
  <1>4. Combine(r) = Sums(n, t)[n]
    <2>1. DOMAIN r = 1 .. n
      BY DEF Responses
    <2>. DEFINE term(k) == Mul(r[k].point, LagrangeCoefficient(r[k].agent, [j \in 1 .. n |-> r[j].agent]))
                Code(f) == [s \in SUBSET (1 .. n) |->
                              IF s = {} THEN 0 ELSE Add(f[s \ {Max(s)}], term(Max(s)))]
                Body(f) == [s \in SUBSET (1 .. n) |->
                              IF s = {} THEN 0 ELSE Add(f[s \ {Max(s)}], t[Max(s)])]
    <2>2. Combine(r) = (CHOOSE f : f = Code(f))[1 .. n]
      BY <2>1 DEF Combine, FoldLeft, MapThenFoldSet
    <2>3. \A f : Code(f) = Body(f)
      <3>1. \A k \in 1 .. n : term(k) = t[k]
        BY DEF Contributions, Indices
      <3>2. \A s \in SUBSET (1 .. n) : s # {} => term(Max(s)) = t[Max(s)]
        <4>. HIDE DEF term, t
        <4>. QED BY <3>1, LastInside
      <3>. HIDE DEF term, t
      <3>. QED BY <3>2
    <2>4. (CHOOSE f : f = Body(f))[1 .. n] = Sums(n, t)[n]
      <3>. HIDE DEF t
      <3>. QED BY <1>3, FoldIsSum
    <2>. HIDE DEF Code, Body
    <2>. QED BY <2>2, <2>3, <2>4
  <1>5. Sums(n, t)[n] \in Field
    <2>1. n \in 0 .. n
      OBVIOUS
    <2>. QED BY <1>3, <2>1, SumsLoop
  <1>. QED BY <1>2, <1>3, <1>4, <1>5

-----------------------------------------------------------------------------
(***************************************************************************)
(* Shares.                                                                 *)
(***************************************************************************)

\* The accumulator of the loop of Share.
Accumulator == [share : Field, x_power : Field]

\* The accumulators after each of the coefficients that follow the secret.
Evaluation(t, c, i) ==
  Loop(t - 1, Accumulator, [share |-> c[1], x_power |-> i],
       [d \in 1 .. t - 1 |-> [acc \in Accumulator |->
          [share   |-> Add(acc.share, Mul(c[d + 1], acc.x_power)),
           x_power |-> Mul(acc.x_power, i)]]])

\* The secret is the first coefficient.
LEMMA SecretIsFirst ==
  ASSUME NEW t \in Nat \ {0}, NEW c \in Polynomial(t)
  PROVE  Secret(c) = c[1] /\ c[1] \in Field /\ Len(c) = t /\ c \in Seq(Field)
PROOF
  <1>1. c \in [1 .. t -> Field] /\ t \in Nat /\ 1 \in 1 .. t
    BY DEF Polynomial
  <1>2. c \in Seq(Field) /\ Len(c) = t
    BY <1>1
  <1>. QED BY <1>1, <1>2 DEF Secret

\* The two fields of the accumulators, one after the other.
LEMMA EvaluationLoop ==
  ASSUME NEW t \in Nat \ {0}, NEW c \in Polynomial(t), NEW i \in Field
  PROVE  /\ \A d \in 0 .. t - 1 : /\ Evaluation(t, c, i)[d].share \in Field
                                 /\ Evaluation(t, c, i)[d].x_power \in Field
         /\ Evaluation(t, c, i)[0].share = c[1]
         /\ Evaluation(t, c, i)[0].x_power = i
         /\ \A d \in 1 .. t - 1 :
              /\ Evaluation(t, c, i)[d].share
                   = Add(Evaluation(t, c, i)[d - 1].share, Mul(c[d + 1], Evaluation(t, c, i)[d - 1].x_power))
              /\ Evaluation(t, c, i)[d].x_power = Mul(Evaluation(t, c, i)[d - 1].x_power, i)
PROOF
  <1>. DEFINE n == t - 1
              base == [share |-> c[1], x_power |-> i]
              next(d, acc) == [share   |-> Add(acc.share, Mul(c[d + 1], acc.x_power)),
                               x_power |-> Mul(acc.x_power, i)]
              step == [d \in 1 .. n |-> [acc \in Accumulator |-> next(d, acc)]]
              f == Loop(n, Accumulator, base, step)
  <1>1. n \in Nat
    OBVIOUS
  <1>2. base \in Accumulator
    BY SecretIsFirst DEF Accumulator
  <1>3. ASSUME NEW d \in 1 .. n, NEW acc \in Accumulator PROVE next(d, acc) \in Accumulator
    <2>1. c[d + 1] \in Field
      BY DEF Polynomial
    <2>2. acc.share \in Field /\ acc.x_power \in Field
      BY DEF Accumulator
    <2>3. Add(acc.share, Mul(c[d + 1], acc.x_power)) \in Field /\ Mul(acc.x_power, i) \in Field
      BY <2>1, <2>2, Closed
    <2>. QED BY <2>3 DEF Accumulator
  <1>4. Evaluation(t, c, i) = f
    BY DEF Evaluation
  <1>5. \A d \in 1 .. n, acc \in Accumulator :
          next(d, acc) = [share   |-> Add(acc.share, Mul(c[d + 1], acc.x_power)),
                          x_power |-> Mul(acc.x_power, i)]
    OBVIOUS
  <1>. HIDE DEF next
  <1>6. step \in [1 .. n -> [Accumulator -> Accumulator]]
    BY <1>3
  <1>7. \A d \in 1 .. n, acc \in Accumulator : step[d][acc] = next(d, acc)
    OBVIOUS
  <1>. HIDE DEF step
  <1>8. /\ f \in [0 .. n -> Accumulator] /\ f[0] = base
        /\ \A d \in 1 .. n : f[d] = step[d][f[d - 1]]
    <2>. HIDE DEF n, base
    <2>. QED BY <1>1, <1>2, <1>6, LoopTable
  <1>. HIDE DEF f
  <1>9. ASSUME NEW d \in 1 .. n
        PROVE  /\ f[d].share = Add(f[d - 1].share, Mul(c[d + 1], f[d - 1].x_power))
               /\ f[d].x_power = Mul(f[d - 1].x_power, i)
    <2>1. d - 1 \in 0 .. n
      OBVIOUS
    <2>2. f[d - 1] \in Accumulator
      BY <1>8, <2>1
    <2>3. f[d] = next(d, f[d - 1])
      BY <1>7, <1>8, <2>2
    <2>. DEFINE acc == f[d - 1]
    <2>4. f[d] = [share   |-> Add(acc.share, Mul(c[d + 1], acc.x_power)),
                  x_power |-> Mul(acc.x_power, i)]
      BY <1>5, <2>2, <2>3
    <2>. HIDE DEF acc
    <2>5. f[d].share = Add(acc.share, Mul(c[d + 1], acc.x_power)) /\ f[d].x_power = Mul(acc.x_power, i)
      BY <2>4
    <2>. QED BY <2>5 DEF acc
  <1>10. f[0].share = c[1] /\ f[0].x_power = i
    BY <1>8
  <1>11. \A d \in 0 .. n : f[d].share \in Field /\ f[d].x_power \in Field
    BY <1>8 DEF Accumulator
  <1>. HIDE DEF n
  <1>12. /\ \A d \in 0 .. n : f[d].share \in Field /\ f[d].x_power \in Field
         /\ f[0].share = c[1]
         /\ f[0].x_power = i
         /\ \A d \in 1 .. n : /\ f[d].share = Add(f[d - 1].share, Mul(c[d + 1], f[d - 1].x_power))
                              /\ f[d].x_power = Mul(f[d - 1].x_power, i)
    BY <1>9, <1>10, <1>11
  <1>. QED BY <1>4, <1>12, Zenon DEF n

\* The share of an agent is what the loop has added up at its end.
LEMMA ShareIsEvaluation ==
  ASSUME NEW t \in Nat \ {0}, NEW c \in Polynomial(t), NEW i \in 1 .. P - 1
  PROVE  /\ i \in Field
         /\ Share(c, i) = Evaluation(t, c, i)[t - 1].share
         /\ Share(c, i) \in Field
PROOF
  <1>. DEFINE n == t - 1
              base == [share |-> c[1], x_power |-> i]
              next(d, acc) == [share   |-> Add(acc.share, Mul(c[d + 1], acc.x_power)),
                               x_power |-> Mul(acc.x_power, i)]
              step == [d \in 1 .. n |-> [acc \in Accumulator |-> next(d, acc)]]
              Body(f) == [s \in SUBSET (1 .. n) |->
                            IF s = {} THEN base ELSE next(Max(s), f[s \ {Max(s)}])]
              F == CHOOSE f : f = Body(f)
  <1>1. i \in Field /\ FromInt(i) = i /\ n \in Nat
    <2>1. n \in Nat
      OBVIOUS
    <2>2. i \in Field
      BY FieldAssumption DEF Field
    <2>3. FromInt(i) = i
      BY <2>2, Closed DEF FromInt
    <2>. QED BY <2>1, <2>2, <2>3
  <1>2. /\ Secret(c) = c[1] /\ c[1] \in Field /\ c \in Seq(Field) /\ Len(c) = t
        /\ Tail(c) \in Seq(Field) /\ DOMAIN Tail(c) = 1 .. n
        /\ \A d \in 1 .. n : Tail(c)[d] = c[d + 1] /\ c[d + 1] \in Field
    <2>1. Secret(c) = c[1] /\ c[1] \in Field /\ c \in Seq(Field) /\ Len(c) = t
      BY SecretIsFirst
    <2>2. c # <<>>
      BY <2>1
    <2>3. Tail(c) \in Seq(Field) /\ Len(Tail(c)) = n /\ \A d \in 1 .. n : Tail(c)[d] = c[d + 1]
      BY <2>1, <2>2
    <2>4. \A d \in 1 .. n : c[d + 1] \in Field
      BY DEF Polynomial
    <2>. QED BY <2>1, <2>3, <2>4
  <1>3. Share(c, i) = F[1 .. n].share
    <2>. DEFINE Code(f) ==
                  [s \in SUBSET (1 .. n) |->
                     IF s = {} THEN [share |-> Secret(c), x_power |-> FromInt(i)]
                     ELSE [share   |-> Add(f[s \ {Max(s)}].share,
                                           Mul(Tail(c)[Max(s)], f[s \ {Max(s)}].x_power)),
                           x_power |-> Mul(f[s \ {Max(s)}].x_power, FromInt(i))]]
    <2>1. Share(c, i) = (CHOOSE f : f = Code(f))[1 .. n].share
      BY <1>2 DEF Share, FoldLeft, MapThenFoldSet
    <2>2. \A f : Code(f) = Body(f)
      <3>1. \A s \in SUBSET (1 .. n) : s # {} => Tail(c)[Max(s)] = c[Max(s) + 1]
        BY <1>1, <1>2, LastInside
      <3>. QED BY <1>1, <1>2, <3>1
    <2>. HIDE DEF Code, Body
    <2>. QED BY <2>1, <2>2
  <1>4. base \in Accumulator
    BY <1>1, <1>2 DEF Accumulator
  <1>5. ASSUME NEW d \in 1 .. n, NEW acc \in Accumulator PROVE next(d, acc) \in Accumulator
    <2>1. c[d + 1] \in Field /\ acc.share \in Field /\ acc.x_power \in Field
      BY <1>2 DEF Accumulator
    <2>2. Add(acc.share, Mul(c[d + 1], acc.x_power)) \in Field /\ Mul(acc.x_power, i) \in Field
      BY <1>1, <2>1, Closed
    <2>. QED BY <2>2 DEF Accumulator
  <1>6. Evaluation(t, c, i) = Loop(n, Accumulator, base, step)
    BY DEF Evaluation
  <1>. HIDE DEF next, base, n
  <1>7. step \in Steps(n, Accumulator)
    BY <1>5 DEF Steps
  <1>8. \A d \in 1 .. n, acc \in Accumulator : step[d][acc] = next(d, acc)
    OBVIOUS
  <1>. HIDE DEF step
  <1>9. F = Body(F)
    <2>1. PICK g \in Solutions(n, Accumulator, base, step) : TRUE
      BY <1>1, <1>4, <1>7, FoldTable
    <2>2. /\ g \in [SUBSET (1 .. n) -> Accumulator]
          /\ \A s \in SUBSET (1 .. n) :
               g[s] = IF s = {} THEN base ELSE step[Max(s)][g[s \ {Max(s)}]]
      BY <2>1 DEF Solutions
    <2>3. ASSUME NEW s \in SUBSET (1 .. n), s # {}
          PROVE  g[s] = next(Max(s), g[s \ {Max(s)}])
      <3>1. Max(s) \in 1 .. n /\ g[s \ {Max(s)}] \in Accumulator
        BY <1>1, <2>2, <2>3, LastInside
      <3>. QED BY <1>8, <2>2, <2>3, <3>1
    <2>4. g = Body(g)
      BY <2>2, <2>3
    <2>. HIDE DEF Body
    <2>. QED BY <2>4
  <1>. HIDE DEF F
  <1>10. F[{}] = base
    <2>1. {} \in SUBSET (1 .. n)
      OBVIOUS
    <2>2. Body(F)[{}] = base
      BY <2>1
    <2>. HIDE DEF Body
    <2>. QED BY <1>9, <2>2
  <1>11. ASSUME NEW d \in 1 .. n, F[1 .. d - 1] \in Accumulator
         PROVE  F[1 .. d] = step[d][F[1 .. d - 1]]
    <2>1. 1 .. d \in SUBSET (1 .. n) /\ 1 .. d # {} /\ Max(1 .. d) = d /\ (1 .. d) \ {d} = 1 .. d - 1
      BY <1>1, Positions
    <2>2. Body(F)[1 .. d] = next(d, F[1 .. d - 1])
      BY <2>1
    <2>. HIDE DEF Body
    <2>. QED BY <1>8, <1>9, <1>11, <2>2
  <1>12. step \in [1 .. n -> [Accumulator -> Accumulator]]
    BY <1>7 DEF Steps
  <1>13. F[1 .. n] = Loop(n, Accumulator, base, step)[n]
    <2>. HIDE DEF Body
    <2>. QED BY <1>1, <1>4, <1>7, <1>10, <1>11, FoldIsLoop
  <1>14. Loop(n, Accumulator, base, step) \in [0 .. n -> Accumulator] /\ n \in 0 .. n
    BY <1>1, <1>4, <1>12, LoopTable
  <1>15. F[1 .. n] \in Accumulator
    BY <1>13, <1>14
  <1>16. F[1 .. n].share \in Field
    BY <1>15 DEF Accumulator
  <1>. QED BY <1>1, <1>3, <1>6, <1>13, <1>16 DEF n

-----------------------------------------------------------------------------
(***************************************************************************)
(* Shamir's theorem.                                                       *)
(***************************************************************************)

\* The agents of a group that combines its partial results.
Groups(n) == Injection(1 .. n, 1 .. P - 1)

\* A group is a list of points.
LEMMA GroupPoints ==
  ASSUME NEW n \in Nat, NEW x \in Groups(n)
  PROVE  x \in Points(n) /\ x \in [1 .. n -> 1 .. P - 1]
PROOF
  <1>1. x \in [1 .. n -> 1 .. P - 1] /\ \A j, k \in 1 .. n : x[j] = x[k] => j = k
    BY DEF Groups, Injection, IsInjective
  <1>2. 1 .. P - 1 \subseteq Field
    BY FieldAssumption DEF Field
  <1>. QED BY <1>1, <1>2 DEF Points, Terms

\* What a group combines: the points it brings, each with the weight of its
\* agent in the group.
LEMMA CombineIsWeighted ==
  ASSUME NEW n \in Nat, NEW x \in Groups(n), NEW v \in Terms(n)
  PROVE  /\ Combine([j \in 1 .. n |-> [agent |-> x[j], point |-> v[j]]])
              = Weighted(n, Weights(n, x), n, v)
         /\ Combine([j \in 1 .. n |-> [agent |-> x[j], point |-> v[j]]]) \in Field
PROOF
  <1>. DEFINE r == [j \in 1 .. n |-> [agent |-> x[j], point |-> v[j]]]
              w == Weights(n, x)
  <1>1. x \in [1 .. n -> 1 .. P - 1] /\ v \in [1 .. n -> Field] /\ x \in Points(n)
    BY GroupPoints DEF Terms
  <1>2. r \in Responses(n)
    BY <1>1 DEF Responses
  <1>3. \A j \in 1 .. n : r[j].agent = x[j] /\ r[j].point = v[j]
    OBVIOUS
  <1>. HIDE DEF r
  <1>4. Indices(n, r) = x
    <2>1. Indices(n, r) = [j \in 1 .. n |-> x[j]]
      BY <1>3 DEF Indices
    <2>. QED BY <1>1, <2>1
  <1>5. Combine(r) = Sums(n, Contributions(n, r))[n] /\ Combine(r) \in Field
    BY <1>2, CombineIsSum
  <1>6. /\ Contributions(n, r) \in Terms(n) /\ n \in 0 .. n
        /\ [j \in 1 .. n |-> Mul(w[j][n], v[j])] \in Terms(n)
    <2>1. w \in WeightTables(n, x) /\ n \in 0 .. n
      BY <1>1, WeightsAreProducts
    <2>. HIDE DEF w
    <2>2. [j \in 1 .. n |-> Mul(w[j][n], v[j])] \in Terms(n)
      BY <1>1, <2>1, WeightedTerms
    <2>3. Contributions(n, r) \in Terms(n)
      BY <1>2, CombineIsSum
    <2>. QED BY <2>1, <2>2, <2>3
  <1>7. ASSUME NEW j \in 1 .. n
        PROVE  Contributions(n, r)[j] = [k \in 1 .. n |-> Mul(w[k][n], v[k])][j]
    <2>1. LagrangeCoefficient(x[j], x) = w[j][n]
      <3>1. x[j] \in 1 .. P - 1
        BY <1>1
      <3>2. LagrangeCoefficient(x[j], x) = Products(n, x, x[j])[n]
        BY <1>1, <3>1, CoefficientIsProduct
      <3>. QED BY <3>2 DEF Weights
    <2>2. Contributions(n, r)[j] = Mul(v[j], w[j][n])
      BY <1>3, <1>4, <2>1 DEF Contributions
    <2>3. v[j] \in Field /\ w[j][n] \in Field
      BY <1>1, <1>6, WeightsAreProducts, WeightedTerms
    <2>. QED BY <2>2, <2>3, Multiplication
  <1>. HIDE DEF w
  <1>8. Combine(r) = Weighted(n, w, n, v)
    BY <1>5, <1>6, <1>7, SumsSame DEF Weighted
  <1>. QED BY <1>5, <1>8 DEF r, w

\* Shamir's theorem, as the program relies on it.  Any t or more different
\* agents that multiply one point with their shares of a polynomial of t
\* coefficients combine their products to the point times its secret.
THEOREM ThresholdRecovers ==
  ASSUME NEW t \in Nat \ {0}, NEW poly \in Polynomial(t), NEW n \in Nat, t <= n,
         NEW list \in Groups(n), NEW blinded \in Field
  PROVE  Combine([j \in 1 .. n |-> [agent |-> list[j], point |-> Mul(blinded, Share(poly, list[j]))]])
           = Mul(blinded, Secret(poly))
PROOF
  <1>. DEFINE m == t - 1
              w == Weights(n, list)
              E(j) == Evaluation(t, poly, list[j])
              p == [d \in 0 .. m |-> [j \in 1 .. n |-> IF d = 0 THEN 1 ELSE E(j)[d - 1].x_power]]
              v == [d \in 0 .. m |-> [j \in 1 .. n |-> E(j)[d].share]]
              q == [j \in 1 .. n |-> Mul(blinded, Share(poly, list[j]))]
  <1>1. /\ list \in Points(n) /\ list \in [1 .. n -> 1 .. P - 1]
        /\ m \in Nat /\ m < n /\ m + 1 = t /\ m \in 0 .. m
        /\ poly \in [1 .. m + 1 -> Field]
    BY GroupPoints DEF Polynomial
  <1>2. ASSUME NEW j \in 1 .. n
        PROVE  /\ list[j] \in Field /\ Share(poly, list[j]) \in Field
               /\ \A d \in 0 .. m : E(j)[d].share \in Field /\ E(j)[d].x_power \in Field
               /\ E(j)[0].share = poly[1] /\ E(j)[0].x_power = list[j]
               /\ \A d \in 1 .. m :
                    /\ E(j)[d].share = Add(E(j)[d - 1].share, Mul(poly[d + 1], E(j)[d - 1].x_power))
                    /\ E(j)[d].x_power = Mul(E(j)[d - 1].x_power, list[j])
               /\ Share(poly, list[j]) = E(j)[m].share
    <2>. DEFINE i == list[j]
    <2>1. i \in 1 .. P - 1
      BY <1>1
    <2>2. i \in Field /\ Share(poly, i) \in Field /\ Share(poly, i) = Evaluation(t, poly, i)[t - 1].share
      BY <2>1, ShareIsEvaluation
    <2>. HIDE DEF i
    <2>. DEFINE e == Evaluation(t, poly, i)
    <2>4. E(j) = e
      BY DEF i
    <2>. HIDE DEF E, p, v, q, w
    <2>3. /\ \A d \in 0 .. m : e[d].share \in Field /\ e[d].x_power \in Field
          /\ e[0].share = poly[1] /\ e[0].x_power = i
      BY <2>2, EvaluationLoop
    <2>5. ASSUME NEW d \in 1 .. m
          PROVE  /\ e[d].share = Add(e[d - 1].share, Mul(poly[d + 1], e[d - 1].x_power))
                 /\ e[d].x_power = Mul(e[d - 1].x_power, i)
      BY <2>2, EvaluationLoop
    <2>. HIDE DEF e
    <2>6. Share(poly, i) = e[m].share
      BY <2>2 DEF e
    <2>. QED BY <2>2, <2>3, <2>4, <2>5, <2>6 DEF i
  <1>. HIDE DEF E
  <1>4. v \in [0 .. m -> Terms(n)]
    BY <1>2 DEF Terms
  <1>5. p \in [0 .. m -> Terms(n)]
    <2>1. \A d \in 0 .. m, j \in 1 .. n : (IF d = 0 THEN 1 ELSE E(j)[d - 1].x_power) \in Field
      <3>1. \A d \in 0 .. m : d # 0 => d - 1 \in 0 .. m
        BY <1>1
      <3>. QED BY <1>2, <3>1, Closed
    <2>. QED BY <2>1 DEF Terms
  <1>6. \A j \in 1 .. n : p[0][j] = 1 /\ v[0][j] = poly[1]
    BY <1>1, <1>2
  <1>7. ASSUME NEW d \in 1 .. m, NEW j \in 1 .. n
        PROVE  /\ p[d][j] = Mul(p[d - 1][j], list[j])
               /\ v[d][j] = Add(v[d - 1][j], Mul(poly[d + 1], p[d][j]))
    <2>1. d \in 0 .. m /\ d - 1 \in 0 .. m /\ d # 0
      OBVIOUS
    <2>2. /\ p[d][j] = E(j)[d - 1].x_power
          /\ v[d][j] = E(j)[d].share /\ v[d - 1][j] = E(j)[d - 1].share
      BY <2>1
    <2>3. p[d - 1][j] = IF d - 1 = 0 THEN 1 ELSE E(j)[(d - 1) - 1].x_power
      BY <2>1
    <2>4. E(j)[d - 1].x_power = Mul(p[d - 1][j], list[j])
      <3>1. CASE d = 1
        <4>1. p[d - 1][j] = 1 /\ E(j)[d - 1].x_power = list[j] /\ list[j] \in Field
          BY <1>2, <2>3, <3>1
        <4>. QED BY <4>1, Multiplication
      <3>2. CASE d # 1
        <4>1. d - 1 \in 1 .. m /\ d - 1 # 0
          BY <3>2
        <4>2. E(j)[d - 1].x_power = Mul(E(j)[(d - 1) - 1].x_power, list[j])
          BY <1>2, <4>1
        <4>. QED BY <2>3, <4>1, <4>2
      <3>. QED BY <3>1, <3>2
    <2>5. E(j)[d].share = Add(E(j)[d - 1].share, Mul(poly[d + 1], E(j)[d - 1].x_power))
      BY <1>2
    <2>. QED BY <2>2, <2>4, <2>5
  <1>8. v[m] = [j \in 1 .. n |-> Share(poly, list[j])]
    BY <1>1, <1>2
  <1>. HIDE DEF p, v
  <1>9. Weighted(n, w, n, v[m]) = poly[1]
    <2>1. \A d \in 1 .. m, j \in 1 .. n : /\ p[d][j] = Mul(p[d - 1][j], list[j])
                                           /\ v[d][j] = Add(v[d - 1][j], Mul(poly[d + 1], p[d][j]))
      BY <1>7
    <2>2. BuiltTogether(n, list, m, poly, p, v)
      BY <1>4, <1>5, <1>6, <2>1 DEF BuiltTogether
    <2>. HIDE DEF m, w, q
    <2>3. n \in Nat /\ list \in Points(n) /\ m \in Nat /\ m < n /\ poly \in [1 .. m + 1 -> Field]
      BY <1>1
    <2>4. Weighted(n, Weights(n, list), n, v[m]) = poly[1]
      BY ONLY <2>2, <2>3, Interpolation
    <2>. QED BY <2>4 DEF w
  <1>10. /\ q \in Terms(n) /\ v[m] \in Terms(n) /\ n \in 0 .. n
         /\ \A j \in 1 .. n : q[j] = Mul(blinded, v[m][j]) /\ v[m][j] \in Field
    <2>1. \A j \in 1 .. n : q[j] = Mul(blinded, v[m][j]) /\ v[m][j] \in Field
      BY <1>2, <1>8
    <2>2. q \in Terms(n)
      BY <1>2, Closed DEF Terms
    <2>3. v[m] \in Terms(n)
      BY <1>1, <1>4
    <2>. QED BY <2>1, <2>2, <2>3
  <1>11. Weighted(n, w, n, q) = Mul(blinded, poly[1])
    <2>. DEFINE u == v[m]
    <2>. HIDE DEF q, u, w, m
    <2>1. w \in WeightTables(n, list)
      BY <1>1, WeightsAreProducts DEF w
    <2>2. Weighted(n, w, n, u) = poly[1] /\ u \in Terms(n) /\ Mul(blinded, poly[1]) \in Field /\ poly[1] \in Field
      BY <1>9, <1>10, Closed, SecretIsFirst DEF u
    <2>3. ASSUME NEW b \in Field, b = 0
          PROVE  Weighted(n, w, n, q)
                   = Add(Mul(blinded, Weighted(n, w, n, u)), Mul(b, Weighted(n, w, n, u)))
      <3>1. \A y \in Field : Add(Mul(blinded, y), Mul(b, y)) = Mul(blinded, y)
        BY <2>3, Addition, Multiplication, Closed
      <3>2. Mixes(n, blinded, b, q, u, u)
        BY <1>10, <3>1 DEF u, Mixes
      <3>. QED BY <1>1, <1>10, <2>1, <2>2, <3>2, WeightedLinear
    <2>4. Add(Mul(blinded, poly[1]), Mul(0, poly[1])) = Mul(blinded, poly[1])
      BY <2>2, Addition, Multiplication
    <2>. QED BY <2>2, <2>3, <2>4, Closed
  <1>12. Combine([j \in 1 .. n |-> [agent |-> list[j], point |-> q[j]]]) = Weighted(n, w, n, q)
    <2>. HIDE DEF q, m
    <2>. QED BY <1>10, CombineIsWeighted
  <1>13. [j \in 1 .. n |-> [agent |-> list[j], point |-> q[j]]]
           = [j \in 1 .. n |-> [agent |-> list[j], point |-> Mul(blinded, Share(poly, list[j]))]]
    OBVIOUS
  <1>. HIDE DEF q
  <1>14. Secret(poly) = poly[1]
    BY SecretIsFirst
  <1>. QED BY <1>11, <1>12, <1>13, <1>14
-----------------------------------------------------------------------------
(***************************************************************************)
(* Fewer shares than coefficients.  The secret is the value at zero of a   *)
(* polynomial whose other values are the shares; each value that is given  *)
(* divides the number of polynomials by P, whatever the value is.          *)
(***************************************************************************)

\* The value of a polynomial of t coefficients at a field element; the secret
\* is that at zero, a share that at the number of the agent.
Value(t, c, x) == Evaluation(t, c, x)[t - 1].share

\* The polynomial a + z b.
Combination(t, a, z, b) == [k \in 1 .. t |-> Add(a[k], Mul(z, b[k]))]

\* In a sum of two sums, summands may be paired.
LEMMA PairUp ==
  ASSUME NEW a \in Field, NEW b \in Field, NEW c \in Field, NEW d \in Field
  PROVE  Add(Add(a, b), Add(c, d)) = Add(Add(a, c), Add(b, d))
PROOF
  <1>1. Add(a, b) \in Field /\ Add(c, d) \in Field /\ Add(a, c) \in Field /\ Add(b, d) \in Field
    BY Closed
  <1>2. Add(Add(a, b), Add(c, d)) = Add(a, Add(b, Add(c, d)))
    BY <1>1, Addition
  <1>3. Add(b, Add(c, d)) = Add(Add(c, d), b) /\ Add(Add(c, d), b) = Add(c, Add(d, b))
    BY <1>1, Addition
  <1>4. Add(d, b) = Add(b, d) /\ Add(a, Add(c, Add(b, d))) = Add(Add(a, c), Add(b, d))
    BY <1>1, Addition
  <1>. QED BY <1>2, <1>3, <1>4

\* Values are field elements, and the value at zero is the secret.
LEMMA ValueType ==
  ASSUME NEW t \in Nat \ {0}, NEW c \in Polynomial(t)
  PROVE  /\ \A x \in Field : Value(t, c, x) \in Field
         /\ Value(t, c, 0) = Secret(c)
         /\ \A i \in 1 .. P - 1 : Value(t, c, i) = Share(c, i)
PROOF
  <1>1. t - 1 \in Nat /\ t - 1 \in 0 .. t - 1
    OBVIOUS
  <1>2. ASSUME NEW x \in Field PROVE Value(t, c, x) \in Field
    BY <1>1, EvaluationLoop DEF Value
  <1>3. \A i \in 1 .. P - 1 : Value(t, c, i) = Share(c, i)
    BY ShareIsEvaluation DEF Value
  <1>4. PICK zero \in Field : zero = 0
    BY Closed
  <1>. DEFINE E == Evaluation(t, c, zero)
              S == {d \in 0 .. t - 1 : E[d].share = c[1] /\ E[d].x_power = zero}
  <1>5. /\ E[0].share = c[1] /\ E[0].x_power = zero
        /\ \A d \in 1 .. t - 1 : /\ E[d].share = Add(E[d - 1].share, Mul(c[d + 1], E[d - 1].x_power))
                                 /\ E[d].x_power = Mul(E[d - 1].x_power, zero)
    BY EvaluationLoop
  <1>. HIDE DEF E
  <1>6. 0 \in S
    BY <1>1, <1>5
  <1>7. ASSUME NEW d \in 0 .. (t - 1) - 1, d \in S PROVE d + 1 \in S
    <2>1. d + 1 \in 1 .. t - 1 /\ d + 1 \in 0 .. t - 1 /\ (d + 1) - 1 = d /\ (d + 1) + 1 \in 1 .. t
      BY <1>7
    <2>2. c[(d + 1) + 1] \in Field /\ c[1] \in Field
      BY <2>1, SecretIsFirst DEF Polynomial
    <2>3. /\ E[d + 1].share = Add(E[d].share, Mul(c[(d + 1) + 1], E[d].x_power))
          /\ E[d + 1].x_power = Mul(E[d].x_power, zero)
      BY <1>5, <2>1
    <2>4. E[d].share = c[1] /\ E[d].x_power = zero
      BY <1>7
    <2>5. Mul(c[(d + 1) + 1], zero) = 0 /\ Add(c[1], 0) = c[1] /\ Mul(zero, zero) = zero
      BY <1>4, <2>2, Multiplication, Addition
    <2>. QED BY <2>1, <2>3, <2>4, <2>5
  <1>8. \A d \in 0 .. t - 1 : d \in S
    <2>. HIDE DEF S
    <2>. QED BY <1>1, <1>6, <1>7, UpTo
  <1>9. Value(t, c, zero) = c[1]
    BY <1>1, <1>8 DEF Value, E
  <1>. QED BY <1>2, <1>3, <1>4, <1>9, SecretIsFirst

\* Values of a + z b are those of a plus z times those of b.
LEMMA ValueLinear ==
  ASSUME NEW t \in Nat \ {0}, NEW a \in Polynomial(t), NEW b \in Polynomial(t), NEW z \in Field
  PROVE  /\ Combination(t, a, z, b) \in Polynomial(t)
         /\ \A x \in Field : Value(t, Combination(t, a, z, b), x)
                               = Add(Value(t, a, x), Mul(z, Value(t, b, x)))
PROOF
  <1>. DEFINE c == Combination(t, a, z, b)
  <1>1. \A k \in 1 .. t : a[k] \in Field /\ b[k] \in Field
    BY DEF Polynomial
  <1>2. \A k \in 1 .. t : c[k] = Add(a[k], Mul(z, b[k]))
    BY DEF Combination
  <1>3. c \in Polynomial(t)
    BY <1>1, Closed DEF Combination, Polynomial
  <1>. HIDE DEF c
  <1>4. ASSUME NEW x \in Field
        PROVE  Value(t, c, x) = Add(Value(t, a, x), Mul(z, Value(t, b, x)))
    <2>. DEFINE A == Evaluation(t, a, x)
                B == Evaluation(t, b, x)
                C == Evaluation(t, c, x)
                n == t - 1
                S == {d \in 0 .. n : /\ A[d].x_power = C[d].x_power /\ B[d].x_power = C[d].x_power
                                     /\ C[d].share = Add(A[d].share, Mul(z, B[d].share))}
    <2>1. /\ \A d \in 0 .. n : A[d].share \in Field /\ A[d].x_power \in Field
          /\ A[0].share = a[1] /\ A[0].x_power = x
          /\ \A d \in 1 .. n : /\ A[d].share = Add(A[d - 1].share, Mul(a[d + 1], A[d - 1].x_power))
                               /\ A[d].x_power = Mul(A[d - 1].x_power, x)
      BY EvaluationLoop
    <2>2. /\ \A d \in 0 .. n : B[d].share \in Field /\ B[d].x_power \in Field
          /\ B[0].share = b[1] /\ B[0].x_power = x
          /\ \A d \in 1 .. n : /\ B[d].share = Add(B[d - 1].share, Mul(b[d + 1], B[d - 1].x_power))
                               /\ B[d].x_power = Mul(B[d - 1].x_power, x)
      BY EvaluationLoop
    <2>3. /\ C[0].share = c[1] /\ C[0].x_power = x
          /\ \A d \in 1 .. n : /\ C[d].share = Add(C[d - 1].share, Mul(c[d + 1], C[d - 1].x_power))
                               /\ C[d].x_power = Mul(C[d - 1].x_power, x)
      BY <1>3, EvaluationLoop
    <2>. HIDE DEF A, B, C
    <2>4. n \in Nat /\ n \in 0 .. n /\ 0 \in 0 .. n /\ n + 1 = t /\ 1 \in 1 .. t
      OBVIOUS
    <2>5. 0 \in S
      BY <1>2, <2>1, <2>2, <2>3, <2>4
    <2>6. ASSUME NEW d \in 0 .. n - 1, d \in S PROVE d + 1 \in S
      <3>1. d + 1 \in 1 .. n /\ d + 1 \in 0 .. n /\ d \in 0 .. n /\ (d + 1) - 1 = d /\ (d + 1) + 1 \in 1 .. t
        BY <2>6
      <3>. DEFINE k == (d + 1) + 1
      <3>. HIDE DEF k
      <3>2. a[k] \in Field /\ b[k] \in Field /\ c[k] = Add(a[k], Mul(z, b[k]))
        BY <1>1, <1>2, <3>1 DEF k
      <3>. DEFINE p == C[d].x_power
                  r == A[d].share
                  s == B[d].share
      <3>3. /\ A[d + 1].share = Add(r, Mul(a[k], p)) /\ A[d + 1].x_power = Mul(p, x)
            /\ B[d + 1].share = Add(s, Mul(b[k], p)) /\ B[d + 1].x_power = Mul(p, x)
            /\ C[d + 1].share = Add(Add(r, Mul(z, s)), Mul(c[k], p)) /\ C[d + 1].x_power = Mul(p, x)
        BY <2>1, <2>2, <2>3, <2>6, <3>1 DEF k
      <3>4. p \in Field /\ r \in Field /\ s \in Field
        BY <2>1, <2>2, <2>6, <3>1
      <3>. HIDE DEF p, r, s, n
      <3>. DEFINE u == a[k]
                  v == b[k]
      <3>5. u \in Field /\ v \in Field /\ c[k] = Add(u, Mul(z, v))
        BY <3>2
      <3>. HIDE DEF u, v
      <3>6. Mul(c[k], p) = Add(Mul(u, p), Mul(z, Mul(v, p)))
        <4>1. Mul(z, v) \in Field /\ Add(u, Mul(z, v)) \in Field
          BY <3>5, Closed
        <4>2. Mul(Add(u, Mul(z, v)), p) = Mul(p, Add(u, Mul(z, v)))
          BY <3>4, <4>1, Multiplication
        <4>3. Mul(p, Add(u, Mul(z, v))) = Add(Mul(p, u), Mul(p, Mul(z, v)))
          BY <3>4, <3>5, <4>1, Distribution
        <4>4. Mul(p, u) = Mul(u, p) /\ Mul(p, Mul(z, v)) = Mul(Mul(z, v), p)
              /\ Mul(Mul(z, v), p) = Mul(z, Mul(v, p))
          BY <3>4, <3>5, <4>1, Multiplication
        <4>. QED BY <3>5, <4>2, <4>3, <4>4
      <3>7. Mul(z, Add(s, Mul(v, p))) = Add(Mul(z, s), Mul(z, Mul(v, p)))
        <4>1. Mul(v, p) \in Field
          BY <3>4, <3>5, Closed
        <4>. QED BY <3>4, <4>1, Distribution
      <3>8. /\ Mul(z, s) \in Field /\ Mul(u, p) \in Field /\ Mul(v, p) \in Field
            /\ Mul(z, Mul(v, p)) \in Field
        BY <3>4, <3>5, Closed
      <3>9. Add(Add(r, Mul(z, s)), Add(Mul(u, p), Mul(z, Mul(v, p))))
              = Add(Add(r, Mul(u, p)), Add(Mul(z, s), Mul(z, Mul(v, p))))
        BY <3>4, <3>8, PairUp
      <3>10. C[d + 1].share = Add(A[d + 1].share, Mul(z, B[d + 1].share))
        BY <3>3, <3>6, <3>7, <3>9 DEF u, v
      <3>. QED BY <3>1, <3>3, <3>10
    <2>7. \A d \in 0 .. n : d \in S
      <3>. HIDE DEF S, n
      <3>. QED BY <2>4, <2>5, <2>6, UpTo
    <2>. QED BY <2>4, <2>7 DEF Value, A, B, C
  <1>. QED BY <1>3, <1>4 DEF c

\* The polynomial c times X - u, when its degree leaves room for one more.
WithRoot(t, c, u) ==
  [k \in 1 .. t |-> IF k = 1 THEN Neg(Mul(u, c[1])) ELSE Sub(c[k - 1], Mul(u, c[k]))]

\* The step of the loop that multiplies by X - u: b, e, h and k are terms of
\* the value before, of its multiple by the point, and of the coefficients.
LEMMA RootStep ==
  ASSUME NEW a \in Field, NEW b \in Field, NEW c \in Field, NEW d \in Field,
         NEW e \in Field, NEW f \in Field, Add(Add(a, b), c) = f
  PROVE  Add(Add(Add(a, Sub(c, d)), Add(b, d)), e) = Add(f, e)
PROOF
  <1>1. Sub(c, d) \in Field /\ Add(a, b) \in Field
    BY Closed
  <1>2. Add(Add(a, Sub(c, d)), Add(b, d)) = Add(Add(a, b), Add(Sub(c, d), d))
    BY <1>1, PairUp
  <1>3. Add(Sub(c, d), d) = c
    BY Subtraction
  <1>. QED BY <1>2, <1>3

\* The product has the values of c times the distance from u.
LEMMA ValueWithRoot ==
  ASSUME NEW t \in Nat \ {0}, NEW c \in Polynomial(t), c[t] = 0, NEW u \in Field
  PROVE  /\ WithRoot(t, c, u) \in Polynomial(t)
         /\ \A x \in Field : Value(t, WithRoot(t, c, u), x) = Mul(Sub(x, u), Value(t, c, x))
PROOF
  <1>. DEFINE q == WithRoot(t, c, u)
  <1>1. \A k \in 1 .. t : c[k] \in Field
    BY DEF Polynomial
  <1>2. /\ q[1] = Neg(Mul(u, c[1]))
        /\ \A k \in 1 .. t : k # 1 => q[k] = Sub(c[k - 1], Mul(u, c[k]))
    BY DEF WithRoot
  <1>3. q \in Polynomial(t)
    <2>1. \A k \in 1 .. t : k # 1 => k - 1 \in 1 .. t
      OBVIOUS
    <2>2. ASSUME NEW k \in 1 .. t PROVE q[k] \in Field
      <3>1. c[k] \in Field /\ c[1] \in Field /\ (k # 1 => c[k - 1] \in Field)
        BY <1>1, <2>1
      <3>2. Mul(u, c[k]) \in Field /\ Mul(u, c[1]) \in Field
        BY <3>1, Closed
      <3>. HIDE DEF q
      <3>3. CASE k = 1
        <4>1. Neg(Mul(u, c[1])) \in Field
          BY <3>2, Closed
        <4>. QED BY <1>2, <3>3, <4>1
      <3>4. CASE k # 1
        <4>1. Sub(c[k - 1], Mul(u, c[k])) \in Field
          BY <3>1, <3>2, <3>4, Closed
        <4>. QED BY <1>2, <3>4, <4>1
      <3>. QED BY <3>3, <3>4
    <2>3. q = [k \in 1 .. t |-> q[k]]
      BY DEF WithRoot
    <2>. HIDE DEF q
    <2>. QED BY <2>2, <2>3 DEF Polynomial
  <1>. HIDE DEF q
  <1>4. ASSUME NEW x \in Field
        PROVE  Value(t, q, x) = Mul(Sub(x, u), Value(t, c, x))
    <2>. DEFINE C == Evaluation(t, c, x)
                Q == Evaluation(t, q, x)
                n == t - 1
                S == {d \in 0 .. n :
                       /\ Q[d].x_power = C[d].x_power
                       /\ Add(Add(Q[d].share, Mul(u, C[d].share)), Mul(c[d + 1], C[d].x_power))
                            = Mul(x, C[d].share)}
    <2>1. /\ \A d \in 0 .. n : C[d].share \in Field /\ C[d].x_power \in Field
          /\ C[0].share = c[1] /\ C[0].x_power = x
          /\ \A d \in 1 .. n : /\ C[d].share = Add(C[d - 1].share, Mul(c[d + 1], C[d - 1].x_power))
                               /\ C[d].x_power = Mul(C[d - 1].x_power, x)
      BY EvaluationLoop
    <2>2. /\ \A d \in 0 .. n : Q[d].share \in Field
          /\ Q[0].share = q[1] /\ Q[0].x_power = x
          /\ \A d \in 1 .. n : /\ Q[d].share = Add(Q[d - 1].share, Mul(q[d + 1], Q[d - 1].x_power))
                               /\ Q[d].x_power = Mul(Q[d - 1].x_power, x)
      BY <1>3, EvaluationLoop
    <2>3. n \in Nat /\ n \in 0 .. n /\ 0 \in 0 .. n /\ n + 1 = t /\ 1 \in 1 .. t
      OBVIOUS
    <2>. HIDE DEF C, Q, n
    <2>4. 0 \in S
      <3>. DEFINE s == c[1]
                  m == Mul(u, s)
      <3>1. s \in Field /\ m \in Field
        BY <1>1, <2>3, Closed
      <3>2. Mul(s, x) = Mul(x, s) /\ Mul(x, s) \in Field /\ Add(Neg(m), m) = 0
        <4>1. Neg(m) \in Field /\ Add(m, Neg(m)) = 0
          BY <3>1, Closed, Addition
        <4>. QED BY <3>1, <4>1, Closed, Addition, Multiplication
      <3>3. Add(Add(Neg(m), m), Mul(s, x)) = Mul(x, s)
        BY <3>2, Addition
      <3>4. 0 + 1 = 1
        OBVIOUS
      <3>. QED BY <1>2, <2>1, <2>2, <2>3, <3>3, <3>4
    <2>5. ASSUME NEW d \in 0 .. n - 1, d \in S PROVE d + 1 \in S
      <3>1. /\ d + 1 \in 1 .. n /\ d + 1 \in 0 .. n /\ d \in 0 .. n /\ (d + 1) - 1 = d
            /\ d + 1 \in 1 .. t /\ (d + 1) + 1 \in 1 .. t /\ (d + 1) + 1 # 1
            /\ ((d + 1) + 1) - 1 = d + 1
        BY <2>3, <2>5
      <3>. DEFINE next == c[(d + 1) + 1]
                  this == c[d + 1]
                  p == C[d].x_power
                  r == C[d].share
                  s == Q[d].share
      <3>2. next \in Field /\ this \in Field /\ q[(d + 1) + 1] = Sub(this, Mul(u, next))
        BY <1>1, <1>2, <3>1
      <3>3. /\ C[d + 1].share = Add(r, Mul(next, p)) /\ C[d + 1].x_power = Mul(p, x)
            /\ Q[d + 1].share = Add(s, Mul(q[(d + 1) + 1], p)) /\ Q[d + 1].x_power = Mul(p, x)
            /\ Add(Add(s, Mul(u, r)), Mul(this, p)) = Mul(x, r)
        BY <2>1, <2>2, <2>5, <3>1
      <3>4. p \in Field /\ r \in Field /\ s \in Field
        BY <2>1, <2>2, <3>1
      <3>5. c[(d + 1) + 1] = next
        OBVIOUS
      <3>. HIDE DEF next, this, p, r, s, S
      <3>. DEFINE v == Mul(next, p)
      <3>6. v \in Field /\ Mul(u, next) \in Field /\ Mul(u, v) \in Field /\ Mul(this, p) \in Field
            /\ Mul(u, r) \in Field /\ Mul(x, r) \in Field /\ Mul(x, v) \in Field
        <4>1. v \in Field
          BY <3>2, <3>4, Closed
        <4>. QED BY <3>2, <3>4, <4>1, Closed
      <3>7. Mul(Sub(this, Mul(u, next)), p) = Sub(Mul(this, p), Mul(u, v))
        <4>1. Mul(p, Sub(this, Mul(u, next))) = Sub(Mul(p, this), Mul(p, Mul(u, next)))
          BY <3>2, <3>4, <3>6, Subtraction
        <4>2. Mul(p, Mul(u, next)) = Mul(Mul(u, next), p) /\ Mul(Mul(u, next), p) = Mul(u, Mul(next, p))
          BY <3>2, <3>4, <3>6, Multiplication
        <4>3. Mul(p, this) = Mul(this, p)
          BY <3>2, <3>4, Multiplication
        <4>4. Mul(p, Sub(this, Mul(u, next))) = Mul(Sub(this, Mul(u, next)), p)
          BY <3>2, <3>4, <3>6, Closed, Multiplication
        <4>. QED BY <4>1, <4>2, <4>3, <4>4
      <3>8. Mul(u, Add(r, v)) = Add(Mul(u, r), Mul(u, v)) /\ Mul(x, Add(r, v)) = Add(Mul(x, r), Mul(x, v))
        <4>. HIDE DEF v
        <4>. QED BY <3>4, <3>6, Distribution
      <3>9. Mul(next, Mul(p, x)) = Mul(x, v)
        <4>1. Mul(next, Mul(p, x)) = Mul(Mul(next, p), x)
          BY <3>2, <3>4, Multiplication
        <4>. QED BY <3>6, <4>1, Multiplication
      <3>. HIDE DEF v
      <3>10. Add(Add(Add(s, Sub(Mul(this, p), Mul(u, v))), Add(Mul(u, r), Mul(u, v))), Mul(x, v))
               = Add(Mul(x, r), Mul(x, v))
        BY <3>3, <3>4, <3>6, RootStep
      <3>11. /\ Q[d + 1].share = Add(s, Sub(Mul(this, p), Mul(u, v)))
             /\ Mul(u, C[d + 1].share) = Add(Mul(u, r), Mul(u, v))
             /\ Mul(next, C[d + 1].x_power) = Mul(x, v)
             /\ Mul(x, C[d + 1].share) = Add(Mul(x, r), Mul(x, v))
        BY <3>2, <3>3, <3>7, <3>8, <3>9 DEF v
      <3>. QED BY <3>1, <3>3, <3>5, <3>10, <3>11 DEF S
    <2>6. n \in S
      <3>1. \A d \in 0 .. n : d \in S
        <4>. HIDE DEF S
        <4>. QED BY <2>3, <2>4, <2>5, UpTo
      <3>. QED BY <2>3, <3>1
    <2>. DEFINE y == C[n].share
                z == Q[n].share
                p == C[n].x_power
    <2>7. y \in Field /\ z \in Field /\ p \in Field
      BY <2>1, <2>2, <2>3
    <2>8. Add(Add(z, Mul(u, y)), Mul(c[t], p)) = Mul(x, y)
      BY <2>3, <2>6
    <2>9. z = Value(t, q, x) /\ y = Value(t, c, x)
      BY DEF Value, Q, C, n
    <2>. HIDE DEF y, z, p
    <2>10. Mul(u, y) \in Field /\ Mul(x, y) \in Field /\ Add(z, Mul(u, y)) \in Field /\ Sub(x, u) \in Field
      BY <2>7, Closed
    <2>11. Mul(c[t], p) = 0
      BY <2>7, Multiplication
    <2>12. Add(z, Mul(u, y)) = Mul(x, y)
      BY <2>8, <2>10, <2>11, Addition
    <2>13. Mul(Sub(x, u), y) = Sub(Mul(x, y), Mul(u, y))
      <3>1. Mul(Sub(x, u), y) = Mul(y, Sub(x, u)) /\ Mul(y, x) = Mul(x, y) /\ Mul(y, u) = Mul(u, y)
        BY <2>7, <2>10, Multiplication
      <3>2. Mul(y, Sub(x, u)) = Sub(Mul(y, x), Mul(y, u))
        BY <2>7, Subtraction
      <3>. QED BY <3>1, <3>2
    <2>14. Add(Mul(u, y), Sub(Mul(x, y), Mul(u, y))) = Mul(x, y)
      <3>1. Sub(Mul(x, y), Mul(u, y)) \in Field
        BY <2>10, Closed
      <3>. QED BY <2>10, <3>1, Subtraction, Addition
    <2>15. z = Sub(Mul(x, y), Mul(u, y))
      <3>1. Sub(Mul(x, y), Mul(u, y)) \in Field /\ Add(Mul(u, y), z) = Mul(x, y)
        BY <2>7, <2>10, <2>12, Closed, Addition
      <3>. QED BY <2>7, <2>10, <2>14, <3>1, Subtraction
    <2>. QED BY <2>9, <2>13, <2>15
  <1>. QED BY <1>3, <1>4 DEF q

\* Some polynomial of t coefficients is zero at m < t given points and nowhere
\* else.
LEMMA Vanishing ==
  ASSUME NEW t \in Nat \ {0}, NEW m \in 0 .. t - 1, NEW x \in [1 .. m -> Field]
  PROVE  \E q \in Polynomial(t) :
           /\ \A j \in 1 .. m : Value(t, q, x[j]) = 0
           /\ \A z \in Field : (\A j \in 1 .. m : x[j] # z) => Value(t, q, z) # 0
PROOF
  <1>. DEFINE Good(q, d) ==
                /\ \A k \in d + 2 .. t : q[k] = 0
                /\ \A j \in 1 .. d : Value(t, q, x[j]) = 0
                /\ \A z \in Field : (\A j \in 1 .. d : x[j] # z) => Value(t, q, z) # 0
              S == {d \in 0 .. m : \E q \in Polynomial(t) : Good(q, d)}
  <1>1. m \in Nat /\ 0 \in 0 .. m /\ m \in 0 .. m /\ 1 \in 1 .. t
    OBVIOUS
  <1>2. 0 \in S
    <2>. DEFINE q == [k \in 1 .. t |-> IF k = 1 THEN 1 ELSE 0]
    <2>1. q \in Polynomial(t) /\ q[1] = 1 /\ \A k \in 0 + 2 .. t : q[k] = 0
      BY Closed DEF Polynomial
    <2>. HIDE DEF q
    <2>2. ASSUME NEW z \in Field PROVE Value(t, q, z) # 0
      <3>. DEFINE E == Evaluation(t, q, z)
                  n == t - 1
                  R == {d \in 0 .. n : E[d].share = 1}
      <3>1. /\ E[0].share = q[1] /\ \A d \in 0 .. n : E[d].x_power \in Field
            /\ \A d \in 1 .. n : E[d].share = Add(E[d - 1].share, Mul(q[d + 1], E[d - 1].x_power))
        BY <2>1, EvaluationLoop
      <3>. HIDE DEF E
      <3>2. n \in Nat /\ 0 \in 0 .. n /\ n \in 0 .. n
        OBVIOUS
      <3>3. 0 \in R
        BY <2>1, <3>1, <3>2
      <3>4. ASSUME NEW d \in 0 .. n - 1, d \in R PROVE d + 1 \in R
        <4>1. /\ d + 1 \in 1 .. n /\ d + 1 \in 0 .. n /\ d \in 0 .. n /\ (d + 1) - 1 = d
              /\ (d + 1) + 1 \in 0 + 2 .. t
          BY <3>2, <3>4
        <4>2. q[(d + 1) + 1] = 0 /\ E[d].share = 1 /\ E[d].x_power \in Field
          BY <2>1, <3>1, <3>4, <4>1
        <4>3. E[d + 1].share = Add(E[d].share, Mul(q[(d + 1) + 1], E[d].x_power))
          BY <3>1, <4>1
        <4>4. Mul(0, E[d].x_power) = 0 /\ Add(1, 0) = 1
          BY <4>2, Multiplication, Addition, Closed
        <4>. QED BY <4>1, <4>2, <4>3, <4>4
      <3>5. n \in R
        <4>1. \A d \in 0 .. n : d \in R
          <5>. HIDE DEF R, n
          <5>. QED BY <3>2, <3>3, <3>4, UpTo
        <4>. QED BY <3>2, <4>1
      <3>. QED BY <3>5 DEF Value, E
    <2>3. Good(q, 0)
      BY <2>1, <2>2
    <2>. HIDE DEF Good
    <2>. QED BY <1>1, <2>1, <2>3
  <1>3. ASSUME NEW d \in 0 .. m - 1, d \in S PROVE d + 1 \in S
    <2>1. PICK c \in Polynomial(t) : Good(c, d)
      BY <1>3
    <2>2. /\ d \in Nat /\ d + 1 \in 0 .. m /\ d + 1 \in 1 .. m /\ t \in d + 2 .. t
          /\ 1 .. d + 1 = (1 .. d) \cup {d + 1}
      BY <1>1, <1>3
    <2>. DEFINE u == x[d + 1]
                q == WithRoot(t, c, u)
    <2>3. u \in Field /\ c[t] = 0
      BY <2>1, <2>2
    <2>4. /\ q \in Polynomial(t)
          /\ \A z \in Field : Value(t, q, z) = Mul(Sub(z, u), Value(t, c, z))
      <3>. HIDE DEF u
      <3>. QED BY <2>3, ValueWithRoot
    <2>5. \A k \in (d + 1) + 2 .. t : q[k] = 0
      <3>. SUFFICES ASSUME NEW k \in (d + 1) + 2 .. t PROVE q[k] = 0
        OBVIOUS
      <3>1. /\ k \in 1 .. t /\ k # 1 /\ k \in d + 2 .. t /\ k - 1 \in d + 2 .. t
        BY <2>2
      <3>2. c[k] = 0 /\ c[k - 1] = 0 /\ q[k] = Sub(c[k - 1], Mul(u, c[k]))
        BY <2>1, <3>1 DEF WithRoot
      <3>. HIDE DEF q, u
      <3>3. Mul(u, 0) = 0 /\ Sub(0, 0) = 0
        BY <2>3, Closed, Multiplication, Subtraction
      <3>. QED BY <3>2, <3>3
    <2>. HIDE DEF q
    <2>6. \A z \in Field : Value(t, c, z) \in Field /\ Sub(z, u) \in Field
      BY <2>3, ValueType, Closed
    <2>7. \A j \in 1 .. d + 1 : Value(t, q, x[j]) = 0
      <3>. SUFFICES ASSUME NEW j \in 1 .. d + 1 PROVE Value(t, q, x[j]) = 0
        OBVIOUS
      <3>1. x[j] \in Field
        BY <2>2
      <3>2. CASE j = d + 1
        <4>1. Sub(x[j], u) = 0
          BY <2>3, <3>1, <3>2, Subtraction
        <4>. QED BY <2>4, <2>6, <3>1, <4>1, Multiplication
      <3>3. CASE j \in 1 .. d
        <4>1. Value(t, c, x[j]) = 0
          BY <2>1, <3>3
        <4>. QED BY <2>4, <2>6, <3>1, <4>1, Multiplication
      <3>. QED BY <2>2, <3>2, <3>3
    <2>8. ASSUME NEW z \in Field, \A j \in 1 .. d + 1 : x[j] # z PROVE Value(t, q, z) # 0
      <3>. DEFINE y == Value(t, c, z)
                  w == Sub(z, u)
      <3>1. y # 0 /\ w # 0 /\ y \in Field /\ w \in Field
        <4>1. \A j \in 1 .. d : x[j] # z
          BY <2>2, <2>8
        <4>2. y # 0
          BY <2>1, <4>1
        <4>3. z # u
          BY <2>2, <2>8
        <4>. QED BY <2>3, <2>6, <4>2, <4>3, Subtraction
      <3>2. Value(t, q, z) = Mul(w, y)
        BY <2>4
      <3>. HIDE DEF y, w
      <3>3. PICK zero \in Field : zero = 0
        BY Closed
      <3>4. Mul(w, zero) = 0
        BY <3>1, <3>3, Multiplication
      <3>5. Mul(w, y) # Mul(w, zero)
        BY <3>1, <3>3, CancelFactor
      <3>. QED BY <3>2, <3>4, <3>5
    <2>9. Good(q, d + 1)
      BY <2>5, <2>7, <2>8
    <2>. HIDE DEF Good
    <2>. QED BY <2>2, <2>4, <2>9
  <1>4. \A d \in 0 .. m : d \in S
    <2>. HIDE DEF S
    <2>. QED BY <1>1, <1>2, <1>3, UpTo
  <1>. QED BY <1>1, <1>4

\* Polynomials with the same coefficients are equal.
LEMMA SameCoefficients ==
  ASSUME NEW k \in Nat, NEW a \in Polynomial(k), NEW b \in Polynomial(k),
         \A i \in 1 .. k : a[i] = b[i]
  PROVE  a = b
BY DEF Polynomial

\* A polynomial of one more coefficient is one of as many, and a coefficient.
LEMMA OneMoreCoefficient ==
  ASSUME NEW k \in Nat
  PROVE  ExistsBijection(Polynomial(k) \X Field, Polynomial(k + 1))
PROOF
  <1>. DEFINE f == [p \in Polynomial(k) \X Field |->
                      [i \in 1 .. k + 1 |-> IF i = k + 1 THEN p[2] ELSE p[1][i]]]
  <1>1. 1 .. k + 1 = (1 .. k) \cup {k + 1} /\ k + 1 \notin 1 .. k /\ k + 1 \in 1 .. k + 1
    OBVIOUS
  <1>2. ASSUME NEW q \in Polynomial(k), NEW z \in Field
        PROVE  /\ f[<<q, z>>] \in Polynomial(k + 1)
               /\ f[<<q, z>>][k + 1] = z
               /\ \A i \in 1 .. k : f[<<q, z>>][i] = q[i]
    <2>1. <<q, z>> \in Polynomial(k) \X Field
      OBVIOUS
    <2>. DEFINE g == [i \in 1 .. k + 1 |-> IF i = k + 1 THEN z ELSE q[i]]
    <2>2. f[<<q, z>>] = g
      BY <2>1
    <2>. HIDE DEF f
    <2>3. \A i \in 1 .. k + 1 : (IF i = k + 1 THEN z ELSE q[i]) \in Field
      BY <1>1 DEF Polynomial
    <2>4. g \in Polynomial(k + 1)
      BY <2>3 DEF Polynomial
    <2>5. g[k + 1] = z /\ \A i \in 1 .. k : g[i] = q[i]
      BY <1>1
    <2>. QED BY <2>2, <2>4, <2>5
  <1>3. \A p \in Polynomial(k) \X Field : p = <<p[1], p[2]>> /\ p[1] \in Polynomial(k) /\ p[2] \in Field
    OBVIOUS
  <1>4. \A p \in Polynomial(k) \X Field : f[p] \in Polynomial(k + 1)
    <2>. HIDE DEF f
    <2>. QED BY <1>2, <1>3
  <1>5. f \in [Polynomial(k) \X Field -> Polynomial(k + 1)]
    BY <1>4
  <1>. HIDE DEF f
  <1>6. ASSUME NEW a \in Polynomial(k) \X Field, NEW b \in Polynomial(k) \X Field, f[a] = f[b]
        PROVE  a = b
    <2>1. /\ f[a][k + 1] = a[2] /\ \A i \in 1 .. k : f[a][i] = a[1][i]
          /\ f[b][k + 1] = b[2] /\ \A i \in 1 .. k : f[b][i] = b[1][i]
      BY <1>2, <1>3
    <2>2. a[2] = b[2] /\ \A i \in 1 .. k : a[1][i] = b[1][i]
      BY <1>6, <2>1
    <2>3. a[1] = b[1]
      BY <1>3, <2>2 DEF Polynomial
    <2>. QED BY <1>3, <2>2, <2>3
  <1>7. ASSUME NEW c \in Polynomial(k + 1) PROVE \E p \in Polynomial(k) \X Field : f[p] = c
    <2>. DEFINE q == [i \in 1 .. k |-> c[i]]
    <2>1. c \in [1 .. k + 1 -> Field] /\ c[k + 1] \in Field /\ \A i \in 1 .. k : c[i] \in Field
      BY <1>1 DEF Polynomial
    <2>2. q \in Polynomial(k) /\ \A i \in 1 .. k : q[i] = c[i]
      BY <2>1 DEF Polynomial
    <2>. HIDE DEF q
    <2>. DEFINE g == f[<<q, c[k + 1]>>]
    <2>3. g \in Polynomial(k + 1) /\ g[k + 1] = c[k + 1] /\ \A i \in 1 .. k : g[i] = c[i]
      BY <1>2, <2>1, <2>2
    <2>. HIDE DEF g
    <2>4. g = c
      <3>1. k + 1 \in Nat /\ \A i \in 1 .. k + 1 : g[i] = c[i]
        BY <1>1, <2>3
      <3>. QED BY <2>3, <3>1, SameCoefficients
    <2>5. f[<<q, c[k + 1]>>] = c
      BY <2>4 DEF g
    <2>. QED BY <2>1, <2>2, <2>5
  <1>8. f \in Bijection(Polynomial(k) \X Field, Polynomial(k + 1))
    BY <1>5, <1>6, <1>7, Zenon DEF Bijection, Injection, Surjection, IsInjective
  <1>. QED BY <1>8 DEF ExistsBijection

\* The field has P elements.
LEMMA FieldSize == IsFiniteSet(Field) /\ Cardinality(Field) = P
PROOF
  <1>1. P - 1 \in Int /\ 0 \in Int /\ ~ (0 > P - 1) /\ (P - 1) - 0 + 1 = P
    BY FieldAssumption
  <1>. QED BY <1>1, FS_Interval DEF Field

\* There are finitely many polynomials, P times as many with one more coefficient.
LEMMA PolynomialCount ==
  ASSUME NEW n \in Nat
  PROVE  /\ IsFiniteSet(Polynomial(n)) /\ Cardinality(Polynomial(n)) \in Nat
         /\ Cardinality(Polynomial(n + 1)) = Cardinality(Polynomial(n)) * P
PROOF
  <1>. DEFINE S == {k \in 0 .. n : IsFiniteSet(Polynomial(k))}
  <1>1. ASSUME NEW k \in Nat, IsFiniteSet(Polynomial(k))
        PROVE  /\ IsFiniteSet(Polynomial(k + 1))
               /\ Cardinality(Polynomial(k + 1)) = Cardinality(Polynomial(k)) * P
    <2>1. /\ IsFiniteSet(Polynomial(k) \X Field)
          /\ Cardinality(Polynomial(k) \X Field) = Cardinality(Polynomial(k)) * P
      BY <1>1, FieldSize, FS_Product
    <2>2. ExistsBijection(Polynomial(k) \X Field, Polynomial(k + 1))
      BY OneMoreCoefficient
    <2>. QED BY <2>1, <2>2, FS_Bijection
  <1>2. 0 \in S
    <2>1. 1 .. 0 = {}
      OBVIOUS
    <2>2. \A q, r \in Polynomial(0) : q = r
      BY <2>1 DEF Polynomial
    <2>3. [k \in 1 .. 0 |-> 0] \in Polynomial(0)
      BY <2>1 DEF Polynomial
    <2>4. Polynomial(0) = {[k \in 1 .. 0 |-> 0]}
      BY <2>2, <2>3
    <2>5. IsFiniteSet(Polynomial(0))
      BY <2>4, FS_Singleton
    <2>. QED BY <2>5
  <1>3. ASSUME NEW k \in 0 .. n - 1, k \in S PROVE k + 1 \in S
    BY <1>1, <1>3
  <1>4. \A k \in 0 .. n : k \in S
    <2>. HIDE DEF S
    <2>. QED BY <1>2, <1>3, UpTo
  <1>5. IsFiniteSet(Polynomial(n))
    BY <1>4
  <1>. QED BY <1>1, <1>5, FS_CardinalityType

-----------------------------------------------------------------------------
\* The polynomials with given values at the first m points.
Agreeing(t, m, x, y) == {q \in Polynomial(t) : \A j \in 1 .. m : Value(t, q, x[j]) = y[j]}

\* A polynomial that agrees at m points is one that agrees at the next as
\* well, and the multiple of one that vanishes at all but the next.
LEMMA OneMorePoint ==
  ASSUME NEW t \in Nat \ {0}, NEW m \in 0 .. t - 1,
         NEW l \in Nat, m < l, NEW x \in Points(l), NEW y \in Terms(l)
  PROVE  ExistsBijection(Agreeing(t, m + 1, x, y) \X Field, Agreeing(t, m, x, y))
PROOF
  <1>. DEFINE more == Agreeing(t, m + 1, x, y)
              fewer == Agreeing(t, m, x, y)
              n == m + 1
  <1>1. /\ m \in Nat /\ n \in 1 .. n /\ 1 .. n = (1 .. m) \cup {n}
        /\ \A j \in 1 .. m : j \in 1 .. n /\ j # n
    OBVIOUS
  <1>2. /\ \A j \in 1 .. n : x[j] \in Field /\ y[j] \in Field
        /\ \A j \in 1 .. m : x[j] # x[n]
    <2>1. \A j \in 1 .. n : j \in 1 .. l
      BY <1>1
    <2>. QED BY <1>1, <2>1 DEF Points, Terms
  <1>3. PICK v \in Polynomial(t) : /\ \A j \in 1 .. m : Value(t, v, x[j]) = 0
                                   /\ Value(t, v, x[n]) # 0
    <2>. DEFINE z == [j \in 1 .. m |-> x[j]]
    <2>1. z \in [1 .. m -> Field] /\ \A j \in 1 .. m : z[j] = x[j]
      BY <1>1, <1>2
    <2>. HIDE DEF z
    <2>2. PICK v \in Polynomial(t) :
            /\ \A j \in 1 .. m : Value(t, v, z[j]) = 0
            /\ \A w \in Field : (\A j \in 1 .. m : z[j] # w) => Value(t, v, w) # 0
      BY <2>1, Vanishing
    <2>3. x[n] \in Field /\ \A j \in 1 .. m : z[j] # x[n]
      BY <1>1, <1>2, <2>1
    <2>4. Value(t, v, x[n]) # 0
      BY <2>2, <2>3
    <2>. QED BY <2>1, <2>2, <2>4
  <1>. DEFINE w == Value(t, v, x[n])
              f == [p \in more \X Field |-> Combination(t, p[1], p[2], v)]
  <1>4. w \in Field /\ w # 0
    BY <1>1, <1>2, <1>3, ValueType
  <1>5. ASSUME NEW q \in Polynomial(t), NEW z \in Field
        PROVE  /\ Combination(t, q, z, v) \in Polynomial(t)
               /\ \A j \in 1 .. m : Value(t, Combination(t, q, z, v), x[j]) = Value(t, q, x[j])
               /\ Value(t, Combination(t, q, z, v), x[n]) = Add(Value(t, q, x[n]), Mul(z, w))
    <2>. DEFINE c == Combination(t, q, z, v)
    <2>1. /\ c \in Polynomial(t)
          /\ \A a \in Field : Value(t, c, a) = Add(Value(t, q, a), Mul(z, Value(t, v, a)))
      BY ValueLinear
    <2>. HIDE DEF c
    <2>2. ASSUME NEW j \in 1 .. m PROVE Value(t, c, x[j]) = Value(t, q, x[j])
      <3>1. x[j] \in Field /\ Value(t, q, x[j]) \in Field /\ Value(t, v, x[j]) = 0
        BY <1>1, <1>2, <1>3, ValueType
      <3>2. Value(t, c, x[j]) = Add(Value(t, q, x[j]), Mul(z, 0))
        BY <2>1, <3>1
      <3>. QED BY <3>1, <3>2, Multiplication, Addition
    <2>3. Value(t, c, x[n]) = Add(Value(t, q, x[n]), Mul(z, w))
      BY <1>1, <1>2, <2>1
    <2>. QED BY <2>1, <2>2, <2>3 DEF c
  <1>. HIDE DEF w
  <1>6. ASSUME NEW p \in more \X Field
        PROVE  /\ p = <<p[1], p[2]>> /\ p[1] \in Polynomial(t) /\ p[2] \in Field
               /\ f[p] = Combination(t, p[1], p[2], v)
               /\ f[p] \in fewer
               /\ Value(t, f[p], x[n]) = Add(y[n], Mul(p[2], w))
    <2>1. p = <<p[1], p[2]>> /\ p[1] \in more /\ p[2] \in Field
      OBVIOUS
    <2>2. p[1] \in Polynomial(t) /\ \A j \in 1 .. n : Value(t, p[1], x[j]) = y[j]
      BY <2>1 DEF Agreeing
    <2>3. f[p] = Combination(t, p[1], p[2], v)
      OBVIOUS
    <2>. HIDE DEF f
    <2>4. f[p] \in Polynomial(t) /\ \A j \in 1 .. m : Value(t, f[p], x[j]) = y[j]
      BY <1>1, <1>5, <2>1, <2>2, <2>3
    <2>5. Value(t, f[p], x[n]) = Add(y[n], Mul(p[2], w))
      BY <1>1, <1>5, <2>1, <2>2, <2>3
    <2>6. f[p] \in fewer
      BY <2>4 DEF Agreeing
    <2>. QED BY <2>1, <2>2, <2>3, <2>5, <2>6
  <1>7. f \in [more \X Field -> fewer]
    <2>1. \A p \in more \X Field : f[p] \in fewer
      BY <1>6
    <2>. HIDE DEF more, fewer
    <2>. QED BY <2>1
  <1>. HIDE DEF f
  <1>8. ASSUME NEW a \in more \X Field, NEW b \in more \X Field, f[a] = f[b]
        PROVE  a = b
    <2>1. /\ a = <<a[1], a[2]>> /\ a[1] \in Polynomial(t) /\ a[2] \in Field
          /\ b = <<b[1], b[2]>> /\ b[1] \in Polynomial(t) /\ b[2] \in Field
          /\ Combination(t, a[1], a[2], v) = Combination(t, b[1], b[2], v)
          /\ Add(y[n], Mul(a[2], w)) = Add(y[n], Mul(b[2], w))
      BY <1>6, <1>8
    <2>2. a[2] = b[2]
      <3>1. y[n] \in Field /\ Mul(a[2], w) \in Field /\ Mul(b[2], w) \in Field
        BY <1>1, <1>2, <1>4, <2>1, Closed
      <3>2. Mul(a[2], w) = Mul(b[2], w)
        BY <2>1, <3>1, Subtraction
      <3>3. Mul(w, a[2]) = Mul(w, b[2])
        BY <1>4, <2>1, <3>2, Multiplication
      <3>. QED BY <1>4, <2>1, <3>3, CancelFactor
    <2>3. ASSUME NEW k \in 1 .. t PROVE a[1][k] = b[1][k]
      <3>1. a[1][k] \in Field /\ b[1][k] \in Field /\ v[k] \in Field
        BY <2>1 DEF Polynomial
      <3>2. Add(a[1][k], Mul(a[2], v[k])) = Add(b[1][k], Mul(b[2], v[k]))
        BY <2>1 DEF Combination
      <3>. DEFINE s == Mul(a[2], v[k])
      <3>3. s \in Field /\ Add(a[1][k], s) = Add(b[1][k], s)
        BY <2>1, <2>2, <3>1, <3>2, Closed
      <3>. HIDE DEF s
      <3>4. Add(s, a[1][k]) = Add(s, b[1][k])
        BY <3>1, <3>3, Addition
      <3>. QED BY <3>1, <3>3, <3>4, Subtraction
    <2>4. a[1] = b[1]
      <3>. DEFINE q == a[1]
                  r == b[1]
      <3>1. q \in Polynomial(t) /\ r \in Polynomial(t) /\ \A k \in 1 .. t : q[k] = r[k]
        BY <2>1, <2>3
      <3>. HIDE DEF q, r
      <3>2. q = r
        BY <3>1, SameCoefficients
      <3>. QED BY <3>2 DEF q, r
    <2>. QED BY <2>1, <2>2, <2>4
  <1>9. ASSUME NEW r \in fewer PROVE \E p \in more \X Field : f[p] = r
    <2>1. r \in Polynomial(t) /\ \A j \in 1 .. m : Value(t, r, x[j]) = y[j]
      BY DEF Agreeing
    <2>. DEFINE i == Invert(w)
    <2>2. i \in Field /\ Mul(w, i) = 1
      BY <1>4, InvertInverts
    <2>. DEFINE h == Value(t, r, x[n])
                e == Sub(h, y[n])
                z == Mul(e, i)
    <2>3. h \in Field /\ y[n] \in Field /\ e \in Field
      BY <1>1, <1>2, <2>1, ValueType, Closed
    <2>. HIDE DEF i, h, e
    <2>4. z \in Field /\ Neg(z) \in Field /\ Neg(e) \in Field
      BY <2>2, <2>3, Closed
    <2>5. Mul(z, w) = e
      <3>1. Mul(Mul(e, i), w) = Mul(e, Mul(i, w)) /\ Mul(i, w) = Mul(w, i) /\ Mul(e, 1) = e
        BY <1>4, <2>2, <2>3, Multiplication
      <3>. QED BY <2>2, <3>1
    <2>. HIDE DEF z
    <2>. DEFINE q == Combination(t, r, Neg(z), v)
    <2>6. /\ q \in Polynomial(t) /\ \A j \in 1 .. m : Value(t, q, x[j]) = y[j]
          /\ Value(t, q, x[n]) = Add(h, Mul(Neg(z), w))
      <3>1. /\ q \in Polynomial(t)
            /\ \A j \in 1 .. m : Value(t, q, x[j]) = Value(t, r, x[j])
            /\ Value(t, q, x[n]) = Add(h, Mul(Neg(z), w))
        BY <1>5, <2>1, <2>4 DEF h
      <3>. HIDE DEF q
      <3>. QED BY <2>1, <3>1
    <2>7. Add(h, Mul(Neg(z), w)) = y[n]
      <3>1. Mul(Neg(z), w) = Neg(e)
        BY <1>4, <2>4, <2>5, Distribution
      <3>2. Add(h, Neg(e)) = Sub(h, e)
        BY DEF Sub
      <3>3. Add(e, y[n]) = h
        BY <2>3, Subtraction DEF e
      <3>4. Add(Neg(e), e) = 0
        BY <2>3, <2>4, Addition
      <3>5. Add(h, Neg(e)) = Add(Neg(e), Add(e, y[n]))
        BY <2>3, <2>4, <3>3, Addition
      <3>6. Add(Neg(e), Add(e, y[n])) = Add(Add(Neg(e), e), y[n])
        BY <2>3, <2>4, Addition
      <3>. QED BY <2>3, <3>1, <3>4, <3>5, <3>6, Addition
    <2>8. q \in more
      <3>. HIDE DEF q
      <3>1. \A j \in 1 .. n : Value(t, q, x[j]) = y[j]
        BY <1>1, <2>6, <2>7
      <3>. QED BY <2>6, <3>1 DEF Agreeing
    <2>9. Combination(t, q, z, v) = r
      <3>1. \A k \in 1 .. t : r[k] \in Field /\ v[k] \in Field
        BY <2>1, <1>3 DEF Polynomial
      <3>2. ASSUME NEW k \in 1 .. t PROVE Add(q[k], Mul(z, v[k])) = r[k]
        <4>. DEFINE s == Mul(z, v[k])
        <4>1. s \in Field /\ Neg(s) \in Field /\ r[k] \in Field
          BY <2>4, <3>1, Closed
        <4>2. Mul(Neg(z), v[k]) = Neg(s)
          BY <2>4, <3>1, Distribution
        <4>3. q[k] = Add(r[k], Neg(s))
          BY <4>2 DEF Combination
        <4>. HIDE DEF s, q
        <4>4. Add(Add(r[k], Neg(s)), s) = Add(r[k], Add(Neg(s), s)) /\ Add(Neg(s), s) = 0
          BY <4>1, Addition
        <4>5. Add(r[k], 0) = r[k]
          BY <4>1, Addition
        <4>. QED BY <4>3, <4>4, <4>5 DEF s
      <3>. HIDE DEF q
      <3>3. Combination(t, q, z, v) = [k \in 1 .. t |-> r[k]]
        BY <3>2 DEF Combination
      <3>. QED BY <2>1, <3>3 DEF Polynomial
    <2>. HIDE DEF q
    <2>10. <<q, z>> \in more \X Field
      BY <2>4, <2>8
    <2>11. f[<<q, z>>] = r
      <3>. DEFINE p == <<q, z>>
      <3>1. p \in more \X Field /\ p[1] = q /\ p[2] = z
        BY <2>10
      <3>. HIDE DEF p
      <3>2. f[p] = Combination(t, p[1], p[2], v)
        BY <1>6, <3>1
      <3>. QED BY <2>9, <3>1, <3>2 DEF p
    <2>. QED BY <2>10, <2>11
  <1>10. f \in Bijection(more \X Field, fewer)
    <2>. DEFINE pairs == more \X Field
    <2>1. /\ f \in [pairs -> fewer]
          /\ \A a, b \in pairs : f[a] = f[b] => a = b
          /\ \A r \in fewer : \E p \in pairs : f[p] = r
      <3>. HIDE DEF f, more, fewer
      <3>. QED BY <1>7, <1>8, <1>9
    <2>. HIDE DEF f, pairs, fewer
    <2>2. DOMAIN f = pairs
      BY <2>1
    <2>3. f \in Injection(pairs, fewer)
      BY <2>1, <2>2 DEF Injection, IsInjective
    <2>4. f \in Surjection(pairs, fewer)
      BY <2>1 DEF Surjection
    <2>5. f \in Bijection(pairs, fewer)
      BY <2>3, <2>4 DEF Bijection
    <2>. QED BY <2>5 DEF pairs
  <1>. QED BY <1>10 DEF ExistsBijection

\* Numbers with the same multiple by P are equal.
LEMMA SameQuotient ==
  ASSUME NEW a \in Nat, NEW b \in Nat, a * P = b * P
  PROVE  a = b
PROOF
  <1>1. P \in Nat /\ P > 1
    BY FieldAssumption
  <1>2. ASSUME NEW c \in Nat, NEW d \in Nat, c < d PROVE c * P # d * P
    <2>1. PICK k \in Nat : k >= 1 /\ d = c + k
      <3>1. d - c \in Nat /\ d - c >= 1 /\ d = c + (d - c)
        BY <1>2
      <3>. QED BY <3>1
    <2>2. d * P = c * P + k * P
      BY <1>1, <2>1
    <2>3. k * P > 0
      BY <1>1, <2>1
    <2>4. c * P \in Int /\ k * P \in Int
      BY <1>1
    <2>. QED BY <2>2, <2>3, <2>4
  <1>. QED BY <1>2

\* Every value at a new point is taken equally often: agreeing at m points
\* leaves as many polynomials as there are choices of the other coefficients.
LEMMA AgreeingCount ==
  ASSUME NEW t \in Nat \ {0}, NEW m \in 0 .. t, NEW x \in Points(m), NEW y \in Terms(m)
  PROVE  /\ IsFiniteSet(Agreeing(t, m, x, y))
         /\ Cardinality(Agreeing(t, m, x, y)) = Cardinality(Polynomial(t - m))
PROOF
  <1>. DEFINE S == {d \in 0 .. m : Cardinality(Agreeing(t, d, x, y)) = Cardinality(Polynomial(t - d))}
  <1>1. m \in Nat /\ m \in 0 .. m /\ 0 \in 0 .. m
    OBVIOUS
  <1>2. ASSUME NEW d \in 0 .. m
        PROVE  /\ IsFiniteSet(Agreeing(t, d, x, y))
               /\ Cardinality(Agreeing(t, d, x, y)) \in Nat
    <2>1. Agreeing(t, d, x, y) \in SUBSET Polynomial(t)
      BY DEF Agreeing
    <2>. QED BY <2>1, PolynomialCount, FS_Subset, FS_CardinalityType
  <1>3. 0 \in S
    <2>1. Agreeing(t, 0, x, y) = Polynomial(t) /\ t - 0 = t
      BY DEF Agreeing
    <2>. QED BY <1>1, <2>1
  <1>4. ASSUME NEW d \in 0 .. m - 1, d \in S PROVE d + 1 \in S
    <2>1. d \in 0 .. m /\ d + 1 \in 0 .. m /\ d \in 0 .. t - 1 /\ d < m /\ t - (d + 1) \in Nat
          /\ (t - (d + 1)) + 1 = t - d
      BY <1>1, <1>4
    <2>. DEFINE more == Agreeing(t, d + 1, x, y)
                fewer == Agreeing(t, d, x, y)
                k == t - (d + 1)
    <2>2. ExistsBijection(more \X Field, fewer)
      BY <1>1, <2>1, OneMorePoint
    <2>3. IsFiniteSet(more) /\ Cardinality(more) \in Nat
      BY <1>2, <2>1
    <2>4. Cardinality(fewer) = Cardinality(Polynomial(t - d))
      BY <1>4
    <2>5. Cardinality(Polynomial(k)) \in Nat /\ Cardinality(Polynomial(t - d)) = Cardinality(Polynomial(k)) * P
      BY <2>1, PolynomialCount
    <2>. HIDE DEF more, fewer, k
    <2>6. Cardinality(fewer) = Cardinality(more) * P
      BY <2>2, <2>3, FieldSize, FS_Product, FS_Bijection
    <2>7. Cardinality(more) * P = Cardinality(Polynomial(k)) * P
      BY <2>4, <2>5, <2>6
    <2>8. Cardinality(more) = Cardinality(Polynomial(k))
      BY <2>3, <2>5, <2>7, SameQuotient
    <2>. QED BY <2>1, <2>8 DEF more, k
  <1>5. \A d \in 0 .. m : d \in S
    <2>. HIDE DEF S
    <2>. QED BY <1>1, <1>3, <1>4, UpTo
  <1>. QED BY <1>1, <1>2, <1>5

\* The polynomials of t coefficients with secret s and the given shares.
Fitting(t, n, list, share, s) ==
  {poly \in Polynomial(t) : /\ Secret(poly) = s
                            /\ \A j \in 1 .. n : Share(poly, list[j]) = share[j]}

\* Fewer shares than coefficients say nothing of the secret: whatever they are,
\* every secret is that of as many polynomials with these shares.
THEOREM FewSharesHide ==
  ASSUME NEW t \in Nat \ {0}, NEW n \in Nat, n < t, NEW list \in Groups(n),
         NEW share \in Terms(n), NEW s \in Field
  PROVE  Cardinality(Fitting(t, n, list, share, s)) = Cardinality(Polynomial(t - 1 - n))
PROOF
  <1>. DEFINE m == n + 1
              x == [j \in 1 .. m |-> IF j = m THEN 0 ELSE list[j]]
              y == [j \in 1 .. m |-> IF j = m THEN s ELSE share[j]]
  <1>1. /\ list \in [1 .. n -> 1 .. P - 1] /\ list \in [1 .. n -> Field]
        /\ \A i, j \in 1 .. n : i # j => list[i] # list[j]
        /\ \A j \in 1 .. n : share[j] \in Field
    BY GroupPoints DEF Points, Terms
  <1>2. /\ m \in 0 .. t /\ t - m = t - 1 - n
        /\ 1 .. m = (1 .. n) \cup {m} /\ m \in 1 .. m /\ m \notin 1 .. n
    OBVIOUS
  <1>3. /\ x[m] = 0 /\ \A j \in 1 .. n : x[j] = list[j]
        /\ y[m] = s /\ \A j \in 1 .. n : y[j] = share[j]
    BY <1>2
  <1>4. x \in Points(m)
    <2>1. x = [j \in 1 .. m |-> x[j]]
      OBVIOUS
    <2>. HIDE DEF x
    <2>2. \A j \in 1 .. m : x[j] \in Field
      BY <1>1, <1>2, <1>3, Closed
    <2>3. \A i, j \in 1 .. m : i # j => x[i] # x[j]
      <3>1. \A j \in 1 .. n : list[j] # 0
        BY <1>1
      <3>. QED BY <1>1, <1>2, <1>3, <3>1
    <2>. QED BY <2>1, <2>2, <2>3 DEF Points, Terms
  <1>5. y \in Terms(m)
    <2>1. y = [j \in 1 .. m |-> y[j]]
      OBVIOUS
    <2>. HIDE DEF y
    <2>. QED BY <1>1, <1>2, <1>3, <2>1 DEF Terms
  <1>. HIDE DEF x, y
  <1>6. Fitting(t, n, list, share, s) = Agreeing(t, m, x, y)
    <2>1. ASSUME NEW poly \in Polynomial(t)
          PROVE  (\A j \in 1 .. m : Value(t, poly, x[j]) = y[j])
                   <=> /\ Secret(poly) = s
                       /\ \A j \in 1 .. n : Share(poly, list[j]) = share[j]
      <3>1. Value(t, poly, x[m]) = Secret(poly)
        BY <1>3, ValueType
      <3>2. \A j \in 1 .. n : Value(t, poly, x[j]) = Share(poly, list[j])
        BY <1>1, <1>3, ValueType
      <3>. QED BY <1>2, <1>3, <3>1, <3>2
    <2>. QED BY <2>1 DEF Agreeing, Fitting
  <1>7. Cardinality(Agreeing(t, m, x, y)) = Cardinality(Polynomial(t - m))
    <2>. HIDE DEF m
    <2>. QED BY <1>2, <1>4, <1>5, AgreeingCount
  <1>. HIDE DEF m
  <1>. QED BY <1>2, <1>6, <1>7
-----------------------------------------------------------------------------
(***************************************************************************)
(* As many shares as coefficients, whichever polynomials they come from.   *)
(***************************************************************************)

\* There is one polynomial without coefficients.
LEMMA NoCoefficients == Cardinality(Polynomial(0)) = 1
PROOF
  <1>. DEFINE e == [k \in 1 .. 0 |-> 0]
  <1>1. Polynomial(0) = {e}
    <2>1. e \in Polynomial(0)
      BY DEF Polynomial
    <2>. HIDE DEF e
    <2>2. ASSUME NEW a \in Polynomial(0) PROVE a = e
      BY <2>1, SameCoefficients
    <2>. QED BY <2>1, <2>2
  <1>. HIDE DEF e
  <1>. QED BY <1>1, FS_Singleton

\* One polynomial of t coefficients has the given values at t different points.
LEMMA OnlyOneAgrees ==
  ASSUME NEW t \in Nat \ {0}, NEW x \in Points(t), NEW y \in Terms(t)
  PROVE  \E q \in Polynomial(t) : Agreeing(t, t, x, y) = {q}
PROOF
  <1>1. t \in 0 .. t /\ t - t = 0
    OBVIOUS
  <1>2. IsFiniteSet(Agreeing(t, t, x, y)) /\ Cardinality(Agreeing(t, t, x, y)) = 1
    BY <1>1, AgreeingCount, NoCoefficients
  <1>3. PICK q : Agreeing(t, t, x, y) = {q}
    BY <1>2, FS_Singleton
  <1>4. q \in Polynomial(t)
    BY <1>3 DEF Agreeing
  <1>. QED BY <1>3, <1>4

\* Polynomials of t coefficients that have the same values at t points are equal.
LEMMA SameValues ==
  ASSUME NEW t \in Nat \ {0}, NEW x \in Points(t),
         NEW a \in Polynomial(t), NEW b \in Polynomial(t),
         \A j \in 1 .. t : Value(t, a, x[j]) = Value(t, b, x[j])
  PROVE  a = b
PROOF
  <1>. DEFINE y == [j \in 1 .. t |-> Value(t, a, x[j])]
  <1>1. \A j \in 1 .. t : x[j] \in Field
    BY DEF Points, Terms
  <1>2. y \in Terms(t)
    BY <1>1, ValueType DEF Terms
  <1>3. a \in Agreeing(t, t, x, y) /\ b \in Agreeing(t, t, x, y)
    BY DEF Agreeing
  <1>. HIDE DEF y
  <1>4. PICK q \in Polynomial(t) : Agreeing(t, t, x, y) = {q}
    BY <1>2, OnlyOneAgrees
  <1>. QED BY <1>3, <1>4

\* t different agents whose shares of two polynomials are the same hold shares
\* of one polynomial.
LEMMA SameShares ==
  ASSUME NEW t \in Nat \ {0}, NEW list \in Groups(t),
         NEW a \in Polynomial(t), NEW b \in Polynomial(t),
         \A j \in 1 .. t : Share(a, list[j]) = Share(b, list[j])
  PROVE  a = b
PROOF
  <1>1. list \in Points(t) /\ \A j \in 1 .. t : list[j] \in 1 .. P - 1
    BY GroupPoints
  <1>2. \A j \in 1 .. t : Value(t, a, list[j]) = Value(t, b, list[j])
    BY <1>1, ValueType
  <1>. QED BY <1>1, <1>2, SameValues

\* Any t field elements are the shares of t agents of one polynomial of t
\* coefficients, and the agents' products of a point with them combine to the
\* point times the secret of that polynomial.
THEOREM AnySharesCombine ==
  ASSUME NEW t \in Nat \ {0}, NEW list \in Groups(t), NEW share \in Terms(t)
  PROVE  \E q \in Polynomial(t) :
           /\ \A j \in 1 .. t : Share(q, list[j]) = share[j]
           /\ \A point \in Field :
                Combine([j \in 1 .. t |-> [agent |-> list[j], point |-> Mul(point, share[j])]])
                  = Mul(point, Secret(q))
PROOF
  <1>1. list \in Points(t) /\ \A j \in 1 .. t : list[j] \in 1 .. P - 1
    BY GroupPoints
  <1>2. PICK q \in Polynomial(t) : Agreeing(t, t, list, share) = {q}
    BY <1>1, OnlyOneAgrees
  <1>3. \A j \in 1 .. t : Value(t, q, list[j]) = share[j]
    BY <1>2 DEF Agreeing
  <1>4. \A j \in 1 .. t : Share(q, list[j]) = share[j]
    BY <1>1, <1>3, ValueType
  <1>5. ASSUME NEW point \in Field
        PROVE  Combine([j \in 1 .. t |-> [agent |-> list[j], point |-> Mul(point, share[j])]])
                 = Mul(point, Secret(q))
    <2>1. Combine([j \in 1 .. t |-> [agent |-> list[j], point |-> Mul(point, Share(q, list[j]))]])
            = Mul(point, Secret(q))
      BY ThresholdRecovers
    <2>2. [j \in 1 .. t |-> [agent |-> list[j], point |-> Mul(point, Share(q, list[j]))]]
            = [j \in 1 .. t |-> [agent |-> list[j], point |-> Mul(point, share[j])]]
      BY <1>4
    <2>. QED BY <2>1, <2>2
  <1>. QED BY <1>4, <1>5

\* A polynomial is determined by its secret and all but one of t shares: two of
\* them with the same secret that differ in at most one of the shares are equal.
LEMMA OneShareMatters ==
  ASSUME NEW t \in Nat \ {0}, NEW list \in Groups(t), NEW k \in 1 .. t,
         NEW a \in Polynomial(t), NEW b \in Polynomial(t), Secret(a) = Secret(b),
         \A j \in 1 .. t : j # k => Share(a, list[j]) = Share(b, list[j])
  PROVE  a = b
PROOF
  <1>. DEFINE x == [j \in 1 .. t |-> IF j = k THEN 0 ELSE list[j]]
  <1>1. /\ list \in [1 .. t -> 1 .. P - 1] /\ list \in [1 .. t -> Field]
        /\ \A i, j \in 1 .. t : i # j => list[i] # list[j]
    BY GroupPoints DEF Points, Terms
  <1>2. x[k] = 0 /\ \A j \in 1 .. t : j # k => x[j] = list[j]
    OBVIOUS
  <1>3. x \in Points(t)
    <2>1. x = [j \in 1 .. t |-> x[j]]
      OBVIOUS
    <2>. HIDE DEF x
    <2>2. \A j \in 1 .. t : x[j] \in Field
      BY <1>1, <1>2, Closed
    <2>3. ASSUME NEW i \in 1 .. t, NEW j \in 1 .. t, i # j PROVE x[i] # x[j]
      <3>1. list[i] # 0 /\ list[j] # 0
        BY <1>1
      <3>. QED BY <1>1, <1>2, <2>3, <3>1
    <2>. QED BY <2>1, <2>2, <2>3 DEF Points, Terms
  <1>. HIDE DEF x
  <1>4. ASSUME NEW j \in 1 .. t PROVE Value(t, a, x[j]) = Value(t, b, x[j])
    <2>1. CASE j = k
      BY <1>2, <2>1, ValueType
    <2>2. CASE j # k
      <3>1. x[j] \in 1 .. P - 1 /\ x[j] = list[j]
        BY <1>1, <1>2, <2>2
      <3>. QED BY <2>2, <3>1, ValueType
    <2>. QED BY <2>1, <2>2
  <1>. QED BY <1>3, <1>4, SameValues
=============================================================================
