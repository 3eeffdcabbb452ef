------------------------- MODULE KeyCeremonyProofs --------------------------
(***************************************************************************)
(* What holds of the key ceremony for every field, every pair of arguments *)
(* and every group of agents that combines its shares.                     *)
(***************************************************************************)
EXTENDS KeyCeremony, SecretSharingProofs

\* Once there are shares, the arguments passed the assertions of generate and
\* share i is the polynomial at i; a group that combined its shares is a list
\* of different agents of the ceremony.
IInv ==
  /\ phase \in {"args", "panicked", "generated", "combined"}
  /\ phase \in {"args", "panicked"} => coefficients = <<>> /\ shares = <<>>
  /\ phase \in {"generated", "combined"} =>
       /\ ValidArguments
       /\ coefficients \in Polynomial(threshold)
       /\ shares = [i \in 1 .. agents |-> Share(coefficients, i)]
  /\ phase # "combined" => group = <<>> /\ recovered = NoSecret
  /\ phase = "combined" =>
       \E n \in 1 .. agents :
         /\ group \in Injection(1 .. n, 1 .. agents)
         /\ recovered = Combine([j \in 1 .. n |->
                          [agent |-> group[j], point |-> shares[group[j]]]])

\* The arguments never change, and are those the runs of TLC enumerate.
Arguments == threshold \in 0 .. MaxAgents /\ agents \in 0 .. MaxAgents

\* Agents are numbered by nonzero field elements.
LEMMA AgentNumbers ==
  ASSUME Arguments
  PROVE  /\ threshold \in Nat /\ agents \in Nat
         /\ 1 .. agents \subseteq 1 .. P - 1
BY MaxAgentsAssumption, FieldAssumption DEF Arguments

\* A list of different agents of the ceremony is a group.
LEMMA CeremonyGroup ==
  ASSUME Arguments, NEW n \in 1 .. agents,
         NEW list \in Injection(1 .. n, 1 .. agents)
  PROVE  n \in Nat \ {0} /\ list \in Groups(n) /\ list \in [1 .. n -> 1 .. agents]
<1>1. list \in [1 .. n -> 1 .. agents] /\ IsInjective(list)
  BY DEF Injection
<1>2. list \in [1 .. n -> 1 .. P - 1]
  BY <1>1, AgentNumbers
<1>3. n \in Nat \ {0}
  BY AgentNumbers
<1> QED BY <1>1, <1>2, <1>3 DEF Groups, Injection

\* The shares of a ceremony are field elements.
LEMMA SharesType ==
  ASSUME Arguments, ValidArguments, NEW poly \in Polynomial(threshold)
  PROVE  \A i \in 1 .. agents : Share(poly, i) \in Field
<1>1. threshold \in Nat \ {0}
  BY AgentNumbers DEF ValidArguments
<1> QED BY <1>1, AgentNumbers, ShareIsEvaluation

\* The combination of shares of different agents is a field element.
LEMMA CombinationType ==
  ASSUME Arguments, NEW n \in 1 .. agents,
         NEW list \in Injection(1 .. n, 1 .. agents),
         shares \in [1 .. agents -> Field]
  PROVE  Combine([j \in 1 .. n |-> [agent |-> list[j], point |-> shares[list[j]]]]) \in Field
<1> DEFINE v == [j \in 1 .. n |-> shares[list[j]]]
<1>1. n \in Nat /\ list \in Groups(n) /\ list \in [1 .. n -> 1 .. agents]
  BY CeremonyGroup
<1>2. v \in Terms(n) /\ \A j \in 1 .. n : v[j] = shares[list[j]]
  BY <1>1 DEF Terms
<1>3. [j \in 1 .. n |-> [agent |-> list[j], point |-> shares[list[j]]]]
        = [j \in 1 .. n |-> [agent |-> list[j], point |-> v[j]]]
  BY <1>2
<1> HIDE DEF v
<1>4. Combine([j \in 1 .. n |-> [agent |-> list[j], point |-> v[j]]]) \in Field
  BY <1>1, <1>2, CombineIsWeighted
<1> QED BY <1>3, <1>4
-----------------------------------------------------------------------------
\* The invariant holds at the start.
LEMMA InitInvariant == Init => Arguments /\ IInv
BY DEF Init, Arguments, IInv

\* Every step keeps it.
LEMMA NextInvariant == Arguments /\ IInv /\ [Next]_vars => Arguments' /\ IInv'
<1> SUFFICES ASSUME Arguments, IInv, [Next]_vars PROVE Arguments' /\ IInv'
  OBVIOUS
<1>1. CASE GeneratePanics
  BY <1>1 DEF GeneratePanics, Arguments, IInv
<1>2. CASE Generate
  <2>1. PICK poly \in Polynomial(threshold) :
          /\ coefficients' = poly
          /\ shares' = [i \in 1 .. agents |-> Share(poly, i)]
    BY <1>2 DEF Generate
  <2> QED BY <1>2, <2>1 DEF Generate, Arguments, IInv, ValidArguments
<1>3. CASE Reconstruct
  <2>1. PICK n \in 1 .. agents : \E list \in Injection(1 .. n, 1 .. agents) :
          /\ group' = list
          /\ recovered' = Combine([j \in 1 .. n |->
                            [agent |-> list[j], point |-> shares[list[j]]]])
    BY <1>3 DEF Reconstruct
  <2>2. /\ group' \in Injection(1 .. n, 1 .. agents)
        /\ recovered' = Combine([j \in 1 .. n |->
                          [agent |-> group'[j], point |-> shares[group'[j]]]])
    BY <2>1
  <2> QED BY <1>3, <2>2 DEF Reconstruct, Arguments, IInv, ValidArguments
<1>4. CASE UNCHANGED vars
  BY <1>4 DEF vars, Arguments, IInv, ValidArguments
<1> QED BY <1>1, <1>2, <1>3, <1>4 DEF Next

\* The inductive invariant of the ceremony.
LEMMA Invariant == Spec => [](Arguments /\ IInv)
BY InitInvariant, NextInvariant, PTL DEF Spec
-----------------------------------------------------------------------------
\* generate hands out one field element for each agent it is asked for, and a
\* combination of shares is a field element.
THEOREM TypeCorrect == Spec => []TypeOK
<1>1. ASSUME Arguments, IInv PROVE TypeOK
  <2>1. phase \in {"args", "panicked", "generated", "combined"}
    BY <1>1 DEF IInv
  <2>2. phase \in {"generated", "combined"} =>
          coefficients \in Polynomial(threshold) /\ shares \in [1 .. agents -> Field]
    BY <1>1, SharesType DEF IInv
  <2>3. recovered \in Field \cup {NoSecret}
    <3>1. CASE phase # "combined"
      BY <1>1, <3>1 DEF IInv
    <3>2. CASE phase = "combined"
      <4>1. PICK n \in 1 .. agents :
              /\ group \in Injection(1 .. n, 1 .. agents)
              /\ recovered = Combine([j \in 1 .. n |->
                               [agent |-> group[j], point |-> shares[group[j]]]])
        BY <1>1, <3>2 DEF IInv
      <4> QED BY <1>1, <2>2, <3>2, <4>1, CombinationType
    <3> QED BY <3>1, <3>2
  <2> QED BY <1>1, <2>1, <2>2, <2>3 DEF Arguments, TypeOK
<1> QED BY <1>1, Invariant, PTL

\* Any group of at least threshold different agents, in any order and of any
\* size, recovers the secret generate drew, whatever the polynomial and the
\* prime of the field.
THEOREM GroupRecovers == Spec => []AnyThresholdGroupRecovers
<1>1. ASSUME Arguments, IInv PROVE AnyThresholdGroupRecovers
  <2> SUFFICES ASSUME phase = "combined", Len(group) >= threshold
               PROVE  recovered = Secret(coefficients)
    BY DEF AnyThresholdGroupRecovers
  <2>1. /\ ValidArguments /\ coefficients \in Polynomial(threshold)
        /\ shares = [i \in 1 .. agents |-> Share(coefficients, i)]
    BY <1>1 DEF IInv
  <2>2. PICK n \in 1 .. agents :
          /\ group \in Injection(1 .. n, 1 .. agents)
          /\ recovered = Combine([j \in 1 .. n |->
                           [agent |-> group[j], point |-> shares[group[j]]]])
    BY <1>1 DEF IInv
  <2>3. /\ n \in Nat \ {0} /\ group \in Groups(n) /\ group \in [1 .. n -> 1 .. agents]
        /\ threshold \in Nat \ {0}
    BY <1>1, <2>1, <2>2, CeremonyGroup, AgentNumbers DEF ValidArguments
  <2>4. Len(group) = n /\ threshold <= n
    BY <2>3
  <2>5. PICK one \in Field : one = 1 /\ \A s \in Field : Mul(one, s) = s
    BY Multiplication, FieldAssumption DEF Field
  <2>6. \A j \in 1 .. n : shares[group[j]] = Mul(one, Share(coefficients, group[j]))
    BY <1>1, <2>1, <2>3, <2>5, SharesType
  <2>7. recovered = Combine([j \in 1 .. n |->
           [agent |-> group[j], point |-> Mul(one, Share(coefficients, group[j]))]])
    BY <2>2, <2>6
  <2>8. recovered = Mul(one, Secret(coefficients))
    BY <2>1, <2>3, <2>4, <2>7, ThresholdRecovers
  <2>9. Secret(coefficients) \in Field
    BY <2>1, <2>3, SecretIsFirst
  <2> QED BY <2>5, <2>8, <2>9
<1> QED BY <1>1, Invariant, PTL

-----------------------------------------------------------------------------

\* The shares of fewer than threshold agents are compatible with every secret,
\* and with as many polynomials for each, so that no secret becomes more
\* likely than another.
THEOREM SmallGroupHides == Spec => []SmallGroupLearnsNothing
<1>1. ASSUME Arguments, IInv PROVE SmallGroupLearnsNothing
  <2>. DEFINE Compatible(s) ==
                {poly \in Polynomial(threshold) :
                   /\ Secret(poly) = s
                   /\ \A j \in DOMAIN group : Share(poly, group[j]) = shares[group[j]]}
  <2>. SUFFICES ASSUME phase = "combined", Len(group) < threshold, NEW s \in Field
                PROVE  Cardinality(Compatible(s))
                         = Cardinality(Polynomial(threshold - 1 - Len(group)))
    BY DEF SmallGroupLearnsNothing
  <2>1. /\ ValidArguments /\ coefficients \in Polynomial(threshold)
        /\ shares = [i \in 1 .. agents |-> Share(coefficients, i)]
    BY <1>1 DEF IInv
  <2>2. PICK n \in 1 .. agents : group \in Injection(1 .. n, 1 .. agents)
    BY <1>1 DEF IInv
  <2>3. /\ n \in Nat /\ group \in Groups(n) /\ group \in [1 .. n -> 1 .. agents]
        /\ threshold \in Nat \ {0}
    BY <1>1, <2>1, <2>2, CeremonyGroup, AgentNumbers DEF ValidArguments
  <2>4. Len(group) = n /\ DOMAIN group = 1 .. n /\ n < threshold
    BY <2>3
  <2>. DEFINE share == [j \in 1 .. n |-> shares[group[j]]]
  <2>5. share \in Terms(n) /\ \A j \in 1 .. n : share[j] = shares[group[j]]
    BY <1>1, <2>1, <2>3, SharesType DEF Terms
  <2>. HIDE DEF share
  <2>6. Compatible(s) = Fitting(threshold, n, group, share, s)
    BY <2>4, <2>5 DEF Fitting
  <2>. HIDE DEF Compatible
  <2>7. Cardinality(Fitting(threshold, n, group, share, s))
          = Cardinality(Polynomial(threshold - 1 - n))
    BY <2>3, <2>4, <2>5, FewSharesHide
  <2>. QED BY <2>4, <2>6, <2>7
<1> QED BY <1>1, Invariant, PTL
=============================================================================
