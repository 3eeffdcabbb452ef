---------------------------- MODULE KeyCeremony -----------------------------
(***************************************************************************)
(* The command line tool: it draws a random secret, splits it with         *)
(* SecretSharing::generate and prints the shares, which operators then     *)
(* hand to the agents.  Any group of agents may later combine its shares   *)
(* the way a fingerprint computation does.                                 *)
(***************************************************************************)
EXTENDS SecretSharing

CONSTANTS
  MaxAgents,    \* bound on the --agents and --threshold arguments
  NoSecret      \* the value of recovered before a group combined its shares

ASSUME MaxAgentsAssumption == MaxAgents \in Nat /\ MaxAgents < P

VARIABLES
  phase,        \* "args" | "panicked" | "generated" | "combined"
  threshold,    \* --threshold
  agents,       \* --agents
  coefficients, \* the polynomial drawn by generate; <<>> before
  shares,       \* the HashMap of shares; empty before
  group,        \* the agents that combine their shares, in the order used
  recovered     \* what they obtain

vars == <<phase, threshold, agents, coefficients, shares, group, recovered>>

Init ==
  /\ phase = "args"
  /\ threshold \in 0 .. MaxAgents
  /\ agents \in 0 .. MaxAgents
  /\ coefficients = <<>>
  /\ shares = <<>>
  /\ group = <<>>
  /\ recovered = NoSecret

\* The two assertions at the head of generate.
ValidArguments == threshold <= agents /\ threshold > 0

\* An assertion fails.
GeneratePanics ==
  /\ phase = "args"
  /\ ~ ValidArguments
  /\ phase' = "panicked"
  /\ UNCHANGED <<threshold, agents, coefficients, shares, group, recovered>>

\* A bug this model must notice: the shares of the agents 0 to count - 1.
GenerateFromZero ==
  /\ phase = "args"
  /\ ValidArguments
  /\ \E poly \in Polynomial(threshold) :
       /\ coefficients' = poly
       /\ shares' = [i \in 0 .. agents - 1 |-> Share(poly, i)]
  /\ phase' = "generated"
  /\ UNCHANGED <<threshold, agents, group, recovered>>

\* Draw the secret and the other coefficients, and evaluate.
Generate ==
  /\ phase = "args"
  /\ ValidArguments
  /\ \E poly \in Polynomial(threshold) :
       /\ coefficients' = poly
       /\ shares' = [i \in 1 .. agents |-> Share(poly, i)]
  /\ phase' = "generated"
  /\ UNCHANGED <<threshold, agents, group, recovered>>

\* A list of distinct agents combines its shares.  With the generator as the
\* blinded value the points are the shares themselves.
Reconstruct ==
  /\ phase = "generated"
  /\ \E n \in 1 .. agents : \E list \in Injection(1 .. n, 1 .. agents) :
       /\ group' = list
       /\ recovered' =
            Combine([j \in 1 .. n |-> [agent |-> list[j], point |-> shares[list[j]]]])
  /\ phase' = "combined"
  /\ UNCHANGED <<threshold, agents, coefficients, shares>>

Next == GeneratePanics \/ Generate \/ Reconstruct

Spec == Init /\ [][Next]_vars
-----------------------------------------------------------------------------
\* Typing.  A tool that did not panic holds one share for each agent.
TypeOK ==
  /\ phase \in {"args", "panicked", "generated", "combined"}
  /\ threshold \in 0 .. MaxAgents
  /\ agents \in 0 .. MaxAgents
  /\ phase \in {"generated", "combined"} =>
       /\ coefficients \in Polynomial(threshold)
       /\ shares \in [1 .. agents -> Field]
  /\ recovered \in Field \cup {NoSecret}

\* Any group of at least threshold distinct agents, in any order, recovers
\* the secret: the sum over lagrange_coefficient undoes generate.
AnyThresholdGroupRecovers ==
  phase = "combined" /\ Len(group) >= threshold
    => recovered = Secret(coefficients)

\* The shares of a group smaller than the threshold are compatible with
\* every secret, and with the same number of polynomials for each, as many as
\* there are choices of the coefficients the group leaves open: the code draws
\* threshold - 1 coefficients and evaluates at nonzero points.
SmallGroupLearnsNothing ==
  phase = "combined" /\ Len(group) < threshold =>
    LET Compatible(s) ==
          {poly \in Polynomial(threshold) :
             /\ Secret(poly) = s
             /\ \A j \in DOMAIN group : Share(poly, group[j]) = shares[group[j]]}
    IN  \A s \in Field :
          Cardinality(Compatible(s)) = Cardinality(Polynomial(threshold - 1 - Len(group)))

=============================================================================
