----------------------- MODULE MCCollaborativeProtocol ----------------------
(***************************************************************************)
(* TLC instances of CollaborativeProtocol: the functions and polynomials   *)
(* the configurations choose from.                                         *)
(***************************************************************************)
EXTENDS CollaborativeProtocol

\* Two inputs with different nonzero points.
MCHashToCurve == [x |-> 1, y |-> 2]
MCInputs == {"x", "y"}
MCOneInput == {"x"}
MCOneHash == [x |-> 2]

AllBlinds == Field

AllPolynomials == Polynomial(Threshold)
\* Two polynomials of degree one with different secrets.  They give agent 3 the
\* same share and the agents 1 and 2 different ones.
TwoLines == {<<1, 2>>, <<3, 3>>}
OneLine == {<<1, 2>>}
OneParabola == {<<1, 2, 1>>}

\* Every initiator lists every other agent.
AllOthers == [a \in Initiators |-> Agents \ {a}]
\* Initiator 1 lists everybody, the others leave out agent 1.
SomeMissing == [a \in Initiators |-> IF a = 1 THEN Agents ELSE Agents \ {1}]

\* The calls of the two processes, or one of the second.
OneEach == [c \in Calls |-> IF c = "c1" THEN 1 ELSE 2]
AllOnSecond == [c \in Calls |-> 2]
=============================================================================
