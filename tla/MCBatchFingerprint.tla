------------------------- MODULE MCBatchFingerprint -------------------------
(***************************************************************************)
(* TLC instances of BatchFingerprint: batches longer than the window and   *)
(* the channel together, of items that differ in how they end.             *)
(***************************************************************************)
EXTENDS BatchFingerprint

Good(second) ==
  [bic |-> <<"A", "A", "A", "A", "A", "A", "1", "1">>,
   amount |-> [kind |-> "parts", currency |-> "EUR", units |-> 1, atto |-> 0],
   date_time |-> [seconds |-> second, nanos |-> 0]]

\* A code that is refused only after the protocol, a date before the epoch,
\* a date whose squeeze panics, and no transaction at all.
BadCode  == [Good(5) EXCEPT !.bic = <<"A">>]
Early    == Good(1)
EpochDay == Good(2)

MCGood  == {<<Good(4), Good(5), Good(6), Good(7), Good(4), Good(5)>>}
MCMixed == {<<Good(4), Good(5), Good(6), Good(7), Good(8)>>,
            <<Good(4), Early, Good(5), Good(6), Good(7)>>,
            <<Good(4), Good(5), BadCode, Good(6), Missing>>,
            <<Good(4), Good(5), EpochDay, Good(6)>>,
            <<>>}
MCBatches == MCGood \cup MCMixed

MCInputs == {SqueezeDateTime(Good(s)).value : s \in 4 .. 8}
MCHashToCurve == [x \in MCInputs |-> x[2]]
=============================================================================
