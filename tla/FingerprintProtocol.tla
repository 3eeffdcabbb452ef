------------------------- MODULE FingerprintProtocol ------------------------
(***************************************************************************)
(* What the trait FingerprintProtocol promises to its callers.  A call of  *)
(* process either returns what NaiveProtocol, which holds the whole        *)
(* secret, returns for the same input, or it fails: with an Err, by a      *)
(* panic of the task that runs it, or with the process it runs in.         *)
(***************************************************************************)
EXTENDS CurveHash

CONSTANTS Calls, NoResult

VARIABLES
  secret,  \* the secret k, never known to an agent of the cooperative mode
  input,   \* the argument of each call
  phase,   \* "idle" | "running" | "ok" | "error" | "panicked" | "lost"
  result   \* what a call that is "ok" returned

vars == <<secret, input, phase, result>>

Init ==
  /\ secret \in Field
  /\ input \in [Calls -> Inputs]
  /\ phase = [c \in Calls |-> "idle"]
  /\ result = [c \in Calls |-> NoResult]

Begin(c) ==
  /\ phase[c] = "idle"
  /\ phase' = [phase EXCEPT ![c] = "running"]
  /\ UNCHANGED <<secret, input, result>>

Return(c) ==
  /\ phase[c] = "running"
  /\ phase' = [phase EXCEPT ![c] = "ok"]
  /\ result' = [result EXCEPT ![c] = NaiveProcess(input[c], secret)]
  /\ UNCHANGED <<secret, input>>

Fail(c) ==
  /\ phase[c] = "running"
  /\ phase' \in {[phase EXCEPT ![c] = "error"], [phase EXCEPT ![c] = "panicked"]}
  /\ UNCHANGED <<secret, input, result>>

\* A process ends and takes some of the running calls with it.
Crash ==
  \E lost \in SUBSET {c \in Calls : phase[c] = "running"} :
    /\ phase' = [c \in Calls |-> IF c \in lost THEN "lost" ELSE phase[c]]
    /\ UNCHANGED <<secret, input, result>>

Next ==
  \/ \E c \in Calls : Begin(c) \/ Return(c) \/ Fail(c)
  \/ Crash

Spec == Init /\ [][Next]_vars

=============================================================================
