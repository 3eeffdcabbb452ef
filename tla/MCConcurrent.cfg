\* Two calls of the processes of agents 1 and 2, which restart at any time, again
\* and again; agent 3 may fail or be silent for ever, agent 2 may not resolve,
\* one process does not list agent 1, and the window has room for two requests.
CONSTANTS
  P = 5
  Count = 4
  Threshold = 2
  Initiators = {1, 2}
  Members <- SomeMissing
  Unresolvable = {2}
  Reliable = {1, 2, 4}
  Restartable = {1, 2}
  Calls = {"c1", "c2"}
  Home <- OneEach
  Window = 2
  Inputs <- MCInputs
  HashToCurve <- MCHashToCurve
  Blinds = {3}
  Polynomials <- OneLine
  MaxGeneration = 0
  NoResult = NoResult
CHECK_DEADLOCK FALSE
SPECIFICATION FairSpec
INVARIANTS
  TypeOK
  HeldUpOnlyByAgents
PROPERTIES
  KeepsPromise
  SettledStays
  RequestsMoveForward
  UnresolvedMemberIsFatal
  Succeeds
