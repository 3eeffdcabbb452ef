\* One call, every polynomial and every blinding factor, three helpers of which
\* any may fail, and a window that holds two requests.
CONSTANTS
  P = 5
  Count = 4
  Threshold = 3
  Initiators = {2}
  Members <- AllOthers
  Unresolvable = {}
  Reliable = {}
  Restartable = {}
  Calls = {"c1"}
  Home <- AllOnSecond
  Window = 2
  Inputs <- MCInputs
  HashToCurve <- MCHashToCurve
  Blinds <- AllBlinds
  Polynomials <- AllPolynomials
  MaxGeneration = 0
  NoResult = NoResult
CHECK_DEADLOCK FALSE
SPECIFICATION Spec
INVARIANTS
  UniformGenerationCorrect
  QuorumContributes
  Oblivious
  GivesUpOnlyWithoutQuorum
