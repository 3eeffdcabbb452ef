\* The shares are replaced, one agent after the other, while calls run.
CONSTANTS
  P = 5
  Count = 3
  Threshold = 2
  Initiators = {1, 2}
  Members <- AllOthers
  Unresolvable = {}
  Reliable = {1, 2, 3}
  Restartable = {1, 2, 3}
  Calls = {"c1", "c2"}
  Home <- OneEach
  Window = 1024
  Inputs <- MCOneInput
  HashToCurve <- MCOneHash
  Blinds = {2, 3}
  Polynomials <- TwoLines
  MaxGeneration = 1
  NoResult = NoResult
CHECK_DEADLOCK FALSE
SPECIFICATION Spec
INVARIANTS
  UniformGenerationCorrect
  IInv
  SharesDetermineResult
  OneDeviationShows
