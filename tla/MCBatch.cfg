CONSTANTS
  P = 11
  MaxItems = 6
  Batches <- MCBatches
  Secrets = {3}
  Window = 2
  Capacity = 1
  Nothing = Nothing
  Inputs <- MCInputs
  HashToCurve <- MCHashToCurve
  NoResult = NoResult
  Missing = Missing
  Letters = {"A"}
  Digits = {"1"}
  CurrencyCodes = {"EUR"}
  NanosPerSecond = 1
  SecondsPerMinute = 1
  SecondsPerDay = 2
  MaxTimestamp = 9
  EpochSecond = 2
  MaxDays = 5
  AttoPerUnit = 3
  DecimalsPerAtto = 2
  U64 = 11
  LowAmount = 4
CHECK_DEADLOCK FALSE
SPECIFICATION FairSpec
INVARIANTS
  TypeOK
  RepliesMatchItems
  BoundedAhead
  CleanEndIsComplete
  RunsLiveWithTask
PROPERTIES
  TaskAlwaysEnds
  StreamAlwaysEnds
