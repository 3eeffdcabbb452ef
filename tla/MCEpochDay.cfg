CONSTANTS
  P = 31
  Calls = {"c1", "c2"}
  Requests <- MCValidRequests
  Secrets = {3}
  Inputs <- MCInputs
  HashToCurve <- MCHashToCurve
  NoResult = NoResult
  NoReply = NoReply
  Missing = Missing
  Letters = {"A", "B", "L", "U"}
  Digits = {"1", "2"}
  CurrencyCodes = {"EUR", "USD"}
  NanosPerSecond = 2
  SecondsPerMinute = 2
  SecondsPerDay = 4
  MaxTimestamp = 39
  EpochSecond = 8
  MaxDays = 5
  AttoPerUnit = 3
  DecimalsPerAtto = 2
  U64 = 11
  LowAmount = 4
CHECK_DEADLOCK FALSE
SPECIFICATION Spec
INVARIANTS
  ValidatedDatesAreUsable
