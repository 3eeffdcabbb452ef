CONSTANTS
  P = 5
  MaxAgents = 4
  NoSecret = NoSecret
CHECK_DEADLOCK FALSE
SPECIFICATION Spec
INVARIANTS
  TypeOK
  AnyThresholdGroupRecovers
  SmallGroupLearnsNothing
