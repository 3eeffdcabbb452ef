\* Two services, which may have one name, and one watcher that reads at any pace.
CONSTANTS
  Names = {"a", "b"}
  MaxServices = 2
  Watchers = {"w"}
  Readers = {"w"}
  Capacity = 3
  MaxDue = 2
CHECK_DEADLOCK FALSE
SPECIFICATION FairSpec
INVARIANTS
  TypeOK
  IInv
  LagBounded
  FirstStatusAtOnce
PROPERTIES
  WatchConverges
  TaskFollowsClient
