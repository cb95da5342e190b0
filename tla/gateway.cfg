SPECIFICATION MCSpec
CONSTANTS
  r1 = r1
  r2 = r2
  r3 = r3
  r4 = r4
  r5 = r5
  Requests <- MCRequests
  Limit = 2
  Period = 2
  Horizon = 4
  Keys = {"anonymous", "ann"}
  Chain <- MCChain
  NoSecret = NoSecret
  Sites <- MCSites
  Incoming <- MCIncoming
  Now <- Clock
  Skew = 30
  Ttl = 60
CONSTRAINT InOrder
INVARIANTS
  WindowLimit
  RollingLimit
  RefusedOnlyWhenSpent
  RefusedUnlessEntitled
  AnswersSurviveTheChain
  CachedPerUser
  RepliesTellTheOutcome
  ActsForItsCaller
  RunsWhatItNames
PROPERTIES
  MemoryLimits
CHECK_DEADLOCK FALSE
