SPECIFICATION FairSpec
CONSTANTS
  w1 = w1
  w2 = w2
  InvLog = TRUE
  LogCapacity = 1
  Workers <- TwoWorkers
  NumMinutes = 1
  First = 1
  Last = 2
  OneMinute = 2
  Gaps <- ShortGaps
  MaxIats = 1
  GenMayFail = TRUE
  PanicAborts = TRUE
  IdStart = 0
  MaxSignals = 2
INVARIANT NothingBeforeKick
INVARIANT KickReachesAll
INVARIANT ReturnLeavesNoWorker
INVARIANT TotalCountsIssued
INVARIANT LogIsSound
INVARIANT NoPhantomRequest
INVARIANT IdsUnique
PROPERTY RunReturns
CHECK_DEADLOCK FALSE
