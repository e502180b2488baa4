SPECIFICATION FairSpec
CONSTANTS
  w1 = w1
  w2 = w2
  InvLog = FALSE
  LogCapacity = 1
  Workers <- TwoWorkers
  NumMinutes = 3
  First = 2
  Last = 3
  OneMinute = 1
  Gaps <- NoGap
  MaxIats = 1
  GenMayFail = TRUE
  PanicAborts = FALSE
  IdStart = 0
  MaxSignals = 2
INVARIANT MinuteLockstep
PROPERTY GateSpec
PROPERTY QuitStopsBusyWorker
PROPERTY AbortReturns
PROPERTY ReturnsOrStranded
CHECK_DEADLOCK FALSE
