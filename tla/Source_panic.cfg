SPECIFICATION Spec
CONSTANTS
  w1 = w1
  w2 = w2
  InvLog = FALSE
  LogCapacity = 1
  Workers <- TwoWorkers
  NumMinutes = 2
  First = 1
  Last = 2
  OneMinute = 1
  Gaps <- NoGap
  MaxIats = 1
  GenMayFail = FALSE
  PanicAborts = FALSE
  IdStart = 0
  MaxSignals = 1
INVARIANT NoWorkerPanic
CHECK_DEADLOCK FALSE
