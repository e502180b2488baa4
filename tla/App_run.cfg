SPECIFICATION MCSpec
CONSTANTS
  Backends = {"noop", "waiting", "any"}
  AppenderCap = 2
  MaxResponses = 4
  MaxQuits = 2
  LoggerCap = 2
  MaxRequests = 4
  Builds = {TRUE, FALSE}
INVARIANT TypeOK
INVARIANT SinkCountExact
INVARIANT NothingLostOnExit
INVARIANT AbortLosesOnlyDrain
PROPERTY LogSpec
PROPERTY LoggerAppEnds
PROPERTY UserSinkReturns
