SPECIFICATION ShrinkraySpec
CONSTANTS
  Inputs <- AllInputs
  Files <- AllFiles
  TotalMinutes = 4
  MinuteSeconds = 2
  Ms = 2
  Configs <- AllConfigs
INVARIANT FMTypeOK
INVARIANT CandidatesRight
INVARIANT BooksBalance
INVARIANT MappingRight
INVARIANT ThumbnailsConserve
INVARIANT RateBounded
INVARIANT SamplesProportional
INVARIANT ConstantRate
INVARIANT EachInvocationOnce
