SPECIFICATION ShrinkraySpec
CONSTANTS
  Inputs <- AllInputs
  Files <- AllFiles
  TotalMinutes = 4
  MinuteSeconds = 2
  Ms = 2
  Configs <- AllConfigs
INVARIANT RateWithinTarget
