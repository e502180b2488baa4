SPECIFICATION Spec
CONSTANTS
  Records <- IdleRows
  Asked <- AllMinutes
  MaxPerBench = 5
  Ramp = FALSE
  ScaleNum = 1
  ScaleDen = 1
  MaxU32 = 7
  Half = 2
  Concurrency = 2
  MinTimeout = 1
  Drain = 2
  MaxLate = 0
  CtrlCs = 1
PROPERTY CtrlCStops
