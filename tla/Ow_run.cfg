SPECIFICATION ReplaySpec
CONSTANTS
  Records <- ShortRows
  WasmRecords <- WasmRows3
  Programs <- Both
  Asked <- NotGiven
  MaxPerBench = 1
  Ramp = TRUE
  ScaleNum = 3
  ScaleDen = 2
  MaxU32 = 7
  Half = 2
  Concurrency = 1
  MinTimeout = 1
  Drain = 2
  MaxLate = 1
  CtrlCs = 1
  MaxActivations = 1
  Latencies <- TwoLatencies
INVARIANT TypeOK
INVARIANT PlanHonoured
INVARIANT PaceExact
INVARIANT BlocksOnTime
INVARIANT DrainSettles
INVARIANT ReportAgrees
PROPERTY PoolSpec
PROPERTY ReplayEnds
