SPECIFICATION Spec
CONSTANTS
  Minute = 6
  Grain = 2
  Rates <- SmallRates
  Samples <- SmallSamples
  Unit = 4
  MaxIats = 6
INVARIANT PoissonFits
INVARIANT UniformFits
INVARIANT EquidistantLosesLast
