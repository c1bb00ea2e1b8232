SPECIFICATION PlayerSpec
CONSTANTS
  MaxSteps = 5
  Traces <- SmallTraces
  Runs <- SmallRuns
  Intervals = {t1, t2}
  NoTimer = NoTimer
  Slid <- SliderRange
INVARIANTS
  PlayerConsistent
PROPERTIES
  PlayEnds
