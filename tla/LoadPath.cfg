CONSTANTS
  Subdivisions = 3
  Grid = 2
  Unit = 16  Quarter = 4  Hundredth = 2  Least = 1  Smallest = 1
  DefaultStep = 4
  Cut <- MCCut
  Grow <- MCGrow
  Slow <- MCSlow
  TargetIterations = 1
  SlowIterations = 3
  LoadSteps = 2
  MaxKeyframes = 5
  Requests <- MCRequests
  None = None
SPECIFICATION FairSpec
CHECK_DEADLOCK FALSE
INVARIANTS LoopBounds ConvergedMeansAllLoads KeyframesTellPath DivisionKeepsLoads
PROPERTIES AnalysisEnds
