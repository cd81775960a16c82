SPECIFICATION Spec
CONSTANTS
  Instances <- LmCutInstances
  MaxInt = 1000
  MaxCost = 2
  Fuel = 5
INVARIANTS
  CutsAreLandmarks
  CutsCost
  Admissible
  HeuristicAdmissible
  CutsAreSplit
PROPERTY
  EveryCutFrees
