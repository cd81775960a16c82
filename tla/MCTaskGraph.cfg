SPECIFICATION Spec
CONSTANTS
  Problems <- TaskGraphs
  Levels = 3
INVARIANTS
  ComponentsExact
  AcyclicityExact
  ReachableExact
  ImpliedIsLowerBound
PROPERTY
  Termination
