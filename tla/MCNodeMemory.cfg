CONSTANTS
  Problems <- SharingProblems
  MaxProgressions = 4
SPECIFICATION Spec
INVARIANTS
  TypeOK
  CountsExact
  NothingDangles
  NothingLeaks
PROPERTY
  ImplementsValues
CHECK_DEADLOCK FALSE
