SPECIFICATION Spec
CONSTANTS
  Instances <- RCInstances
  MaxInt = 1000
  Fuel = 5
INVARIANTS
  TypeOK
  UnreachableIsSound
  MarkedIsPlan
  AddIsExact
  DeadEndIsDead
