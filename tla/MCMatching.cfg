SPECIFICATION Spec
CONSTANTS
  Problems <- OneShared
  Configs <- BaseOnly
  CheckAfter = 1000
  GarbageValues = {0}
  VisitedKeys <- accessKeys
  Matching <- matching
  DeadEnd <- filterUnreachable
  Plans <- referencePlans
  Fuel = 4
INVARIANTS
  UnsolvableIsProven
