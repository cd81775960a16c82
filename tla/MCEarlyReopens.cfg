SPECIFICATION Spec
CONSTANTS
  Problems <- RecursiveProblems
  Configs <- EarlyOnly
  CheckAfter = 1000
  GarbageValues = {0}
  VisitedKeys <- accessKeys
  Matching <- matching
  DeadEnd <- filterUnreachable
  Plans <- referencePlans
  Fuel = 4
INVARIANTS
  SuboptimalIgnoresCosts
