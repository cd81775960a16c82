SPECIFICATION ModesSpec
CONSTANTS
  Problems <- ModesProblems
  Configs <- ModesConfigs
  CheckAfter = 2
  GarbageValues = {0}
  VisitedKeys <- accessKeys
  Matching <- matching
  DeadEnd <- filterUnreachable
  Plans <- referencePlans
  Fuel = 4
INVARIANTS
  NoNodeLeft
  SolutionExecutes
  UnsolvableIsProven
  SolutionIsOptimal
  PrunesOnlyDuplicates
PROPERTIES
  Termination
  SolutionOnlyImproves
