SPECIFICATION Spec
CONSTANTS
  Problems <- PartialOrderProblems
  Configs <- DefaultConfigs
  CheckAfter = 1000
  GarbageValues <- MinusOneAndThree
  VisitedKeys <- accessKeys
  Matching <- matching
  DeadEnd <- filterUnreachable
  Plans <- referencePlans
  Fuel = 4
INVARIANTS
  TypeOK
  FirstTasksExact
  CountersExact
  NothingLeftToProgress
  NoUseAfterDelete
  SolutionIsValid
  UnsolvableIsProven
  SolutionIsOptimal
  PrunesOnlyDuplicates
