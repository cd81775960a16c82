SPECIFICATION Spec
CONSTANT Plans <- SettledPlans
PROPERTY KeepsPromise
CHECK_DEADLOCK FALSE
