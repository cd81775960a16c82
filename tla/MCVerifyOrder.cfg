SPECIFICATION Spec
CONSTANT Plans <- UnsettledPlans
INVARIANT RejectsOnlyInvalid
CHECK_DEADLOCK FALSE
