SPECIFICATION Spec
CONSTANT Plans <- AmbiguousRoot
INVARIANT AcceptsOnlyValid
CHECK_DEADLOCK FALSE
