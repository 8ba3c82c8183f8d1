CONSTANT N <- MCNodes
SPECIFICATION Spec
INVARIANT NeverThrows
CHECK_DEADLOCK FALSE
