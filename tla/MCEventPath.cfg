CONSTANT N <- MCNodes
SPECIFICATION Spec
INVARIANT TypeOK
INVARIANT PathDescribesAncestors
\* getEventPath returns (or throws): the program has nothing left to do
CHECK_DEADLOCK FALSE
