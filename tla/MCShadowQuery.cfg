CONSTANT N <- MCNodes
SPECIFICATION Spec
INVARIANT TypeOK
INVARIANT FirstIsHeadOfAll
PROPERTY ImplementsShadowSearch
PROPERTY NoContainerSearchedTwice
\* both calls return; the program then has nothing left to do
CHECK_DEADLOCK FALSE
