CONSTANTS
  UNDEFINED = UNDEFINED
  MaxLen <- MCMaxLen
SPECIFICATION Spec
INVARIANT ValidPrefixGivesValidName
\* strToClassName returns; the program has nothing left to do
CHECK_DEADLOCK FALSE
