CONSTANTS
  N <- MCElements
  UNDEFINED = UNDEFINED
SPECIFICATION Spec
PROPERTY DescendedComplete
