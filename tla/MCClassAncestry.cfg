CONSTANTS
  N <- MCElements
  UNDEFINED = UNDEFINED
SPECIFICATION Spec
PROPERTY DescendedSound
PROPERTY DescendedTerminates
