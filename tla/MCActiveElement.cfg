CONSTANTS
  MaxDepth <- MCMaxDepth
  UNDEFINED = UNDEFINED
SPECIFICATION Spec
PROPERTY FindsInnermost
PROPERTY ActiveElementReturns
