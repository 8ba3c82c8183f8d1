CONSTANTS
  MaxDepth <- MCMaxDepth
  UNDEFINED = UNDEFINED
SPECIFICATION Spec
PROPERTY DialogsIgnored
