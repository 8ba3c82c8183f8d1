CONSTANTS
  e1 = e1
  e2 = e2
  Elements <- MCElements
  MaxQueued <- MCBatched
SPECIFICATION Spec
PROPERTY CallbackWhenVisible
