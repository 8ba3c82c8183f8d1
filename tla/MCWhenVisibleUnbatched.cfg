CONSTANTS
  e1 = e1
  e2 = e2
  Elements <- MCElements
  MaxQueued <- MCUnbatched
SPECIFICATION Spec
INVARIANT CallbackAtMostOnce
PROPERTY CallbackWhenVisible
