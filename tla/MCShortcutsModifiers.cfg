CONSTANTS
  r1 = r1
  r2 = r2
  r3 = r3
  k1 = k1
  k2 = k2
  Regs <- MCRegs
  Shortcuts <- MCShortcuts
  Events <- MCEvents
  MaxCalls <- MCMaxCalls
SPECIFICATION Spec
INVARIANT ListedModifiersHeld
