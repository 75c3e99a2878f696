CONSTANTS
  Scratch = {a1, a2}
  Capacity = 5
  Sizes = {1}
  Alignments = {1, 2}
  FinalizerSize = 1
  FinalizerAlign = 1
  MaxCurrent = 7
  MaxBlocks = 4
  MaxBreaches = 2
SPECIFICATION Spec
CHECK_DEADLOCK FALSE
PROPERTIES
  AsymmetryIsCaught
