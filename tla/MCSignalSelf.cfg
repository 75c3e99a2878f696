CONSTANTS
  Handler = {h1, h2, h3}
  Sentinel = Sentinel
  Null = Null
  MaxNesting = 2
SPECIFICATION Spec
CHECK_DEADLOCK FALSE
INVARIANTS
  SelfRemovalIsSafe
