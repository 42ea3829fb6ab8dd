SPECIFICATION Spec
CONSTANTS
  None = None
  MaxOptions = 3
  MaxTurns = 4
CHECK_DEADLOCK FALSE
INVARIANT NumberMeansItsLine
