SPECIFICATION Spec
CONSTANTS
  Sync = {s1, s2}
  Stream = {}
  Pro = {}
  None = None
CHECK_DEADLOCK FALSE
INVARIANT FailedIntentNeverKept
