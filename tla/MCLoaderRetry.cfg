SPECIFICATION Spec
CONSTANTS
  Waiter = {w1}
  Patient = {}
  MaxRetries = 3
CHECK_DEADLOCK FALSE
INVARIANT RetriedIsReady
