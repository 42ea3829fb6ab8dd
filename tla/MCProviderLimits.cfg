SPECIFICATION Spec
CONSTANTS
  t1 = t1
  t2 = t2
  t3 = t3
  minute = minute
  Task <- ThreeTasks
  None = None
  Window <- MinuteOnly
  Quota <- MCQuota
  Span <- MCSpan
  MinDelay = 2
  Cooldown <- MCCooldown
  MaxAttempts = 2
  Backoff <- MCBackoff
  FailMax = 2
  ResetTimeout = 2
  LastStart = 4
  MaxClock = 5
SYMMETRY Symmetry
CHECK_DEADLOCK FALSE
INVARIANTS TypeOK OverrunBounded WindowsRemember CooldownOnLadder
