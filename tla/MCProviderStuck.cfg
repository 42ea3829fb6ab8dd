SPECIFICATION Spec
CHECK_DEADLOCK FALSE
CONSTANTS
  t1 = t1
  t2 = t2
  t3 = t3
  minute = minute
  Task <- OneTask
  None = None
  Window <- MinuteOnly
  Quota <- MCQuota
  Span <- MCSpan
  MinDelay = 1
  Cooldown <- MCCooldown
  MaxAttempts = 2
  Backoff <- MCBackoff
  FailMax = 2
  ResetTimeout = 2
  LastStart = 6
  MaxClock = 8
PROPERTY BreakerResets
