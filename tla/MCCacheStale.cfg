SPECIFICATION Spec
CONSTANTS
  w1 = w1
  c1 = c1
  c2 = c2
  s1 = s1
  NoCopy = NoCopy
  Worker <- OneWorker
  Caller <- OneCaller
  Series <- OneSeries
  Ceiling = 1
  FrequencyTtl = 2
  DefaultTtl = 1
  ReconnectAfter = 1
  Patience = 1
  CleanupAfter = 9
  MaxEntries = 1
  EvictBatch = 1
  MaxAge = 4
  MaxUpsets = 0
INVARIANT StaleBeatsNothing
