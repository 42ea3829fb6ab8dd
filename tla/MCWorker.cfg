SPECIFICATION MCSpec
CONSTANTS
  s1 = s1
  e1 = e1
  r1 = r1
  r2 = r2
  r3 = r3
  r4 = r4
  c1 = c1
  c2 = c2
  w1 = w1
  w2 = w2
  w3 = w3
  d1 = d1
  d2 = d2
  d3 = d3
  k1 = k1
  k2 = k2
  f1 = f1
  f2 = f2
  q1 = q1
  q2 = q2
  a = a
  b = b
  b1 = b1
  b2 = b2
  x1 = x1
  x2 = x2
  fred = fred
  worldbank = worldbank
  gdp = gdp
  inflation = inflation
  us = us
  japan = japan
  quarterly = quarterly
  m1 = m1
  None = None
  NoCtx = NoCtx
  NoUpdate = NoUpdate
  NoLock = NoLock
  Orphan = Orphan
  StreamRequest = {r1, r2, r3, r4}
  Client = {c1, c2}
  MaxStreams = 3
  MaxPerClient = 2
  Waiter = {w1, w2, w3}
  Patient = {w3}
  MaxRetries = 3
  Dataset = {d1, d2, d3}
  Reader = {r1, r2}
  MAX_DATASETS = 2
  DATASET_TTL = 1
  MaxNow = 2
  Worker = {k1, k2}
  Feedback = {f1, f2}
  MaxCrashes = 2
  N = 3
  MaxAttempts = 2
  Query = {q1, q2}
  Candidate = {a, b}
  Shaped = {a}
  Renamed = {b}
  Foreign = Foreign
  Nothing = Nothing
  MaxAlternates = 2
  MaxFallbacks = 3
  Fetch = {b1, b2}
  Subs <- TwoAndOne
  Local = 1
  GateSize = 1
  MaxOptions = 3
  MaxTurns = 4
  Provider = {fred, worldbank}
  Default = worldbank
  Family <- OneFamily
  GeoEncoded = {fred}
  Loose = {fred}
  Measure = {gdp, inflation}
  Acronym = {gdp}
  Place = {us, japan}
  Covers <- TwoCoverages
  Frequency = {quarterly}
CHECK_DEADLOCK FALSE
INVARIANTS ServicesTypeOK SlotsAccounted WaitersToldTruth
  LostOnlyIfCrowded ThankedIsKept EveryIndicatorAccounted
  NoCodeTwice EvictionHolds GateAccounted AbsenceHasReason
  AppliesWhatWasShown NoForeignCode
PROPERTIES LockIsFreed UpdatesEnd ServicesEnd
