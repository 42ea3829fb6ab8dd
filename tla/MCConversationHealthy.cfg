SPECIFICATION Spec
CONSTANTS
  w1 = w1
  w2 = w2
  m1 = m1
  m2 = m2
  v1 = v1
  Worker <- MCWorker
  Msg <- TwoMsg
  Value <- MCValue
  OwnerKeys <- MCValue
  None = None
  NoCtx = NoCtx
  NoUpdate = NoUpdate
  NoLock = NoLock
  Orphan = Orphan
  MaxMessages = 1
  MaxAge = 1
  MaxClock = 0
  Kinds <- TurnKinds
  Faults = {}
SYMMETRY Symmetry
INVARIANTS TypeOK SectionsExclusive FreshBase
PROPERTY AtomicConversation
