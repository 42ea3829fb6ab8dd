SPECIFICATION Spec
CONSTANTS
  w1 = w1
  w2 = w2
  m1 = m1
  m2 = m2
  v1 = v1
  Worker <- MCWorker
  Msg <- OneMsg
  Value <- MCValue
  OwnerKeys <- Nobody
  None = None
  NoCtx = NoCtx
  NoUpdate = NoUpdate
  NoLock = NoLock
  Orphan = Orphan
  MaxMessages = 2
  MaxAge = 1
  MaxClock = 2
  Kinds <- ExpiryKinds
  Faults = {}
PROPERTY ActiveConversationKept
