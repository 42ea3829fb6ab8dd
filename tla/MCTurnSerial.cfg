SPECIFICATION Spec
CONSTANTS
  s1 = s1
  s2 = s2
  e1 = e1
  p1 = p1
  Sync <- TwoSync
  Stream <- OneStream
  Pro <- OnePro
  None = None
CHECK_DEADLOCK FALSE
SYMMETRY Symmetry
CONSTRAINT Scope
INVARIANTS TypeOK TurnHoldsLock FailureRolledBack StagedStateVerified TurnsUnmixed
PROPERTY AnswerRemembered
