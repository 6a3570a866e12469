CONSTANT
  MaxInits = 3
SPECIFICATION FairSpec
INVARIANTS
  TypeOK
  ReadyIsLive
  NoLostVerdict
PROPERTIES
  ContextReleasedAlone
  InitAnswers
  ShutdownReturns
CHECK_DEADLOCK FALSE
