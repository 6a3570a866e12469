CONSTANT
  MaxInits = 2
SPECIFICATION Spec
INVARIANT
  ReadyWhenAlive
CHECK_DEADLOCK FALSE
