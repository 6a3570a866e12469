CONSTANTS
  RequestedCapacity = 2
  MaxFrames = 5
SPECIFICATION FairSpec
INVARIANTS
  TypeOK
  RingInOrder
  FramesAccounted
  NoLostWakeup
PROPERTIES
  GapsReported
  EndIsFinal
  WaiterServed
  ImplementsDropOldest
