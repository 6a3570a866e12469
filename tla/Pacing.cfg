CONSTANTS
  Micro = 2
  OneMs = 2
  Period = 4
  Timeouts = {0, 4, 6, 8}
  MaxLate = 6
  QueueFrames = 1
SPECIFICATION FairSpec
INVARIANTS
  NeverAhead
  NoDrift
  PatientRead
PROPERTIES
  TimeoutIsHonest
  ReadReturns
