CONSTANTS
  s1 = s1
  s2 = s2
  Sink = {s1, s2}
  NoSink = NoSink
  PinnedSink = s1
  FixedRates = {FALSE}
  QueueFrames = 1
  Faults = {}
  MaxFaults = 0
  MaxMoves = 0
  MaxStarts = 1
  MaxStops = 1
  MaxNumber = 1
SPECIFICATION Spec
INVARIANTS
  StartedIsReadable
