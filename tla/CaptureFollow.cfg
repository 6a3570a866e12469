CONSTANTS
  s1 = s1
  s2 = s2
  Sink = {s1, s2}
  NoSink = NoSink
  PinnedSink = NoSink
  FixedRates = {FALSE}
  QueueFrames = 1
  Faults = {"query", "open", "read"}
  MaxFaults = 1
  MaxMoves = 1
  MaxStarts = 1
  MaxStops = 0
  MaxNumber = 1
SPECIFICATION LiveSpec
PROPERTIES
  DefaultFollowed
