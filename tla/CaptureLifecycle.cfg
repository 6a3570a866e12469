\* Both modes.  A query fails here because its context is gone, which needs no bound.
CONSTANTS
  s1 = s1
  Sink = {s1}
  NoSink = NoSink
  PinnedSink = s1
  FixedRates = {TRUE, FALSE}
  QueueFrames = 1
  Faults = {"context"}
  MaxFaults = 0
  MaxMoves = 0
  MaxStarts = 2
  MaxStops = 2
  MaxNumber = 1
SPECIFICATION FairSpec
INVARIANTS
  FreeIsSafe
  QueryHasContext
  NoLostStop
  TerminateCases
PROPERTIES
  StopAlwaysReturns
  StopReleasesReader
