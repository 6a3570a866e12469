CONSTANTS
  s1 = s1
  s2 = s2
  Sink = {s1, s2}
  NoSink = NoSink
  a1 = a1
  a2 = a2
  Address = {a1, a2}
  NoAddress = NoAddress
  MaxQueries = 3
  MaxMoves = 1
SPECIFICATION Spec
INVARIANT
  AlarmOutlivesCallbacks
