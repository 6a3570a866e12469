\* Widths scaled to 10 and 20 bits; frames below, at and above what 10 bits count, a
\* channel count that 8 bits cannot hold, and storage that wraps in size_t.
SPECIFICATION Spec
CONSTANTS
  W32 = 1024
  DefaultRate = 480
  DefaultSamples = 96
  DefaultRing = 10
  DefaultRecheck = 100
  Rates = {0, 441, 480}
  ChannelCounts = {0, 1, 2, 3, 6, 8, 258}
  SampleCounts = {0, 1, 96, 512}
  Rings = {0, 1, 64, 1000}
  Rechecks = {0, 7}
  Capacities = {0, 95, 96, 1023}
  Sink = {pinned}
  NoSink = NoSink
  NullConfig = NullConfig
  NoHandle = NoHandle
  NoStream = NoStream
INVARIANTS
  CreatedOpens
  SizesAgree
  CopyFits
  StorageSuffices
