SPECIFICATION EventFairSpec
CONSTANTS
  Streams = {s1, s2}
  MaxRetries = 1
  MaxEvents = 2
  StreamTimeouts = TRUE
INVARIANTS EventTypeOK StuckStreamsCameLate LeftoversMissOpenStreams
PROPERTY EarlyStreamsEnd
