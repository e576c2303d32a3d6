SPECIFICATION PlayerSpec
CONSTANTS
  RingSize = 8
  PrimeSize = 2
  ChunkSize = 3
  CounterSize = 16
  MaxRequest = 3
  Tracks <- MCTracks
  NoTrack = NoTrack
  NoRing = NoRing
  Garbage = Garbage
  Silence = Silence
  Files <- MCFiles
  FrameSamples = 2
  FrameBytes = 2
  MaxBlockBytes = 8
  MaxSamples = 20
  Rates <- MCRates
INVARIANTS
  SourceAsPromised
  RingNotOverrun
  CallbackHasRing
  AllOrNothing
PROPERTY
  HeardInOrder MusicGoesOn
