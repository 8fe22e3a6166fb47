\* A window of three frames, every second computed, three low in a row.
SPECIFICATION ObservedSpec
CONSTANTS
  NonFinite = NonFinite
  Infinity = Infinity
  Blank = Blank
  NoVerdict = NoVerdict
  calmFrame = calmFrame
  oddFrame = oddFrame
  nanFrame = nanFrame
  Window = 3
  MinConsecutive = 3
  ComputeEvery = 2
  EmbedDims <- MCEmbedDims
  MaxWindowFloats = 6
  Sizes <- MCSizes
  Contents <- MCContents
  Poisoned <- MCPoisoned
  Spreads <- MCSpreads
  Thresholds <- MCThresholds
INVARIANTS
  NoEarlyAlarm
  AlarmIsTimely
  PoisonSurfaces
PROPERTY
  WindowSlides
