SPECIFICATION SpecNode
CONSTANTS
  NonFinite = NonFinite
  Infinity = Infinity
  Blank = Blank
  NoVerdict = NoVerdict
  fineFrame = fineFrame
  nanFrame = nanFrame
  Window = 2
  MinConsecutive = 2
  ComputeEvery = 2
  EmbedDims <- MCEmbedDims
  MaxWindowFloats = 4
  Sizes <- MCSizes
  Contents <- MCContents
  Poisoned <- MCPoisoned
  Spreads <- MCSpreads
  Thresholds <- MCThresholds
INVARIANTS
  AlarmOfThisDuty
  BadFramesUnheard
PROPERTY
  NothingScoredOffDuty
CHECK_DEADLOCK FALSE
