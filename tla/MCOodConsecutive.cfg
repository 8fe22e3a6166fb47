\* As MCOodHistory.cfg, for the documented claim.
SPECIFICATION ObservedSpec
CONSTANTS
  NonFinite = NonFinite
  Infinity = Infinity
  Blank = Blank
  NoVerdict = NoVerdict
  calmFrame = calmFrame
  oddFrame = oddFrame
  nanFrame = nanFrame
  Window = 3
  MinConsecutive = 3
  ComputeEvery = 2
  EmbedDims <- MCEmbedDims
  MaxWindowFloats = 6
  Sizes <- MCSizes
  Contents <- MCContents
  Poisoned <- MCPoisoned
  Spreads <- MCSpreads
  Thresholds <- MCThresholds
INVARIANT
  ConsecutiveConfirm
