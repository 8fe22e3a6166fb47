SPECIFICATION FairSpec
CONSTANTS
  NonFinite = NonFinite
  ood = ood
  freq = freq
  Detectors <- MCDetectors
  NoSource = NoSource
  Scores <- MCScores
  WireActions <- MCWireActions
  Staleness = 1
  NoVerdict = NoVerdict
  NoHealth = NoHealth
INVARIANT
PROPERTIES
  SilenceNeverRelaxes
  NominalMeansAllClear
  EscalationIsExact
  RewindIsFresh
  PublishesTheLoop
  SilenceSurfaces
