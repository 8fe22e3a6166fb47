SPECIFICATION FairSpec
CONSTANTS
  NonFinite = NonFinite
  ood = ood
  freq = freq
  Detectors <- MCOne
  NoSource = NoSource
  UnknownKey = UnknownKey
  Scores <- MCScores
  WireActions <- MCWireActions
  Staleness = 1
  Cooldown = 2
  NoVerdict = NoVerdict
  NoHealth = NoHealth
  Words <- MCAlsoPoisoned
  VerdictDepth = 2
  HealthDepth = 1
  MaxRestarts = 1
PROPERTIES
  DemandStopsTheRobot
  QuietReleasesTheRobot
