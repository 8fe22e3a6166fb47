SPECIFICATION Spec
CONSTANTS
  NonFinite = NonFinite
  ood = ood
  freq = freq
  Detectors <- MCPair
  NoSource = NoSource
  UnknownKey = UnknownKey
  Scores <- MCScores
  WireActions <- MCWireActions
  Staleness = 1
  Cooldown = 2
  NoVerdict = NoVerdict
  NoHealth = NoHealth
  Words <- MCHealthyOrStop
  VerdictDepth = 2
  HealthDepth = 1
  MaxRestarts = 1
INVARIANTS
  RecoveryInStep
  NoHoldWithoutCause
