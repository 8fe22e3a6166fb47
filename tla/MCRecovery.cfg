\* Three fault keys x two commands, a cooldown of three ticks.
SPECIFICATION ObservedFairSpec
CONSTANTS
  NonFinite = NonFinite
  ood = ood
  freq = freq
  noName = noName
  unknownName = unknownName
  Sources <- MCSources
  NoSource = noName
  UnknownKey = unknownName
  WireStates <- MCWireStates
  WireActions <- MCWireActions
  Cooldown = 3
INVARIANTS
  HoldBacked
  NewHoldsSpaced
  ExposureIsBounded
PROPERTIES
  HoldIsGated
  PersistentFaultStops
