\* The gyroscope may repeat once, the joint three times.
SPECIFICATION Spec
CONSTANTS
  NonFinite = NonFinite
  NaN = NaN
  NoReading = NoReading
  NoVerdict = NoVerdict
  gyro = gyro
  calf = calf
  low = low
  high = high
  Groups <- MCGroups
  Gyro = gyro
  Calf = calf
  Limit <- MCLimit
  Contents <- MCContents
SYMMETRY MCSymmetry
INVARIANTS
  StaleIsExact
  SilenceSurfaces
  StuckIsFlagged
