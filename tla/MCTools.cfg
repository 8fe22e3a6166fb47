\* The programs end, so no deadlock check.
SPECIFICATION ToolsSpec
CONSTANTS
  NInDist = 2
  MaxFrames = 5
  HealthyTime = 3
  FaultTime = 2
  WarmUpTime = 1
  Trials = 2
  Late = 1
  Reaction = 1
  DrainTime = 1
  KeepSent = 1
  MaxLost = 1
  None = None
  SettleTime = 1
  ProbeWindow = 2
  Traffic <- MCTraffic
  MaxRecClock = 2
  MaxMessages = 3
  TrialKeys <- MCTrialKeys
  Outcomes <- MCOutcomes
  KeyLen <- MCKeyLen
  Arrays <- MCArrays
  MaxMembers = 2
  Layouts <- MCLayouts
  Chars = {"plain", "control", "bmp", "astral"}
  Keys = {"t", "k"}
  Values <- MCValues
  Depth <- MCDepth
  MaxDepth = 2
  MaxSets = 3
  CalWindow = 2
  Percent = 30
  Frames <- MCFrames
  SpreadOf <- MCSpreadOf
  Lanes = 2
  Block = 4
  MaxCorpus <- MCMaxCorpus
  WordBits = 3
  Population = 3
  Ranges <- MCRanges
  NoValue = NoValue
  MaxWords = 8
  MaxDraws = 3
INVARIANTS
  CollapsesOnce
  MissingIsLost
  DetectionsAddUp
  SpreadsAreWhole
  EveryTrialCountsOnce
  WholeOrRefused
  LineIsWholeOrRefused
  ThresholdIsCalibrated
  FoldsCountEachWindow
  DrawsAreFresh
  ShuffleIsFair
PROPERTY
  CreditIsDue
CHECK_DEADLOCK FALSE
