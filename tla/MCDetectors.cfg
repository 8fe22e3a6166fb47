\* A topic that speaks, watched for silence and for its rate, and one that only
\* comes and goes on the graph; ticks of two units.
SPECIFICATION FairSpec
CONSTANTS
  NonFinite = NonFinite
  NoVerdict = NoVerdict
  NoReading = NoReading
  scan = scan
  odom = odom
  cpu = cpu
  Topics <- MCTwoTopics
  DeadTopics <- MCOneTopic
  FreqTopics <- MCTwoTopics
  Metrics <- MCMetrics
  CpuPercent = cpu
  Readings <- MCReadings
  TickUnits = 2
  Late = 1
  Timeout = 3
  Grace = 5
  LearningSamples = 2
  Tolerance = 20
  MinConsecutive = 2
  Scale = 6
  MaxCount <- MCMaxCount
PROPERTY
  PresentTopicsBind
INVARIANTS
  DeadInTime
  SilenceFailsFrequency
