\* One message a tick, four units to a tick, ten learning samples as in the code.
SPECIFICATION SteadySpec
CONSTANTS
  NonFinite = NonFinite
  NoVerdict = NoVerdict
  NoReading = NoReading
  scan = scan
  cpu = cpu
  Topics <- MCOneTopic
  DeadTopics <- MCOneTopic
  FreqTopics <- MCOneTopic
  Metrics <- MCMetrics
  CpuPercent = cpu
  Readings <- MCReadings
  TickUnits = 4
  Late = 0
  Timeout = 8
  Grace = 0
  LearningSamples = 10
  Tolerance = 20
  MinConsecutive = 2
  Scale = 12
  MaxCount <- MCMaxCount
  Period = 4
INVARIANT
  SteadyNeverFlagged
