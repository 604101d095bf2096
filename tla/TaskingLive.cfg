SPECIFICATION FairSpec
CONSTANTS
  NProcs = 2
  Lines <- LiveLines
  MaxFrames = 2
  TickModulus = 2
PROPERTIES
  ImplementsFairRoundRobin
  EveryTaskRuns
  InterruptsAcknowledged
