SPECIFICATION HarnessFairSpec
CONSTANTS
  Topologies <- MCTopologies
  Granted <- MCGranted
  MaxJobs = 2
  Trials = 2
  Records = 1
INVARIANTS  FiledWhereMeasured ReadsFinishedTrials FiledTrialsAreFirst
PROPERTIES TablesAddUp EveryJobEnds
