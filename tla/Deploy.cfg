SPECIFICATION FairSpec
CONSTANTS
  panel = panel
  remote = remote
  Nodes <- MCNodes
  Local <- MCLocal
  Panel = panel
  Needs <- MCNeeds
  All = all
  None = none
  Metering = FALSE
  Threshold = 1
  QueueSize = 4
  MaxEdits = 1
  MaxPasses = 2
  MaxFaults = 1
CHECK_DEADLOCK FALSE
INVARIANT OpenIsOnRecord
PROPERTIES EveryRequestIsServed OkMeansDeployed OkMeansRunning
