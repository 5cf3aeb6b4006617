SPECIFICATION FairSpec
CONSTANTS
  Job <- MixedBlockingJob
  NumSlots = 2
  MaxEvents = 2
  NumAlgs <- MCNumAlgs
  CFNodes <- MCCFNodes
  Root <- MCRoot
  Iterate <- MCIterate
  Outcomes <- MCOutcomes
  PoolSize = 2
  DirectExecution = FALSE
  Blocking = {1}
  MaxBlocking = 1
  Rank <- MCRank
  Instances <- MCInstances
  Reentrant = {}
  Resources = {"r"}
  Requires <- MCRequires
PROPERTIES
  ScheduledWhenReady
