SPECIFICATION SchedulerSpec
CONSTANTS
  Job <- PromptOrJob
  NumSlots = 1
  MaxEvents = 1
  NumAlgs <- MCNumAlgs
  CFNodes <- MCCFNodes
  Root <- MCRoot
  Iterate <- MCIterate
  Outcomes <- MCOutcomes
  PoolSize = 2
  DirectExecution = FALSE
  Blocking = {}
  MaxBlocking = 0
  Rank <- MCRank
  Instances <- MCInstances
  Reentrant = {}
  Resources = {"r"}
  Requires <- MCRequires
INVARIANTS
  FailureNotLost
