SPECIFICATION SchedulerSpec
CONSTANTS
  Job <- SharedResourceJob
  NumSlots = 2
  MaxEvents = 3
  NumAlgs <- MCNumAlgs
  CFNodes <- MCCFNodes
  Root <- MCRoot
  Iterate <- MCIterate
  Outcomes <- MCOutcomes
  PoolSize = 2
  DirectExecution = FALSE
  Blocking = {}
  MaxBlocking = 0
  Rank <- MCRank
  Instances <- MCInstances
  Reentrant = {}
  Resources = {"r"}
  Requires <- MCRequires
INVARIANTS
  SchedulerInv
  TasksOwnTheirEvent
  StatesBacked
  IdleMeansDone
  NothingLost
