SPECIFICATION FairSpec
CONSTANTS
  Job <- SequenceJob
  NumSlots = 2
  MaxEvents = 2
  NumAlgs <- MCNumAlgs
  CFNodes <- MCCFNodes
  Root <- MCRoot
  Iterate <- MCIterate
  Outcomes <- MCOutcomes
  PoolSize = 1
  DirectExecution = FALSE
  Blocking = {1, 2}
  MaxBlocking = 1
  Rank <- MCRank
  Instances <- MCInstances
  Reentrant = {1}
  Resources = {"r"}
  Requires <- MCRequires
INVARIANTS
  BlockingCounted
PROPERTIES
  ImplementsContract
  DeactivationCompletes
