SPECIFICATION FairSpec
CONSTANTS
  Services <- MCServices
  Algs <- MCAlgs
  Workers <- MCWorkers
  Jobs <- MCJobs
  ToolSvc = "T"
  LateOffset <- MCLateOffset
INVARIANTS
  RequestsAnswered
  LifeCycleSound
  FinalizedInOrder
  JobClosed
PROPERTIES
  JobEnds
