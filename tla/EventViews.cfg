SPECIFICATION FairSpec
CONSTANTS
  Jobs <- MCViewJobs
INVARIANTS
  TypeOK
  ViewDecisionsSound
  ViewsIsolated
  SequentialOverViews
  EventLeavesClean
  EveryViewRuns
PROPERTIES
  EventEnds
