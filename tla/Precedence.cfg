SPECIFICATION Spec
CONSTANTS
  Configs <- MCConfigs
  MayFail = TRUE
INVARIANTS
  HubDecisionsSound
  SequentialOrder
  DataFlowExact
  NoLostWakeup
  SimulationPredicts
  AgreesWithSequencer
  VerificationExact
PROPERTIES
  DecisionsFinal
