SPECIFICATION Spec
CONSTANTS
  d1 = d1
  d2 = d2
  d3 = d3
  d4 = d4
  Deliveries = {d1, d4}
  Bridge = {d4}
  RunOf <- MCRunOf
  RerunOf <- MCRerunOf
  WorkflowOf <- MCWorkflowOf
  Replicas = {r1}
  NoReplica = none
  MaxAttempts = 1
  QueryLimit = 100
  MaxFaults = 2
  MaxRestarts = 1
INVARIANTS CompletedMeansRemediated SoloInv
PROPERTIES TerminalIsFinal LifecycleSpec
CHECK_DEADLOCK FALSE
