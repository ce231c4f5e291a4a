SPECIFICATION Spec
CONSTANTS
  d1 = d1
  d2 = d2
  d3 = d3
  d4 = d4
  Deliveries = {d1}
  Bridge = {}
  RunOf <- MCRunOf
  RerunOf <- MCRerunOf
  WorkflowOf <- MCWorkflowOf
  Replicas = {r1, r2}
  NoReplica = none
  MaxAttempts = 3
  QueryLimit = 100
  MaxFaults = 0
  MaxRestarts = 0
PROPERTIES RecoverySparesLiveRuns
CHECK_DEADLOCK FALSE
