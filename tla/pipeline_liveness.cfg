SPECIFICATION FairSpec
CONSTANTS
  d1 = d1
  d2 = d2
  d3 = d3
  d4 = d4
  Deliveries = {d1, d4}
  Bridge = {d4}
  RunOf <- MCRunOf
  RerunOf <- MCRerunOf
  WorkflowOf <- MCWorkflowOf
  Replicas = {r1}
  NoReplica = none
  MaxAttempts = 3
  QueryLimit = 100
  MaxFaults = 0
  MaxRestarts = 2
PROPERTIES EverySettles
CHECK_DEADLOCK FALSE
