SPECIFICATION FairSpec
CONSTANTS
  s1 = s1
  s2 = s2
  w1 = w1
  Sessions = {s1, s2, w1}
  Local = {s1, s2}
  OpenPR = TRUE
  MaxTries = 2
  Limits = {1, 2}
  AgentEvents <- AllReports
  Together <- MCTogether
  MaxChanges = 1
  MaxFaults = 1
  MaxRestarts = 1
INVARIANTS CompletedIsLogged SlotsRespected QueuedMeansReceived
PROPERTIES CompletedStays LocalRunSettles
CHECK_DEADLOCK FALSE
