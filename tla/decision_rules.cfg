SPECIFICATION DecisionSpec
CONSTANTS
  Names <- MCNames
  Secretive = {"API_TOKEN"}
  Logs <- MCLogs
  Signals = {0, 4, 20}
  Matches = {0, 1, 5}
  Responses <- MCResponses
INVARIANTS ActionsStayInBounds JenkinsIsHeard FixableMeansPR SignalCountsOnce
CHECK_DEADLOCK FALSE
