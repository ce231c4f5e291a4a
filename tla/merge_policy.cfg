SPECIFICATION FairSpec
CONSTANTS
  a = a
  build = build
  app = app
  Callers = {a}
  Statuses = {build}
  Runs = {app}
  Policies <- AllPolicies
  MaxHead = 2
  MaxPolls = 2
  MaxTrouble = 3
INVARIANTS MergedHeadHasPassed
PROPERTIES CleanIsMerged
CHECK_DEADLOCK FALSE
