SPECIFICATION Spec
CONSTANTS
  a = a
  b = b
  c = c
  g = g
  Plans = {"pr", "issue"}
  Runs = {0, 1, 2}
  Lanes = {"ci-main"}
  Calls = {a, b, c}
  Scenarios <- Mixed
  Greens = {g}
  GreenLane <- OneLane
  Tracking = TRUE
  StartsAs <- FromTen
  MaxSuffix = 3
  MaxBusy = 2
  MaxTrouble = 1
INVARIANTS OnePRPerFingerprint OneIssuePerSignature ReportedPRIsOfTheRun SupersededHasPR TrackingEndsByMerge ReportedLinkIsThere
CHECK_DEADLOCK FALSE
