SPECIFICATION Spec
CONSTANTS
  p1 = p1
  p2 = p2
  x = x
  y = y
  z = z
  None = None
  Playbooks = {p1, p2}
  Pattern <- Alternating
  Runs = {1, 2, 3, 4, 5}
  Starts <- Mixed
  Requests = {x, y, z}
  MaxRequests = 2
  LookBack = {1, 2, 4}
  Batch = 3
  Page = 1
  SampleSize = 2
SYMMETRY Interchangeable
INVARIANTS LostDecisionNeedsRace UnreadyNeedsRace VerdictsCounted
CHECK_DEADLOCK FALSE
