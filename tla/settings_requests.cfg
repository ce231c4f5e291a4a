SPECIFICATION Spec
CONSTANTS
  s1 = s1
  s2 = s2
  x = x
  y = y
  z = z
  Boot = Boot
  None = None
  Invalid = Invalid
  Secrets = {s1, s2}
  Requests = {x, y, z}
  MaxRequests = 2
  Changes <- SomeChanges
  Writes <- SomeWrites
  Environments <- SomeEnvironments
  MaxTrouble = 1
SYMMETRY Interchangeable
INVARIANTS SavedIsInForce PollWithinWait ClearedIsGone ChangeIsTold
CHECK_DEADLOCK FALSE
