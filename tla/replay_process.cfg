SPECIFICATION Spec
CONSTANTS
  q1 = q1
  q2 = q2
  q3 = q3
  q4 = q4
  Requests = {q1, q2, q3, q4}
  NonceOf <- MCNonceOf
  DeliveryOf <- MCDeliveryOf
  SentAt <- MCSentAt
  Replicas = {r1}
  NoReplica = none
  TTL = 2
  MaxSkew = 4
  MaxEntries = 1
  MaxFlight = 1
  MaxTime = 5
  MaxRestarts = 1
INVARIANTS EnqueuedOnce HeldByInFlight
PROPERTIES IgnoredForLiveTwin
CHECK_DEADLOCK FALSE
