SPECIFICATION FairSpec
CONSTANTS
  o1 = o1
  v1 = v1
  v2 = v2
  Handoffs = {o1}
  Verdicts = {v1}
  AutoLocal = TRUE
  Bridge = FALSE
  NoCopy = NoCopy
INVARIANTS TypeOK
PROPERTIES ReopenedByHandoffOnly LossNeedsOverlap BackfillAttaches
CHECK_DEADLOCK FALSE
