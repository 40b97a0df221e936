CONSTANTS
  c1 = c1
  c2 = c2
  NoCall = NoCall
  Calls = {c1, c2}
  Sizes = {0, 2, 3, 5}
  MaxBoundaryBytes = 4
  MaxPendingEvents = 2
SPECIFICATION Spec
INVARIANTS AtMostOneDisposal NoResultLost HostCallCanceled QuotaReturned
PROPERTIES KeepsPromise
CHECK_DEADLOCK FALSE
