\* A schedule that is delivered before the HTTP server listens.
SPECIFICATION Safety
CONSTANTS
  s1 = s1
  s2 = s2
  x1 = x1
  o1 = o1
  Messages <- MCMessages
  Kind <- MCKind
  MaxBoots = 2
INVARIANTS
  DiscardedWasRun
CHECK_DEADLOCK FALSE
