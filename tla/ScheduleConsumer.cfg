\* Four messages of three kinds, the process started up to twice.
SPECIFICATION Spec
CONSTANTS
  s1 = s1
  s2 = s2
  x1 = x1
  o1 = o1
  Messages <- MCMessages
  Kind <- MCKind
  MaxBoots = 2
INVARIANTS
  TypeOK
  AckedMeansSucceeded
  UnackedIsHeld
PROPERTIES
  KeepsQueue
  RunsOncePerBoot
  TakenUp
CHECK_DEADLOCK FALSE
