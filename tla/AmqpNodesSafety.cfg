\* Two GoToNodes on one task or on two, connection loss and one restart.
SPECIFICATION NodesSafety
CONSTANTS
  t1 = t1
  t2 = t2
  None = None
  Callers = {c1, c2}
  Delayers = {}
  GoToIds <- MCGoToIds
  DelayIds = {}
  Keys <- MCTwoKeys
  AssetStatuses = {"RUNNING", "ERROR"}
  MaxQueue = 2
  MaxRestarts = 1
SYMMETRY CallerSymmetry
INVARIANTS
  NodesTypeOK
  WaitersRegistered
  PendingExact
  RepliesAreFinal
  OutputAfterReply
PROPERTIES
  NeverFailsAfterPublish
  PromiseSpec
CHECK_DEADLOCK FALSE
