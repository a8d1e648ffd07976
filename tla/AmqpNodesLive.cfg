\* Two GoToNodes on one task and a DelayNode that may carry its URN or its bare id.
SPECIFICATION NodesSpec
CONSTANTS
  t1 = t1
  t2 = t2
  None = None
  Callers = {c1, c2}
  Delayers = {d1}
  GoToIds <- MCOneGoToId
  DelayIds <- MCDelayIds
  Keys <- MCOneKeyAndBare
  AssetStatuses = {"RUNNING", "ERROR"}
  MaxQueue = 1
  MaxRestarts = 0
PROPERTIES
  FinalStatusCompletesGoTo
CHECK_DEADLOCK FALSE
