\* One node and an asset that may be at work when the node asks it.
SPECIFICATION DeviceSafety
CONSTANTS
  n1 = n1
  n2 = n2
  None = None
  Foreign = Foreign
  Nodes = {n1}
  Subscribers <- MCSubscribers
  Publishers = {n1}
  Topics <- MCTopics
  Topic <- MCTopic
  Payloads <- MCPayloads
  Qos <- MCQos
  ChannelCapacity = 2
  RequestCapacity = 2
  MaxStates = 2
  MaxMessages = 2
  MaxDisconnects = 0
INVARIANTS
  OkMeansDone
CHECK_DEADLOCK FALSE
