\* Two nodes and one asset; channels that hold all that is reported.
SPECIFICATION DeviceSpec
CONSTANTS
  n1 = n1
  n2 = n2
  None = None
  Foreign = Foreign
  Nodes = {n1, n2}
  Subscribers <- MCSubscribers
  Publishers = {n1, n2}
  Topics <- MCTopics
  Topic <- MCTopic
  Payloads <- MCPayloads
  Qos <- MCQos
  ChannelCapacity = 2
  RequestCapacity = 1
  MaxStates = 1
  MaxMessages = 2
  MaxDisconnects = 1
INVARIANTS
  DeviceTypeOK
  AssetCanAnswer
PROPERTIES
  OutcomeEndsNode
CHECK_DEADLOCK FALSE
