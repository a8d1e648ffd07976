\* Every machine the process may find, and three diagrams.
SPECIFICATION Spec
CONSTANTS
  d1 = d1
  d2 = d2
  d3 = d3
  Workflows = {d1, d2, d3}
  MqttNodes <- MCMqttNodes
INVARIANTS
  TypeOK
  LoadedOnce
  OneConnection
  HandleBeforeUse
  ServesWithNodes
PROPERTIES
  StartsOrEnds
  RequestAnswered
CHECK_DEADLOCK FALSE
