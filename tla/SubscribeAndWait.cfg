\* Two waits on one topic, one of them with a bad qos, a publisher, one connection loss.
SPECIFICATION WaitSpec
CONSTANTS
  w1 = w1
  w2 = w2
  p1 = p1
  t1 = t1
  busy = busy
  junk = junk
  note = note
  IDLE = IDLE
  BUSY = BUSY
  Text = Text
  None = None
  Subscribers = {w1, w2}
  Publishers = {p1}
  Topics = {t1}
  Topic <- MCTopic
  Payloads = {note, junk}
  Qos <- MCQos
  ChannelCapacity = 2
  RequestCapacity = 1
  MaxMessages = 1
  MaxDisconnects = 1
  Timeout <- MCTimeout
  Condition <- MCCondition
  Json <- MCJson
  MaxFrame = 2
  Ticks = {2}
INVARIANTS
  WaitTypeOK
  NewestIsConsidered
  ReadAsDocumented
PROPERTIES
  ScopeEnds
  KeepsPromise
CHECK_DEADLOCK FALSE
