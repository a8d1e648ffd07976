\* One wait, two messages in a row.
SPECIFICATION WaitSafety
CONSTANTS
  w1 = w1
  w2 = w2
  p1 = p1
  t1 = t1
  busy = busy
  junk = junk
  note = note
  IDLE = IDLE
  BUSY = BUSY
  Text = Text
  None = None
  Subscribers = {w1}
  Publishers = {p1}
  Topics = {t1}
  Topic <- MCTopic
  Payloads = {busy, junk}
  Qos <- MCQos
  ChannelCapacity = 2
  RequestCapacity = 1
  MaxMessages = 2
  MaxDisconnects = 0
  Timeout <- MCTimeout
  Condition <- MCCondition
  Json <- MCJson
  MaxFrame = 2
  Ticks = {2}
PROPERTIES
  NoMatchSkipped
CHECK_DEADLOCK FALSE
