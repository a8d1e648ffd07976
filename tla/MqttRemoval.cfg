\* Two nodes on one topic, one of which leaves.
SPECIFICATION Safety
CONSTANTS
  s1 = s1
  s2 = s2
  s3 = s3
  p1 = p1
  p2 = p2
  t1 = t1
  t2 = t2
  d1 = d1
  None = None
  Subscribers = {s1, s2}
  Publishers = {p1}
  Topics = {t1, t2}
  Topic <- MCTopic
  Payloads = {d1}
  Qos <- MCGoodQos
  ChannelCapacity = 2
  RequestCapacity = 1
  MaxMessages = 1
  MaxDisconnects = 0
PROPERTIES
  RemovesOnlyDead
CHECK_DEADLOCK FALSE
