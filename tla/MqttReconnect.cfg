\* A node that listens while the connection is lost and restored; one of two publishers has a bad qos.
SPECIFICATION Spec
CONSTANTS
  s1 = s1
  s2 = s2
  s3 = s3
  p1 = p1
  p2 = p2
  t1 = t1
  t2 = t2
  d1 = d1
  None = None
  Subscribers = {s1}
  Publishers = {p1, p2}
  Topics = {t1, t2}
  Topic <- MCTopic
  Payloads = {d1}
  Qos <- MCQos
  ChannelCapacity = 2
  RequestCapacity = 1
  MaxMessages = 1
  MaxDisconnects = 1
PROPERTIES
  ListenerIsServed
CHECK_DEADLOCK FALSE
