\* Two nodes on one topic, a third with a bad qos, a request channel for one request, one
\* connection loss; a channel of two messages overflows.
SPECIFICATION Spec
CONSTANTS
  s1 = s1
  s2 = s2
  s3 = s3
  p1 = p1
  p2 = p2
  t1 = t1
  t2 = t2
  d1 = d1
  None = None
  Subscribers = {s1, s2, s3}
  Publishers = {p1}
  Topics = {t1, t2}
  Topic <- MCTopic
  Payloads = {d1}
  Qos <- MCQos
  ChannelCapacity = 2
  RequestCapacity = 1
  MaxMessages = 3
  MaxDisconnects = 1
INVARIANTS
  TypeOK
  InOrder
  EntryBacked
PROPERTIES
  OrphanIsTold
  SubscribeReturns
  KeepsFeed
CHECK_DEADLOCK FALSE
