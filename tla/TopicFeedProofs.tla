-------------------------- MODULE TopicFeedProofs --------------------------
(***************************************************************************)
(* MqttHandle implements TopicFeed: what the order of the messages and the  *)
(* state of the map come to for a single node that listens.                 *)
(***************************************************************************)
EXTENDS MqttHandleProofs

USE HandleAssumption

\* Only a node that has joined its channel has read anything.
ReadAfterJoin == \A s \in Subscribers : got[s] # 0 => Made(s)

\* The numbers in a channel grow at least as fast as the places: said of any two messages.
Spaced ==
  \A s \in Subscribers : \A i \in 1 .. Len(inbox[s]) : \A j \in i + 1 .. Len(inbox[s]) :
    inbox[s][j].n >= inbox[s][i].n + (j - i)

\* While the connection holds, a receiver that has read all it got finds the rest on its way.
CaughtUp ==
  disconnects = 0 =>
    \A s \in Subscribers : Attached(s) /\ inbox[s] = <<>> /\ got[s] # 0 =>
      \A n \in got[s] + 1 .. sent[Topic[s]] : InFlight(Topic[s], n)

\* While the connection holds, the next message is missing only from a full channel.
LostOnlyWhenFull ==
  disconnects = 0 =>
    \A s \in Subscribers : got[s] # 0 /\ inbox[s] # <<>> /\ inbox[s][1].n # got[s] + 1 =>
      Len(inbox[s]) = ChannelCapacity

FeedInv == TypeInv /\ OrderInv /\ ReadAfterJoin /\ Spaced /\ CaughtUp /\ LostOnlyWhenFull

-----------------------------------------------------------------------------
(* What a step can do to a receiver *)

\* Apart from what is read, pushed, dropped, lost or passed on, a step moves no message.
Quiet == UNCHANGED <<inbox, got, inbound, sent>> /\ disconnects' = disconnects

LEMMA FeedSteps ==
  ASSUME TypeInv, [Next]_vars
  PROVE  \/ Quiet
         \/ \E s \in Subscribers : Recv(s) \/ Depart({s})
         \/ \E t \in Topics, d \in Payloads \cup Publishers :
              Route(t, d) /\ UNCHANGED <<subVars, entry>> /\ disconnects' = disconnects
         \/ PollReceive
         \/ Disconnect
<1>1. ASSUME NEW s \in Subscribers, Subscribe(s) PROVE Quiet
  BY <1>1 DEF Quiet, Subscribe, CheckMap, BadQos, SendRequest, Insert, connVars, brokerVars
<1>2. ASSUME NEW s \in Subscribers, RecvClosed(s) PROVE Quiet
  BY <1>2 DEF Quiet, RecvClosed, connVars, brokerVars
<1>3. ASSUME (\E p \in Publishers : Publish(p)) \/ RemoveDead \/ Reconnect \/ UNCHANGED vars PROVE Quiet
  BY <1>3 DEF Quiet, Publish, RemoveDead, Reconnect, vars, subVars, connVars, brokerVars
<1>4. ASSUME PollSend
      PROVE  \/ Quiet
             \/ \E t \in Topics, d \in Payloads \cup Publishers :
                  Route(t, d) /\ UNCHANGED <<subVars, entry>> /\ disconnects' = disconnects
  <2> DEFINE r == Head(requests)
  <2>1. UNCHANGED <<subVars, entry>> /\ disconnects' = disconnects /\ UNCHANGED <<inbox, got>>
    BY <1>4 DEF PollSend, connVars, subVars
  <2>2. r \in Request /\ r = requests[1] /\ Len(requests) \in Nat \ {0}
    BY <1>4, RequestTail, EmptySeq DEF PollSend, TypeInv, TypeOK
  <2>3. r.op \in {"sub", "pub"} /\ r.topic \in Topics
    BY <2>2, RequestFields
  <2>4. CASE r.op = "pub" /\ r.topic \in brokerSubs
    <3>1. Route(r.topic, r.by)
      BY <1>4, <2>4 DEF PollSend
    <3>2. r.by \in Publishers
      BY <2>2, <2>4 DEF TypeInv, PublishersPublish
    <3> QED
      BY <2>1, <2>3, <3>1, <3>2
  <2>5. CASE ~(r.op = "pub" /\ r.topic \in brokerSubs)
    <3>1. UNCHANGED <<inbound, sent>>
      BY <1>4, <2>3, <2>5 DEF PollSend, brokerVars
    <3> QED
      BY <2>1, <3>1 DEF Quiet
  <2> QED
    BY <2>4, <2>5
<1>5. ASSUME NEW t \in Topics, NEW d \in Payloads, DevicePublishes(t, d)
      PROVE  Route(t, d) /\ UNCHANGED <<subVars, entry>> /\ disconnects' = disconnects
  BY <1>5 DEF DevicePublishes, connVars
<1> QED
  BY <1>1, <1>2, <1>3, <1>4, <1>5, LeaveDeparts DEF Next, Receive, EventLoop

\* A node that has joined its channel never joins another, and its channel never gets back into the map.
LEMMA NoRejoin ==
  ASSUME TypeInv, OrderInv, [Next]_vars, NEW s \in Subscribers, Made(s)
  PROVE  Made(s)' /\ (Attached(s)' => Attached(s))
<1>0. /\ sub \in [Subscribers -> SubStates] /\ chan \in [Subscribers -> Subscribers \cup {None}]
      /\ entry \in [Topics -> Subscribers \cup {None}] /\ Topic[s] \in Topics
  BY ClientFields DEF TypeInv, TypeOK
<1>1. sub[s] = "listening" => chan[s] # None /\ Made(chan[s])
  BY DEF OrderInv, ChannelsMade
<1>2. ASSUME UNCHANGED <<sub, chan, entry>> PROVE Made(s)' /\ (Attached(s)' => Attached(s))
  BY <1>2 DEF Made, Attached
<1>3. ASSUME NEW r \in Subscribers, CheckMap(r) \/ BadQos(r) \/ SendRequest(r)
      PROVE  Made(s)' /\ (Attached(s)' => Attached(s))
  <2>1. r # s
    BY <1>3 DEF CheckMap, BadQos, SendRequest, Made
  <2>2. sub'[s] = sub[s] /\ chan'[s] = chan[s] /\ entry' = entry
    BY <1>0, <1>3, <2>1 DEF CheckMap, BadQos, SendRequest
  <2> QED
    BY <2>2 DEF Made, Attached
<1>4. ASSUME NEW r \in Subscribers, Insert(r) PROVE Made(s)' /\ (Attached(s)' => Attached(s))
  <2>1. r # s /\ ~Made(r)
    BY <1>4 DEF Insert, Made
  <2>2. sub'[s] = sub[s] /\ chan'[s] = chan[s] /\ \A t \in Topics : entry'[t] = r \/ entry'[t] = entry[t]
    BY <1>0, <1>4, <2>1 DEF Insert
  <2> QED
    BY <1>0, <1>1, <2>1, <2>2 DEF Made, Attached
<1>5. ASSUME NEW r \in Subscribers, RecvClosed(r) \/ Leave(r) PROVE Made(s)' /\ (Attached(s)' => Attached(s))
  <2>1. chan' = chan /\ entry' = entry /\ (sub'[s] = sub[s] \/ sub'[s] \in {"closed", "gone"})
    BY <1>0, <1>5 DEF RecvClosed, Leave
  <2> QED
    BY <2>1 DEF Made, Attached
<1>6. ASSUME RemoveDead PROVE Made(s)' /\ (Attached(s)' => Attached(s))
  <2>1. UNCHANGED <<sub, chan>> /\ \A t \in Topics : entry'[t] = entry[t] \/ entry'[t] = None
    BY <1>0, <1>6 DEF RemoveDead, subVars
  <2> QED
    BY <1>0, <1>1, <2>1 DEF Made, Attached
<1>7. ASSUME \/ \E r \in Subscribers : Recv(r)
             \/ \E p \in Publishers : Publish(p)
             \/ PollSend \/ PollReceive \/ Reconnect \/ Disconnect
             \/ \E t \in Topics, d \in Payloads : DevicePublishes(t, d)
             \/ UNCHANGED vars
      PROVE  UNCHANGED <<sub, chan, entry>>
  BY <1>7 DEF Recv, Publish, PollSend, PollReceive, PassOn, Reconnect, Disconnect, DevicePublishes, vars, subVars
<1> QED
  BY <1>2, <1>3, <1>4, <1>5, <1>6, <1>7 DEF Next, Subscribe, Receive, EventLoop

LEMMA ReadAfterJoinStep ==
  ASSUME TypeInv, OrderInv, ReadAfterJoin, [Next]_vars
  PROVE  ReadAfterJoin'
<1> SUFFICES ASSUME NEW s \in Subscribers, got'[s] # 0 PROVE Made(s)'
  BY DEF ReadAfterJoin
<1>1. CASE got'[s] = got[s]
  BY <1>1, NoRejoin DEF ReadAfterJoin
<1>2. CASE got'[s] # got[s]
  <2>1. ASSUME NEW r \in Subscribers, Recv(r) PROVE Made(s)'
    <3>1. got \in [Subscribers -> Nat]
      BY DEF TypeInv, TypeOK
    <3>2. r = s
      BY <1>2, <2>1, <3>1 DEF Recv
    <3> QED
      BY <2>1, <3>2 DEF Recv, Made
  <2>2. ASSUME ~\E r \in Subscribers : Recv(r) PROVE got' = got
    BY <2>2, FeedSteps DEF Quiet, Depart, PollReceive, PassOn, Disconnect, subVars
  <2> QED
    BY <1>2, <2>1, <2>2
<1> QED
  BY <1>1, <1>2

\* What reading leaves in a channel.
LEMMA RecvFacts ==
  ASSUME TypeInv, NEW r \in Subscribers, Recv(r)
  PROVE  /\ UNCHANGED <<sub, chan, entry, inbound, sent>> /\ disconnects' = disconnects
         /\ inbox[r] # <<>> /\ sub[r] = "listening"
         /\ got' = [got EXCEPT ![r] = inbox[r][1].n] /\ got'[r] = inbox[r][1].n
         /\ \A s \in Subscribers : s # r => inbox'[s] = inbox[s] /\ got'[s] = got[s]
         /\ Len(inbox[r]) \in Nat /\ Len(inbox[r]) >= 1 /\ Len(inbox'[r]) = Len(inbox[r]) - 1
         /\ \A i \in 1 .. Len(inbox[r]) - 1 : inbox'[r][i] = inbox[r][i + 1]
         /\ \A i \in 1 .. Len(inbox[r]) : inbox[r][i].n \in Nat
<1>0. inbox \in [Subscribers -> Seq(Message)] /\ got \in [Subscribers -> Nat]
  BY DEF TypeInv, TypeOK
<1>1. UNCHANGED <<sub, chan, entry, inbound, sent>> /\ disconnects' = disconnects
  BY DEF Recv, connVars, brokerVars
<1>2. inbox[r] \in Seq(Message) /\ inbox[r] # <<>> /\ sub[r] = "listening"
  BY <1>0 DEF Recv
<1>3. Head(inbox[r]) = inbox[r][1]
  BY <1>2, TailFacts
<1>4. /\ inbox'[r] = Tail(inbox[r])
      /\ got' = [got EXCEPT ![r] = inbox[r][1].n] /\ got'[r] = inbox[r][1].n
      /\ \A s \in Subscribers : s # r => inbox'[s] = inbox[s] /\ got'[s] = got[s]
  BY <1>0, <1>3 DEF Recv
<1>5. /\ Len(inbox[r]) \in Nat /\ Len(inbox[r]) >= 1 /\ Len(inbox'[r]) = Len(inbox[r]) - 1
      /\ \A i \in 1 .. Len(inbox[r]) - 1 : inbox'[r][i] = inbox[r][i + 1]
  BY <1>2, <1>4, TailFacts
<1>6. \A i \in 1 .. Len(inbox[r]) : inbox[r][i].n \in Nat
  BY <1>2, ElementOfSeq, MessageFields
<1> QED
  BY <1>1, <1>2, <1>4, <1>5, <1>6

\* A message that is passed on goes to the attached receivers of its topic, and to no others.
LEMMA PollReceiveFacts ==
  ASSUME TypeInv, OrderInv, PollReceive
  PROVE  /\ UNCHANGED <<sub, chan, got, entry, sent>> /\ disconnects' = disconnects
         /\ inbound[1] \in Message /\ Len(inbound) \in Nat /\ Len(inbound) >= 1
         /\ \A s \in Subscribers :
              inbox'[s] = IF Attached(s) /\ Topic[s] = inbound[1].topic THEN Push(inbox[s], inbound[1]) ELSE inbox[s]
         /\ \A u \in Topics, n \in Nat : InFlight(u, n) /\ u # inbound[1].topic => InFlight(u, n)'
<1>0. entry \in [Topics -> Subscribers \cup {None}]
  BY DEF TypeInv, TypeOK
<1> DEFINE m == Head(inbound)
           t == m.topic
           receivers == IF entry[t] = None THEN {} ELSE Receivers(entry[t])
<1>1. m \in Message /\ t \in Topics /\ m = inbound[1]
  BY InboundHead, MessageFields DEF PollReceive
<1>2. /\ Len(inbound) \in Nat /\ Len(inbound) >= 1 /\ Len(inbound') = Len(inbound) - 1
      /\ \A i \in 1 .. Len(inbound) - 1 : inbound'[i] = inbound[i + 1]
  BY InboundHead DEF PollReceive
<1>3. UNCHANGED <<sub, chan, got, entry, sent>> /\ disconnects' = disconnects
  BY DEF PollReceive, PassOn, connVars
<1>4. \A s \in Subscribers : inbox'[s] = IF s \in receivers THEN Push(inbox[s], m) ELSE inbox[s]
  BY DEF PollReceive, PassOn
<1> HIDE DEF m, t, receivers
<1>5. ASSUME NEW s \in Subscribers PROVE s \in receivers <=> Attached(s) /\ Topic[s] = t
  <2>1. entry[t] # None => Topic[entry[t]] = t
    BY <1>1 DEF OrderInv, ChannelsMade
  <2>2. sub[s] = "listening" => chan[s] # None /\ Topic[chan[s]] = Topic[s]
    BY DEF OrderInv, ChannelsMade
  <2> QED
    BY <2>1, <2>2 DEF receivers, Receivers, Attached
<1>6. ASSUME NEW u \in Topics, NEW n \in Nat, InFlight(u, n), u # t PROVE InFlight(u, n)'
  <2>1. PICK j \in 1 .. Len(inbound) : inbound[j].topic = u /\ inbound[j].n = n
    BY <1>6 DEF InFlight
  <2>2. j # 1
    BY <1>1, <1>6, <2>1 DEF t
  <2>3. j - 1 \in 1 .. Len(inbound') /\ inbound'[j - 1] = inbound[j]
    BY <1>2, <2>2
  <2> QED
    BY <2>1, <2>3 DEF InFlight
<1>7. t = inbound[1].topic
  BY <1>1 DEF t
<1> QED
  BY <1>1, <1>2, <1>3, <1>4, <1>5, <1>6, <1>7

\* A message in the channel of s is older than the one that is passed on to s.
LEMMA PushedIsNewer ==
  ASSUME TypeInv, OrderInv, PollReceive, NEW s \in Subscribers, Topic[s] = inbound[1].topic
  PROVE  /\ inbound[1].n \in Nat /\ got[s] \in Nat /\ got[s] < inbound[1].n
         /\ \A i \in 1 .. Len(inbox[s]) : inbox[s][i].n \in Nat /\ inbox[s][i].n < inbound[1].n
<1>1. inbound[1] \in Message /\ 1 \in 1 .. Len(inbound)
  BY PollReceiveFacts
<1>2. got \in [Subscribers -> Nat]
  BY DEF TypeInv, TypeOK
<1>3. \A i \in 1 .. Len(inbox[s]) : inbox[s][i].n \in 1 .. sent[Topic[s]]
  BY DEF OrderInv, InboxOlder
<1>4. got[s] < inbound[1].n /\ \A i \in 1 .. Len(inbox[s]) : inbox[s][i].n < inbound[1].n
  BY <1>1 DEF OrderInv, InboxOlder
<1> QED
  BY <1>1, <1>2, <1>3, <1>4, MessageFields

LEMMA SpacedStep ==
  ASSUME TypeInv, OrderInv, Spaced, [Next]_vars
  PROVE  Spaced'
<1> SUFFICES ASSUME NEW s \in Subscribers,
                    NEW i \in 1 .. Len(inbox'[s]), NEW j \in i + 1 .. Len(inbox'[s])
             PROVE  inbox'[s][j].n >= inbox'[s][i].n + (j - i)
  BY DEF Spaced
<1>1. CASE inbox'[s] = inbox[s]
  BY <1>1 DEF Spaced
<1>2. ASSUME Recv(s) PROVE inbox'[s][j].n >= inbox'[s][i].n + (j - i)
  <2>1. /\ Len(inbox[s]) \in Nat /\ Len(inbox'[s]) = Len(inbox[s]) - 1
        /\ \A h \in 1 .. Len(inbox[s]) - 1 : inbox'[s][h] = inbox[s][h + 1]
        /\ \A h \in 1 .. Len(inbox[s]) : inbox[s][h].n \in Nat
    BY <1>2, RecvFacts
  <2>2. /\ i \in Int /\ j \in Int
        /\ i + 1 \in 1 .. Len(inbox[s]) /\ j + 1 \in (i + 1) + 1 .. Len(inbox[s])
        /\ i \in 1 .. Len(inbox[s]) - 1 /\ j \in 1 .. Len(inbox[s]) - 1
    BY <2>1
  <2>3. inbox[s][j + 1].n >= inbox[s][i + 1].n + ((j + 1) - (i + 1))
    BY <2>2 DEF Spaced
  <2>4. (j + 1) - (i + 1) = j - i
    BY <2>2
  <2> QED
    BY <2>1, <2>2, <2>3, <2>4
<1>3. ASSUME PollReceive, inbox'[s] # inbox[s] PROVE inbox'[s][j].n >= inbox'[s][i].n + (j - i)
  <2> DEFINE q == inbox[s]
             m == inbound[1]
             p == Push(q, m)
  <2>1. /\ q \in Seq(Message) /\ Len(q) <= ChannelCapacity /\ Len(q) \in Nat
        /\ m \in Message /\ inbox'[s] = p /\ Topic[s] = m.topic
    BY <1>3, PollReceiveFacts, LenProperties DEF TypeInv, TypeOK
  <2>2. m.n \in Nat /\ \A h \in 1 .. Len(q) : q[h].n \in Nat /\ q[h].n < m.n
    BY <1>3, <2>1, PushedIsNewer
  <2>3. \A h \in 1 .. Len(q) : \A l \in h + 1 .. Len(q) : q[l].n >= q[h].n + (l - h)
    BY DEF Spaced
  <2> HIDE DEF q, m
  <2>4. p[Len(p)] = m
    BY <2>1, PushFacts
  <2>5. PICK k \in {0, 1} : Len(p) = Len(q) + 1 - k /\ \A h \in 1 .. Len(q) - k : p[h] = q[h + k]
    BY <2>1, PushFacts, Zenon
  <2> HIDE DEF p
  <2>6. i \in 1 .. Len(p) /\ j \in i + 1 .. Len(p) /\ i \in Int /\ j \in Int /\ k \in Int
    BY <2>1
  <2>7. i \in 1 .. Len(q) - k /\ i + k \in 1 .. Len(q) /\ p[i] = q[i + k]
    BY <2>1, <2>5, <2>6
  <2>8. CASE j = Len(p)
    <3>1. p[j] = m
      BY <2>4, <2>8
    <3>2. CASE i + k = Len(q)
      <4>1. j - i = 1
        BY <2>1, <2>5, <2>6, <2>8, <3>2
      <4>2. q[i + k].n \in Nat /\ q[i + k].n < m.n
        BY <2>2, <2>7
      <4> QED
        BY <2>1, <2>2, <2>7, <3>1, <4>1, <4>2
    <3>3. CASE i + k # Len(q)
      <4>1. Len(q) \in (i + k) + 1 .. Len(q) /\ Len(q) \in 1 .. Len(q)
        BY <2>1, <2>5, <2>6, <2>7, <3>3
      <4>2. q[Len(q)].n >= q[i + k].n + (Len(q) - (i + k))
        BY <2>3, <2>7, <4>1
      <4>3. j - i = Len(q) - (i + k) + 1
        BY <2>1, <2>5, <2>6, <2>8
      <4>4. q[Len(q)].n \in Nat /\ q[i + k].n \in Nat /\ q[Len(q)].n < m.n
        BY <2>2, <2>7, <4>1
      <4>5. m.n >= q[i + k].n + (j - i)
        <5>1. \A a, b, c, l \in Int : b >= a + l /\ b < c => c >= a + (l + 1)
          OBVIOUS
        <5>2. Len(q) - (i + k) \in Int /\ j - i = (Len(q) - (i + k)) + 1
          BY <2>1, <2>6, <4>3
        <5>3. q[Len(q)].n \in Int /\ q[i + k].n \in Int /\ m.n \in Int
          BY <2>2, <4>4
        <5>4. m.n >= q[i + k].n + ((Len(q) - (i + k)) + 1)
          BY <4>2, <4>4, <5>1, <5>2, <5>3, Zenon
        <5> QED
          BY <5>2, <5>4, Zenon
      <4> QED
        BY <2>1, <2>7, <3>1, <4>5
    <3> QED
      BY <3>2, <3>3
  <2>9. CASE j # Len(p)
    <3>1. j \in 1 .. Len(q) - k /\ j + k \in (i + k) + 1 .. Len(q) /\ (j + k) - (i + k) = j - i
      BY <2>1, <2>5, <2>6, <2>9
    <3>2. p[j] = q[j + k]
      BY <2>5, <3>1
    <3>3. q[j + k].n >= q[i + k].n + ((j + k) - (i + k))
      BY <2>3, <2>7, <3>1
    <3> QED
      BY <2>1, <2>7, <3>1, <3>2, <3>3
  <2> QED
    BY <2>8, <2>9
<1>4. ASSUME NEW r \in Subscribers, Depart({r}) PROVE inbox'[s] = inbox[s] \/ inbox'[s] = <<>>
  BY <1>4 DEF Depart
<1>5. inbox'[s] # <<>>
  <2>1. Len(<<>>) = 0
    BY EmptySeq
  <2> QED
    BY <2>1
<1>6. ASSUME NEW r \in Subscribers, Recv(r), r # s PROVE inbox'[s] = inbox[s]
  BY <1>6, RecvFacts
<1>7. ASSUME \/ Quiet \/ Disconnect
             \/ \E t \in Topics, d \in Payloads \cup Publishers :
                  Route(t, d) /\ UNCHANGED <<subVars, entry>> /\ disconnects' = disconnects
      PROVE  inbox'[s] = inbox[s]
  BY <1>7 DEF Quiet, Disconnect, subVars
<1> QED
  BY <1>1, <1>2, <1>3, <1>4, <1>5, <1>6, <1>7, FeedSteps

LEMMA DisconnectCounts ==
  ASSUME TypeInv, [Next]_vars, disconnects' = 0
  PROVE  disconnects = 0 /\ ~Disconnect
<1>0. disconnects \in Nat
  BY DEF TypeInv, TypeOK
<1>1. ~Disconnect
  BY <1>0 DEF Disconnect
<1>2. disconnects' = disconnects
  BY <1>1, FeedSteps, RecvFacts DEF Quiet, Depart, connVars, PollReceive, PassOn
<1> QED
  BY <1>1, <1>2

\* What is in flight stays so but for the message that is passed on.
LEMMA StaysInFlight ==
  ASSUME TypeInv, NEW u \in Topics, NEW n, InFlight(u, n), NEW t \in Topics, NEW d \in Payloads \cup Publishers,
         Route(t, d)
  PROVE  InFlight(u, n)'
<1>1. Len(inbound) \in Nat
  BY LenProperties DEF TypeInv, TypeOK
<1>2. Len(inbound') = Len(inbound) + 1 /\ \A i \in 1 .. Len(inbound) : inbound'[i] = inbound[i]
  BY RouteFacts
<1> QED
  BY <1>1, <1>2 DEF InFlight

LEMMA CaughtUpStep ==
  ASSUME TypeInv, OrderInv, ReadAfterJoin, CaughtUp, [Next]_vars
  PROVE  CaughtUp'
<1> SUFFICES ASSUME disconnects' = 0, NEW s \in Subscribers, Attached(s)', inbox'[s] = <<>>, got'[s] # 0,
                    NEW n \in got'[s] + 1 .. sent'[Topic[s]]
             PROVE  InFlight(Topic[s], n)'
  BY DEF CaughtUp, InFlight
<1>0. /\ disconnects = 0 /\ ~Disconnect /\ Topic[s] \in Topics
      /\ sent \in [Topics -> Nat] /\ got \in [Subscribers -> Nat] /\ inbox \in [Subscribers -> Seq(Message)]
  BY DisconnectCounts, ClientFields DEF TypeInv, TypeOK
\* A step after which s has read what it had read, and still has nothing to read.
<1>1. ASSUME inbox'[s] = inbox[s], got'[s] = got[s]
      PROVE  \A l \in got[s] + 1 .. sent[Topic[s]] : InFlight(Topic[s], l)
  <2>1. Made(s)
    BY <1>1 DEF ReadAfterJoin
  <2>2. Attached(s)
    BY <2>1, NoRejoin
  <2> QED
    BY <1>0, <1>1, <2>2 DEF CaughtUp
<1>2. ASSUME Quiet PROVE InFlight(Topic[s], n)'
  <2>1. n \in got[s] + 1 .. sent[Topic[s]]
    BY <1>2 DEF Quiet
  <2>2. InFlight(Topic[s], n)
    BY <1>1, <1>2, <2>1 DEF Quiet
  <2> QED
    BY <1>2, <2>2 DEF Quiet, InFlight
<1>3. ASSUME NEW r \in Subscribers, Recv(r) PROVE InFlight(Topic[s], n)'
  <2>0. UNCHANGED <<sub, chan, entry, inbound, sent>>
    BY <1>3, RecvFacts
  <2>1. CASE r # s
    <3>1. inbox'[s] = inbox[s] /\ got'[s] = got[s]
      BY <1>3, <2>1, RecvFacts
    <3>2. n \in got[s] + 1 .. sent[Topic[s]]
      BY <2>0, <3>1
    <3> QED
      BY <1>1, <2>0, <3>1, <3>2 DEF InFlight
  <2>2. CASE r = s
    <3>1. /\ inbox[s] # <<>> /\ got'[s] = inbox[s][1].n
          /\ Len(inbox[s]) \in Nat /\ Len(inbox'[s]) = Len(inbox[s]) - 1
      BY <1>3, <2>2, RecvFacts
    <3>2. Len(inbox[s]) = 1
      <4>1. Len(<<>>) = 0
        BY EmptySeq
      <4> QED
        BY <3>1, <4>1
    <3>3. Attached(s)
      BY <2>0 DEF Attached
    <3>4. \A l \in inbox[s][1].n + 1 .. sent[Topic[s]] : InFlight(Topic[s], l)
      BY <1>0, <3>1, <3>2, <3>3 DEF OrderInv, InboxContinued
    <3>5. n \in inbox[s][1].n + 1 .. sent[Topic[s]]
      BY <2>0, <3>1
    <3> QED
      BY <2>0, <3>4, <3>5 DEF InFlight
  <2> QED
    BY <2>1, <2>2
<1>4. ASSUME NEW r \in Subscribers, Depart({r}) PROVE InFlight(Topic[s], n)'
  <2>1. UNCHANGED <<got, sent, inbound>> /\ (inbox'[s] = inbox[s] \/ s = r)
    BY <1>4 DEF Depart, brokerVars
  <2>2. s # r
    BY <1>4 DEF Depart, Attached
  <2>3. n \in got[s] + 1 .. sent[Topic[s]]
    BY <2>1
  <2> QED
    BY <1>1, <2>1, <2>2, <2>3 DEF InFlight
<1>5. ASSUME NEW t \in Topics, NEW d \in Payloads \cup Publishers, Route(t, d), UNCHANGED <<subVars, entry>>
      PROVE  InFlight(Topic[s], n)'
  <2>1. inbox'[s] = inbox[s] /\ got'[s] = got[s] /\ got[s] \in Nat /\ sent[Topic[s]] \in Nat
    BY <1>0, <1>5 DEF subVars
  <2>2. CASE n \in got[s] + 1 .. sent[Topic[s]]
    BY <1>0, <1>1, <1>5, <2>1, <2>2, StaysInFlight
  <2>3. CASE n \notin got[s] + 1 .. sent[Topic[s]]
    <3>1. /\ Len(inbound') = Len(inbound) + 1 /\ Len(inbound) \in Nat
          /\ inbound'[Len(inbound) + 1].topic = t /\ inbound'[Len(inbound) + 1].n = sent[t] + 1
      BY <1>5, RouteFacts, LenProperties DEF TypeInv, TypeOK
    <3>2. sent' = [sent EXCEPT ![t] = @ + 1]
      BY <1>5 DEF Route
    <3>3. sent'[Topic[s]] = IF Topic[s] = t THEN sent[Topic[s]] + 1 ELSE sent[Topic[s]]
      BY <1>0, <3>2
    <3>4. Topic[s] = t /\ n = sent[t] + 1
      BY <1>0, <2>1, <2>3, <3>3
    <3>5. Len(inbound) + 1 \in 1 .. Len(inbound')
      BY <3>1
    <3> QED
      BY <3>1, <3>4, <3>5 DEF InFlight
  <2> QED
    BY <2>2, <2>3
<1>6. ASSUME PollReceive PROVE InFlight(Topic[s], n)'
  <2>1. /\ UNCHANGED <<sub, chan, got, entry, sent>> /\ inbound[1] \in Message
        /\ inbox'[s] = IF Attached(s) /\ Topic[s] = inbound[1].topic THEN Push(inbox[s], inbound[1]) ELSE inbox[s]
    BY <1>6, PollReceiveFacts
  <2>2. Push(inbox[s], inbound[1]) # <<>>
    <3>1. inbox[s] \in Seq(Message) /\ Len(inbox[s]) <= ChannelCapacity
      BY DEF TypeInv, TypeOK
    <3>2. Len(Push(inbox[s], inbound[1])) \in 1 .. ChannelCapacity
      BY <2>1, <3>1, PushFacts
    <3>3. Len(<<>>) = 0
      BY EmptySeq
    <3> QED
      BY <3>2, <3>3
  <2>3. Attached(s)
    BY <2>1 DEF Attached
  <2>4. inbox'[s] = inbox[s] /\ Topic[s] # inbound[1].topic
    BY <2>1, <2>2, <2>3
  <2>5. n \in got[s] + 1 .. sent[Topic[s]] /\ n \in Nat
    BY <1>0, <2>1
  <2>6. InFlight(Topic[s], n)
    BY <1>1, <2>1, <2>4, <2>5
  <2> QED
    BY <1>0, <1>6, <2>4, <2>5, <2>6, PollReceiveFacts
<1> QED
  BY <1>0, <1>2, <1>3, <1>4, <1>5, <1>6, FeedSteps

LEMMA LostOnlyWhenFullStep ==
  ASSUME TypeInv, OrderInv, CaughtUp, LostOnlyWhenFull, [Next]_vars
  PROVE  LostOnlyWhenFull'
<1> SUFFICES ASSUME disconnects' = 0, NEW s \in Subscribers,
                    got'[s] # 0, inbox'[s] # <<>>, inbox'[s][1].n # got'[s] + 1
             PROVE  Len(inbox'[s]) = ChannelCapacity
  BY DEF LostOnlyWhenFull
<1>0. /\ disconnects = 0 /\ ~Disconnect /\ Topic[s] \in Topics /\ ChannelCapacity \in Nat \ {0}
      /\ sent \in [Topics -> Nat] /\ got \in [Subscribers -> Nat] /\ inbox[s] \in Seq(Message)
      /\ Len(inbox[s]) <= ChannelCapacity
  BY DisconnectCounts, ClientFields DEF TypeInv, TypeOK
<1>1. ASSUME inbox'[s] = inbox[s], got'[s] = got[s] PROVE Len(inbox'[s]) = ChannelCapacity
  BY <1>0, <1>1 DEF LostOnlyWhenFull
<1>2. ASSUME Recv(s) PROVE FALSE
  <2>1. /\ got'[s] = inbox[s][1].n /\ disconnects' = disconnects
        /\ Len(inbox[s]) \in Nat /\ Len(inbox'[s]) = Len(inbox[s]) - 1
        /\ \A i \in 1 .. Len(inbox[s]) - 1 : inbox'[s][i] = inbox[s][i + 1]
    BY <1>2, RecvFacts
  <2>2. Len(inbox'[s]) # 0
    <3>1. inbox'[s] \in Seq(Message)
      BY TypeInvStep DEF TypeInv, TypeOK
    <3> QED
      BY <3>1, EmptySeq
  <2>3. 1 \in 1 .. Len(inbox[s]) - 1 /\ 2 \in 2 .. Len(inbox[s])
    BY <2>1, <2>2
  <2>4. inbox'[s][1] = inbox[s][2]
    BY <2>1, <2>3
  <2>5. inbox[s][2].n = inbox[s][2 - 1].n + 1
    BY <1>0, <2>3 DEF OrderInv, InOrder
  <2> QED
    BY <2>1, <2>4, <2>5
<1>3. ASSUME NEW r \in Subscribers, Recv(r), r # s PROVE inbox'[s] = inbox[s] /\ got'[s] = got[s]
  BY <1>3, RecvFacts
<1>4. ASSUME NEW r \in Subscribers, Depart({r}) PROVE inbox'[s] = inbox[s] /\ got'[s] = got[s]
  BY <1>4 DEF Depart
<1>5. ASSUME \/ Quiet
             \/ \E t \in Topics, d \in Payloads \cup Publishers :
                  Route(t, d) /\ UNCHANGED <<subVars, entry>> /\ disconnects' = disconnects
      PROVE  inbox'[s] = inbox[s] /\ got'[s] = got[s]
  BY <1>5 DEF Quiet, subVars
<1>6. ASSUME PollReceive PROVE Len(inbox'[s]) = ChannelCapacity
  <2> DEFINE m == inbound[1]
  <2>1. /\ got' = got /\ m \in Message /\ Len(inbound) \in Nat /\ Len(inbound) >= 1
        /\ inbox'[s] = IF Attached(s) /\ Topic[s] = m.topic THEN Push(inbox[s], m) ELSE inbox[s]
    BY <1>6, PollReceiveFacts
  <2>2. CASE ~(Attached(s) /\ Topic[s] = m.topic)
    BY <1>1, <2>1, <2>2
  <2>3. CASE Attached(s) /\ Topic[s] = m.topic
    <3>1. inbox'[s] = Push(inbox[s], m) /\ m.n \in Nat /\ got[s] \in Nat /\ got[s] < m.n
      BY <1>6, <2>1, <2>3, PushedIsNewer
    <3>2. Len(inbox[s]) \in Nat
      BY <1>0, LenProperties
    <3>3. CASE Len(inbox[s]) >= ChannelCapacity
      <4>1. Len(inbox[s]) = ChannelCapacity
        BY <1>0, <3>2, <3>3
      <4>2. \E k \in {0, 1} : Len(Push(inbox[s], m)) = Len(inbox[s]) + 1 - k
        BY <1>0, <2>1, PushFacts
      <4>3. Len(Push(inbox[s], m)) \in 1 .. ChannelCapacity
        BY <1>0, <2>1, PushFacts
      <4> QED
        BY <1>0, <3>1, <4>1, <4>2, <4>3
    <3>4. CASE Len(inbox[s]) < ChannelCapacity
      <4>1. inbox'[s] = Append(inbox[s], m)
        BY <3>1, <3>4 DEF Push
      <4>2. CASE inbox[s] # <<>>
        <5>1. Len(inbox[s]) >= 1
          BY <1>0, <4>2, EmptySeq
        <5>2. inbox'[s][1] = inbox[s][1]
          <6>1. \A i \in 1 .. Len(inbox[s]) : Append(inbox[s], m)[i] = inbox[s][i]
            BY <1>0, <2>1, AppendProperties
          <6>2. 1 \in 1 .. Len(inbox[s])
            BY <3>2, <5>1
          <6> QED
            BY <4>1, <6>1, <6>2
        <5>3. Len(inbox[s]) = ChannelCapacity
          BY <1>0, <2>1, <4>2, <5>2 DEF LostOnlyWhenFull
        <5> QED
          BY <1>0, <3>4, <5>3
      <4>3. CASE inbox[s] = <<>>
        <5>1. inbox'[s][1] = m
          BY <1>0, <2>1, <4>1, <4>3, AppendProperties, EmptySeq
        <5>2. got[s] # 0 /\ m.n > got[s] + 1
          BY <2>1, <3>1, <5>1
        <5>3. m.n \in 1 .. sent[Topic[s]] /\ \A j \in 1 + 1 .. Len(inbound) : inbound[j].topic = Topic[s] => m.n < inbound[j].n
          <6>1. 1 \in 1 .. Len(inbound) /\ inbound[1].topic = Topic[s]
            BY <2>1, <2>3
          <6>2. InboundNumbered
            BY DEF OrderInv
          <6> QED
            BY <1>0, <6>1, <6>2 DEF InboundNumbered
        <5>4. got[s] + 1 \in got[s] + 1 .. sent[Topic[s]]
          BY <1>0, <3>1, <5>2, <5>3
        <5>5. InFlight(Topic[s], got[s] + 1)
          BY <1>0, <2>3, <4>3, <5>2, <5>4 DEF CaughtUp
        <5>6. PICK j \in 1 .. Len(inbound) : inbound[j].topic = Topic[s] /\ inbound[j].n = got[s] + 1
          BY <5>5 DEF InFlight
        <5>7. CASE j = 1
          BY <3>1, <5>2, <5>6, <5>7
        <5>8. CASE j # 1
          <6>1. j \in 1 + 1 .. Len(inbound)
            BY <2>1, <5>8
          <6>2. m.n < got[s] + 1
            BY <5>3, <5>6, <6>1
          <6> QED
            BY <3>1, <5>2, <6>2
        <5> QED
          BY <5>7, <5>8
      <4> QED
        BY <4>2, <4>3
    <3> QED
      BY <1>0, <3>2, <3>3, <3>4
  <2> QED
    BY <2>2, <2>3
<1> QED
  BY <1>0, <1>1, <1>2, <1>3, <1>4, <1>5, <1>6, FeedSteps

LEMMA FeedInductive == Safety => []FeedInv
<1>1. Init => FeedInv
  <2> SUFFICES ASSUME Init PROVE FeedInv
    OBVIOUS
  <2>1. TypeInv /\ OrderInv
    BY TypeInvInit, OrderInvInit
  <2>2. \A s \in Subscribers : got[s] = 0 /\ inbox[s] = <<>>
    BY DEF Init
  <2>3. Len(<<>>) = 0 /\ 1 .. 0 = {}
    BY EmptySeq
  <2>4. ReadAfterJoin /\ CaughtUp /\ LostOnlyWhenFull
    BY <2>2 DEF ReadAfterJoin, CaughtUp, LostOnlyWhenFull
  <2>5. Spaced
    BY <2>2, <2>3 DEF Spaced
  <2> QED
    BY <2>1, <2>4, <2>5 DEF FeedInv
<1>2. FeedInv /\ [Next]_vars => FeedInv'
  BY TypeInvStep, OrderInvStep, ReadAfterJoinStep, SpacedStep, CaughtUpStep, LostOnlyWhenFullStep DEF FeedInv
<1> QED
  BY <1>1, <1>2, PTL DEF Safety

-----------------------------------------------------------------------------
(* The promise *)

States == [s \in Subscribers |-> ReaderState(s)]

\* The state of a reader under the mapping, and whether the connection was ever lost.
LEMMA FeedInit == Init => Feed!Init
BY DEF Init, Feed!Init, ReaderState

\* While nothing is read, passed on or lost, a subscriber joins, ends or stands still.
LEMMA ReaderMoves ==
  ASSUME TypeInv, NEW r \in Subscribers, \A s \in Subscribers : s # r => sub'[s] = sub[s],
         UNCHANGED <<got, sent, disconnects>>,
         \/ ReaderState(r)' = ReaderState(r)
         \/ ReaderState(r) = "outside" /\ ReaderState(r)' = "listening"
         \/ ReaderState(r) # "ended" /\ ReaderState(r)' = "ended"
  PROVE  [Feed!Next]_(Feed!vars)
<1>1. \A s \in Subscribers : s # r => ReaderState(s)' = ReaderState(s)
  BY DEF ReaderState
<1>2. States[r] = ReaderState(r) /\ States' = [States EXCEPT ![r] = ReaderState(r)']
  BY <1>1 DEF States
<1>3. CASE ReaderState(r)' = ReaderState(r)
  <2>1. States' = States
    BY <1>1, <1>3 DEF States
  <2> QED
    BY <2>1 DEF Feed!vars, States
<1>4. CASE ReaderState(r) = "outside" /\ ReaderState(r)' = "listening"
  <2>1. Feed!Join(r)
    BY <1>2, <1>4 DEF Feed!Join, States
  <2> QED
    BY <2>1 DEF Feed!Next
<1>5. CASE ReaderState(r) # "ended" /\ ReaderState(r)' = "ended"
  <2>1. Feed!End(r)
    BY <1>2, <1>5 DEF Feed!End, States
  <2> QED
    BY <2>1 DEF Feed!Next
<1> QED
  BY <1>3, <1>4, <1>5

\* A node reads the next message, or has fallen behind by more than its channel holds.
LEMMA RecvIsRead ==
  ASSUME FeedInv, NEW r \in Subscribers, Recv(r)
  PROVE  Feed!Next
<1>0. /\ TypeInv /\ OrderInv /\ disconnects \in Nat /\ ChannelCapacity \in Nat \ {0}
      /\ got[r] \in Nat /\ sent[Topic[r]] \in Nat
  BY ClientFields DEF FeedInv, TypeInv, TypeOK
<1> DEFINE n == inbox[r][1].n
           l == Len(inbox[r])
<1>1. /\ UNCHANGED <<sub, sent>> /\ disconnects' = disconnects
      /\ inbox[r] # <<>> /\ sub[r] = "listening"
      /\ got' = [got EXCEPT ![r] = n]
      /\ l \in Nat /\ l >= 1
  BY <1>0, RecvFacts
<1>2. 1 \in 1 .. l
  BY <1>1
<1>3. n > got[r] /\ n \in 1 .. sent[Topic[r]]
  BY <1>0, <1>2 DEF OrderInv, InOrder, InboxOlder
<1>4. n \in got[r] + 1 .. sent[Topic[r]]
  BY <1>0, <1>3
<1>5. ASSUME got[r] > 0, n # got[r] + 1, ~(disconnects > 0) PROVE sent[Topic[r]] - got[r] > ChannelCapacity
  <2>1. disconnects = 0
    BY <1>0, <1>5
  <2>2. l = ChannelCapacity
    BY <1>0, <1>1, <1>5, <2>1 DEF FeedInv, LostOnlyWhenFull
  <2>3. l \in 1 .. l
    BY <1>1
  <2>4. inbox[r][l].n \in 1 .. sent[Topic[r]]
    BY <1>0, <2>3 DEF OrderInv, InboxOlder
  <2>5. inbox[r][l].n >= n + (l - 1)
    <3>1. CASE l = 1
      <4>1. inbox[r][l].n = n /\ n \in Nat /\ n + (l - 1) = n
        BY <1>3, <3>1
      <4> QED
        BY <4>1
    <3>2. CASE l # 1
      <4>1. l \in 1 + 1 .. l
        <5> HIDE DEF l
        <5>1. \A x \in Nat : x >= 1 /\ x # 1 => x \in 1 + 1 .. x
          OBVIOUS
        <5> QED
          BY <1>1, <3>2, <5>1, Zenon
      <4> QED
        BY <1>2, <4>1 DEF FeedInv, Spaced
    <3> QED
      BY <3>1, <3>2
  <2>6. inbox[r][l].n \in Nat /\ inbox[r][l].n <= sent[Topic[r]] /\ n \in Nat /\ n >= got[r] + 2
    BY <1>0, <1>3, <1>5, <2>4
  <2> HIDE DEF n, l
  <2>7. \A a, b, c, g, t \in Int : a >= b + (c - 1) /\ a <= t /\ b >= g + 2 => t - g > c
    OBVIOUS
  <2>8. inbox[r][l].n \in Int /\ n \in Int /\ l \in Int /\ got[r] \in Int /\ sent[Topic[r]] \in Int
    BY <1>0, <1>1, <2>6
  <2>9. sent[Topic[r]] - got[r] > l
    BY <2>5, <2>6, <2>7, <2>8, Zenon
  <2> QED
    BY <2>2, <2>9
<1>6. States[r] = "listening" /\ States' = States
  BY <1>1 DEF States, ReaderState
<1>7. got[r] > 0 /\ n # got[r] + 1 => disconnects > 0 \/ Feed!Behind(r) > ChannelCapacity
  BY <1>5 DEF Feed!Behind
<1> HIDE DEF n
<1>8. Feed!Read(r, n)
  BY <1>1, <1>4, <1>6, <1>7 DEF Feed!Read, States
<1> QED
  BY <1>4, <1>8 DEF Feed!Next

LEMMA StepKeepsFeed ==
  ASSUME FeedInv, [Next]_vars
  PROVE  [Feed!Next]_(Feed!vars)
<1>0. TypeInv /\ disconnects \in Nat /\ sub \in [Subscribers -> SubStates]
  BY DEF FeedInv, TypeInv, TypeOK
<1>1. ASSUME UNCHANGED <<sub, got, sent, disconnects>> PROVE UNCHANGED Feed!vars
  BY <1>1 DEF Feed!vars, ReaderState
<1>2. ASSUME NEW r \in Subscribers, Subscribe(r) \/ RecvClosed(r) \/ Leave(r) PROVE [Feed!Next]_(Feed!vars)
  <2>1. UNCHANGED <<got, sent, disconnects>> /\ \A s \in Subscribers : s # r => sub'[s] = sub[s]
    BY <1>0, <1>2 DEF Subscribe, CheckMap, BadQos, SendRequest, Insert, RecvClosed, Closed, Leave, connVars, brokerVars
  <2>2. CASE Subscribe(r)
    <3>1. sub[r] \in {"idle", "requesting", "inserting"} /\ sub'[r] \in {"requesting", "inserting", "listening", "failed"}
      BY <1>0, <2>2 DEF Subscribe, CheckMap, BadQos, SendRequest, Insert
    <3>2. \/ ReaderState(r)' = ReaderState(r)
          \/ ReaderState(r) = "outside" /\ ReaderState(r)' \in {"listening", "ended"}
      BY <3>1 DEF ReaderState
    <3> QED
      BY <1>0, <2>1, <3>2, ReaderMoves
  <2>3. CASE RecvClosed(r) \/ Leave(r)
    <3>1. sub[r] \in {"requesting", "listening"} /\ sub'[r] \in {"closed", "gone"}
      BY <1>0, <2>3 DEF RecvClosed, Closed, Leave
    <3>2. ReaderState(r) # "ended" /\ ReaderState(r)' = "ended"
      BY <3>1 DEF ReaderState
    <3> QED
      BY <1>0, <2>1, <3>2, ReaderMoves
  <2> QED
    BY <1>2, <2>2, <2>3
<1>3. ASSUME NEW t \in Topics, NEW d \in Payloads \cup Publishers,
             Route(t, d), UNCHANGED <<subVars, entry>>, disconnects' = disconnects
      PROVE  Feed!Next
  <2>1. Feed!PassOn(t)
    BY <1>3 DEF Route, Feed!PassOn, subVars, ReaderState
  <2> QED
    BY <2>1 DEF Feed!Next
<1>4. ASSUME Disconnect PROVE Feed!Next
  <2>1. disconnects' > 0
    BY <1>0, <1>4 DEF Disconnect
  <2>2. Feed!Lose
    BY <1>4, <2>1 DEF Disconnect, Feed!Lose, subVars, ReaderState
  <2> QED
    BY <2>2 DEF Feed!Next
<1>5. ASSUME PollReceive PROVE UNCHANGED <<sub, got, sent, disconnects>>
  BY <1>5 DEF PollReceive, PassOn, connVars
<1>6. ASSUME (\E p \in Publishers : Publish(p)) \/ RemoveDead \/ Reconnect \/ UNCHANGED vars
      PROVE  UNCHANGED <<sub, got, sent, disconnects>>
  BY <1>6 DEF Publish, RemoveDead, Reconnect, vars, subVars, connVars, brokerVars
<1>7. ASSUME PollSend
      PROVE  \/ UNCHANGED <<sub, got, sent, disconnects>>
             \/ \E t \in Topics, d \in Payloads \cup Publishers :
                  Route(t, d) /\ UNCHANGED <<subVars, entry>> /\ disconnects' = disconnects
  <2>1. UNCHANGED sub
    BY <1>7 DEF PollSend, subVars
  <2>2. ~\E s \in Subscribers : Recv(s) \/ Depart({s})
    <3>1. ASSUME NEW s \in Subscribers, Recv(s) PROVE FALSE
      <4>1. inbox[s] # <<>> /\ Len(inbox[s]) \in Nat /\ Len(inbox'[s]) = Len(inbox[s]) - 1
        BY <1>0, <3>1, RecvFacts
      <4>2. inbox' = inbox
        BY <1>7 DEF PollSend, subVars
      <4> QED
        BY <4>1, <4>2
    <3>2. ASSUME NEW s \in Subscribers, Depart({s}) PROVE FALSE
      <4>1. requests' = requests
        BY <3>2 DEF Depart
      <4>2. Len(requests) \in Nat /\ Len(requests') = Len(requests) - 1
        BY <1>0, <1>7, RequestTail DEF PollSend
      <4> QED
        BY <4>1, <4>2
    <3> QED
      BY <3>1, <3>2
  <2>3. ~PollReceive /\ ~Disconnect
    <3>1. Len(requests) \in Nat /\ Len(requests') = Len(requests) - 1
      BY <1>0, <1>7, RequestTail DEF PollSend
    <3>2. ASSUME PollReceive PROVE FALSE
      BY <3>1, <3>2 DEF PollReceive, PassOn
    <3>3. ASSUME Disconnect PROVE FALSE
      BY <1>0, <1>7, <3>3 DEF PollSend, Disconnect, connVars
    <3> QED
      BY <3>2, <3>3
  <2>4. Next
    BY <1>7 DEF Next, EventLoop
  <2> QED
    BY <1>0, <2>1, <2>2, <2>3, <2>4, FeedSteps DEF Quiet
<1>8. ASSUME NEW t \in Topics, NEW d \in Payloads, DevicePublishes(t, d) PROVE Feed!Next
  BY <1>3, <1>8 DEF DevicePublishes, connVars
<1> QED
  BY <1>1, <1>2, <1>3, <1>4, <1>5, <1>6, <1>7, <1>8, RecvIsRead DEF Next, Receive, EventLoop

\* MqttHandle implements TopicFeed: a node reads what is passed on to it in order and each message at
\* most once, and misses one only if it lags by more than a channel or the connection was lost,
\* whatever the map, the request channel and the other nodes do.
THEOREM ImplementsFeed == Safety => KeepsFeed
BY FeedInit, FeedInductive, StepKeepsFeed, PTL DEF Safety, KeepsFeed, Feed!Spec
=============================================================================
