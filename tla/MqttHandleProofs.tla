-------------------------- MODULE MqttHandleProofs --------------------------
(***************************************************************************)
(* Proofs about MqttHandle for every set of nodes, topics and payloads,     *)
(* every capacity of the channels and any number of messages and            *)
(* disconnects.                                                             *)
(***************************************************************************)
EXTENDS MqttHandle, TLAPS, SequenceTheorems

USE HandleAssumption

\* Only a publish call puts a publish request into the channel.
PublishersPublish ==
  \A i \in 1 .. Len(requests) : requests[i].op = "pub" => requests[i].by \in Publishers

TypeInv == TypeOK /\ PublishersPublish

\* The creator of channel c has put it into the map, some time.
Made(c) == sub[c] \notin {"idle", "requesting", "inserting"}

\* Map and receivers name channels of the right topic that were put into the map; so no node
\* listens to a channel that is still to be inserted.
ChannelsMade ==
  /\ \A t \in Topics : entry[t] # None => Topic[entry[t]] = t /\ Made(entry[t])
  /\ \A s \in Subscribers :
       /\ sub[s] = "listening" => chan[s] # None /\ Topic[chan[s]] = Topic[s] /\ Made(chan[s])
       /\ sub[s] \in {"requesting", "inserting"} => chan[s] = s
       /\ sub[s] # "listening" => inbox[s] = <<>>

InFlight(t, n) == \E i \in 1 .. Len(inbound) : inbound[i].topic = t /\ inbound[i].n = n

\* What is on its way from the broker is the newest of each topic, in order and without a gap.
InboundNumbered ==
  \A t \in Topics : \A i \in 1 .. Len(inbound) : inbound[i].topic = t =>
    /\ inbound[i].n \in 1 .. sent[t]
    /\ \A j \in i + 1 .. Len(inbound) : inbound[j].topic = t => inbound[i].n < inbound[j].n
    /\ \A n \in inbound[i].n .. sent[t] : InFlight(t, n)

\* What a receiver has is older than what is on its way.
InboxOlder ==
  \A s \in Subscribers :
    /\ got[s] <= sent[Topic[s]]
    /\ \A i \in 1 .. Len(inbox[s]) : inbox[s][i].n \in 1 .. sent[Topic[s]]
    /\ \A j \in 1 .. Len(inbound) : inbound[j].topic = Topic[s] =>
         /\ got[s] < inbound[j].n
         /\ \A i \in 1 .. Len(inbox[s]) : inbox[s][i].n < inbound[j].n

\* What a receiver has got is in order; said of any two messages, not of neighbours only, as
\* the oldest one may be read.
InboxSorted ==
  \A s \in Subscribers : \A i \in 1 .. Len(inbox[s]) : \A j \in i + 1 .. Len(inbox[s]) :
    inbox[s][i].n < inbox[s][j].n

\* The channel of s is in the map: what is published on its topic goes to s.
Attached(s) == sub[s] = "listening" /\ entry[Topic[s]] = chan[s]

\* While the connection holds, what is on its way continues what an attached receiver has.
InboxContinued ==
  disconnects = 0 =>
    \A s \in Subscribers : Attached(s) /\ inbox[s] # <<>> =>
      \A n \in inbox[s][Len(inbox[s])].n + 1 .. sent[Topic[s]] : InFlight(Topic[s], n)

\* InOrder is not inductive: that the next message fits behind the last one of an inbox is
\* known from what is on its way, and that a detached receiver gets none from ChannelsMade.
OrderInv == InOrder /\ ChannelsMade /\ InboundNumbered /\ InboxOlder /\ InboxSorted /\ InboxContinued

\* The subscription of topic t has reached the broker, or is in the request channel.
Backed(t) ==
  t \in brokerSubs \/ \E i \in 1 .. Len(requests) : requests[i].op = "sub" /\ requests[i].topic = t

\* A channel is backed before it gets into the map.
InsertBacked == disconnects = 0 => \A s \in Subscribers : sub[s] = "inserting" => Backed(Topic[s])

IInv == TypeInv /\ OrderInv /\ EntryBacked /\ InsertBacked

-----------------------------------------------------------------------------
(* Types *)

LEMMA ClientFields ==
  /\ \A x \in Clients : Topic[x] \in Topics /\ Qos[x] \in Nat
  /\ Subscribers \subseteq Clients /\ Publishers \subseteq Clients
BY DEF Clients

LEMMA MessageFields ==
  ASSUME NEW m \in Message
  PROVE  m.topic \in Topics /\ m.n \in Nat /\ m.data \in Payloads \cup Publishers
BY DEF Message

LEMMA RequestFields ==
  ASSUME NEW r \in Request
  PROVE  r.op \in {"sub", "pub"} /\ r.topic \in Topics /\ r.by \in Clients
BY DEF Request

\* What is left of a sequence without its head.
LEMMA TailFacts ==
  ASSUME NEW S, NEW q \in Seq(S), q # <<>>
  PROVE  /\ Head(q) = q[1] /\ Head(q) \in S
         /\ Tail(q) \in Seq(S)
         /\ Len(q) \in Nat /\ Len(q) >= 1 /\ Len(Tail(q)) = Len(q) - 1
         /\ \A i \in 1 .. Len(q) - 1 : Tail(q)[i] = q[i + 1]
<1>1. Len(q) \in Nat \ {0}
  BY EmptySeq
<1>2. Head(q) \in S /\ Tail(q) \in Seq(S) /\ Len(Tail(q)) = Len(q) - 1
  BY HeadTailProperties
<1>3. \A i \in 1 .. Len(q) - 1 : Tail(q)[i] = q[i + 1]
  BY <1>2, HeadTailProperties
<1>4. Head(q) = q[1]
  OBVIOUS
<1> QED
  BY <1>1, <1>2, <1>3, <1>4

\* A channel never holds more than its capacity, and what it has lost is its oldest message.
LEMMA PushFacts ==
  ASSUME NEW q \in Seq(Message), Len(q) <= ChannelCapacity, NEW m \in Message
  PROVE  /\ Push(q, m) \in Seq(Message)
         /\ Len(Push(q, m)) \in 1 .. ChannelCapacity
         /\ Push(q, m)[Len(Push(q, m))] = m
         /\ \E k \in {0, 1} : /\ Len(Push(q, m)) = Len(q) + 1 - k
                              /\ \A i \in 1 .. Len(q) - k : Push(q, m)[i] = q[i + k]
<1>0. Len(q) \in Nat /\ ChannelCapacity \in Nat \ {0}
  BY LenProperties
<1>1. CASE Len(q) < ChannelCapacity
  <2>1. Push(q, m) = Append(q, m)
    BY <1>1 DEF Push
  <2>2. /\ Append(q, m) \in Seq(Message) /\ Len(Append(q, m)) = Len(q) + 1
        /\ \A i \in 1 .. Len(q) : Append(q, m)[i] = q[i]
        /\ Append(q, m)[Len(q) + 1] = m
    BY AppendProperties
  <2> QED
    BY <1>0, <1>1, <2>1, <2>2
<1>2. CASE ~(Len(q) < ChannelCapacity)
  <2>1. Push(q, m) = Append(Tail(q), m)
    BY <1>2 DEF Push
  <2>2. q # <<>>
    BY <1>0, <1>2, EmptySeq
  <2>3. /\ Tail(q) \in Seq(Message) /\ Len(Tail(q)) = Len(q) - 1
        /\ \A i \in 1 .. Len(q) - 1 : Tail(q)[i] = q[i + 1]
    BY <2>2, TailFacts
  <2>4. /\ Append(Tail(q), m) \in Seq(Message) /\ Len(Append(Tail(q), m)) = Len(q)
        /\ \A i \in 1 .. Len(q) - 1 : Append(Tail(q), m)[i] = Tail(q)[i]
        /\ Append(Tail(q), m)[Len(q)] = m
    BY <1>0, <2>3, AppendProperties
  <2>5. \A i \in 1 .. Len(q) - 1 : Append(Tail(q), m)[i] = q[i + 1]
    BY <2>3, <2>4
  <2> QED
    BY <1>0, <1>2, <2>1, <2>4, <2>5
<1> QED
  BY <1>1, <1>2

\* The future of a node is dropped with its receivers.
Depart(R) ==
  /\ sub' = [s \in Subscribers |-> IF s \in R THEN "gone" ELSE sub[s]]
  /\ inbox' = [s \in Subscribers |-> IF s \in R THEN <<>> ELSE inbox[s]]
  /\ UNCHANGED <<chan, got, pub, entry, requests, removing, connVars, brokerVars>>

LEMMA LeaveDeparts ==
  ASSUME TypeInv, NEW s \in Subscribers, Leave(s)
  PROVE  Depart({s})
BY DEF TypeInv, TypeOK, Leave, Depart, connVars, brokerVars

LEMMA TypeInvInit == Init => TypeInv
<1> SUFFICES ASSUME Init PROVE TypeInv
  OBVIOUS
<1>1. TypeOK
  BY DEF Init, TypeOK, SubStates
<1>2. PublishersPublish
  BY DEF Init, PublishersPublish
<1> QED
  BY <1>1, <1>2 DEF TypeInv

\* A request is added behind the others.
LEMMA EnqueueFacts ==
  ASSUME TypeInv, NEW op \in {"sub", "pub"}, NEW x \in Clients, Enqueue(op, x)
  PROVE  /\ requests' \in Seq(Request)
         /\ Len(requests') = Len(requests) + 1 /\ Len(requests') <= RequestCapacity
         /\ \A i \in 1 .. Len(requests) : requests'[i] = requests[i]
         /\ requests'[Len(requests) + 1] = [op |-> op, topic |-> Topic[x], by |-> x]
<1> DEFINE r == [op |-> op, topic |-> Topic[x], by |-> x]
<1>1. r \in Request
  BY ClientFields DEF Request
<1>2. requests \in Seq(Request) /\ Len(requests) \in Nat
  BY LenProperties DEF TypeInv, TypeOK
<1>3. requests' = Append(requests, r) /\ Len(requests) < RequestCapacity
  BY DEF Enqueue
<1> HIDE DEF r
<1>4. /\ Append(requests, r) \in Seq(Request)
      /\ Len(Append(requests, r)) = Len(requests) + 1
      /\ \A i \in 1 .. Len(requests) : Append(requests, r)[i] = requests[i]
      /\ Append(requests, r)[Len(requests) + 1] = r
  BY <1>1, <1>2, AppendProperties
<1> QED
  BY <1>2, <1>3, <1>4 DEF r

\* A message is added behind the others, with the next number of its topic.
LEMMA RouteFacts ==
  ASSUME TypeInv, NEW t \in Topics, NEW d \in Payloads \cup Publishers, Route(t, d)
  PROVE  /\ inbound' \in Seq(Message)
         /\ Len(inbound') = Len(inbound) + 1
         /\ \A i \in 1 .. Len(inbound) : inbound'[i] = inbound[i]
         /\ inbound'[Len(inbound) + 1].topic = t
         /\ inbound'[Len(inbound) + 1].n = sent[t] + 1
         /\ sent' \in [Topics -> Nat]
         /\ sent'[t] = sent[t] + 1
         /\ \A u \in Topics : u # t => sent'[u] = sent[u]
<1> DEFINE m == [topic |-> t, n |-> sent[t] + 1, data |-> d]
<1>1. inbound \in Seq(Message) /\ sent \in [Topics -> Nat]
  BY DEF TypeInv, TypeOK
<1>2. m \in Message /\ m.topic = t /\ m.n = sent[t] + 1
  BY <1>1 DEF Message
<1>3. inbound' = Append(inbound, m) /\ sent' = [sent EXCEPT ![t] = @ + 1]
  BY DEF Route
<1> HIDE DEF m
<1>4. /\ Append(inbound, m) \in Seq(Message)
      /\ Len(Append(inbound, m)) = Len(inbound) + 1
      /\ \A i \in 1 .. Len(inbound) : Append(inbound, m)[i] = inbound[i]
      /\ Append(inbound, m)[Len(inbound) + 1] = m
  BY <1>1, <1>2, AppendProperties
<1>5. /\ inbound' \in Seq(Message)
      /\ Len(inbound') = Len(inbound) + 1
      /\ \A i \in 1 .. Len(inbound) : inbound'[i] = inbound[i]
      /\ inbound'[Len(inbound) + 1] = m
  BY <1>3, <1>4
<1>6. sent' \in [Topics -> Nat] /\ sent'[t] = sent[t] + 1 /\ \A u \in Topics : u # t => sent'[u] = sent[u]
  BY <1>1, <1>3
<1> QED
  BY <1>2, <1>5, <1>6

LEMMA RequestTail ==
  ASSUME TypeInv, requests # <<>>, requests' = Tail(requests)
  PROVE  /\ requests' \in Seq(Request) /\ Len(requests') = Len(requests) - 1
         /\ Len(requests) \in Nat /\ Len(requests') <= RequestCapacity
         /\ \A i \in 1 .. Len(requests) - 1 : requests'[i] = requests[i + 1]
         /\ Head(requests) = requests[1] /\ Head(requests) \in Request
         /\ PublishersPublish'
<1>1. requests \in Seq(Request) /\ Len(requests) <= RequestCapacity
  BY DEF TypeInv, TypeOK
<1>2. /\ Tail(requests) \in Seq(Request) /\ Len(Tail(requests)) = Len(requests) - 1
      /\ Len(requests) \in Nat
      /\ \A i \in 1 .. Len(requests) - 1 : Tail(requests)[i] = requests[i + 1]
      /\ Head(requests) = requests[1] /\ Head(requests) \in Request
  BY <1>1, TailFacts
<1>3. PublishersPublish'
  BY <1>1, <1>2 DEF TypeInv, PublishersPublish
<1> QED
  BY <1>1, <1>2, <1>3

\* What the event loop writes to the connection, and what the broker makes of it.
LEMMA PollSendTyped ==
  ASSUME TypeInv, PollSend
  PROVE  TypeInv'
<1>0. TypeOK /\ PublishersPublish
  BY DEF TypeInv
<1>1. /\ requests # <<>> /\ requests' = Tail(requests)
      /\ UNCHANGED <<subVars, pub, entry, removing, connVars>>
  BY DEF PollSend
<1>2. /\ requests' \in Seq(Request) /\ Len(requests') <= RequestCapacity /\ PublishersPublish'
      /\ Head(requests) = requests[1] /\ Head(requests) \in Request /\ Len(requests) \in Nat \ {0}
  BY <1>1, RequestTail, EmptySeq DEF TypeInv, TypeOK
<1>3. brokerSubs' \subseteq Topics /\ inbound' \in Seq(Message) /\ sent' \in [Topics -> Nat]
  <2> DEFINE r == Head(requests)
  <2>1. r.topic \in Topics /\ r.by \in Clients /\ r.op \in {"sub", "pub"}
    BY <1>2, RequestFields
  <2>2. CASE r.op = "sub"
    BY <1>0, <2>1, <2>2 DEF PollSend, TypeOK
  <2>3. CASE r.op = "pub" /\ r.topic \in brokerSubs
    <3>1. Route(r.topic, r.by) /\ UNCHANGED brokerSubs
      BY <2>3 DEF PollSend
    <3>2. r.by \in Publishers
      BY <1>0, <1>2, <2>3 DEF PublishersPublish
    <3> QED
      BY <1>0, <2>1, <3>1, <3>2, RouteFacts DEF TypeOK
  <2>4. CASE r.op # "sub" /\ ~(r.op = "pub" /\ r.topic \in brokerSubs)
    BY <1>0, <2>4 DEF PollSend, TypeOK, brokerVars
  <2> QED
    BY <2>1, <2>2, <2>3, <2>4
<1>4. TypeOK'
  BY <1>0, <1>1, <1>2, <1>3 DEF TypeOK, subVars, connVars
<1> QED
  BY <1>2, <1>4 DEF TypeInv

LEMMA InboundHead ==
  ASSUME TypeInv, inbound # <<>>, inbound' = Tail(inbound)
  PROVE  /\ Head(inbound) = inbound[1] /\ Head(inbound) \in Message
         /\ inbound' \in Seq(Message)
         /\ Len(inbound) \in Nat /\ Len(inbound) >= 1 /\ Len(inbound') = Len(inbound) - 1
         /\ \A i \in 1 .. Len(inbound) - 1 : inbound'[i] = inbound[i + 1]
BY TailFacts DEF TypeInv, TypeOK

LEMMA PollReceiveTyped ==
  ASSUME TypeInv, PollReceive
  PROVE  TypeInv'
<1>0. TypeOK /\ PublishersPublish
  BY DEF TypeInv
<1> DEFINE m == Head(inbound)
<1>1. m \in Message /\ inbound' \in Seq(Message)
  BY InboundHead DEF PollReceive
<1>2. m.topic \in Topics
  BY <1>1, MessageFields
<1>3. PassOn(m)
  BY DEF PollReceive
<1> HIDE DEF m
<1>4. \A s \in Subscribers : inbox'[s] \in Seq(Message) /\ Len(inbox'[s]) <= ChannelCapacity
  <2> SUFFICES ASSUME NEW s \in Subscribers
               PROVE  inbox'[s] \in Seq(Message) /\ Len(inbox'[s]) <= ChannelCapacity
    OBVIOUS
  <2>1. inbox[s] \in Seq(Message) /\ Len(inbox[s]) <= ChannelCapacity
    BY <1>0 DEF TypeOK
  <2>2. Push(inbox[s], m) \in Seq(Message) /\ Len(Push(inbox[s], m)) <= ChannelCapacity
    <3>1. ChannelCapacity \in Nat
      OBVIOUS
    <3>2. Push(inbox[s], m) \in Seq(Message) /\ Len(Push(inbox[s], m)) \in 1 .. ChannelCapacity
      BY <1>1, <2>1, PushFacts, Zenon
    <3> QED
      BY <3>1, <3>2
  <2>3. inbox'[s] = inbox[s] \/ inbox'[s] = Push(inbox[s], m)
    BY <1>3 DEF PassOn
  <2> QED
    BY <2>1, <2>2, <2>3
<1>5. inbox' \in [Subscribers -> Seq(Message)]
  <2>1. DOMAIN inbox' = Subscribers /\ inbox' = [s \in Subscribers |-> inbox'[s]]
    BY <1>3 DEF PassOn
  <2> QED
    BY <1>4, <2>1
<1>6. removing' \in Topics \cup {None}
  BY <1>2, <1>3 DEF PassOn
<1>7. TypeOK'
  BY <1>0, <1>1, <1>3, <1>4, <1>5, <1>6 DEF TypeOK, PassOn, connVars
<1>8. PublishersPublish'
  BY <1>0, <1>3 DEF PublishersPublish, PassOn
<1> QED
  BY <1>7, <1>8 DEF TypeInv

LEMMA EnqueueTyped ==
  ASSUME TypeInv, NEW op \in {"sub", "pub"}, NEW x \in Clients, op = "pub" => x \in Publishers,
         Enqueue(op, x)
  PROVE  requests' \in Seq(Request) /\ Len(requests') <= RequestCapacity /\ PublishersPublish'
<1>1. requests \in Seq(Request) /\ Len(requests) \in Nat
  BY LenProperties DEF TypeInv, TypeOK
<1>2. /\ requests' \in Seq(Request)
      /\ Len(requests') = Len(requests) + 1 /\ Len(requests') <= RequestCapacity
      /\ \A i \in 1 .. Len(requests) : requests'[i] = requests[i]
      /\ requests'[Len(requests) + 1] = [op |-> op, topic |-> Topic[x], by |-> x]
  BY EnqueueFacts, Zenon
<1>3. \A i \in 1 .. Len(requests) : requests[i].op = "pub" => requests[i].by \in Publishers
  BY DEF TypeInv, PublishersPublish
<1>4. ASSUME NEW i \in 1 .. Len(requests'), requests'[i].op = "pub" PROVE requests'[i].by \in Publishers
  <2>1. CASE i \in 1 .. Len(requests)
    BY <1>2, <1>3, <1>4, <2>1
  <2>2. CASE i = Len(requests) + 1
    <3>1. requests'[i] = [op |-> op, topic |-> Topic[x], by |-> x]
      BY <1>2, <2>2
    <3>2. requests'[i].op = op /\ requests'[i].by = x
      BY <3>1
    <3> QED
      BY <1>4, <3>2
  <2> QED
    BY <1>1, <1>2, <2>1, <2>2
<1> QED
  BY <1>2, <1>4 DEF PublishersPublish

LEMMA DepartTyped ==
  ASSUME TypeInv, NEW R, Depart(R)
  PROVE  TypeInv'
<1>0. TypeOK /\ PublishersPublish
  BY DEF TypeInv
<1>1. sub' \in [Subscribers -> SubStates]
  BY <1>0 DEF Depart, TypeOK, SubStates
<1>2. inbox' \in [Subscribers -> Seq(Message)] /\ \A s \in Subscribers : Len(inbox'[s]) <= ChannelCapacity
  <2>1. <<>> \in Seq(Message) /\ Len(<<>>) = 0 /\ ChannelCapacity \in Nat
    BY EmptySeq
  <2>2. \A s \in Subscribers : inbox[s] \in Seq(Message) /\ Len(inbox[s]) <= ChannelCapacity
    BY <1>0 DEF TypeOK
  <2> QED
    BY <2>1, <2>2 DEF Depart
<1>3. TypeOK'
  BY <1>0, <1>1, <1>2 DEF TypeOK, Depart, connVars, brokerVars
<1> QED
  BY <1>0, <1>3 DEF TypeInv, PublishersPublish, Depart

LEMMA TypeInvStep ==
  ASSUME TypeInv, [Next]_vars
  PROVE  TypeInv'
<1>0. TypeOK /\ PublishersPublish
  BY DEF TypeInv
<1>1. ASSUME NEW s \in Subscribers, CheckMap(s) PROVE TypeInv'
  <2>1. sub' \in [Subscribers -> SubStates] /\ chan' \in [Subscribers -> Subscribers \cup {None}]
    BY <1>0, <1>1, ClientFields DEF CheckMap, TypeOK, SubStates
  <2> QED
    BY <1>0, <1>1, <2>1 DEF CheckMap, TypeInv, TypeOK, PublishersPublish, connVars, brokerVars
<1>2. ASSUME NEW s \in Subscribers, BadQos(s) PROVE TypeInv'
  <2>1. sub' \in [Subscribers -> SubStates]
    BY <1>0, <1>2 DEF BadQos, TypeOK, SubStates
  <2> QED
    BY <1>0, <1>2, <2>1 DEF BadQos, TypeInv, TypeOK, PublishersPublish, connVars, brokerVars
<1>3. ASSUME NEW s \in Subscribers, SendRequest(s) PROVE TypeInv'
  <2>1. sub' \in [Subscribers -> SubStates]
    BY <1>0, <1>3 DEF SendRequest, TypeOK, SubStates
  <2>2. requests' \in Seq(Request) /\ Len(requests') <= RequestCapacity /\ PublishersPublish'
    BY <1>3, ClientFields, EnqueueTyped DEF SendRequest
  <2> QED
    BY <1>0, <1>3, <2>1, <2>2 DEF SendRequest, TypeInv, TypeOK, connVars, brokerVars
<1>4. ASSUME NEW s \in Subscribers, Insert(s) PROVE TypeInv'
  <2>1. sub' \in [Subscribers -> SubStates] /\ entry' \in [Topics -> Subscribers \cup {None}]
    BY <1>0, <1>4 DEF Insert, TypeOK, SubStates
  <2> QED
    BY <1>0, <1>4, <2>1 DEF Insert, TypeInv, TypeOK, PublishersPublish, connVars, brokerVars
<1>5. ASSUME NEW s \in Subscribers, Recv(s) PROVE TypeInv'
  <2>1. inbox[s] \in Seq(Message) /\ inbox[s] # <<>> /\ Len(inbox[s]) <= ChannelCapacity
    BY <1>0, <1>5 DEF TypeOK, Recv
  <2>2. /\ Tail(inbox[s]) \in Seq(Message) /\ Len(Tail(inbox[s])) = Len(inbox[s]) - 1
        /\ Len(inbox[s]) \in Nat /\ Head(inbox[s]) \in Message
    BY <2>1, TailFacts
  <2>3. ChannelCapacity \in Nat
    OBVIOUS
  <2>4. inbox' \in [Subscribers -> Seq(Message)] /\ \A r \in Subscribers : Len(inbox'[r]) <= ChannelCapacity
    BY <1>0, <1>5, <2>1, <2>2, <2>3 DEF TypeOK, Recv
  <2>5. got' \in [Subscribers -> Nat]
    BY <1>0, <1>5, <2>2, MessageFields DEF TypeOK, Recv
  <2> QED
    BY <1>0, <1>5, <2>4, <2>5 DEF Recv, TypeInv, TypeOK, PublishersPublish, connVars, brokerVars
<1>6. ASSUME NEW s \in Subscribers, RecvClosed(s) PROVE TypeInv'
  <2>1. sub' \in [Subscribers -> SubStates]
    BY <1>0, <1>6 DEF RecvClosed, TypeOK, SubStates
  <2> QED
    BY <1>0, <1>6, <2>1 DEF RecvClosed, TypeInv, TypeOK, PublishersPublish, connVars, brokerVars
<1>7. ASSUME NEW s \in Subscribers, Leave(s) PROVE TypeInv'
  BY <1>7, LeaveDeparts, DepartTyped
<1>8. ASSUME NEW p \in Publishers, Publish(p) PROVE TypeInv'
  <2>1. pub' \in [Publishers -> {"idle", "sent", "failed"}]
    BY <1>0, <1>8 DEF Publish, TypeOK
  <2>2. requests' \in Seq(Request) /\ Len(requests') <= RequestCapacity /\ PublishersPublish'
    <3>1. CASE ValidQos(p)
      BY <1>8, <3>1, ClientFields, EnqueueTyped DEF Publish
    <3>2. CASE ~ValidQos(p)
      BY <1>0, <1>8, <3>2 DEF Publish, TypeOK, PublishersPublish
    <3> QED
      BY <3>1, <3>2
  <2> QED
    BY <1>0, <1>8, <2>1, <2>2 DEF Publish, TypeInv, TypeOK, subVars, connVars, brokerVars
<1>9. ASSUME RemoveDead PROVE TypeInv'
  <2>1. entry' \in [Topics -> Subscribers \cup {None}]
    BY <1>0, <1>9 DEF RemoveDead, TypeOK
  <2> QED
    BY <1>0, <1>9, <2>1 DEF RemoveDead, TypeInv, TypeOK, PublishersPublish, subVars, connVars, brokerVars
<1>10. ASSUME Reconnect PROVE TypeInv'
  BY <1>0, <1>10 DEF Reconnect, TypeInv, TypeOK, PublishersPublish, subVars, brokerVars
<1>11. ASSUME NEW t \in Topics, NEW d \in Payloads, DevicePublishes(t, d) PROVE TypeInv'
  <2>1. inbound' \in Seq(Message) /\ sent' \in [Topics -> Nat]
    BY <1>11, RouteFacts DEF DevicePublishes
  <2> QED
    BY <1>0, <1>11, <2>1 DEF DevicePublishes, TypeInv, TypeOK, PublishersPublish, subVars, connVars
<1>12. ASSUME Disconnect PROVE TypeInv'
  <2>1. requests' \in Seq(Request) /\ Len(requests') <= RequestCapacity /\ PublishersPublish'
    <3>1. requests' = <<>> /\ Len(requests') = 0
      BY <1>12, EmptySeq DEF Disconnect
    <3>2. RequestCapacity \in Nat /\ 0 <= RequestCapacity
      OBVIOUS
    <3>3. PublishersPublish'
      BY <3>1 DEF PublishersPublish
    <3> QED
      BY <3>1, <3>2, <3>3, EmptySeq
  <2>2. disconnects' \in 0 .. MaxDisconnects /\ inbound' \in Seq(Message)
    BY <1>0, <1>12, EmptySeq DEF TypeOK, Disconnect
  <2> QED
    BY <1>0, <1>12, <2>1, <2>2 DEF Disconnect, TypeInv, TypeOK, subVars
<1>13. CASE UNCHANGED vars
  BY <1>0, <1>13 DEF vars, subVars, connVars, brokerVars, TypeInv, TypeOK, PublishersPublish
<1> QED
  BY <1>1, <1>2, <1>3, <1>4, <1>5, <1>6, <1>7, <1>8, <1>9, <1>10, <1>11, <1>12, <1>13,
    PollSendTyped, PollReceiveTyped DEF Next, Subscribe, Receive, EventLoop

-----------------------------------------------------------------------------
(* Order *)

LEMMA OrderInvInit == Init => OrderInv
<1> SUFFICES ASSUME Init PROVE OrderInv
  OBVIOUS
<1>1. \A s \in Subscribers : inbox[s] = <<>> /\ sub[s] = "idle" /\ got[s] = 0 /\ sent[Topic[s]] = 0
  BY ClientFields DEF Init
<1>2. inbound = <<>> /\ Len(inbound) = 0 /\ 1 .. Len(inbound) = {}
  <2>1. inbound = <<>> /\ Len(<<>>) = 0
    BY EmptySeq DEF Init
  <2> QED
    BY <2>1
<1>3. ASSUME NEW s \in Subscribers PROVE Len(inbox[s]) = 0 /\ 1 .. Len(inbox[s]) = {} /\ 2 .. Len(inbox[s]) = {}
  <2>1. inbox[s] = <<>> /\ Len(<<>>) = 0
    BY <1>1, EmptySeq
  <2> QED
    BY <2>1
<1>4. InOrder
  <2> SUFFICES ASSUME NEW s \in Subscribers
               PROVE  /\ \A i \in {} : inbox[s][i].topic = Topic[s] /\ inbox[s][i].n > got[s]
                      /\ \A i \in {} : IF disconnects = 0 THEN inbox[s][i].n = inbox[s][i - 1].n + 1
                                                          ELSE inbox[s][i].n > inbox[s][i - 1].n
    BY <1>3, Zenon DEF InOrder
  <2> QED
    OBVIOUS
<1>5. ChannelsMade
  BY <1>1 DEF Init, ChannelsMade
<1>6. InboundNumbered
  BY <1>2 DEF InboundNumbered
<1>7. InboxOlder
  <2> SUFFICES ASSUME NEW s \in Subscribers
               PROVE  /\ got[s] <= sent[Topic[s]]
                      /\ \A i \in {} : inbox[s][i].n \in 1 .. sent[Topic[s]]
                      /\ \A j \in {} : inbound[j].topic = Topic[s] =>
                           /\ got[s] < inbound[j].n
                           /\ \A i \in 1 .. Len(inbox[s]) : inbox[s][i].n < inbound[j].n
    BY <1>2, <1>3, Zenon DEF InboxOlder
  <2> QED
    BY <1>1
<1>8. InboxContinued
  BY <1>1 DEF InboxContinued
<1>9. InboxSorted
  BY <1>3 DEF InboxSorted
<1> QED
  BY <1>4, <1>5, <1>6, <1>7, <1>8, <1>9 DEF OrderInv

\* A step that moves no message keeps the order, unless it attaches a receiver that has some.
LEMMA QuietKeepsOrder ==
  ASSUME OrderInv, UNCHANGED <<inbox, got, inbound, sent>>, disconnects' = disconnects,
         ChannelsMade',
         \A s \in Subscribers : Attached(s)' /\ inbox[s] # <<>> => Attached(s)
  PROVE  OrderInv'
<1>1. InOrder'
  BY DEF OrderInv, InOrder
<1>2. InboundNumbered'
  BY DEF OrderInv, InboundNumbered, InFlight
<1>3. InboxOlder'
  BY DEF OrderInv, InboxOlder
<1>4. InboxContinued'
  BY DEF OrderInv, InboxContinued, InFlight
<1>5. InboxSorted'
  BY DEF OrderInv, InboxSorted
<1> QED
  BY <1>1, <1>2, <1>3, <1>4, <1>5 DEF OrderInv

\* subscribe() moves no message, and a channel that it puts into the map has none yet.
LEMMA SubscribeKeepsOrder ==
  ASSUME TypeInv, OrderInv, NEW r \in Subscribers, Subscribe(r)
  PROVE  OrderInv'
<1>0. /\ sub \in [Subscribers -> SubStates] /\ chan \in [Subscribers -> Subscribers \cup {None}]
      /\ entry \in [Topics -> Subscribers \cup {None}] /\ Topic[r] \in Topics
  BY ClientFields DEF TypeInv, TypeOK
<1>1. ChannelsMade
  BY DEF OrderInv
<1>2. UNCHANGED <<inbox, got, inbound, sent>> /\ disconnects' = disconnects
  BY DEF Subscribe, CheckMap, BadQos, SendRequest, Insert, connVars, brokerVars
<1>3. sub[r] # "listening" /\ inbox[r] = <<>> /\ ~Made(r)
  BY <1>1 DEF ChannelsMade, Subscribe, CheckMap, BadQos, SendRequest, Insert, Made
<1>4. \A s \in Subscribers : s # r => sub'[s] = sub[s] /\ chan'[s] = chan[s]
  BY <1>0 DEF Subscribe, CheckMap, BadQos, SendRequest, Insert
<1>5. \A c \in Subscribers : Made(c) => Made(c)'
  BY <1>3, <1>4 DEF Made
<1>6. CASE CheckMap(r)
  <2>1. entry' = entry
    BY <1>6 DEF CheckMap
  <2>2. \/ entry[Topic[r]] # None /\ sub'[r] = "listening" /\ chan'[r] = entry[Topic[r]]
        \/ sub'[r] = "requesting" /\ chan'[r] = r
    BY <1>0, <1>6 DEF CheckMap
  <2>3. ChannelsMade'
    BY <1>0, <1>1, <1>2, <1>3, <1>4, <1>5, <2>1, <2>2 DEF ChannelsMade
  <2>4. \A s \in Subscribers : Attached(s)' /\ inbox[s] # <<>> => Attached(s)
    BY <1>3, <1>4, <2>1 DEF Attached
  <2> QED
    BY <1>2, <2>3, <2>4, QuietKeepsOrder
<1>7. CASE BadQos(r) \/ SendRequest(r)
  <2>1. entry' = entry /\ chan' = chan /\ sub[r] = "requesting" /\ sub'[r] \in {"failed", "inserting"}
    BY <1>0, <1>7 DEF BadQos, SendRequest
  <2>2. ChannelsMade'
    BY <1>0, <1>1, <1>2, <1>3, <1>4, <1>5, <2>1 DEF ChannelsMade
  <2>3. \A s \in Subscribers : Attached(s)' /\ inbox[s] # <<>> => Attached(s)
    BY <1>3, <1>4, <2>1 DEF Attached
  <2> QED
    BY <1>2, <2>2, <2>3, QuietKeepsOrder
<1>8. CASE Insert(r)
  <2>1. chan' = chan /\ sub[r] = "inserting" /\ sub'[r] = "listening" /\ chan[r] = r
    BY <1>0, <1>1, <1>8 DEF Insert, ChannelsMade
  <2>2. \A t \in Topics : entry'[t] = IF t = Topic[r] THEN r ELSE entry[t]
    BY <1>0, <1>8 DEF Insert
  <2>3. Made(r)'
    BY <2>1 DEF Made
  <2>4. ChannelsMade'
    BY <1>0, <1>1, <1>2, <1>3, <1>4, <1>5, <2>1, <2>2, <2>3 DEF ChannelsMade
  <2>5. ASSUME NEW s \in Subscribers, Attached(s)', inbox[s] # <<>> PROVE Attached(s)
    <3>1. s # r /\ sub[s] = "listening" /\ entry'[Topic[s]] = chan[s]
      BY <1>3, <1>4, <2>1, <2>5 DEF Attached
    <3>2. chan[s] # r
      BY <1>1, <1>3, <3>1 DEF ChannelsMade
    <3> QED
      BY <2>2, <3>1, <3>2, ClientFields DEF Attached
  <2> QED
    BY <1>2, <2>4, <2>5, QuietKeepsOrder
<1> QED
  BY <1>6, <1>7, <1>8 DEF Subscribe

\* A message that the broker passes on is newer than all the others of its topic.
LEMMA RouteKeepsOrder ==
  ASSUME TypeInv, OrderInv, NEW t \in Topics, NEW d \in Payloads \cup Publishers, Route(t, d),
         UNCHANGED <<subVars, entry>>, disconnects' = disconnects
  PROVE  OrderInv'
<1>0. /\ inbound \in Seq(Message) /\ Len(inbound) \in Nat /\ sent \in [Topics -> Nat]
      /\ got \in [Subscribers -> Nat] /\ inbox \in [Subscribers -> Seq(Message)]
  BY LenProperties DEF TypeInv, TypeOK
<1>1. InOrder /\ ChannelsMade /\ InboundNumbered /\ InboxOlder /\ InboxSorted /\ InboxContinued
  BY DEF OrderInv
<1>2. UNCHANGED <<sub, chan, inbox, got, entry>>
  BY DEF subVars
<1> DEFINE last == Len(inbound) + 1
<1>14. ASSUME NEW i \in 1 .. Len(inbound') PROVE i \in 1 .. Len(inbound) \/ i = last
  <2>1. Len(inbound') = Len(inbound) + 1 /\ Len(inbound) \in Nat
    BY <1>0, RouteFacts, Zenon
  <2> QED
    BY <2>1
<1>3. /\ Len(inbound') = Len(inbound) + 1
      /\ \A i \in 1 .. Len(inbound) : inbound'[i] = inbound[i]
      /\ inbound'[Len(inbound) + 1].topic = t /\ inbound'[Len(inbound) + 1].n = sent[t] + 1
  BY RouteFacts, Zenon
<1>4. /\ sent' \in [Topics -> Nat] /\ sent'[t] = sent[t] + 1
      /\ \A u \in Topics : u # t => sent'[u] = sent[u]
  BY RouteFacts, Zenon
<1>5. \A i \in 1 .. Len(inbound) : inbound[i].topic \in Topics /\ inbound[i].n \in Nat
  BY <1>0, ElementOfSeq, MessageFields
<1>6. ASSUME NEW u \in Topics 
      PROVE  sent[u] \in Nat /\ sent'[u] \in Nat /\ sent[u] <= sent'[u] /\ sent'[u] <= sent[u] + 1
  <2>1. CASE u = t
    BY <1>0, <1>4, <2>1
  <2>2. CASE u # t
    BY <1>0, <1>4, <2>2
  <2> QED
    BY <2>1, <2>2
<1>7. ASSUME NEW u \in Topics, NEW n \in Nat, InFlight(u, n) \/ n = sent[u] + 1, n <= sent'[u]
      PROVE  InFlight(u, n)'
  <2>1. CASE InFlight(u, n)
    BY <1>0, <1>3, <2>1 DEF InFlight
  <2>2. CASE n = sent[u] + 1
    <3>1. u = t
      BY <1>4, <1>6, <1>7, <2>2
    <3> QED
      BY <1>0, <1>3, <2>2, <3>1 DEF InFlight
  <2> QED
    BY <1>7, <2>1, <2>2
<1>8. ASSUME NEW u \in Topics, NEW i \in 1 .. Len(inbound'), inbound'[i].topic = u
      PROVE  /\ inbound'[i].n \in 1 .. sent'[u]
             /\ \A j \in i + 1 .. Len(inbound') : inbound'[j].topic = u => inbound'[i].n < inbound'[j].n
             /\ \A n \in inbound'[i].n .. sent'[u] : InFlight(u, n)'
  <2>1. CASE i = last
    <3>1. u = t /\ inbound'[i].n = sent[u] + 1 /\ sent'[u] = sent[u] + 1 /\ sent[u] \in Nat
      BY <1>3, <1>4, <1>6, <1>8, <2>1
    <3>2. i + 1 .. Len(inbound') = {}
      BY <1>0, <1>3, <2>1
    <3>3. ASSUME NEW n \in inbound'[i].n .. sent'[u] PROVE InFlight(u, n)'
      <4>1. n \in Nat /\ n = sent[u] + 1 /\ n <= sent'[u]
        BY <3>1
      <4> QED
        BY <1>7, <4>1
    <3> QED
      BY <3>1, <3>2, <3>3
  <2>2. CASE i \in 1 .. Len(inbound)
    <3>1. inbound'[i] = inbound[i] /\ inbound[i].n \in Nat /\ inbound[i].topic = u
      BY <1>3, <1>5, <1>8, <2>2
    <3>2. /\ inbound[i].n \in 1 .. sent[u]
          /\ \A j \in i + 1 .. Len(inbound) : inbound[j].topic = u => inbound[i].n < inbound[j].n
          /\ \A n \in inbound[i].n .. sent[u] : InFlight(u, n)
      BY <1>1, <2>2, <3>1 DEF InboundNumbered
    <3>3. ASSUME NEW n \in inbound[i].n .. sent'[u] PROVE InFlight(u, n)'
      <4>2. n \in Nat /\ n <= sent'[u] /\ (n \in inbound[i].n .. sent[u] \/ n = sent[u] + 1)
        BY <1>6, <3>1, <3>3
      <4>3. InFlight(u, n) \/ n = sent[u] + 1
        BY <3>2, <4>2
      <4> QED
        BY <1>7, <4>2, <4>3
    <3>4. ASSUME NEW j \in i + 1 .. Len(inbound'), inbound'[j].topic = u PROVE inbound[i].n < inbound'[j].n
      <4>1. CASE j = last
        BY <1>3, <1>6, <3>1, <3>2, <3>4, <4>1
      <4>2. CASE j \in i + 1 .. Len(inbound)
        BY <1>3, <2>2, <3>2, <3>4, <4>2
      <4>3. j \in 1 .. Len(inbound') /\ (j \in 1 .. Len(inbound) => j \in i + 1 .. Len(inbound))
        BY <2>2
      <4> QED
        BY <1>14, <4>1, <4>2, <4>3
    <3>5. inbound[i].n \in 1 .. sent'[u]
      BY <1>6, <3>1, <3>2
    <3> QED
      BY <3>1, <3>3, <3>4, <3>5
  <2> QED
    BY <1>14, <2>1, <2>2
<1>9. InboundNumbered'
  BY <1>8 DEF InboundNumbered
<1>10. ASSUME NEW s \in Subscribers
       PROVE  /\ got[s] <= sent'[Topic[s]]
              /\ \A i \in 1 .. Len(inbox[s]) : inbox[s][i].n \in 1 .. sent'[Topic[s]]
              /\ \A j \in 1 .. Len(inbound') : inbound'[j].topic = Topic[s] =>
                   /\ got[s] < inbound'[j].n
                   /\ \A i \in 1 .. Len(inbox[s]) : inbox[s][i].n < inbound'[j].n
  <2>1. /\ Topic[s] \in Topics /\ got[s] \in Nat
        /\ got[s] <= sent[Topic[s]]
        /\ \A i \in 1 .. Len(inbox[s]) : inbox[s][i].n \in 1 .. sent[Topic[s]]
    BY <1>0, <1>1, ClientFields DEF InboxOlder
  <2>2. ASSUME NEW j \in 1 .. Len(inbound'), inbound'[j].topic = Topic[s]
        PROVE  /\ got[s] < inbound'[j].n
               /\ \A i \in 1 .. Len(inbox[s]) : inbox[s][i].n < inbound'[j].n
    <3>1. CASE j = last
      <4>1. inbound'[j].n = sent[Topic[s]] + 1
        BY <1>3, <2>2, <3>1
      <4>2. sent[Topic[s]] \in Nat
        BY <1>6, <2>1
      <4>3. ASSUME NEW i \in 1 .. Len(inbox[s]) PROVE inbox[s][i].n < sent[Topic[s]] + 1
        <5>1. inbox[s][i].n \in 1 .. sent[Topic[s]]
          BY <2>1
        <5> QED
          BY <4>2, <5>1
      <4> QED
        BY <2>1, <4>1, <4>2, <4>3
    <3>2. CASE j \in 1 .. Len(inbound)
      BY <1>1, <1>3, <2>2, <3>2 DEF InboxOlder
    <3> QED
      BY <1>14, <3>1, <3>2
  <2>3. sent[Topic[s]] \in Nat /\ sent'[Topic[s]] \in Nat /\ sent[Topic[s]] <= sent'[Topic[s]]
    BY <1>6, <2>1
  <2>4. ASSUME NEW i \in 1 .. Len(inbox[s]) PROVE inbox[s][i].n \in 1 .. sent'[Topic[s]]
    <3>1. inbox[s][i].n \in 1 .. sent[Topic[s]]
      BY <2>1
    <3> QED
      BY <2>3, <3>1
  <2>5. got[s] <= sent'[Topic[s]]
    BY <2>1, <2>3
  <2> QED
    BY <2>2, <2>4, <2>5
<1>11. InboxOlder'
  BY <1>2, <1>10 DEF InboxOlder
<1>12. InboxContinued'
  <2> SUFFICES ASSUME disconnects = 0, NEW s \in Subscribers, Attached(s), inbox[s] # <<>>,
                      NEW n \in inbox[s][Len(inbox[s])].n + 1 .. sent'[Topic[s]]
               PROVE  InFlight(Topic[s], n)'
    BY <1>2 DEF InboxContinued, Attached
  <2>1. Topic[s] \in Topics /\ inbox[s][Len(inbox[s])].n \in Nat
    <3>1. inbox[s] \in Seq(Message) /\ Len(inbox[s]) \in 1 .. Len(inbox[s])
      BY <1>0, EmptySeq
    <3> QED
      BY <3>1, ElementOfSeq, MessageFields, ClientFields
  <2>2. \A k \in inbox[s][Len(inbox[s])].n + 1 .. sent[Topic[s]] : InFlight(Topic[s], k)
    BY <1>1 DEF InboxContinued
  <2>3. /\ sent[Topic[s]] \in Nat /\ sent'[Topic[s]] \in Nat
        /\ sent'[Topic[s]] <= sent[Topic[s]] + 1
    BY <1>6, <2>1
  <2> DEFINE k == inbox[s][Len(inbox[s])].n
  <2>4. k \in Nat /\ n \in k + 1 .. sent'[Topic[s]]
    BY <2>1
  <2> HIDE DEF k
  <2>5. n \in Nat /\ n <= sent'[Topic[s]] /\ (n = sent[Topic[s]] + 1 \/ n \in k + 1 .. sent[Topic[s]])
    BY <2>3, <2>4
  <2>6. InFlight(Topic[s], n) \/ n = sent[Topic[s]] + 1
    BY <2>2, <2>5 DEF k
  <2> QED
    BY <1>7, <2>1, <2>5, <2>6
<1>13. InOrder' /\ ChannelsMade' /\ InboxSorted'
  BY <1>1, <1>2 DEF InOrder, ChannelsMade, Made, InboxSorted
<1> QED
  BY <1>9, <1>11, <1>12, <1>13 DEF OrderInv

\* The node reads its oldest message.
LEMMA RecvKeepsOrder ==
  ASSUME TypeInv, OrderInv, NEW r \in Subscribers, Recv(r)
  PROVE  OrderInv'
<1>0. inbox \in [Subscribers -> Seq(Message)] /\ got \in [Subscribers -> Nat]
  BY DEF TypeInv, TypeOK
<1>1. InOrder /\ ChannelsMade /\ InboundNumbered /\ InboxOlder /\ InboxSorted /\ InboxContinued
  BY DEF OrderInv
<1>2. UNCHANGED <<sub, chan, entry, inbound, sent>> /\ disconnects' = disconnects
  BY DEF Recv, connVars, brokerVars
<1>3. inbox[r] \in Seq(Message) /\ inbox[r] # <<>> /\ sub[r] = "listening"
  BY <1>0 DEF Recv
<1>4. /\ inbox'[r] = Tail(inbox[r]) /\ got'[r] = inbox[r][1].n
      /\ \A s \in Subscribers : s # r => inbox'[s] = inbox[s] /\ got'[s] = got[s]
  BY <1>0, <1>3, TailFacts DEF Recv
<1>5. /\ Len(inbox[r]) \in Nat /\ Len(inbox[r]) >= 1 /\ Len(inbox'[r]) = Len(inbox[r]) - 1
      /\ \A i \in 1 .. Len(inbox[r]) - 1 : inbox'[r][i] = inbox[r][i + 1]
  BY <1>3, <1>4, TailFacts
<1>6. \A i \in 1 .. Len(inbox[r]) : inbox[r][i].n \in Nat
  BY <1>3, ElementOfSeq, MessageFields
<1>7. InOrder'
  <2> SUFFICES ASSUME NEW s \in Subscribers
               PROVE  /\ \A i \in 1 .. Len(inbox'[s]) : inbox'[s][i].topic = Topic[s] /\ inbox'[s][i].n > got'[s]
                      /\ \A i \in 2 .. Len(inbox'[s]) :
                           IF disconnects = 0 THEN inbox'[s][i].n = inbox'[s][i - 1].n + 1
                                              ELSE inbox'[s][i].n > inbox'[s][i - 1].n
    BY <1>2 DEF InOrder
  <2>1. /\ \A i \in 1 .. Len(inbox[s]) : inbox[s][i].topic = Topic[s] /\ inbox[s][i].n > got[s]
        /\ \A i \in 2 .. Len(inbox[s]) :
             IF disconnects = 0 THEN inbox[s][i].n = inbox[s][i - 1].n + 1
                                ELSE inbox[s][i].n > inbox[s][i - 1].n
    BY <1>1 DEF InOrder
  <2>2. CASE s # r
    BY <1>4, <2>1, <2>2
  <2>3. CASE s = r
    <3>1. ASSUME NEW i \in 1 .. Len(inbox'[r])
          PROVE  inbox'[r][i].topic = Topic[r] /\ inbox'[r][i].n > got'[r]
      <4>1. i + 1 \in 1 + 1 .. Len(inbox[r]) /\ i + 1 \in 1 .. Len(inbox[r]) /\ 1 \in 1 .. Len(inbox[r])
        BY <1>5
      <4>2. inbox[r][1].n < inbox[r][i + 1].n
        BY <1>1, <4>1 DEF InboxSorted
      <4>3. inbox'[r][i] = inbox[r][i + 1]
        BY <1>5
      <4>4. inbox[r][i + 1].n \in Nat /\ inbox[r][1].n \in Nat
        BY <1>6, <4>1
      <4> QED
        BY <1>4, <2>1, <2>3, <4>1, <4>2, <4>3, <4>4
    <3>2. ASSUME NEW i \in 2 .. Len(inbox'[r])
          PROVE  IF disconnects = 0 THEN inbox'[r][i].n = inbox'[r][i - 1].n + 1
                                    ELSE inbox'[r][i].n > inbox'[r][i - 1].n
      <4>1. i \in 1 .. Len(inbox[r]) - 1 /\ i - 1 \in 1 .. Len(inbox[r]) - 1 /\ i - 1 + 1 = i
        BY <1>5
      <4>2. inbox'[r][i] = inbox[r][i + 1] /\ inbox'[r][i - 1] = inbox[r][i]
        BY <1>5, <4>1
      <4>3. i + 1 \in 2 .. Len(inbox[r]) /\ i + 1 - 1 = i
        BY <1>5
      <4> QED
        BY <2>1, <2>3, <4>2, <4>3
    <3> QED
      BY <2>3, <3>1, <3>2
  <2> QED
    BY <2>2, <2>3
<1>8. ChannelsMade'
  BY <1>1, <1>2, <1>3, <1>4 DEF ChannelsMade, Made
<1>9. InboundNumbered'
  BY <1>1, <1>2 DEF InboundNumbered, InFlight
<1>10. InboxOlder'
  <2> SUFFICES ASSUME NEW s \in Subscribers
               PROVE  /\ got'[s] <= sent[Topic[s]]
                      /\ \A i \in 1 .. Len(inbox'[s]) : inbox'[s][i].n \in 1 .. sent[Topic[s]]
                      /\ \A j \in 1 .. Len(inbound) : inbound[j].topic = Topic[s] =>
                           /\ got'[s] < inbound[j].n
                           /\ \A i \in 1 .. Len(inbox'[s]) : inbox'[s][i].n < inbound[j].n
    BY <1>2 DEF InboxOlder
  <2>1. /\ got[s] <= sent[Topic[s]]
        /\ \A i \in 1 .. Len(inbox[s]) : inbox[s][i].n \in 1 .. sent[Topic[s]]
        /\ \A j \in 1 .. Len(inbound) : inbound[j].topic = Topic[s] =>
             /\ got[s] < inbound[j].n
             /\ \A i \in 1 .. Len(inbox[s]) : inbox[s][i].n < inbound[j].n
    BY <1>1 DEF InboxOlder
  <2>2. CASE s # r
    BY <1>4, <2>1, <2>2
  <2>3. CASE s = r
    <3>1. \A i \in 1 .. Len(inbox'[r]) : i + 1 \in 1 .. Len(inbox[r]) /\ inbox'[r][i] = inbox[r][i + 1]
      BY <1>5
    <3>2. 1 \in 1 .. Len(inbox[r])
      BY <1>5
    <3>3. sent[Topic[s]] \in Nat
      BY ClientFields DEF TypeInv, TypeOK
    <3>4. got'[s] <= sent[Topic[s]]
      <4>1. inbox[r][1].n \in 1 .. sent[Topic[s]]
        BY <2>1, <2>3, <3>2
      <4> QED
        BY <1>4, <2>3, <3>3, <4>1
    <3> QED
      BY <1>4, <2>1, <2>3, <3>1, <3>2, <3>4
  <2> QED
    BY <2>2, <2>3
<1>11. InboxSorted'
  <2> SUFFICES ASSUME NEW s \in Subscribers, NEW i \in 1 .. Len(inbox'[s]), NEW j \in i + 1 .. Len(inbox'[s])
               PROVE  inbox'[s][i].n < inbox'[s][j].n
    BY DEF InboxSorted
  <2>1. CASE s # r
    BY <1>1, <1>4, <2>1 DEF InboxSorted
  <2>2. CASE s = r
    <3>1. /\ i + 1 \in 1 .. Len(inbox[r]) /\ j + 1 \in i + 1 + 1 .. Len(inbox[r])
          /\ i \in 1 .. Len(inbox[r]) - 1 /\ j \in 1 .. Len(inbox[r]) - 1
      BY <1>5, <2>2
    <3>2. inbox[r][i + 1].n < inbox[r][j + 1].n
      BY <1>1, <3>1 DEF InboxSorted
    <3> QED
      BY <1>5, <2>2, <3>1, <3>2
  <2> QED
    BY <2>1, <2>2
<1>12. InboxContinued'
  <2> SUFFICES ASSUME disconnects = 0, NEW s \in Subscribers, Attached(s), inbox'[s] # <<>>
               PROVE  \A n \in inbox'[s][Len(inbox'[s])].n + 1 .. sent[Topic[s]] : InFlight(Topic[s], n)
    BY <1>2 DEF InboxContinued, Attached, InFlight
  <2>1. inbox[s] # <<>> /\ inbox'[s][Len(inbox'[s])] = inbox[s][Len(inbox[s])]
    <3>1. CASE s # r
      BY <1>4, <3>1
    <3>2. CASE s = r
      <4>1. inbox'[r] \in Seq(Message)
        BY <1>3, <1>4, TailFacts
      <4>2. Len(inbox'[r]) \in Nat \ {0}
        BY <3>2, <4>1, EmptySeq
      <4> QED
        BY <1>3, <1>5, <3>2, <4>2
    <3> QED
      BY <3>1, <3>2
  <2> QED
    BY <1>1, <2>1 DEF InboxContinued
<1> QED
  BY <1>7, <1>8, <1>9, <1>10, <1>11, <1>12 DEF OrderInv

\* A receiver that goes takes its messages with it.
LEMMA DepartKeepsOrder ==
  ASSUME TypeInv, OrderInv, NEW R, Depart(R)
  PROVE  OrderInv'
<1>0. sub \in [Subscribers -> SubStates] /\ entry \in [Topics -> Subscribers \cup {None}]
      /\ chan \in [Subscribers -> Subscribers \cup {None}]
  BY DEF TypeInv, TypeOK
<1>1. InOrder /\ ChannelsMade /\ InboundNumbered /\ InboxOlder /\ InboxSorted /\ InboxContinued
  BY DEF OrderInv
<1>2. UNCHANGED <<chan, got, entry, inbound, sent>> /\ disconnects' = disconnects
  BY DEF Depart, connVars, brokerVars
<1>3. \A s \in Subscribers : sub'[s] = sub[s] \/ sub'[s] = "gone"
  BY DEF Depart
<1>4. \A s \in Subscribers : inbox'[s] = <<>> \/ (inbox'[s] = inbox[s] /\ sub'[s] = sub[s])
  BY DEF Depart
<1>5. Len(<<>>) = 0 /\ 1 .. Len(<<>>) = {} /\ 2 .. Len(<<>>) = {}
  <2>1. Len(<<>>) = 0
    BY EmptySeq
  <2> QED
    BY <2>1
<1>6. InOrder'
  <2> SUFFICES ASSUME NEW s \in Subscribers, inbox'[s] # <<>>
               PROVE  /\ \A i \in 1 .. Len(inbox[s]) : inbox[s][i].topic = Topic[s] /\ inbox[s][i].n > got[s]
                      /\ \A i \in 2 .. Len(inbox[s]) :
                           IF disconnects = 0 THEN inbox[s][i].n = inbox[s][i - 1].n + 1
                                              ELSE inbox[s][i].n > inbox[s][i - 1].n
    BY <1>2, <1>4, <1>5 DEF InOrder
  <2> QED
    BY <1>1 DEF InOrder
<1>7. ChannelsMade'
  <2>1. \A c \in Subscribers : Made(c) => Made(c)'
    BY <1>3 DEF Made
  <2>2. \A t \in Topics : entry[t] # None => entry[t] \in Subscribers
    BY <1>0
  <2>3. \A s \in Subscribers : sub'[s] # "listening" => inbox'[s] = <<>>
    BY <1>1 DEF Depart, ChannelsMade
  <2> QED
    BY <1>0, <1>1, <1>2, <1>3, <2>1, <2>2, <2>3 DEF ChannelsMade
<1>8. InboundNumbered'
  BY <1>1, <1>2 DEF InboundNumbered, InFlight
<1>9. InboxOlder'
  <2> SUFFICES ASSUME NEW s \in Subscribers
               PROVE  /\ got[s] <= sent[Topic[s]]
                      /\ \A i \in 1 .. Len(inbox'[s]) : inbox'[s][i].n \in 1 .. sent[Topic[s]]
                      /\ \A j \in 1 .. Len(inbound) : inbound[j].topic = Topic[s] =>
                           /\ got[s] < inbound[j].n
                           /\ \A i \in 1 .. Len(inbox'[s]) : inbox'[s][i].n < inbound[j].n
    BY <1>2 DEF InboxOlder
  <2> QED
    BY <1>1, <1>4, <1>5 DEF InboxOlder
<1>10. InboxSorted'
  <2> SUFFICES ASSUME NEW s \in Subscribers
               PROVE  \A i \in 1 .. Len(inbox'[s]) : \A j \in i + 1 .. Len(inbox'[s]) :
                        inbox'[s][i].n < inbox'[s][j].n
    BY DEF InboxSorted
  <2> QED
    BY <1>1, <1>4, <1>5 DEF InboxSorted
<1>11. InboxContinued'
  BY <1>1, <1>2, <1>4 DEF InboxContinued, Attached, InFlight
<1> QED
  BY <1>6, <1>7, <1>8, <1>9, <1>10, <1>11 DEF OrderInv

\* The broker forgets what was on its way; the numbers go on.
LEMMA DisconnectKeepsOrder ==
  ASSUME TypeInv, OrderInv, Disconnect
  PROVE  OrderInv'
<1>0. disconnects \in Nat /\ inbox \in [Subscribers -> Seq(Message)]
  BY DEF TypeInv, TypeOK
<1>1. InOrder /\ ChannelsMade /\ InboundNumbered /\ InboxOlder /\ InboxSorted /\ InboxContinued
  BY DEF OrderInv
<1>2. UNCHANGED <<sub, chan, inbox, got, entry, sent>> /\ inbound' = <<>> /\ disconnects' = disconnects + 1
  BY DEF Disconnect, subVars
<1>3. 1 .. Len(inbound') = {}
  <2>1. Len(inbound') = 0
    BY <1>2, EmptySeq
  <2> QED
    BY <2>1
<1>4. disconnects' # 0
  BY <1>0, <1>2
<1>5. InOrder'
  <2> SUFFICES ASSUME NEW s \in Subscribers
               PROVE  /\ \A i \in 1 .. Len(inbox[s]) : inbox[s][i].topic = Topic[s] /\ inbox[s][i].n > got[s]
                      /\ \A i \in 2 .. Len(inbox[s]) : inbox[s][i].n > inbox[s][i - 1].n
    BY <1>2, <1>4 DEF InOrder
  <2>1. \A i \in 1 .. Len(inbox[s]) : inbox[s][i].topic = Topic[s] /\ inbox[s][i].n > got[s]
    BY <1>1 DEF InOrder
  <2>2. ASSUME NEW i \in 2 .. Len(inbox[s]) PROVE inbox[s][i].n > inbox[s][i - 1].n
    <3>1. Len(inbox[s]) \in Nat /\ inbox[s] \in Seq(Message)
      BY <1>0, LenProperties
    <3>2. i - 1 \in 1 .. Len(inbox[s]) /\ i \in i - 1 + 1 .. Len(inbox[s]) /\ i \in 1 .. Len(inbox[s])
      BY <3>1
    <3>3. inbox[s][i - 1].n < inbox[s][i].n
      BY <1>1, <3>2 DEF InboxSorted
    <3>4. inbox[s][i - 1].n \in Nat /\ inbox[s][i].n \in Nat
      BY <3>1, <3>2, ElementOfSeq, MessageFields
    <3> QED
      BY <3>3, <3>4
  <2> QED
    BY <2>1, <2>2
<1>6. ChannelsMade' /\ InboxSorted'
  BY <1>1, <1>2 DEF ChannelsMade, Made, InboxSorted
<1>7. InboundNumbered'
  BY <1>3 DEF InboundNumbered
<1>8. InboxOlder'
  <2> SUFFICES ASSUME NEW s \in Subscribers
               PROVE  /\ got[s] <= sent[Topic[s]]
                      /\ \A i \in 1 .. Len(inbox[s]) : inbox[s][i].n \in 1 .. sent[Topic[s]]
    BY <1>2, <1>3 DEF InboxOlder
  <2> QED
    BY <1>1 DEF InboxOlder
<1>9. InboxContinued'
  BY <1>4 DEF InboxContinued
<1> QED
  BY <1>5, <1>6, <1>7, <1>8, <1>9 DEF OrderInv

\* What stands in a channel after a message was pushed: the message, behind what was there.
LEMMA PushedElements ==
  ASSUME NEW q \in Seq(Message), Len(q) <= ChannelCapacity, NEW m \in Message,
         NEW i \in 1 .. Len(Push(q, m))
  PROVE  Push(q, m)[i] = m \/ \E h \in 1 .. Len(q) : Push(q, m)[i] = q[h]
<1> DEFINE p == Push(q, m)
<1>1. Len(q) \in Nat /\ Len(p) \in Nat /\ p[Len(p)] = m
  BY PushFacts, LenProperties
<1>2. PICK k \in {0, 1} : Len(p) = Len(q) + 1 - k /\ \A j \in 1 .. Len(q) - k : p[j] = q[j + k]
  BY PushFacts, Zenon
<1>3. i \in 1 .. Len(p)
  OBVIOUS
<1> HIDE DEF p
<1>4. CASE i = Len(p)
  BY <1>1, <1>4 DEF p
<1>5. CASE i # Len(p)
  <2>1. i \in 1 .. Len(q) - k /\ i + k \in 1 .. Len(q)
    BY <1>1, <1>2, <1>3, <1>5
  <2>2. p[i] = q[i + k]
    BY <1>2, <2>1
  <2> QED
    BY <2>1, <2>2 DEF p
<1> QED
  BY <1>4, <1>5

\* Any two elements in a channel after a message was pushed.
LEMMA PushedPairs ==
  ASSUME NEW q \in Seq(Message), Len(q) <= ChannelCapacity, NEW m \in Message,
         NEW i \in 1 .. Len(Push(q, m)), NEW j \in i + 1 .. Len(Push(q, m))
  PROVE  \E h \in 1 .. Len(q) :
           /\ Push(q, m)[i] = q[h]
           /\ Push(q, m)[j] = m \/ \E l \in h + 1 .. Len(q) : Push(q, m)[j] = q[l]
<1> DEFINE p == Push(q, m)
<1>1. Len(q) \in Nat /\ Len(p) \in Nat /\ p[Len(p)] = m
  BY PushFacts, LenProperties
<1>2. PICK k \in {0, 1} : Len(p) = Len(q) + 1 - k /\ \A h \in 1 .. Len(q) - k : p[h] = q[h + k]
  BY PushFacts, Zenon
<1>3. i \in Int /\ 1 <= i /\ j \in Int /\ i + 1 <= j /\ j <= Len(p)
  BY <1>1
<1> HIDE DEF p
<1>4. Len(p) = Len(q) + 1 - k
  BY <1>2
<1>5. i \in 1 .. Len(q) - k /\ i + k \in 1 .. Len(q)
  BY <1>1, <1>3, <1>4
<1>6. p[i] = q[i + k]
  BY <1>2, <1>5
<1>7. CASE j = Len(p)
  <2>1. p[j] = m
    BY <1>1, <1>7
  <2> QED
    BY <1>5, <1>6, <2>1 DEF p
<1>8. CASE j # Len(p)
  <2>0. j < Len(p)
    BY <1>1, <1>3, <1>8
  <2>1. j \in 1 .. Len(q) - k /\ j + k \in i + k + 1 .. Len(q)
    BY <1>1, <1>3, <1>4, <2>0
  <2>2. p[j] = q[j + k]
    BY <1>2, <2>1
  <2>3. \E l \in i + k + 1 .. Len(q) : p[j] = q[l]
    BY <2>1, <2>2
  <2> QED
    BY <1>5, <1>6, <2>3 DEF p
<1> QED
  BY <1>7, <1>8

\* The neighbours in a channel after a message was pushed.
LEMMA PushedNeighbours ==
  ASSUME NEW q \in Seq(Message), Len(q) <= ChannelCapacity, NEW m \in Message,
         NEW i \in 2 .. Len(Push(q, m))
  PROVE  \/ /\ q # <<>> /\ Push(q, m)[i] = m /\ Push(q, m)[i - 1] = q[Len(q)]
         \/ \E h \in 2 .. Len(q) : Push(q, m)[i] = q[h] /\ Push(q, m)[i - 1] = q[h - 1]
<1> DEFINE p == Push(q, m)
<1>1. Len(q) \in Nat /\ Len(p) \in Nat /\ p[Len(p)] = m
  BY PushFacts, LenProperties
<1>2. PICK k \in {0, 1} : Len(p) = Len(q) + 1 - k /\ \A j \in 1 .. Len(q) - k : p[j] = q[j + k]
  BY PushFacts, Zenon
<1> HIDE DEF p
<1>3. i \in 2 .. Len(p) /\ i - 1 \in 1 .. Len(q) - k
  BY <1>1, <1>2 DEF p
<1>4. p[i - 1] = q[i - 1 + k]
  BY <1>2, <1>3
<1>5. CASE i = Len(p)
  <2>1. i - 1 + k = Len(q) /\ Len(q) # 0
    BY <1>1, <1>2, <1>3, <1>5
  <2>2. q # <<>>
    BY <2>1, EmptySeq
  <2> QED
    BY <1>1, <1>4, <1>5, <2>1, <2>2 DEF p
<1>6. CASE i # Len(p)
  <2>1. i \in 1 .. Len(q) - k /\ i + k \in 2 .. Len(q) /\ i - 1 + k = i + k - 1
    BY <1>1, <1>2, <1>3, <1>6
  <2>2. p[i] = q[i + k]
    BY <1>2, <2>1
  <2> QED
    BY <1>4, <2>1, <2>2 DEF p
<1> QED
  BY <1>5, <1>6

\* The message at the head goes to the attached receivers of its topic: it is newer than what
\* they have, and while the connection holds it is the next one.
LEMMA PollReceiveKeepsOrder ==
  ASSUME TypeInv, OrderInv, PollReceive
  PROVE  OrderInv'
<1>0. /\ inbox \in [Subscribers -> Seq(Message)]
      /\ \A s \in Subscribers : Len(inbox[s]) <= ChannelCapacity
      /\ sent \in [Topics -> Nat] /\ entry \in [Topics -> Subscribers \cup {None}]
  BY DEF TypeInv, TypeOK
<1>1. InOrder /\ ChannelsMade /\ InboundNumbered /\ InboxOlder /\ InboxSorted /\ InboxContinued
  BY DEF OrderInv
<1> DEFINE m == Head(inbound)
           t == m.topic
           receivers == IF entry[t] = None THEN {} ELSE Receivers(entry[t])
<1>2. m \in Message /\ t \in Topics /\ m.n \in Nat /\ m = inbound[1]
  BY InboundHead, MessageFields DEF PollReceive
<1>3. /\ Len(inbound) \in Nat /\ Len(inbound) >= 1 /\ Len(inbound') = Len(inbound) - 1
      /\ \A i \in 1 .. Len(inbound) - 1 : inbound'[i] = inbound[i + 1]
      /\ inbound \in Seq(Message)
  BY InboundHead DEF PollReceive, TypeInv, TypeOK
<1>4. UNCHANGED <<sub, chan, got, entry, sent>> /\ disconnects' = disconnects
  BY DEF PollReceive, PassOn, connVars
<1>5. \A s \in Subscribers : inbox'[s] = IF s \in receivers THEN Push(inbox[s], m) ELSE inbox[s]
  BY DEF PollReceive, PassOn
<1> HIDE DEF m, t, receivers
<1>6. ASSUME NEW s \in Subscribers PROVE s \in receivers <=> Attached(s) /\ Topic[s] = t
  <2>1. entry[t] # None => Topic[entry[t]] = t
    BY <1>1, <1>2 DEF ChannelsMade
  <2>2. sub[s] = "listening" => chan[s] # None /\ Topic[chan[s]] = Topic[s]
    BY <1>1 DEF ChannelsMade
  <2> QED
    BY <2>1, <2>2 DEF receivers, Receivers, Attached
<1>7. /\ m.n \in 1 .. sent[t]
      /\ \A j \in 2 .. Len(inbound) : inbound[j].topic = t => m.n < inbound[j].n
      /\ \A n \in m.n .. sent[t] : InFlight(t, n)
  BY <1>1, <1>2, <1>3 DEF InboundNumbered, t
<1>8. ASSUME NEW u \in Topics, NEW n, InFlight(u, n), u # t \/ n # m.n
      PROVE  InFlight(u, n)'
  <2>1. PICK j \in 1 .. Len(inbound) : inbound[j].topic = u /\ inbound[j].n = n
    BY <1>8 DEF InFlight
  <2>2. j # 1
    BY <1>2, <1>8, <2>1 DEF t
  <2>3. j - 1 \in 1 .. Len(inbound') /\ inbound'[j - 1] = inbound[j]
    BY <1>3, <2>2
  <2> QED
    BY <2>1, <2>3 DEF InFlight
<1>9. \A j \in 1 .. Len(inbound') : j + 1 \in 2 .. Len(inbound) /\ inbound'[j] = inbound[j + 1]
  BY <1>3
<1>10. \A s \in Subscribers : /\ inbox[s] \in Seq(Message) /\ Len(inbox[s]) <= ChannelCapacity
                              /\ inbox'[s] = IF s \in receivers THEN Push(inbox[s], m) ELSE inbox[s]
  BY <1>0, <1>5
<1>11. InboundNumbered'
  <2> SUFFICES ASSUME NEW u \in Topics, NEW i \in 1 .. Len(inbound'), inbound'[i].topic = u
               PROVE  /\ inbound'[i].n \in 1 .. sent[u]
                      /\ \A j \in i + 1 .. Len(inbound') : inbound'[j].topic = u => inbound'[i].n < inbound'[j].n
                      /\ \A n \in inbound'[i].n .. sent[u] : InFlight(u, n)'
    BY <1>4 DEF InboundNumbered
  <2>1. i + 1 \in 2 .. Len(inbound) /\ i + 1 \in 1 .. Len(inbound) /\ inbound'[i] = inbound[i + 1]
    BY <1>3, <1>9
  <2>2. /\ inbound[i + 1].n \in 1 .. sent[u]
        /\ \A j \in i + 1 + 1 .. Len(inbound) : inbound[j].topic = u => inbound[i + 1].n < inbound[j].n
        /\ \A n \in inbound[i + 1].n .. sent[u] : InFlight(u, n)
    BY <1>1, <2>1 DEF InboundNumbered
  <2>3. ASSUME NEW j \in i + 1 .. Len(inbound'), inbound'[j].topic = u PROVE inbound'[i].n < inbound'[j].n
    <3>1. j + 1 \in i + 1 + 1 .. Len(inbound) /\ inbound'[j] = inbound[j + 1]
      BY <1>3, <2>1
    <3> QED
      BY <2>1, <2>2, <2>3, <3>1
  <2>4. ASSUME NEW n \in inbound'[i].n .. sent[u] PROVE InFlight(u, n)'
    <3>1. InFlight(u, n)
      BY <2>1, <2>2
    <3>2. u = t => m.n < inbound[i + 1].n
      BY <1>7, <2>1
    <3>3. u # t \/ n # m.n
      <4>1. inbound[i + 1].n \in Nat /\ sent[u] \in Nat /\ n \in inbound[i + 1].n .. sent[u]
        BY <1>0, <2>1, <2>2
      <4> QED
        BY <1>2, <3>2, <4>1
    <3> QED
      BY <1>8, <3>1, <3>3
  <2> QED
    BY <2>1, <2>2, <2>3, <2>4
<1>12. InboxOlder'
  <2> SUFFICES ASSUME NEW s \in Subscribers
               PROVE  /\ got[s] <= sent[Topic[s]]
                      /\ \A i \in 1 .. Len(inbox'[s]) : inbox'[s][i].n \in 1 .. sent[Topic[s]]
                      /\ \A j \in 1 .. Len(inbound') : inbound'[j].topic = Topic[s] =>
                           /\ got[s] < inbound'[j].n
                           /\ \A i \in 1 .. Len(inbox'[s]) : inbox'[s][i].n < inbound'[j].n
    BY <1>4 DEF InboxOlder
  <2>1. /\ got[s] <= sent[Topic[s]]
        /\ \A i \in 1 .. Len(inbox[s]) : inbox[s][i].n \in 1 .. sent[Topic[s]]
        /\ \A j \in 1 .. Len(inbound) : inbound[j].topic = Topic[s] =>
             /\ got[s] < inbound[j].n
             /\ \A i \in 1 .. Len(inbox[s]) : inbox[s][i].n < inbound[j].n
    BY <1>1 DEF InboxOlder
  <2>2. ASSUME NEW i \in 1 .. Len(inbox'[s])
        PROVE  \/ s \in receivers /\ inbox'[s][i] = m
               \/ \E h \in 1 .. Len(inbox[s]) : inbox'[s][i] = inbox[s][h]
    BY <1>2, <1>10, PushedElements
  <2>3. ASSUME NEW j \in 1 .. Len(inbound'), inbound'[j].topic = Topic[s]
        PROVE  /\ got[s] < inbound'[j].n
               /\ s \in receivers => m.n < inbound'[j].n
               /\ \A h \in 1 .. Len(inbox[s]) : inbox[s][h].n < inbound'[j].n
    <3>1. j + 1 \in 1 .. Len(inbound) /\ j + 1 \in 2 .. Len(inbound) /\ inbound'[j] = inbound[j + 1]
      BY <1>3, <1>9
    <3> QED
      BY <1>6, <1>7, <2>1, <2>3, <3>1
  <2>4. s \in receivers => m.n \in 1 .. sent[Topic[s]]
    BY <1>6, <1>7
  <2>5. ASSUME NEW i \in 1 .. Len(inbox'[s]) PROVE inbox'[s][i].n \in 1 .. sent[Topic[s]]
    BY <2>1, <2>2, <2>4
  <2>6. ASSUME NEW j \in 1 .. Len(inbound'), inbound'[j].topic = Topic[s], NEW i \in 1 .. Len(inbox'[s])
        PROVE  inbox'[s][i].n < inbound'[j].n
    BY <2>2, <2>3, <2>6
  <2> QED
    BY <2>1, <2>3, <2>5, <2>6
<1>13. InboxSorted'
  <2> SUFFICES ASSUME NEW s \in Subscribers, NEW i \in 1 .. Len(inbox'[s]), NEW j \in i + 1 .. Len(inbox'[s])
               PROVE  inbox'[s][i].n < inbox'[s][j].n
    BY DEF InboxSorted
  <2>1. \A h \in 1 .. Len(inbox[s]) : \A l \in h + 1 .. Len(inbox[s]) : inbox[s][h].n < inbox[s][l].n
    BY <1>1 DEF InboxSorted
  <2>2. CASE s \notin receivers
    BY <1>10, <2>1, <2>2
  <2>3. CASE s \in receivers
    <3>1. inbox'[s] = Push(inbox[s], m) /\ inbox[s] \in Seq(Message) /\ Len(inbox[s]) <= ChannelCapacity
      BY <1>10, <2>3
    <3> DEFINE q == inbox[s]
               p == inbox'[s]
    <3>2. /\ q \in Seq(Message) /\ Len(q) <= ChannelCapacity /\ p = Push(q, m)
          /\ i \in 1 .. Len(p) /\ j \in i + 1 .. Len(p)
      BY <3>1
    <3> HIDE DEF p, q
    <3>3. PICK h \in 1 .. Len(q) : p[i] = q[h] /\ (p[j] = m \/ \E l \in h + 1 .. Len(q) : p[j] = q[l])
      BY <1>2, <3>2, PushedPairs
    <3>4. \A l \in h + 1 .. Len(q) : q[h].n < q[l].n
      BY <2>1 DEF q
    <3>5. 1 \in 1 .. Len(inbound) /\ inbound[1].topic = Topic[s] /\ inbound[1] = m
      BY <1>2, <1>3, <1>6, <2>3 DEF t
    <3>6. q[h].n < m.n
      BY <1>1, <3>5 DEF InboxOlder, q
    <3>7. p[i].n < p[j].n
      BY <3>3, <3>4, <3>6
    <3> QED
      BY <3>7 DEF p
  <2> QED
    BY <2>2, <2>3
<1>14. ASSUME NEW s \in Subscribers, s \in receivers, inbox[s] # <<>>
       PROVE  /\ inbox[s][Len(inbox[s])].n \in Nat /\ inbox[s][Len(inbox[s])].n < m.n
              /\ disconnects = 0 => m.n = inbox[s][Len(inbox[s])].n + 1
  <2> DEFINE last == inbox[s][Len(inbox[s])].n
  <2>1. Len(inbox[s]) \in 1 .. Len(inbox[s]) /\ last \in Nat
    <3>1. inbox[s] \in Seq(Message) /\ Len(inbox[s]) \in 1 .. Len(inbox[s])
      BY <1>10, <1>14, EmptySeq
    <3> QED
      BY <3>1, ElementOfSeq, MessageFields
  <2>2. Topic[s] = t /\ Attached(s)
    BY <1>6, <1>14
  <2>3. 1 \in 1 .. Len(inbound) /\ inbound[1].topic = Topic[s] /\ inbound[1] = m
    BY <1>2, <1>3, <2>2 DEF t
  <2>4. last < m.n
    BY <1>1, <2>1, <2>3 DEF InboxOlder
  <2>5. ASSUME disconnects = 0, m.n # last + 1 PROVE FALSE
    <3>1. \A n \in last + 1 .. sent[t] : InFlight(t, n)
      BY <1>1, <1>14, <2>2, <2>5 DEF InboxContinued
    <3> HIDE DEF last
    <3>2. last + 1 \in last + 1 .. sent[t] /\ last + 1 < m.n
      BY <1>0, <1>2, <1>7, <2>1, <2>4, <2>5
    <3>3. PICK j \in 1 .. Len(inbound) : inbound[j].topic = t /\ inbound[j].n = last + 1
      BY <3>1, <3>2 DEF InFlight
    <3>4. j # 1
      BY <1>2, <2>5, <3>3
    <3>5. j \in 2 .. Len(inbound)
      BY <1>3, <3>4
    <3>6. m.n < last + 1
      BY <1>7, <3>3, <3>5
    <3> QED
      BY <1>2, <2>1, <3>2, <3>6
  <2> QED
    BY <2>1, <2>4, <2>5
<1>15. InboxContinued'
  <2> SUFFICES ASSUME disconnects = 0, NEW s \in Subscribers, Attached(s), inbox'[s] # <<>>,
                      NEW n \in inbox'[s][Len(inbox'[s])].n + 1 .. sent[Topic[s]]
               PROVE  InFlight(Topic[s], n)'
    BY <1>4 DEF InboxContinued, Attached
  <2>0. Topic[s] \in Topics /\ sent[Topic[s]] \in Nat
    BY <1>0, ClientFields
  <2>1. CASE s \in receivers
    <3>1. inbox'[s][Len(inbox'[s])] = m
      <4>1. inbox[s] \in Seq(Message) /\ Len(inbox[s]) <= ChannelCapacity /\ inbox'[s] = Push(inbox[s], m)
        BY <1>10, <2>1
      <4>2. Push(inbox[s], m)[Len(Push(inbox[s], m))] = m
        BY <1>2, <4>1, PushFacts, Zenon
      <4> QED
        BY <4>1, <4>2
    <3>2. n \in m.n + 1 .. sent[t] /\ Topic[s] = t
      BY <1>6, <2>1, <3>1
    <3>3. n \in m.n .. sent[t] /\ n # m.n
      BY <1>2, <2>0, <3>2
    <3> QED
      BY <1>2, <1>7, <1>8, <3>2, <3>3
  <2>2. CASE s \notin receivers
    <3>1. inbox'[s] = inbox[s] /\ Topic[s] # t
      BY <1>6, <1>10, <2>2
    <3>2. InFlight(Topic[s], n)
      BY <1>1, <3>1 DEF InboxContinued
    <3> QED
      BY <1>8, <2>0, <3>1, <3>2
  <2> QED
    BY <2>1, <2>2
<1>16. InOrder'
  <2> SUFFICES ASSUME NEW s \in Subscribers
               PROVE  /\ \A i \in 1 .. Len(inbox'[s]) : inbox'[s][i].topic = Topic[s] /\ inbox'[s][i].n > got[s]
                      /\ \A i \in 2 .. Len(inbox'[s]) :
                           IF disconnects = 0 THEN inbox'[s][i].n = inbox'[s][i - 1].n + 1
                                              ELSE inbox'[s][i].n > inbox'[s][i - 1].n
    BY <1>4 DEF InOrder
  <2>1. /\ \A i \in 1 .. Len(inbox[s]) : inbox[s][i].topic = Topic[s] /\ inbox[s][i].n > got[s]
        /\ \A i \in 2 .. Len(inbox[s]) :
             IF disconnects = 0 THEN inbox[s][i].n = inbox[s][i - 1].n + 1
                                ELSE inbox[s][i].n > inbox[s][i - 1].n
    BY <1>1 DEF InOrder
  <2>2. CASE s \notin receivers
    BY <1>10, <2>1, <2>2
  <2>3. CASE s \in receivers
    <3>1. inbox'[s] = Push(inbox[s], m) /\ inbox[s] \in Seq(Message) /\ Len(inbox[s]) <= ChannelCapacity
      BY <1>10, <2>3
    <3>2. m.topic = Topic[s] /\ m.n > got[s]
      <4>1. 1 \in 1 .. Len(inbound) /\ inbound[1].topic = Topic[s] /\ inbound[1] = m
        BY <1>2, <1>3, <1>6, <2>3 DEF t
      <4>2. got[s] < m.n /\ got[s] \in Nat
        BY <1>1, <4>1 DEF InboxOlder, TypeInv, TypeOK
      <4> QED
        BY <1>2, <4>1, <4>2
    <3>3. ASSUME NEW i \in 1 .. Len(inbox'[s])
          PROVE  inbox'[s][i].topic = Topic[s] /\ inbox'[s][i].n > got[s]
      <4>1. inbox'[s][i] = m \/ \E h \in 1 .. Len(inbox[s]) : inbox'[s][i] = inbox[s][h]
        BY <1>2, <3>1, PushedElements
      <4> QED
        BY <2>1, <3>2, <4>1
    <3>4. ASSUME NEW i \in 2 .. Len(inbox'[s])
          PROVE  IF disconnects = 0 THEN inbox'[s][i].n = inbox'[s][i - 1].n + 1
                                    ELSE inbox'[s][i].n > inbox'[s][i - 1].n
      <4>1. \/ inbox[s] # <<>> /\ inbox'[s][i] = m /\ inbox'[s][i - 1] = inbox[s][Len(inbox[s])]
            \/ \E h \in 2 .. Len(inbox[s]) : inbox'[s][i] = inbox[s][h] /\ inbox'[s][i - 1] = inbox[s][h - 1]
        <5> DEFINE q == inbox[s]
                   p == inbox'[s]
        <5>1. q \in Seq(Message) /\ Len(q) <= ChannelCapacity /\ p = Push(q, m) /\ i \in 2 .. Len(p)
          BY <3>1
        <5> HIDE DEF p, q
        <5>2. \/ q # <<>> /\ p[i] = m /\ p[i - 1] = q[Len(q)]
              \/ \E h \in 2 .. Len(q) : p[i] = q[h] /\ p[i - 1] = q[h - 1]
          BY <1>2, <5>1, PushedNeighbours
        <5> QED
          BY <5>2, Zenon DEF p, q
      <4>2. inbox[s] # <<>> =>
              /\ m.n > inbox[s][Len(inbox[s])].n
              /\ disconnects = 0 => m.n = inbox[s][Len(inbox[s])].n + 1
        BY <1>2, <1>14, <2>3
      <4> QED
        BY <2>1, <4>1, <4>2
    <3> QED
      BY <3>3, <3>4
  <2> QED
    BY <2>2, <2>3
<1>17. ChannelsMade'
  <2>1. \A s \in Subscribers : s \in receivers => sub[s] = "listening"
    BY <1>6 DEF Attached
  <2> QED
    BY <1>1, <1>4, <1>10, <2>1 DEF ChannelsMade, Made
<1> QED
  BY <1>11, <1>12, <1>13, <1>15, <1>16, <1>17 DEF OrderInv

LEMMA PollSendKeepsOrder ==
  ASSUME TypeInv, OrderInv, PollSend
  PROVE  OrderInv'
<1> DEFINE r == Head(requests)
<1>1. UNCHANGED <<subVars, entry>> /\ disconnects' = disconnects
  BY DEF PollSend, connVars
<1>2. r \in Request /\ r = requests[1] /\ Len(requests) \in Nat \ {0}
  BY RequestTail, EmptySeq DEF PollSend, TypeInv, TypeOK
<1>3. CASE r.op = "pub" /\ r.topic \in brokerSubs
  <2>1. Route(r.topic, r.by)
    BY <1>3 DEF PollSend
  <2>2. r.topic \in Topics /\ r.by \in Publishers
    BY <1>2, <1>3, RequestFields DEF TypeInv, PublishersPublish
  <2> QED
    BY <1>1, <2>1, <2>2, RouteKeepsOrder
<1>4. CASE ~(r.op = "pub" /\ r.topic \in brokerSubs)
  <2>1. UNCHANGED <<inbound, sent>>
    BY <1>4 DEF PollSend, brokerVars
  <2>2. UNCHANGED <<sub, chan, inbox, got>>
    BY <1>1 DEF subVars
  <2>3. ChannelsMade'
    BY <1>1, <2>2 DEF OrderInv, ChannelsMade, Made
  <2> QED
    BY <1>1, <2>1, <2>2, <2>3, QuietKeepsOrder DEF Attached
<1> QED
  BY <1>3, <1>4

LEMMA OrderInvStep ==
  ASSUME TypeInv, OrderInv, [Next]_vars
  PROVE  OrderInv'
<1>0. ChannelsMade
  BY DEF OrderInv
<1>1. ASSUME NEW s \in Subscribers, RecvClosed(s) PROVE OrderInv'
  <2>1. UNCHANGED <<chan, inbox, got, entry, inbound, sent>> /\ disconnects' = disconnects
    BY <1>1 DEF RecvClosed, connVars, brokerVars
  <2>2. inbox[s] = <<>> /\ \A r \in Subscribers : sub'[r] = IF r = s THEN "closed" ELSE sub[r]
    BY <1>1 DEF RecvClosed, Closed, TypeInv, TypeOK
  <2>3. ChannelsMade'
    <3>1. \A c \in Subscribers : Made(c) => Made(c)'
      BY <2>2 DEF Made
    <3>2. entry \in [Topics -> Subscribers \cup {None}] /\ chan \in [Subscribers -> Subscribers \cup {None}]
      BY DEF TypeInv, TypeOK
    <3> QED
      BY <1>0, <2>1, <2>2, <3>1, <3>2 DEF ChannelsMade
  <2> QED
    BY <2>1, <2>2, <2>3, QuietKeepsOrder DEF Attached
<1>2. ASSUME NEW s \in Subscribers, Leave(s) PROVE OrderInv'
  BY <1>2, LeaveDeparts, DepartKeepsOrder
<1>3. ASSUME (\E p \in Publishers : Publish(p)) \/ Reconnect \/ UNCHANGED vars PROVE OrderInv'
  <2>1. UNCHANGED <<sub, chan, inbox, got, entry, inbound, sent>> /\ disconnects' = disconnects
    BY <1>3 DEF Publish, Reconnect, vars, subVars, connVars, brokerVars
  <2>2. ChannelsMade'
    BY <1>0, <2>1 DEF ChannelsMade, Made
  <2> QED
    BY <2>1, <2>2, QuietKeepsOrder DEF Attached
<1>4. ASSUME RemoveDead PROVE OrderInv'
  <2>1. UNCHANGED <<sub, chan, inbox, got, inbound, sent>> /\ disconnects' = disconnects
    BY <1>4 DEF RemoveDead, subVars, connVars, brokerVars
  <2>2. \A t \in Topics : entry'[t] = entry[t] \/ entry'[t] = None
    BY <1>4 DEF RemoveDead, TypeInv, TypeOK
  <2>3. ChannelsMade'
    BY <1>0, <2>1, <2>2 DEF ChannelsMade, Made
  <2>4. \A s \in Subscribers : Attached(s)' /\ inbox[s] # <<>> => Attached(s)
    BY <1>0, <2>1, <2>2, ClientFields DEF Attached, ChannelsMade
  <2> QED
    BY <2>1, <2>3, <2>4, QuietKeepsOrder
<1>5. ASSUME NEW t \in Topics, NEW d \in Payloads, DevicePublishes(t, d) PROVE OrderInv'
  BY <1>5, RouteKeepsOrder DEF DevicePublishes, connVars
<1> QED
  BY <1>1, <1>2, <1>3, <1>4, <1>5, SubscribeKeepsOrder, RecvKeepsOrder, PollSendKeepsOrder,
    PollReceiveKeepsOrder, DisconnectKeepsOrder DEF Next, Receive, EventLoop

-----------------------------------------------------------------------------
(* Map and broker *)

\* Each step but the loss of the connection leaves a subscription where it is, or takes it on.
LEMMA StaysBacked ==
  ASSUME TypeInv, NEW t \in Topics, Backed(t),
         \/ UNCHANGED <<requests, brokerSubs>>
         \/ PollSend
         \/ \E op \in {"sub", "pub"}, x \in Clients : Enqueue(op, x) /\ UNCHANGED brokerSubs
  PROVE  Backed(t)'
<1>0. requests \in Seq(Request) /\ Len(requests) \in Nat
  BY LenProperties DEF TypeInv, TypeOK
<1>1. CASE UNCHANGED <<requests, brokerSubs>>
  BY <1>1 DEF Backed
<1>2. ASSUME NEW op \in {"sub", "pub"}, NEW x \in Clients, Enqueue(op, x), UNCHANGED brokerSubs
      PROVE  Backed(t)'
  <2>1. /\ Len(requests') = Len(requests) + 1
        /\ \A i \in 1 .. Len(requests) : requests'[i] = requests[i]
    BY <1>2, EnqueueFacts, Zenon
  <2> QED
    BY <1>0, <1>2, <2>1 DEF Backed
<1>3. CASE PollSend
  <2>1. /\ Len(requests') = Len(requests) - 1 /\ Head(requests) = requests[1]
        /\ \A i \in 1 .. Len(requests) - 1 : requests'[i] = requests[i + 1]
    BY <1>3, RequestTail DEF PollSend
  <2>2. brokerSubs \subseteq brokerSubs'
    BY <1>3 DEF PollSend, brokerVars
  <2>3. CASE t \in brokerSubs
    BY <2>2, <2>3 DEF Backed
  <2>4. ASSUME NEW i \in 1 .. Len(requests), requests[i].op = "sub", requests[i].topic = t
        PROVE  Backed(t)'
    <3>1. CASE i = 1
      <4>1. brokerSubs' = brokerSubs \cup {t}
        BY <1>3, <2>1, <2>4, <3>1 DEF PollSend
      <4> QED
        BY <4>1 DEF Backed
    <3>2. CASE i # 1
      <4>1. i - 1 \in 1 .. Len(requests) - 1 /\ i - 1 + 1 = i
        BY <1>0, <3>2
      <4>2. requests'[i - 1] = requests[i] /\ i - 1 \in 1 .. Len(requests')
        BY <2>1, <4>1
      <4> QED
        BY <2>4, <4>2 DEF Backed
    <3> QED
      BY <3>1, <3>2
  <2> QED
    BY <2>3, <2>4 DEF Backed
<1> QED
  BY <1>1, <1>2, <1>3

\* While the connection holds every step leaves what is backed backed.
LEMMA NextStaysBacked ==
  ASSUME TypeInv, [Next]_vars, disconnects' = 0, NEW t \in Topics, Backed(t)
  PROVE  Backed(t)'
<1>1. ~Disconnect
  BY DEF Disconnect, TypeInv, TypeOK
<1>2. ASSUME NEW s \in Subscribers, Subscribe(s) PROVE Backed(t)'
  <2>1. \/ UNCHANGED <<requests, brokerSubs>>
        \/ Enqueue("sub", s) /\ UNCHANGED brokerSubs
    BY <1>2 DEF Subscribe, CheckMap, BadQos, SendRequest, Insert, brokerVars
  <2> QED
    BY <2>1, StaysBacked, ClientFields
<1>3. ASSUME NEW p \in Publishers, Publish(p) PROVE Backed(t)'
  <2>1. \/ UNCHANGED <<requests, brokerSubs>>
        \/ Enqueue("pub", p) /\ UNCHANGED brokerSubs
    BY <1>3 DEF Publish, brokerVars
  <2> QED
    BY <2>1, StaysBacked, ClientFields
<1>4. ASSUME \/ \E s \in Subscribers : Receive(s) \/ Leave(s)
             \/ PollReceive \/ RemoveDead \/ Reconnect
             \/ \E u \in Topics, d \in Payloads : DevicePublishes(u, d)
             \/ UNCHANGED vars
      PROVE  Backed(t)'
  <2>1. UNCHANGED <<requests, brokerSubs>>
    BY <1>4 DEF Receive, Recv, RecvClosed, Leave, PollReceive, PassOn, RemoveDead, Reconnect,
      DevicePublishes, vars, brokerVars
  <2> QED
    BY <2>1, StaysBacked
<1> QED
  BY <1>1, <1>2, <1>3, <1>4, StaysBacked DEF Next, EventLoop

LEMMA BackedInvStep ==
  ASSUME TypeInv, OrderInv, EntryBacked, InsertBacked, [Next]_vars
  PROVE  EntryBacked' /\ InsertBacked'
<1>0. /\ disconnects \in Nat
      /\ sub \in [Subscribers -> SubStates] /\ entry \in [Topics -> Subscribers \cup {None}]
  BY DEF TypeInv, TypeOK
<1> SUFFICES ASSUME disconnects' = 0
             PROVE  /\ \A t \in Topics : entry'[t] # None => Backed(t)'
                    /\ \A s \in Subscribers : sub'[s] = "inserting" => Backed(Topic[s])'
  BY DEF EntryBacked, InsertBacked, Backed
<1>1. disconnects = 0
  BY <1>0 DEF Next, Subscribe, CheckMap, BadQos, SendRequest, Insert, Receive, Recv, RecvClosed, Leave, Publish,
    EventLoop, PollSend, PollReceive, PassOn, RemoveDead, Reconnect, DevicePublishes, Disconnect, vars, connVars
<1>2. /\ \A t \in Topics : entry[t] # None => Backed(t)
      /\ \A s \in Subscribers : sub[s] = "inserting" => Backed(Topic[s])
  BY <1>1 DEF EntryBacked, InsertBacked, Backed
<1>3. ASSUME NEW t \in Topics, entry'[t] # None PROVE Backed(t)
  <2>1. CASE entry'[t] = entry[t]
    BY <1>2, <1>3, <2>1
  <2>2. ASSUME NEW s \in Subscribers, Insert(s), entry'[t] # entry[t] PROVE Backed(t)
    <3>1. t = Topic[s] /\ sub[s] = "inserting"
      BY <1>0, <2>2 DEF Insert
    <3> QED
      BY <1>2, <3>1
  <2>3. ASSUME RemoveDead PROVE entry'[t] = entry[t]
    BY <1>0, <1>3, <2>3 DEF RemoveDead
  <2>4. \/ entry'[t] = entry[t] \/ RemoveDead \/ \E s \in Subscribers : Insert(s)
    BY DEF Next, Subscribe, CheckMap, BadQos, SendRequest, Receive, Recv, RecvClosed, Leave, Publish,
      EventLoop, PollSend, PollReceive, PassOn, Reconnect, DevicePublishes, Disconnect, vars
  <2> QED
    BY <2>1, <2>2, <2>3, <2>4
<1>4. ASSUME NEW s \in Subscribers, sub'[s] = "inserting" PROVE Backed(Topic[s])'
  <2>1. CASE sub[s] = "inserting"
    BY <1>2, <1>4, <2>1, NextStaysBacked, ClientFields
  <2>2. CASE sub[s] # "inserting"
    <3>1. SendRequest(s)
      <4>1. ASSUME NEW r \in Subscribers, NEW to, sub' = [sub EXCEPT ![r] = to], to # "inserting" PROVE FALSE
        BY <1>0, <1>4, <2>2, <4>1
      <4>2. ASSUME UNCHANGED sub PROVE FALSE
        BY <1>4, <2>2, <4>2
      <4>3. \A r \in Subscribers : ~CheckMap(r)
        BY <4>1 DEF CheckMap
      <4>4. \A r \in Subscribers : ~BadQos(r) /\ ~Insert(r) /\ ~RecvClosed(r) /\ ~Leave(r)
        BY <4>1 DEF BadQos, Insert, RecvClosed, Leave
      <4>5. ASSUME NEW r \in Subscribers, SendRequest(r) PROVE r = s
        BY <1>0, <1>4, <2>2, <4>5 DEF SendRequest
      <4>6. ~(\/ \E r \in Subscribers : Recv(r)
              \/ \E p \in Publishers : Publish(p)
              \/ PollSend \/ PollReceive \/ RemoveDead \/ Reconnect \/ Disconnect
              \/ \E t \in Topics, d \in Payloads : DevicePublishes(t, d)
              \/ UNCHANGED vars)
        BY <4>2 DEF Recv, Publish, PollSend, PollReceive, PassOn, RemoveDead, Reconnect, Disconnect,
          DevicePublishes, vars, subVars
      <4> QED
        BY <4>3, <4>4, <4>5, <4>6 DEF Next, Subscribe, Receive, EventLoop
    <3>2. /\ Len(requests') = Len(requests) + 1
          /\ requests'[Len(requests) + 1] = [op |-> "sub", topic |-> Topic[s], by |-> s]
      BY <3>1, EnqueueFacts, ClientFields DEF SendRequest
    <3>3. Len(requests) + 1 \in 1 .. Len(requests')
      BY <3>2, LenProperties DEF TypeInv, TypeOK
    <3> QED
      BY <3>2, <3>3 DEF Backed
  <2> QED
    BY <2>1, <2>2
<1> QED
  BY <1>3, <1>4, NextStaysBacked

LEMMA Inductive == Safety => []IInv
<1>1. Init => IInv
  <2>1. Init => EntryBacked /\ InsertBacked
    BY DEF Init, EntryBacked, InsertBacked
  <2> QED
    BY <2>1, TypeInvInit, OrderInvInit DEF IInv
<1>2. IInv /\ [Next]_vars => IInv'
  BY TypeInvStep, OrderInvStep, BackedInvStep DEF IInv
<1> QED
  BY <1>1, <1>2, PTL DEF Safety

\* Every variable of the handle keeps its type; no channel and no request channel overflows.
THEOREM HandleTypeCorrect == Safety => []TypeOK
<1>1. IInv => TypeOK
  BY DEF IInv, TypeInv
<1> QED
  BY <1>1, Inductive, PTL

\* A node reads the messages of its topic in the order of the broker, each once, whatever the
\* subscribers of all topics do to the map, and without a gap while the connection holds.
THEOREM ReceivedInOrder == Safety => []InOrder
<1>1. IInv => InOrder
  BY DEF IInv, OrderInv
<1> QED
  BY <1>1, Inductive, PTL

\* A topic that has a channel in the map has its subscription at the broker or on its way to it.
THEOREM MapBacked == Safety => []EntryBacked
<1>1. IInv => EntryBacked
  BY DEF IInv
<1> QED
  BY <1>1, Inductive, PTL
=============================================================================
