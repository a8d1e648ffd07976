----------------------------- MODULE MqttHandle -----------------------------
(***************************************************************************)
(* MqttHandle of src/src/client/clients/mqtt.rs: many workflow nodes share  *)
(* one MQTT connection.  subscriptions maps a topic to the sender of a      *)
(* broadcast channel; subscribe() joins the channel of its topic or asks    *)
(* the broker for the topic and puts a channel of its own into the map; the *)
(* event loop spawned by connect() passes incoming messages to the channels *)
(* and removes a channel that nobody receives from.                         *)
(*                                                                         *)
(* Nodes run on many threads: each access to the DashMap is one step.  A    *)
(* channel is named by the subscriber that created it.  Devices publish     *)
(* without retain.                                                          *)
(***************************************************************************)
EXTENDS Naturals, Sequences

CONSTANTS
  Subscribers,      \* calls of subscribe, one per node
  Publishers,       \* calls of publish
  Topics,
  Payloads,         \* what devices publish
  Topic,            \* [Clients -> Topics]
  Qos,              \* [Clients -> Nat], from the config of the node
  ChannelCapacity,  \* of a broadcast channel, 16 in the code
  RequestCapacity,  \* of the client's request channel, 64 in the code
  MaxMessages,      \* bound: messages that devices publish on a topic
  MaxDisconnects,   \* bound: lost connections
  None

Clients == Subscribers \cup Publishers

ASSUME HandleAssumption ==
  /\ Topic \in [Clients -> Topics]
  /\ Qos \in [Clients -> Nat]
  /\ {ChannelCapacity, RequestCapacity} \subseteq Nat \ {0}
  /\ {MaxMessages, MaxDisconnects} \subseteq Nat
  /\ None \notin Topics \cup Subscribers

VARIABLES
  sub,          \* [Subscribers -> SubStates]
  chan,         \* [Subscribers -> the channel it receives from, or None]
  inbox,        \* [Subscribers -> what its receiver has not read yet]
  got,          \* [Subscribers -> the number of the last message it read]
  pub,          \* [Publishers -> {"idle", "sent", "failed"}]
  entry,        \* subscriptions: [Topics -> channel, or None]
  requests,     \* the request channel to the event loop
  removing,     \* the topic whose send failed, until the event loop removes it
  conn,         \* the connection, as the event loop sees it
  disconnects,
  brokerSubs,   \* the topics the broker has subscriptions of this client for
  inbound,      \* messages on their way from the broker
  sent          \* [Topics -> number of messages the broker has passed on]

subVars == <<sub, chan, inbox, got>>
brokerVars == <<brokerSubs, inbound, sent>>
connVars == <<conn, disconnects>>
vars == <<subVars, pub, entry, requests, removing, connVars, brokerVars>>

SubStates == {"idle", "requesting", "inserting", "listening", "failed", "closed", "gone"}
\* The payload of a publish call is named by the call.
Message == [topic : Topics, n : Nat, data : Payloads \cup Publishers]
Request == [op : {"sub", "pub"}, topic : Topics, by : Clients]

TypeOK ==
  /\ sub \in [Subscribers -> SubStates]
  /\ chan \in [Subscribers -> Subscribers \cup {None}]
  /\ inbox \in [Subscribers -> Seq(Message)]
  /\ \A s \in Subscribers : Len(inbox[s]) <= ChannelCapacity
  /\ got \in [Subscribers -> Nat]
  /\ pub \in [Publishers -> {"idle", "sent", "failed"}]
  /\ entry \in [Topics -> Subscribers \cup {None}]
  /\ requests \in Seq(Request)
  /\ Len(requests) <= RequestCapacity
  /\ removing \in Topics \cup {None}
  /\ conn \in {"up", "down"}
  /\ disconnects \in 0 .. MaxDisconnects
  /\ brokerSubs \subseteq Topics
  /\ inbound \in Seq(Message)
  /\ sent \in [Topics -> Nat]

Init ==
  /\ sub = [s \in Subscribers |-> "idle"]
  /\ chan = [s \in Subscribers |-> None]
  /\ inbox = [s \in Subscribers |-> <<>>]
  /\ got = [s \in Subscribers |-> 0]
  /\ pub = [p \in Publishers |-> "idle"]
  /\ entry = [t \in Topics |-> None]
  /\ requests = <<>>
  /\ removing = None
  /\ conn = "up"
  /\ disconnects = 0
  /\ brokerSubs = {}
  /\ inbound = <<>>
  /\ sent = [t \in Topics |-> 0]

-----------------------------------------------------------------------------
(* subscribe *)

\* subscriptions.get(topic): join the channel that is there, or make one.
CheckMap(s) ==
  /\ sub[s] = "idle"
  /\ IF entry[Topic[s]] # None
       THEN /\ sub' = [sub EXCEPT ![s] = "listening"]
            /\ chan' = [chan EXCEPT ![s] = entry[Topic[s]]]
       ELSE /\ sub' = [sub EXCEPT ![s] = "requesting"]
            /\ chan' = [chan EXCEPT ![s] = s]
  /\ UNCHANGED <<inbox, got, pub, entry, requests, removing, connVars, brokerVars>>

ValidQos(x) == Qos[x] <= 2

\* Found out only by the call that would subscribe at the broker.
BadQos(s) ==
  /\ sub[s] = "requesting"
  /\ ~ValidQos(s)
  /\ sub' = [sub EXCEPT ![s] = "failed"]
  /\ UNCHANGED <<chan, inbox, got, pub, entry, requests, removing, connVars, brokerVars>>

Enqueue(op, x) ==
  /\ Len(requests) < RequestCapacity
  /\ requests' = Append(requests, [op |-> op, topic |-> Topic[x], by |-> x])

\* Defective variant: a full request channel is not waited for (try_subscribe).
TrySendRequest(s) ==
  /\ sub[s] = "requesting"
  /\ ValidQos(s)
  /\ \/ Enqueue("sub", s)
     \/ Len(requests) = RequestCapacity /\ UNCHANGED requests
  /\ sub' = [sub EXCEPT ![s] = "inserting"]
  /\ UNCHANGED <<chan, inbox, got, pub, entry, removing, connVars, brokerVars>>

\* Defective variant: the client has an unbounded request channel.
SendRequestUnbounded(s) ==
  /\ sub[s] = "requesting"
  /\ ValidQos(s)
  /\ requests' = Append(requests, [op |-> "sub", topic |-> Topic[s], by |-> s])
  /\ sub' = [sub EXCEPT ![s] = "inserting"]
  /\ UNCHANGED <<chan, inbox, got, pub, entry, removing, connVars, brokerVars>>

\* client.subscribe(..).await returns when the request is in the channel.
SendRequest(s) ==
  /\ sub[s] = "requesting"
  /\ ValidQos(s)
  /\ Enqueue("sub", s)
  /\ sub' = [sub EXCEPT ![s] = "inserting"]
  /\ UNCHANGED <<chan, inbox, got, pub, entry, removing, connVars, brokerVars>>

\* Whatever another subscriber has put there meanwhile is overwritten.
Insert(s) ==
  /\ sub[s] = "inserting"
  /\ sub' = [sub EXCEPT ![s] = "listening"]
  /\ entry' = [entry EXCEPT ![Topic[s]] = s]
  /\ UNCHANGED <<chan, inbox, got, pub, requests, removing, connVars, brokerVars>>

-----------------------------------------------------------------------------
(* The receiver in the node, and publish *)

\* The sender of a channel is in the map, or still with the subscriber that made it.
SenderAlive(c) == entry[Topic[c]] = c \/ sub[c] \in {"requesting", "inserting"}

\* recv() returns RecvError::Closed.
Closed(s) == sub[s] = "listening" /\ inbox[s] = <<>> /\ ~SenderAlive(chan[s])

Recv(s) ==
  /\ sub[s] = "listening"
  /\ inbox[s] # <<>>
  /\ inbox' = [inbox EXCEPT ![s] = Tail(@)]
  /\ got' = [got EXCEPT ![s] = Head(inbox[s]).n]
  /\ UNCHANGED <<sub, chan, pub, entry, requests, removing, connVars, brokerVars>>

\* Defective variant: Closed is handled like Lagged, with `continue`.
RecvClosedIgnored(s) ==
  /\ Closed(s)
  /\ UNCHANGED vars

\* The node ends with an error.
RecvClosed(s) ==
  /\ Closed(s)
  /\ sub' = [sub EXCEPT ![s] = "closed"]
  /\ UNCHANGED <<chan, inbox, got, pub, entry, requests, removing, connVars, brokerVars>>

\* The node has what it waited for, or its workflow is cancelled: the future is dropped
\* with its receiver, at an await.
Leave(s) ==
  /\ sub[s] \in {"requesting", "listening"}
  /\ sub' = [sub EXCEPT ![s] = "gone"]
  /\ inbox' = [inbox EXCEPT ![s] = <<>>]
  /\ UNCHANGED <<chan, got, pub, entry, requests, removing, connVars, brokerVars>>

Publish(p) ==
  /\ pub[p] = "idle"
  /\ IF ValidQos(p)
       THEN Enqueue("pub", p) /\ pub' = [pub EXCEPT ![p] = "sent"]
       ELSE pub' = [pub EXCEPT ![p] = "failed"] /\ UNCHANGED requests
  /\ UNCHANGED <<subVars, entry, removing, connVars, brokerVars>>

-----------------------------------------------------------------------------
(* The event loop *)

Polling == removing = None /\ conn = "up"

\* The broker passes a message on to a subscribed client.
Route(t, d) ==
  /\ sent' = [sent EXCEPT ![t] = @ + 1]
  /\ inbound' = Append(inbound, [topic |-> t, n |-> sent[t] + 1, data |-> d])

PollSend ==
  /\ Polling
  /\ requests # <<>>
  /\ requests' = Tail(requests)
  /\ LET r == Head(requests)
     IN  CASE r.op = "sub" -> brokerSubs' = brokerSubs \cup {r.topic} /\ UNCHANGED <<inbound, sent>>
           [] r.op = "pub" /\ r.topic \in brokerSubs -> Route(r.topic, r.by) /\ UNCHANGED brokerSubs
           [] OTHER -> UNCHANGED brokerVars
  /\ UNCHANGED <<subVars, pub, entry, removing, connVars>>

\* Defective variant: the oldest message is lost one too early.
PushOneShort(q, m) == IF Len(q) + 1 < ChannelCapacity THEN Append(q, m) ELSE Append(Tail(q), m)

\* A full channel loses its oldest message, the receiver sees Lagged.
Push(q, m) == IF Len(q) < ChannelCapacity THEN Append(q, m) ELSE Append(Tail(q), m)

Receivers(c) == {s \in Subscribers : sub[s] = "listening" /\ chan[s] = c}

\* subs.get(topic) and tx.send, under the map's lock.
PassOn(m) ==
  LET receivers == IF entry[m.topic] = None THEN {} ELSE Receivers(entry[m.topic])
  IN  /\ inbox' = [s \in Subscribers |-> IF s \in receivers THEN Push(inbox[s], m) ELSE inbox[s]]
      /\ removing' = IF entry[m.topic] # None /\ receivers = {} THEN m.topic ELSE None
      /\ UNCHANGED <<sub, chan, got, pub, entry, requests, connVars, brokerSubs, sent>>

\* Defective variant: each message is passed on by a task of its own.
PollReceiveSpawning ==
  /\ Polling
  /\ \E i \in 1 .. Len(inbound) :
       /\ inbound' = SubSeq(inbound, 1, i - 1) \o SubSeq(inbound, i + 1, Len(inbound))
       /\ PassOn(inbound[i])

PollReceive ==
  /\ Polling
  /\ inbound # <<>>
  /\ inbound' = Tail(inbound)
  /\ PassOn(Head(inbound))

\* subs.remove(topic), after the lock was released: whatever is there now goes.  The
\* broker is not told.
RemoveDead ==
  /\ removing # None
  /\ entry' = [entry EXCEPT ![removing] = None]
  /\ removing' = None
  /\ UNCHANGED <<subVars, pub, requests, connVars, brokerVars>>

\* Defective variant: the loop is left at the first error.
PollErrorEndsLoop ==
  /\ conn = "down"
  /\ UNCHANGED vars

\* After the pause, poll() connects again, with a clean session; no one subscribes anew.
Reconnect ==
  /\ conn = "down"
  /\ removing = None
  /\ conn' = "up"
  /\ UNCHANGED <<subVars, pub, entry, requests, removing, disconnects, brokerVars>>

-----------------------------------------------------------------------------
(* Devices and the network *)

DevicePublishes(t, d) ==
  /\ conn = "up"
  /\ t \in brokerSubs
  /\ sent[t] < MaxMessages
  /\ Route(t, d)
  /\ UNCHANGED <<subVars, pub, entry, requests, removing, connVars, brokerSubs>>

\* The broker forgets a clean session, and poll() takes out of the request channel all that waits
\* there, to drop it when the new connection has no session.
Disconnect ==
  /\ conn = "up"
  /\ disconnects < MaxDisconnects
  /\ conn' = "down"
  /\ disconnects' = disconnects + 1
  /\ brokerSubs' = {}
  /\ inbound' = <<>>
  /\ requests' = <<>>
  /\ UNCHANGED <<subVars, pub, entry, removing, sent>>

Subscribe(s) == CheckMap(s) \/ BadQos(s) \/ SendRequest(s) \/ Insert(s)
Receive(s) == Recv(s) \/ RecvClosed(s)
EventLoop == PollSend \/ PollReceive \/ RemoveDead

Next ==
  \/ \E s \in Subscribers : Subscribe(s) \/ Receive(s) \/ Leave(s)
  \/ \E p \in Publishers : Publish(p)
  \/ EventLoop
  \/ Reconnect
  \/ \E t \in Topics, d \in Payloads : DevicePublishes(t, d)
  \/ Disconnect

Safety == Init /\ [][Next]_vars

\* Tokio polls every task; poll() may pick either its requests or the network, and the
\* network is read again and again, so neither starves.  The request channel serves its
\* waiters in turn.  The broker is reachable again
\* after each loss.
Fairness ==
  /\ \A s \in Subscribers :
       WF_vars(BadQos(s) \/ SendRequest(s) \/ Insert(s)) /\ WF_vars(Receive(s))
  /\ WF_vars(PollSend) /\ WF_vars(PollReceive) /\ WF_vars(RemoveDead)
  /\ WF_vars(Reconnect)

Spec == Safety /\ Fairness

-----------------------------------------------------------------------------
(* Properties *)

\* A receiver gets messages of its own topic only, each once, in the order in which the
\* broker passed them on, and while the connection holds without a gap behind the ones
\* it lost as Lagged.
InOrder ==
  \A s \in Subscribers : LET q == inbox[s] IN
    /\ \A i \in 1 .. Len(q) : q[i].topic = Topic[s] /\ q[i].n > got[s]
    /\ \A i \in 2 .. Len(q) :
         IF disconnects = 0 THEN q[i].n = q[i - 1].n + 1 ELSE q[i].n > q[i - 1].n

\* A node may rely on the map: a topic that has a channel is subscribed at the broker, or
\* its SUBSCRIBE is in the request channel ahead of what the node publishes next.
EntryBacked ==
  disconnects = 0 =>
    \A t \in Topics : entry[t] # None =>
      t \in brokerSubs \/ \E i \in 1 .. Len(requests) : requests[i].op = "sub" /\ requests[i].topic = t

\* A node whose channel has been taken out of the map is told so: it reads what is left
\* and ends with an error.
OrphanIsTold ==
  \A s \in Subscribers :
    (sub[s] = "listening" /\ ~SenderAlive(chan[s])) ~> sub[s] # "listening"

\* subscribe() comes back, also when the request channel is full or the connection lost.
SubscribeReturns ==
  \A s \in Subscribers : sub[s] \in {"requesting", "inserting"} ~> sub[s] \notin {"requesting", "inserting"}

\* Where a subscriber stands for the promise of TopicFeed.
ReaderState(s) ==
  IF sub[s] \in {"idle", "requesting", "inserting"} THEN "outside"
  ELSE IF sub[s] = "listening" THEN "listening" ELSE "ended"

\* The handle keeps the promise of TopicFeed, whatever the nodes of other diagrams do to the map
\* and to the channels that they share.
Feed == INSTANCE TopicFeed WITH
  Readers <- Subscribers, Capacity <- ChannelCapacity,
  state <- [s \in Subscribers |-> ReaderState(s)], lost <- disconnects > 0

KeepsFeed == Feed!Spec

\* The comment at mqtt.rs:151: a topic is dropped when no more receivers are active.
RemovesOnlyDead ==
  [][removing # None /\ removing' = None => Receivers(entry[removing]) = {}]_vars

\* docs/nodes.md: mqtt_listen streams the messages of its topic continuously.  A node that
\* listens while the client is connected has, or will have, its subscription at the broker.
ListenerIsServed ==
  \A s \in Subscribers :
    (sub[s] = "listening" /\ conn = "up") ~>
      (sub[s] # "listening" \/ conn = "down" \/ Topic[s] \in brokerSubs)
=============================================================================
