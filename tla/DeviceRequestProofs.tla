------------------------ MODULE DeviceRequestProofs ------------------------
(***************************************************************************)
(* Proofs about DeviceRequest for every set of nodes that share one asset,  *)
(* every capacity of the channels and any number of reports and             *)
(* disconnects.                                                             *)
(***************************************************************************)
EXTENDS DeviceRequest, MqttHandleProofs

USE HandleAssumption, DeviceAssumption

\* The subscription to the responses has reached the broker, or stands ahead of request i.
BackedAhead(i) ==
  \/ "response" \in brokerSubs
  \/ \E j \in 1 .. i - 1 : requests[j].op = "sub" /\ requests[j].topic = "response"

\* AssetCanAnswer is not inductive: it needs that the subscription to the responses is on its way
\* before a node may publish, and that it stands ahead of each publish in the request channel.
SubscribedFirst ==
  disconnects = 0 =>
    /\ \A n \in Nodes : phase[n] \in Active \ {"subscribing"} => Backed("response")
    /\ \A i \in 1 .. Len(requests) : requests[i].op = "pub" => BackedAhead(i)

DeviceInv == IInv /\ DeviceTypeOK /\ SubscribedFirst /\ AssetCanAnswer

-----------------------------------------------------------------------------
(* Nodes as clients of the handle *)

LEMMA NodeClients ==
  ASSUME NEW n \in Nodes
  PROVE  /\ Status(n) \in Subscribers /\ Response(n) \in Subscribers /\ n \in Publishers
         /\ Topic[Status(n)] = "status" /\ Topic[Response(n)] = "response" /\ Topic[n] = "request"
         /\ {"status", "response", "request"} \subseteq Topics
         /\ Status(n) # Response(n)
         /\ \A m \in Nodes : m # n => /\ Status(m) \notin {Status(n), Response(n)}
                                      /\ Response(m) \notin {Status(n), Response(n)}
<1>1. Status(n) \in Subscribers /\ Response(n) \in Subscribers /\ n \in Publishers
  OBVIOUS
<1>2. Topic[Status(n)] = "status" /\ Topic[Response(n)] = "response" /\ Topic[n] = "request"
  OBVIOUS
<1>3. {"status", "response", "request"} \subseteq Topics
  BY <1>1, <1>2, ClientFields
<1>4. Status(n) # Response(n)
  BY DEF Status, Response
<1>5. \A m \in Nodes : m # n => /\ Status(m) \notin {Status(n), Response(n)}
                                /\ Response(m) \notin {Status(n), Response(n)}
  BY DEF Status, Response
<1> QED
  BY <1>1, <1>2, <1>3, <1>4, <1>5

LEMMA AllQosValid == \A x \in Clients : ValidQos(x)
BY DEF ValidQos

\* A node that ends departs from the handle with both its receivers.
LEMMA EndDeparts ==
  ASSUME NEW n \in Nodes, NEW result, End(n, result)
  PROVE  Depart({Status(n), Response(n)}) /\ UNCHANGED jobs /\ phase' = [phase EXCEPT ![n] = result]
BY DEF End, Depart, Goto

\* What the nodes and the asset do is a step of the handle, a departure, or nothing to it.
LEMMA DeviceStepsOfHandle ==
  ASSUME TypeInv, [DeviceNext]_deviceVars
  PROVE  \/ [Next]_vars
         \/ \E n \in Nodes : Depart({Status(n), Response(n)})
<1>1. ASSUME NEW n \in Nodes, Start(n) PROVE UNCHANGED vars
  BY <1>1 DEF Start
<1>2. ASSUME NEW n \in Nodes, SubscribeBoth(n) PROVE Next
  BY <1>2, NodeClients DEF SubscribeBoth, Next
<1>3. ASSUME NEW n \in Nodes, ReadStatus(n) PROVE Next
  BY <1>3, NodeClients DEF ReadStatus, Next, Receive
<1>4. ASSUME NEW n \in Nodes, RequestTask(n) PROVE Next
  BY <1>4, NodeClients DEF RequestTask, Next
<1>5. ASSUME NEW n \in Nodes, ReadResponse(n) PROVE Next \/ Depart({Status(n), Response(n)})
  <2>1. Recv(Response(n)) \/ \E result : End(n, result)
    BY <1>5 DEF ReadResponse
  <2> QED
    BY <2>1, NodeClients, EndDeparts DEF Next, Receive
<1>6. ASSUME NEW n \in Nodes, ReadClosed(n) \/ Cancel(n) PROVE Depart({Status(n), Response(n)})
  BY <1>6, EndDeparts DEF ReadClosed, Cancel
<1>7. ASSUME EventLoopStep PROVE Next
  BY <1>7 DEF EventLoopStep, PollSendToAsset, Next, EventLoop
<1>8. ASSUME (Reconnect \/ Disconnect) /\ UNCHANGED <<phase, jobs>> PROVE Next
  BY <1>8 DEF Next
<1>9. ASSUME NEW t, NEW d \in Payloads, DevicePublishes(t, d) PROVE Next
  <2>1. t \in Topics
    BY <1>9 DEF DevicePublishes, TypeInv, TypeOK
  <2> QED
    BY <1>9, <2>1 DEF Next
<1>10. ASSUME ReportState PROVE Next
  BY <1>9, <1>10 DEF ReportState
<1>11. ASSUME NEW status \in {"RUNNING", "COMPLETED", "FAILED"}, ReportTask(status) PROVE Next
  BY <1>9, <1>11 DEF ReportTask
<1>12. ASSUME EndUnheard \/ UNCHANGED deviceVars PROVE UNCHANGED vars
  BY <1>12 DEF EndUnheard, deviceVars
<1> QED
  BY <1>1, <1>2, <1>3, <1>4, <1>5, <1>6, <1>7, <1>8, <1>10, <1>11, <1>12 DEF DeviceNext, NodeStep

\* A departure leaves the handle as sound as it was.
LEMMA DepartKeepsHandle ==
  ASSUME IInv, NEW R, Depart(R)
  PROVE  IInv'
<1>1. TypeInv' /\ OrderInv'
  BY DepartTyped, DepartKeepsOrder DEF IInv
<1>2. UNCHANGED <<entry, requests, brokerSubs, disconnects>>
  BY DEF Depart, connVars, brokerVars
<1>3. EntryBacked'
  BY <1>2 DEF IInv, EntryBacked
<1>4. \A s \in Subscribers : sub'[s] = "inserting" => sub[s] = "inserting"
  BY DEF Depart
<1>5. InsertBacked'
  BY <1>2, <1>4 DEF IInv, InsertBacked, Backed
<1> QED
  BY <1>1, <1>3, <1>5 DEF IInv

\* So what is proved of the handle holds under the nodes and the asset.
LEMMA DeviceKeepsHandle ==
  ASSUME IInv, [DeviceNext]_deviceVars
  PROVE  IInv'
<1>1. ASSUME [Next]_vars PROVE IInv'
  BY <1>1, TypeInvStep, OrderInvStep, BackedInvStep DEF IInv
<1> QED
  BY <1>1, DeviceStepsOfHandle, DepartKeepsHandle DEF IInv

-----------------------------------------------------------------------------
(* Types *)

LEMMA SubscribeTouchesOne ==
  ASSUME TypeInv, NEW s \in Subscribers, Subscribe(s)
  PROVE  \A r \in Subscribers : r # s => sub'[r] = sub[r]
BY DEF TypeInv, TypeOK, Subscribe, CheckMap, BadQos, SendRequest, Insert

\* A step of a node moves this node only; what the others and the asset do moves none.
LEMMA NodeMoves ==
  ASSUME DeviceTypeOK, TypeInv, NEW n \in Nodes, Start(n) \/ NodeStep(n) \/ Cancel(n)
  PROVE  /\ \A m \in Nodes : m # n => /\ phase'[m] = phase[m]
                                      /\ sub'[Status(m)] = sub[Status(m)]
                                      /\ sub'[Response(m)] = sub[Response(m)]
         /\ phase' \in [Nodes -> {"idle"} \cup Active \cup Ended]
         /\ UNCHANGED jobs
<1>0. phase \in [Nodes -> {"idle"} \cup Active \cup Ended] /\ sub \in [Subscribers -> SubStates]
  BY DEF DeviceTypeOK, TypeOK
<1> DEFINE Q == /\ \A m \in Nodes : m # n => /\ phase'[m] = phase[m]
                                             /\ sub'[Status(m)] = sub[Status(m)]
                                             /\ sub'[Response(m)] = sub[Response(m)]
                /\ phase' \in [Nodes -> {"idle"} \cup Active \cup Ended]
                /\ UNCHANGED jobs
<1>1. ASSUME NEW p \in {"idle"} \cup Active \cup Ended, Goto(n, p) \/ UNCHANGED phase
      PROVE  /\ \A m \in Nodes : m # n => phase'[m] = phase[m]
             /\ phase' \in [Nodes -> {"idle"} \cup Active \cup Ended]
  BY <1>0, <1>1 DEF Goto
<1>2. ASSUME NEW result \in Ended, End(n, result) PROVE Q
  <2>1. \A m \in Nodes : m # n => sub'[Status(m)] = sub[Status(m)] /\ sub'[Response(m)] = sub[Response(m)]
    BY <1>2, NodeClients DEF End
  <2> QED
    BY <1>1, <1>2, <2>1 DEF End
<1>3. CASE Start(n)
  BY <1>1, <1>3 DEF Start, vars, subVars, Active
<1>4. CASE SubscribeBoth(n)
  <2>1. Subscribe(Status(n)) \/ Subscribe(Response(n))
    BY <1>4 DEF SubscribeBoth
  <2>2. \A m \in Nodes : m # n => sub'[Status(m)] = sub[Status(m)] /\ sub'[Response(m)] = sub[Response(m)]
    BY <2>1, SubscribeTouchesOne, NodeClients
  <2>3. \E p \in {"waiting", "subscribing"} : Goto(n, p) \/ UNCHANGED phase
    BY <1>4 DEF SubscribeBoth
  <2> QED
    BY <1>1, <1>4, <2>2, <2>3 DEF SubscribeBoth, Active
<1>5. CASE ReadStatus(n)
  <2>1. \E p \in {"waiting", "requesting"} : Goto(n, p)
    BY <1>5 DEF ReadStatus
  <2> QED
    BY <1>1, <1>5, <2>1 DEF ReadStatus, Recv, Active
<1>6. CASE RequestTask(n)
  BY <1>1, <1>6 DEF RequestTask, Publish, subVars, Active
<1>7. CASE ReadResponse(n)
  <2>1. \/ Recv(Response(n)) /\ UNCHANGED <<phase, jobs>>
        \/ \E result \in {"ok", "failed"} : End(n, result)
    BY <1>7 DEF ReadResponse, Result
  <2>2. \A result \in {"ok", "failed"} : result \in Ended
    BY DEF Ended
  <2>3. ASSUME Recv(Response(n)), UNCHANGED <<phase, jobs>> PROVE Q
    BY <1>0, <2>3 DEF Recv
  <2> QED
    BY <1>2, <2>1, <2>2, <2>3
<1>8. CASE ReadClosed(n) \/ Cancel(n)
  BY <1>2, <1>8 DEF ReadClosed, Cancel, Ended
<1> QED
  BY <1>3, <1>4, <1>5, <1>6, <1>7, <1>8 DEF NodeStep

\* What the event loop, the network and the asset may do to a node and to the tasks.
OtherStep ==
  \/ EventLoopStep
  \/ (Reconnect \/ Disconnect) /\ UNCHANGED <<phase, jobs>>
  \/ ReportState
  \/ \E status \in {"RUNNING", "COMPLETED", "FAILED"} : ReportTask(status)
  \/ EndUnheard
  \/ UNCHANGED deviceVars

LEMMA OthersLeaveNodes ==
  ASSUME OtherStep
  PROVE  UNCHANGED <<phase, sub, pub>>
BY DEF OtherStep, EventLoopStep, PollSendToAsset, PollSend, PollReceive, PassOn, RemoveDead, Reconnect,
  Disconnect, ReportState, ReportTask, DevicePublishes, EndUnheard, deviceVars, vars, subVars

\* The asset takes up a task that was published, or drops the one it works on.
LEMMA OthersAndTasks ==
  ASSUME TypeInv, jobs \in Seq(Nodes \cup {Foreign}), OtherStep
  PROVE  \/ UNCHANGED jobs
         \/ /\ PollSend /\ Head(requests).op = "pub" /\ Head(requests).by \in Nodes
            /\ jobs' = Append(jobs, Head(requests).by)
         \/ /\ jobs # <<>> /\ jobs' = Tail(jobs)
            /\ UNCHANGED requests /\ brokerSubs \subseteq brokerSubs'
<1>1. ASSUME PollSendToAsset, jobs' # jobs
      PROVE  /\ PollSend /\ Head(requests).op = "pub" /\ Head(requests).by \in Nodes
             /\ jobs' = Append(jobs, Head(requests).by)
  <2>1. PollSend /\ requests # <<>> /\ Head(requests).op = "pub" /\ jobs' = Append(jobs, Head(requests).by)
    BY <1>1 DEF PollSendToAsset, PollSend
  <2>2. requests \in Seq(Request) /\ Head(requests) = requests[1] /\ Len(requests) \in Nat /\ Len(requests) >= 1
    BY <2>1, TailFacts DEF TypeInv, TypeOK
  <2>3. requests[1].by \in Publishers
    BY <2>1, <2>2 DEF TypeInv, PublishersPublish
  <2> QED
    BY <2>1, <2>2, <2>3
<1>2. ASSUME NEW status, ReportTask(status), jobs' # jobs
      PROVE  jobs # <<>> /\ jobs' = Tail(jobs) /\ UNCHANGED requests /\ brokerSubs \subseteq brokerSubs'
  BY <1>2 DEF ReportTask, DevicePublishes
<1>3. ASSUME EndUnheard
      PROVE  jobs # <<>> /\ jobs' = Tail(jobs) /\ UNCHANGED requests /\ brokerSubs \subseteq brokerSubs'
  BY <1>3 DEF EndUnheard, vars, brokerVars
<1>4. ASSUME \/ (PollReceive \/ RemoveDead) /\ UNCHANGED <<phase, jobs>>
             \/ (Reconnect \/ Disconnect) /\ UNCHANGED <<phase, jobs>>
             \/ ReportState
             \/ UNCHANGED deviceVars
      PROVE  UNCHANGED jobs
  BY <1>4 DEF ReportState, deviceVars
<1> QED
  BY <1>1, <1>2, <1>3, <1>4 DEF OtherStep, EventLoopStep

\* Both receivers of a node that waits are listening.
Listening(n) ==
  phase[n] \in Active \ {"subscribing"} => sub[Status(n)] = "listening" /\ sub[Response(n)] = "listening"

LEMMA NodeStepKeepsListening ==
  ASSUME DeviceTypeOK, TypeInv, NEW n \in Nodes, Start(n) \/ NodeStep(n) \/ Cancel(n)
  PROVE  Listening(n)'
<1>0. /\ phase \in [Nodes -> {"idle"} \cup Active \cup Ended] /\ sub \in [Subscribers -> SubStates]
      /\ Listening(n)
  BY DEF DeviceTypeOK, TypeOK, Listening
<1>1. ASSUME NEW p, p \notin Active \ {"subscribing"}, Goto(n, p) PROVE Listening(n)'
  BY <1>0, <1>1 DEF Goto, Listening
<1>2. CASE Start(n)
  BY <1>1, <1>2 DEF Start
<1>3. CASE SubscribeBoth(n)
  <2>1. CASE Subscribe(Status(n)) /\ UNCHANGED phase
    BY <1>3, <2>1 DEF SubscribeBoth, Listening
  <2>2. CASE sub[Status(n)] = "listening" /\ Subscribe(Response(n)) /\ sub'[Response(n)] = "listening"
    <3>1. sub'[Status(n)] = "listening"
      BY <2>2, SubscribeTouchesOne, NodeClients
    <3> QED
      BY <2>2, <3>1 DEF Listening
  <2>3. CASE Goto(n, "subscribing")
    BY <1>1, <2>3
  <2> QED
    BY <1>3, <2>1, <2>2, <2>3 DEF SubscribeBoth
<1>4. ASSUME phase[n] \in {"waiting", "requesting", "awaiting"}, UNCHANGED sub PROVE Listening(n)'
  BY <1>0, <1>4 DEF Listening, Active
<1>5. CASE ReadStatus(n)
  BY <1>4, <1>5 DEF ReadStatus, Recv
<1>6. CASE RequestTask(n)
  BY <1>4, <1>6 DEF RequestTask, Publish, subVars
<1>7. ASSUME NEW result \in {"ok", "failed", "error", "cancelled"}, End(n, result) PROVE Listening(n)'
  BY <1>1, <1>7 DEF End, Active
<1>8. CASE ReadResponse(n)
  BY <1>4, <1>7, <1>8 DEF ReadResponse, Result, Recv
<1>9. CASE ReadClosed(n) \/ Cancel(n)
  BY <1>7, <1>9 DEF ReadClosed, Cancel
<1> QED
  BY <1>2, <1>3, <1>5, <1>6, <1>8, <1>9 DEF NodeStep

LEMMA DeviceSteps ==
  ASSUME [DeviceNext]_deviceVars
  PROVE  OtherStep \/ \E n \in Nodes : Start(n) \/ NodeStep(n) \/ Cancel(n)
BY DEF DeviceNext, OtherStep

LEMMA DeviceTypeStep ==
  ASSUME DeviceTypeOK, IInv, [DeviceNext]_deviceVars
  PROVE  DeviceTypeOK'
<1>0. TypeInv /\ TypeOK'
  BY DeviceKeepsHandle DEF IInv, TypeInv
<1>1. /\ phase \in [Nodes -> {"idle"} \cup Active \cup Ended]
      /\ jobs \in Seq(Nodes \cup {Foreign})
      /\ \A n \in Nodes : Listening(n)
  BY DEF DeviceTypeOK, Listening
<1>2. ASSUME NEW n \in Nodes, Start(n) \/ NodeStep(n) \/ Cancel(n)
      PROVE  /\ phase' \in [Nodes -> {"idle"} \cup Active \cup Ended]
             /\ jobs' \in Seq(Nodes \cup {Foreign})
             /\ \A m \in Nodes : Listening(m)'
  <2>1. \A m \in Nodes : m # n => Listening(m)'
    BY <1>0, <1>1, <1>2, NodeMoves DEF Listening
  <2> QED
    BY <1>0, <1>1, <1>2, <2>1, NodeMoves, NodeStepKeepsListening
<1>3. ASSUME OtherStep
      PROVE  /\ phase' \in [Nodes -> {"idle"} \cup Active \cup Ended]
             /\ jobs' \in Seq(Nodes \cup {Foreign})
             /\ \A m \in Nodes : Listening(m)'
  <2>1. UNCHANGED <<phase, sub>>
    BY <1>3, OthersLeaveNodes
  <2>2. jobs' \in Seq(Nodes \cup {Foreign})
    <3>1. ASSUME NEW n \in Nodes PROVE Append(jobs, n) \in Seq(Nodes \cup {Foreign})
      BY <1>1, AppendProperties
    <3>2. jobs # <<>> => Tail(jobs) \in Seq(Nodes \cup {Foreign})
      BY <1>1, TailFacts
    <3> QED
      BY <1>0, <1>1, <1>3, <3>1, <3>2, OthersAndTasks
  <2> QED
    BY <1>1, <2>1, <2>2 DEF Listening
<1> QED
  BY <1>0, <1>2, <1>3, DeviceSteps DEF DeviceTypeOK, Listening

-----------------------------------------------------------------------------
(* The subscription is ahead of the request *)

\* What a step does to the request channel and to the subscriptions while the connection holds.
LEMMA RequestsOfDevice ==
  ASSUME TypeInv, [DeviceNext]_deviceVars, disconnects' = 0
  PROVE  /\ disconnects = 0
         /\ brokerSubs \subseteq brokerSubs'
         /\ \/ UNCHANGED <<requests, brokerSubs>>
            \/ PollSend
            \/ \E s \in Subscribers : Enqueue("sub", s) /\ UNCHANGED brokerSubs
            \/ \E n \in Nodes : phase[n] = "requesting" /\ Enqueue("pub", n) /\ UNCHANGED brokerSubs
<1>0. disconnects \in Nat
  BY DEF TypeInv, TypeOK
<1> DEFINE Quiet == disconnects' = disconnects /\ UNCHANGED <<requests, brokerSubs>>
<1>1. ~Disconnect
  BY <1>0 DEF Disconnect
<1>2. ASSUME NEW n \in Nodes, Start(n) PROVE Quiet
  BY <1>2 DEF Start, vars, connVars, brokerVars
<1>3. ASSUME NEW s \in Subscribers, Subscribe(s)
      PROVE  Quiet \/ (Enqueue("sub", s) /\ UNCHANGED <<disconnects, brokerSubs>>)
  BY <1>3 DEF Subscribe, CheckMap, BadQos, SendRequest, Insert, connVars, brokerVars
<1>4. ASSUME NEW n \in Nodes, SubscribeBoth(n)
      PROVE  Quiet \/ \E s \in Subscribers : Enqueue("sub", s) /\ UNCHANGED <<disconnects, brokerSubs>>
  BY <1>3, <1>4, NodeClients DEF SubscribeBoth
<1>5. ASSUME NEW n \in Nodes, ReadStatus(n) \/ ReadResponse(n) \/ ReadClosed(n) \/ Cancel(n)
      PROVE  Quiet
  BY <1>5 DEF ReadStatus, ReadResponse, ReadClosed, Cancel, Recv, End, connVars, brokerVars
<1>6. ASSUME NEW n \in Nodes, RequestTask(n)
      PROVE  /\ phase[n] = "requesting" /\ UNCHANGED <<disconnects, brokerSubs>>
             /\ Enqueue("pub", n) \/ UNCHANGED requests
  BY <1>6 DEF RequestTask, Publish, connVars, brokerVars
<1>7. ASSUME PollSendToAsset PROVE PollSend /\ disconnects' = disconnects /\ brokerSubs \subseteq brokerSubs'
  BY <1>7 DEF PollSendToAsset, PollSend, connVars, brokerVars
<1>8. ASSUME \/ (PollReceive \/ RemoveDead) /\ UNCHANGED <<phase, jobs>>
             \/ Reconnect /\ UNCHANGED <<phase, jobs>>
             \/ ReportState
             \/ \E status : ReportTask(status)
             \/ EndUnheard
             \/ UNCHANGED deviceVars
      PROVE  Quiet
  BY <1>8 DEF PollReceive, PassOn, RemoveDead, Reconnect, ReportState, ReportTask, DevicePublishes,
    EndUnheard, deviceVars, vars, connVars, brokerVars
<1> QED
  BY <1>1, <1>2, <1>4, <1>5, <1>6, <1>7, <1>8 DEF DeviceNext, NodeStep, EventLoopStep

\* A node that has just subscribed to the responses found their channel in the map, or has put its own
\* there: either way the subscription is on its way.
LEMMA NewlyWaitingBacked ==
  ASSUME IInv, DeviceTypeOK, disconnects = 0, [DeviceNext]_deviceVars,
         NEW n \in Nodes,
         phase[n] \notin Active \ {"subscribing"}, phase'[n] \in Active \ {"subscribing"}
  PROVE  Backed("response")'
<1>0. /\ TypeInv /\ phase \in [Nodes -> {"idle"} \cup Active \cup Ended] /\ sub \in [Subscribers -> SubStates]
  BY DEF IInv, DeviceTypeOK, TypeInv, TypeOK
<1> DEFINE s == Response(n)
<1>1. s \in Subscribers /\ Topic[s] = "response" /\ "response" \in Topics
  BY NodeClients
<1>2. SubscribeBoth(n)
  <2>1. ASSUME NEW m \in Nodes, m # n, Start(m) \/ NodeStep(m) \/ Cancel(m) PROVE FALSE
    BY <1>0, <2>1, NodeMoves
  <2>2. ASSUME OtherStep PROVE FALSE
    BY <2>2, OthersLeaveNodes
  <2>3. Start(n) \/ NodeStep(n) \/ Cancel(n)
    BY <2>1, <2>2, DeviceSteps
  <2>4. ~Start(n)
    BY <1>0 DEF Start, Goto
  <2>5. ~(ReadStatus(n) \/ RequestTask(n) \/ ReadResponse(n) \/ ReadClosed(n))
    BY DEF ReadStatus, RequestTask, ReadResponse, ReadClosed, Active
  <2>6. ~Cancel(n)
    BY <1>0 DEF Cancel, End, Goto, Active
  <2> QED
    BY <2>3, <2>4, <2>5, <2>6 DEF NodeStep
<1>3. Subscribe(s) /\ sub'[s] = "listening"
  BY <1>0, <1>2 DEF SubscribeBoth, Goto, Active
<1>4. CASE CheckMap(s)
  <2>1. entry["response"] # None /\ UNCHANGED <<requests, brokerSubs>>
    BY <1>0, <1>1, <1>3, <1>4 DEF CheckMap, brokerVars
  <2> QED
    BY <1>1, <2>1 DEF IInv, EntryBacked, Backed
<1>5. CASE Insert(s)
  <2>1. sub[s] = "inserting" /\ UNCHANGED <<requests, brokerSubs>>
    BY <1>5 DEF Insert, brokerVars
  <2> QED
    BY <1>1, <2>1 DEF IInv, InsertBacked, Backed
<1>6. ~BadQos(s) /\ ~SendRequest(s)
  BY <1>0, <1>1, <1>3 DEF BadQos, SendRequest
<1> QED
  BY <1>3, <1>4, <1>5, <1>6 DEF Subscribe

\* What stands ahead of a request stays ahead of it until it is taken on.
LEMMA StaysAhead ==
  ASSUME TypeInv, requests # <<>>, PollSend, NEW i \in 1 .. Len(requests) - 1, BackedAhead(i + 1)
  PROVE  BackedAhead(i)'
<1>0. requests \in Seq(Request) /\ Len(requests) \in Nat /\ i \in Nat
  BY LenProperties DEF TypeInv, TypeOK
<1>1. /\ Len(requests') = Len(requests) - 1 /\ Head(requests) = requests[1]
      /\ \A j \in 1 .. Len(requests) - 1 : requests'[j] = requests[j + 1]
  BY RequestTail DEF PollSend
<1>2. brokerSubs \subseteq brokerSubs'
  BY DEF PollSend, brokerVars
<1>3. CASE "response" \in brokerSubs
  BY <1>2, <1>3 DEF BackedAhead
<1>4. ASSUME NEW j \in 1 .. (i + 1) - 1, requests[j].op = "sub", requests[j].topic = "response"
      PROVE  BackedAhead(i)'
  <2>1. CASE j = 1
    <3>1. "response" \in brokerSubs'
      BY <1>1, <1>4, <2>1 DEF PollSend
    <3> QED
      BY <3>1 DEF BackedAhead
  <2>2. CASE j # 1
    <3>1. j - 1 \in 1 .. i - 1 /\ j - 1 \in 1 .. Len(requests) - 1 /\ j - 1 + 1 = j
      BY <1>0, <2>2
    <3>2. requests'[j - 1] = requests[j]
      BY <1>1, <3>1
    <3> QED
      BY <1>4, <3>1, <3>2 DEF BackedAhead
  <2> QED
    BY <2>1, <2>2
<1> QED
  BY <1>3, <1>4 DEF BackedAhead

LEMMA SubscribedFirstStep ==
  ASSUME DeviceInv, [DeviceNext]_deviceVars
  PROVE  SubscribedFirst'
<1>0. TypeInv /\ IInv /\ DeviceTypeOK
  BY DEF DeviceInv, IInv
<1> SUFFICES ASSUME disconnects' = 0
             PROVE  /\ \A n \in Nodes : phase'[n] \in Active \ {"subscribing"} => Backed("response")'
                    /\ \A i \in 1 .. Len(requests') : requests'[i].op = "pub" => BackedAhead(i)'
  BY DEF SubscribedFirst, Backed, BackedAhead
<1>1. /\ disconnects = 0
      /\ brokerSubs \subseteq brokerSubs'
      /\ \/ UNCHANGED <<requests, brokerSubs>>
         \/ PollSend
         \/ \E s \in Subscribers : Enqueue("sub", s) /\ UNCHANGED brokerSubs
         \/ \E n \in Nodes : phase[n] = "requesting" /\ Enqueue("pub", n) /\ UNCHANGED brokerSubs
  BY <1>0, RequestsOfDevice
<1>2. /\ \A n \in Nodes : phase[n] \in Active \ {"subscribing"} => Backed("response")
      /\ \A i \in 1 .. Len(requests) : requests[i].op = "pub" => BackedAhead(i)
  BY <1>1 DEF DeviceInv, SubscribedFirst
<1>3. requests \in Seq(Request) /\ Len(requests) \in Nat
  BY <1>0, LenProperties DEF TypeInv, TypeOK
<1>4. ASSUME NEW n \in Nodes, phase'[n] \in Active \ {"subscribing"} PROVE Backed("response")'
  <2>1. CASE phase[n] \in Active \ {"subscribing"}
    <3>1. "response" \in Topics /\ Subscribers \subseteq Clients /\ Nodes \subseteq Clients
      BY <1>4, NodeClients DEF Clients
    <3> QED
      BY <1>0, <1>1, <1>2, <2>1, <3>1, StaysBacked
  <2>2. CASE phase[n] \notin Active \ {"subscribing"}
    BY <1>0, <1>1, <1>4, <2>2, NewlyWaitingBacked
  <2> QED
    BY <2>1, <2>2
<1>5. ASSUME NEW i \in 1 .. Len(requests'), requests'[i].op = "pub" PROVE BackedAhead(i)'
  <2>1. CASE UNCHANGED <<requests, brokerSubs>>
    BY <1>2, <1>5, <2>1 DEF BackedAhead
  <2>2. CASE PollSend
    <3>1. /\ Len(requests') = Len(requests) - 1 /\ requests # <<>>
          /\ \A j \in 1 .. Len(requests) - 1 : requests'[j] = requests[j + 1]
      BY <1>0, <2>2, RequestTail DEF PollSend
    <3>2. i \in 1 .. Len(requests) - 1 /\ i + 1 \in 1 .. Len(requests)
      BY <1>3, <3>1
    <3>3. BackedAhead(i + 1)
      BY <1>2, <1>5, <3>1, <3>2
    <3> QED
      BY <1>0, <2>2, <3>1, <3>2, <3>3, StaysAhead
  <2>3. ASSUME NEW op \in {"sub", "pub"}, NEW x \in Clients, Enqueue(op, x), UNCHANGED brokerSubs,
               op = "pub" => Backed("response")
        PROVE  BackedAhead(i)'
    <3>1. /\ Len(requests') = Len(requests) + 1
          /\ \A j \in 1 .. Len(requests) : requests'[j] = requests[j]
          /\ requests'[Len(requests) + 1] = [op |-> op, topic |-> Topic[x], by |-> x]
      BY <1>0, <2>3, EnqueueFacts, Zenon
    <3>2. CASE i = Len(requests) + 1
      <4>1. op = "pub"
        BY <1>5, <3>1, <3>2
      <4>2. i - 1 = Len(requests)
        BY <1>3, <3>2
      <4> QED
        BY <2>3, <3>1, <4>1, <4>2 DEF Backed, BackedAhead
    <3>3. CASE i # Len(requests) + 1
      <4>1. i \in 1 .. Len(requests)
        BY <1>3, <3>1, <3>3
      <4>2. BackedAhead(i)
        BY <1>2, <1>5, <3>1, <4>1
      <4>3. \A j \in 1 .. i - 1 : j \in 1 .. Len(requests)
        BY <1>3, <4>1
      <4> QED
        BY <2>3, <3>1, <4>2, <4>3 DEF BackedAhead
    <3> QED
      BY <3>2, <3>3
  <2>4. CASE \E s \in Subscribers : Enqueue("sub", s) /\ UNCHANGED brokerSubs
    BY <2>3, <2>4, ClientFields
  <2>5. CASE \E n \in Nodes : phase[n] = "requesting" /\ Enqueue("pub", n) /\ UNCHANGED brokerSubs
    <3>1. PICK n \in Nodes : phase[n] = "requesting" /\ Enqueue("pub", n) /\ UNCHANGED brokerSubs
      BY <2>5
    <3>2. n \in Clients /\ Backed("response")
      BY <1>2, <3>1, NodeClients, ClientFields DEF Active
    <3> QED
      BY <2>3, <3>1, <3>2
  <2> QED
    BY <1>1, <2>1, <2>2, <2>4, <2>5
<1> QED
  BY <1>4, <1>5

\* The asset takes up a request only when it can answer it.
LEMMA AssetCanAnswerStep ==
  ASSUME DeviceInv, [DeviceNext]_deviceVars
  PROVE  AssetCanAnswer'
<1>0. TypeInv /\ IInv /\ DeviceTypeOK /\ jobs \in Seq(Nodes \cup {Foreign}) /\ Len(jobs) \in Nat
  BY LenProperties DEF DeviceInv, IInv, DeviceTypeOK
<1> SUFFICES ASSUME disconnects' = 0, NEW n \in Nodes, Contains(jobs', n)
             PROVE  "response" \in brokerSubs'
  BY DEF AssetCanAnswer
<1>1. disconnects = 0 /\ brokerSubs \subseteq brokerSubs'
  BY <1>0, RequestsOfDevice
<1>2. Contains(jobs, n) => "response" \in brokerSubs'
  BY <1>1 DEF DeviceInv, AssetCanAnswer
<1>3. ASSUME jobs' = jobs PROVE "response" \in brokerSubs'
  BY <1>2, <1>3
<1>4. ASSUME PollSend, requests # <<>>, Head(requests).op = "pub" PROVE "response" \in brokerSubs'
  <2>1. Head(requests) = requests[1] /\ 1 \in 1 .. Len(requests)
    BY <1>0, <1>4, TailFacts DEF TypeInv, TypeOK
  <2>2. BackedAhead(1)
    BY <1>1, <1>4, <2>1 DEF DeviceInv, SubscribedFirst
  <2>3. 1 .. 1 - 1 = {}
    OBVIOUS
  <2> QED
    BY <1>1, <2>2, <2>3 DEF BackedAhead
<1>5. ASSUME jobs # <<>>, jobs' = Tail(jobs) PROVE "response" \in brokerSubs'
  <2>1. Len(jobs') = Len(jobs) - 1 /\ \A i \in 1 .. Len(jobs) - 1 : jobs'[i] = jobs[i + 1]
    BY <1>0, <1>5, TailFacts
  <2>2. PICK i \in 1 .. Len(jobs') : jobs'[i] = n
    BY DEF Contains
  <2>3. i + 1 \in 1 .. Len(jobs) /\ i \in 1 .. Len(jobs) - 1
    BY <1>0, <2>1
  <2> QED
    BY <1>2, <2>1, <2>2, <2>3 DEF Contains
<1>6. ASSUME NEW m \in Nodes, Start(m) \/ NodeStep(m) \/ Cancel(m) PROVE UNCHANGED jobs
  BY <1>0, <1>6, NodeMoves
<1>7. ASSUME OtherStep PROVE "response" \in brokerSubs'
  BY <1>0, <1>3, <1>4, <1>5, <1>7, OthersAndTasks DEF PollSend
<1> QED
  BY <1>3, <1>6, <1>7, DeviceSteps

LEMMA DeviceInductive == DeviceSafety => []DeviceInv
<1>1. DeviceInit => DeviceInv
  <2> SUFFICES ASSUME DeviceInit PROVE DeviceInv
    OBVIOUS
  <2>1. IInv
    <3>1. EntryBacked /\ InsertBacked
      BY DEF DeviceInit, Init, EntryBacked, InsertBacked
    <3> QED
      BY <3>1, TypeInvInit, OrderInvInit DEF IInv, DeviceInit
  <2>2. DeviceTypeOK
    <3>1. phase = [n \in Nodes |-> "idle"]
      BY DEF DeviceInit
    <3>2. jobs \in Seq(Nodes \cup {Foreign})
      <4>1. Foreign \in Nodes \cup {Foreign}
        OBVIOUS
      <4>2. <<>> \in Seq(Nodes \cup {Foreign}) /\ <<Foreign>> \in Seq(Nodes \cup {Foreign})
        BY <4>1, EmptySeq
      <4> QED
        BY <4>2 DEF DeviceInit
    <3>3. TypeOK
      BY <2>1 DEF IInv, TypeInv
    <3> QED
      BY <3>1, <3>2, <3>3 DEF DeviceTypeOK, Active
  <2>3. SubscribedFirst
    BY DEF DeviceInit, Init, SubscribedFirst, Active
  <2>4. AssetCanAnswer
    <3> SUFFICES ASSUME NEW n \in Nodes, Contains(jobs, n) PROVE FALSE
      BY DEF AssetCanAnswer
    <3>1. CASE jobs = <<>>
      BY <3>1 DEF Contains
    <3>2. CASE jobs = <<Foreign>>
      BY <3>2 DEF Contains
    <3> QED
      BY <3>1, <3>2 DEF DeviceInit
  <2> QED
    BY <2>1, <2>2, <2>3, <2>4 DEF DeviceInv
<1>2. DeviceInv /\ [DeviceNext]_deviceVars => DeviceInv'
  BY DeviceKeepsHandle, DeviceTypeStep, SubscribedFirstStep, AssetCanAnswerStep DEF DeviceInv
<1> QED
  BY <1>1, <1>2, PTL DEF DeviceSafety

\* The nodes and the asset keep their types, and a node that waits holds both its receivers
\* whatever the other nodes do.
THEOREM DeviceTypeCorrect == DeviceSafety => []DeviceTypeOK
<1>1. DeviceInv => DeviceTypeOK
  BY DEF DeviceInv
<1> QED
  BY <1>1, DeviceInductive, PTL

\* While the connection holds, the subscription to the responses is at the broker before the asset
\* has the task of a node, for any number of nodes that share the channels of one asset.
THEOREM AssetAnswers == DeviceSafety => []AssetCanAnswer
<1>1. DeviceInv => AssetCanAnswer
  BY DEF DeviceInv
<1> QED
  BY <1>1, DeviceInductive, PTL

\* What MqttHandle promises any receiver holds for the receivers of the nodes: nothing the nodes
\* and the asset do together breaks the order of the messages or the backing of the map.
THEOREM NodesReceiveInOrder == DeviceSafety => [](InOrder /\ EntryBacked)
<1>1. DeviceInv => InOrder /\ EntryBacked
  BY DEF DeviceInv, IInv, OrderInv
<1> QED
  BY <1>1, DeviceInductive, PTL
=============================================================================
