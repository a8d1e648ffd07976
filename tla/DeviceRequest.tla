---------------------------- MODULE DeviceRequest ----------------------------
(***************************************************************************)
(* MqttDeviceReqNode of src/src/node/mqtt.rs on top of MqttHandle: nodes    *)
(* that ask one asset for a task each.  A node subscribes to the status and *)
(* the response topic of the asset, waits until it reads IDLE, publishes    *)
(* its request and waits until it reads COMPLETED or FAILED.                *)
(*                                                                         *)
(* The asset is the environment: it works on one task after the other,     *)
(* whoever asked for it, and reports its state and its tasks when it likes. *)
(* The node reads nothing but the status of a report.                      *)
(***************************************************************************)
EXTENDS MqttHandle, SequencesExt

CONSTANTS
  Nodes,
  Foreign,    \* a task of the asset that no node asked for
  MaxStates   \* bound: reports of the state of the asset

Status(n) == <<n, "status">>
Response(n) == <<n, "response">>

ASSUME DeviceAssumption ==
  /\ Foreign \notin Nodes
  /\ MaxStates \in Nat
  /\ Publishers = Nodes
  /\ Subscribers = {Status(n) : n \in Nodes} \cup {Response(n) : n \in Nodes}
  /\ \A n \in Nodes : /\ Topic[Status(n)] = "status"
                      /\ Topic[Response(n)] = "response"
                      /\ Topic[n] = "request"
  /\ \A x \in Clients : Qos[x] = 0
  /\ Payloads = {"IDLE", "BUSY", "RUNNING", "COMPLETED", "FAILED"}

VARIABLES
  phase,   \* progress of each node
  jobs     \* the tasks of the asset, the one it works on first

deviceVars == <<vars, phase, jobs>>

Active == {"subscribing", "waiting", "requesting", "awaiting"}
Ended == {"ok", "failed", "error", "cancelled"}

\* A node that has subscribed holds both its receivers until it ends.
DeviceTypeOK ==
  /\ TypeOK
  /\ phase \in [Nodes -> {"idle"} \cup Active \cup Ended]
  /\ jobs \in Seq(Nodes \cup {Foreign})
  /\ \A n \in Nodes : phase[n] \in Active \ {"subscribing"} =>
       sub[Status(n)] = "listening" /\ sub[Response(n)] = "listening"

DeviceInit ==
  /\ Init
  /\ phase = [n \in Nodes |-> "idle"]
  /\ jobs \in {<<>>, <<Foreign>>}

Goto(n, p) == phase' = [phase EXCEPT ![n] = p]

-----------------------------------------------------------------------------
(* mqtt_device_req_node *)

Start(n) ==
  /\ phase[n] = "idle"
  /\ Goto(n, "subscribing")
  /\ UNCHANGED <<vars, jobs>>

\* Defective variant: the responses are not subscribed to before the request is out.
SubscribeStatusOnly(n) ==
  /\ phase[n] = "subscribing"
  /\ Subscribe(Status(n))
  /\ Goto(n, IF sub'[Status(n)] = "listening" THEN "waiting" ELSE "subscribing")
  /\ UNCHANGED jobs

\* The status topic first, then the response topic.
SubscribeBoth(n) ==
  /\ phase[n] = "subscribing"
  /\ \/ Subscribe(Status(n)) /\ UNCHANGED phase
     \/ /\ sub[Status(n)] = "listening"
        /\ Subscribe(Response(n))
        /\ Goto(n, IF sub'[Response(n)] = "listening" THEN "waiting" ELSE "subscribing")
  /\ UNCHANGED jobs

\* A Lagged receiver goes on with what is left, a message that does not parse is skipped.
ReadStatus(n) ==
  /\ phase[n] = "waiting"
  /\ Recv(Status(n))
  /\ Goto(n, IF Head(inbox[Status(n)]).data = "IDLE" THEN "requesting" ELSE "waiting")
  /\ UNCHANGED jobs

RequestTask(n) ==
  /\ phase[n] = "requesting"
  /\ Publish(n)
  /\ Goto(n, "awaiting")
  /\ UNCHANGED jobs

\* The future ends and drops both receivers.
End(n, result) ==
  LET receivers == {Status(n), Response(n)}
  IN  /\ Goto(n, result)
      /\ sub' = [s \in Subscribers |-> IF s \in receivers THEN "gone" ELSE sub[s]]
      /\ inbox' = [s \in Subscribers |-> IF s \in receivers THEN <<>> ELSE inbox[s]]
      /\ UNCHANGED <<chan, got, pub, entry, requests, removing, connVars, brokerVars, jobs>>

\* Defective variant: FAILED is one more status to skip.
ResultOnCompleted(status) == IF status = "COMPLETED" THEN "ok" ELSE "awaiting"

\* What the status of a report makes of a node.
Result(status) ==
  CASE status = "COMPLETED" -> "ok"
    [] status = "FAILED" -> "failed"
    [] OTHER -> "awaiting"

ReadResponse(n) ==
  /\ phase[n] = "awaiting"
  /\ inbox[Response(n)] # <<>>
  /\ LET result == Result(Head(inbox[Response(n)]).data)
     IN  IF result = "awaiting"
           THEN Recv(Response(n)) /\ UNCHANGED <<phase, jobs>>
           ELSE End(n, result)

ReadClosed(n) ==
  /\ \/ phase[n] = "waiting" /\ Closed(Status(n))
     \/ phase[n] = "awaiting" /\ Closed(Response(n))
  /\ End(n, "error")

\* The workflow is cancelled at an await; subscribe() has none before its insert.
Cancel(n) ==
  /\ phase[n] \in Active
  /\ sub[Status(n)] # "inserting" /\ sub[Response(n)] # "inserting"
  /\ End(n, "cancelled")

-----------------------------------------------------------------------------
(* The asset *)

\* It takes up a request when the request goes out.
PollSendToAsset ==
  /\ PollSend
  /\ jobs' = IF Head(requests).op = "pub" THEN Append(jobs, Head(requests).by) ELSE jobs
  /\ UNCHANGED phase

ReportState ==
  /\ sent["status"] < MaxStates
  /\ DevicePublishes("status", IF jobs = <<>> THEN "IDLE" ELSE "BUSY")
  /\ UNCHANGED <<phase, jobs>>

ReportTask(status) ==
  /\ jobs # <<>>
  /\ DevicePublishes("response", status)
  /\ jobs' = IF status = "RUNNING" THEN jobs ELSE Tail(jobs)
  /\ UNCHANGED phase

\* A task ends while nobody is subscribed, or the orchestrator is not connected.
EndUnheard ==
  /\ jobs # <<>>
  /\ conn = "down" \/ "response" \notin brokerSubs
  /\ jobs' = Tail(jobs)
  /\ UNCHANGED <<vars, phase>>

NodeStep(n) == SubscribeBoth(n) \/ ReadStatus(n) \/ RequestTask(n) \/ ReadResponse(n) \/ ReadClosed(n)
EventLoopStep == PollSendToAsset \/ ((PollReceive \/ RemoveDead) /\ UNCHANGED <<phase, jobs>>)

DeviceNext ==
  \/ \E n \in Nodes : Start(n) \/ NodeStep(n) \/ Cancel(n)
  \/ EventLoopStep
  \/ (Reconnect \/ Disconnect) /\ UNCHANGED <<phase, jobs>>
  \/ ReportState
  \/ \E status \in {"RUNNING", "COMPLETED", "FAILED"} : ReportTask(status)
  \/ EndUnheard

DeviceSafety == DeviceInit /\ [][DeviceNext]_deviceVars

\* As in MqttHandle: tokio polls every task, and the event loop polls its requests and the
\* network.  The asset, the network and cancellations owe nothing.
DeviceFairness ==
  /\ \A n \in Nodes : WF_deviceVars(NodeStep(n))
  /\ WF_deviceVars(PollSendToAsset)
  /\ WF_deviceVars((PollReceive \/ RemoveDead) /\ UNCHANGED <<phase, jobs>>)

DeviceSpec == DeviceSafety /\ DeviceFairness

-----------------------------------------------------------------------------
(* Properties *)

\* While the connection holds, an asset that has the task of a node can report to it: the
\* subscription to the responses has reached the broker before the request did, however
\* the nodes share and lose their channels.
AssetCanAnswer ==
  disconnects = 0 => \A n \in Nodes : Contains(jobs, n) => "response" \in brokerSubs

IsOutcome(m) == m.topic = "response" /\ m.data \in {"COMPLETED", "FAILED"}

OutcomeOnItsWay(n) ==
  \/ \E i \in 1 .. Len(inbound) : IsOutcome(inbound[i])
  \/ \E i \in 1 .. Len(inbox[Response(n)]) : IsOutcome(inbox[Response(n)][i])

\* The asset reports an outcome while a node waits for one: the node ends, with the outcome,
\* or with an error when its channel was taken from it; unless the connection goes first.
\* For a receiver that does not lag.
OutcomeEndsNode ==
  \A n \in Nodes : (phase[n] = "awaiting" /\ OutcomeOnItsWay(n)) ~> (phase[n] \in Ended \/ conn = "down")

\* docs/interfaces.md: a TaskStatus carries the id of the TaskRequest it is about.  A node
\* that reports ok has its task done: the asset has it no more.
OkMeansDone == \A n \in Nodes : phase[n] = "ok" => ~Contains(jobs, n)
=============================================================================
