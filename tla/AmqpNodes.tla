------------------------------ MODULE AmqpNodes ------------------------------
(***************************************************************************)
(* The AMQP workflow nodes of src/src/node/amqp.rs on top of AmqpClient: a  *)
(* GoToNode is one request_response call under its task's URN, a DelayNode  *)
(* publishes a COMPLETED TaskStatus when its delay has passed.  DefaultNode *)
(* keeps no state and calls nothing.                                        *)
(***************************************************************************)
EXTENDS AmqpClient

CONSTANTS
  Delayers,      \* running DelayNodes
  GoToIds,       \* the task_id fields of GoToNode configs
  DelayIds       \* the task_id fields of DelayNode configs

\* A GoToNode prefixes its task_id, a DelayNode publishes its own as configured.
Urn(id) == <<"urn:ngsi-ld:Task:", id>>

ASSUME NodesAssumption ==
  /\ \A id \in GoToIds : Urn(id) \in Keys
  /\ DelayIds \subseteq Keys

VARIABLES
  output,   \* what each GoToNode handed to the next node: "none" or "ok"
  delay     \* progress of each DelayNode

nodeVars == <<output, delay>>
allVars == <<vars, nodeVars>>

NodesTypeOK ==
  /\ TypeOK
  /\ output \in [Callers -> {"none", "ok"}]
  /\ delay \in [Delayers -> {"idle", "delaying", "ok"}]

NodesInit ==
  /\ Init
  /\ output = [c \in Callers |-> "none"]
  /\ delay = [d \in Delayers |-> "idle"]

\* Defective variant: the waiter is registered under the bare id of the config.
GoToStartBare(c, id) == Register(c, id) /\ UNCHANGED nodeVars

GoToStart(c, id) == Register(c, Urn(id)) /\ UNCHANGED nodeVars

\* Defective variant: the node hands on its output without awaiting the response.
GoToFinishEarly(c) ==
  /\ call[c] \in {"awaiting", "returned", "failed"}
  /\ output[c] = "none"
  /\ output' = [output EXCEPT ![c] = "ok"]
  /\ UNCHANGED <<vars, delay>>

\* Ok or Err, the result is logged and {"status": "ok"} handed on.
GoToFinish(c) ==
  /\ call[c] \in {"returned", "failed"}
  /\ output[c] = "none"
  /\ output' = [output EXCEPT ![c] = "ok"]
  /\ UNCHANGED <<vars, delay>>

DelayStart(d) ==
  /\ delay[d] = "idle"
  /\ delay' = [delay EXCEPT ![d] = "delaying"]
  /\ UNCHANGED <<vars, output>>

\* The timer fires and the status is published.
DelayFinish(d, id) ==
  /\ delay[d] = "delaying"
  /\ delay' = [delay EXCEPT ![d] = "ok"]
  /\ PublishStatus(id)
  /\ UNCHANGED output

NodesRestart ==
  /\ Restart
  /\ output' = [c \in Callers |-> "none"]
  /\ delay' = [d \in Delayers |-> "idle"]

ClientStep ==
  \/ \E c \in Callers, x \in Exchanges : Publish(c, x)
  \/ \E c \in Callers : PublishFails(c) \/ AwaitResponse(c) \/ DropCall(c)
  \/ Listening
  \/ \E k \in Keys, s \in AssetStatuses : TaskStatusArrives(k, s)
  \/ LinkBreaks
  \/ LinkLossNoticed
  \/ ChannelCloseNoticed

NodesNext ==
  \/ ClientStep /\ UNCHANGED nodeVars
  \/ \E c \in Callers, id \in GoToIds : GoToStart(c, id)
  \/ \E c \in Callers : GoToFinish(c)
  \/ \E d \in Delayers : DelayStart(d)
  \/ \E d \in Delayers, id \in DelayIds : DelayFinish(d, id)
  \/ NodesRestart

\* Tokio polls a ready future: the listener task and the futures of the nodes proceed.
\* Assets, timers, the connection, cancellations and restarts owe nothing.
Fairness ==
  /\ WF_allVars(Listening /\ UNCHANGED nodeVars)
  /\ \A c \in Callers :
       /\ WF_allVars(AwaitResponse(c) /\ UNCHANGED nodeVars)
       /\ WF_allVars(GoToFinish(c))
       /\ WF_allVars((PublishFails(c) \/ \E x \in Exchanges : Publish(c, x)) /\ UNCHANGED nodeVars)

NodesSafety == NodesInit /\ [][NodesNext]_allVars
NodesSpec == NodesSafety /\ Fairness

-----------------------------------------------------------------------------
(* Properties *)

Buffered(k, statuses) ==
  \E i \in 1 .. Len(buffer) :
    buffer[i].type = "TaskStatus" /\ buffer[i].key = k /\ buffer[i].status \in statuses

\* A final status that has reached the client while a GoToNode waits for its task completes
\* that node, however many nodes wait for the task, whatever else is delivered, and even
\* if the connection goes at once; only a cancellation or a restart takes the node away.
FinalStatusCompletesGoTo ==
  \A c \in Callers :
    (Waiting(c) /\ Buffered(key[c], FinalStatuses)) ~> (output[c] = "ok" \/ call[c] \in {"idle", "dropped"})

\* A GoToNode whose request was published hands on its output only with a final status of
\* its own task in hand; the others are those that could not publish.
OutputAfterReply ==
  \A c \in Callers : output[c] = "ok" =>
    \/ call[c] = "returned" /\ reply[c] # None /\ reply[c].key = key[c]
    \/ call[c] = "failed" /\ ~CanPublish
=============================================================================
