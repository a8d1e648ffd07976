----------------------------- MODULE AmqpClient -----------------------------
(***************************************************************************)
(* AmqpClient of src/src/client/clients/amqp.rs: request-response over AMQP *)
(* with one shared response listener.  A call of request_response puts a    *)
(* oneshot sender into pending_responses, publishes its TaskRequest and     *)
(* awaits the receiver; response_listener_loop consumes the response queue, *)
(* and for a final TaskStatus takes the whole entry of the task out of the  *)
(* map and signals every sender of it.                                      *)
(*                                                                         *)
(* pending_responses is guarded by a tokio mutex that is never held over    *)
(* an await, so each critical section is one step.  A oneshot channel is    *)
(* named by the call that created it: pending[k] is the set of calls whose  *)
(* sender the entry of k holds, reply[c] what was sent to c.                *)
(*                                                                         *)
(* The consumer has no prefetch limit: what the broker holds unsettled in   *)
(* queue it has also delivered to the client's buffer while the connection  *)
(* is up.  An id is known by its key, the text before ":TaskStatus".        *)
(***************************************************************************)
EXTENDS Naturals, Sequences

CONSTANTS
  Callers,        \* invocations of request_response, one per running GoToNode
  Keys,           \* task ids, the keys of pending_responses
  AssetStatuses,  \* the statuses that assets put into TaskStatus messages
  MaxQueue,       \* bound: messages in the broker when an asset publishes one
  MaxRestarts,    \* bound: restarts of the orchestrator
  None

FinalStatuses == {"COMPLETED", "ERROR"}
Statuses == AssetStatuses \cup FinalStatuses \cup {"absent"}

\* What the listener reads of a message; a TaskRequest has no status field.
Message == [type : {"TaskRequest", "TaskStatus"}, key : Keys, status : Statuses]

ASSUME ClientAssumption ==
  /\ None \notin Keys
  /\ None \notin Message \cup FinalStatuses
  /\ MaxQueue \in Nat \ {0}
  /\ MaxRestarts \in Nat

TaskRequest(k) == [type |-> "TaskRequest", key |-> k, status |-> "absent"]
TaskStatus(k, s) == [type |-> "TaskStatus", key |-> k, status |-> s]

VARIABLES
  call,      \* [Callers -> CallStates]: progress of each request_response
  key,       \* the task_id each call was made with
  reply,     \* the message sent into each call's oneshot channel, or None
  pending,   \* pending_responses: task id -> calls whose senders wait there
  queue,     \* the broker's response queue: what is not settled yet
  buffer,    \* the deliveries that the consumer stream holds for the listener
  inHand,    \* the delivery the listener holds unacknowledged, or None
  listener,  \* response_listener_loop
  link,      \* the client's connection
  pubChan,   \* publish_channel, shared by all calls
  restarts

callVars == <<call, key, reply>>
listenVars == <<buffer, inHand, listener>>
linkVars == <<link, pubChan, restarts>>
vars == <<call, key, reply, pending, queue, buffer, inHand, listener, link, pubChan, restarts>>

\* "dropped": the workflow engine dropped the future of the call.
CallStates == {"idle", "registered", "awaiting", "returned", "failed", "dropped"}
ListenerStates == {"waiting", "dispatching", "acking", "ended"}
\* "broken": the peer is gone and the client has not noticed.
LinkStates == {"up", "broken", "closed"}
\* "closing": the broker has closed the channel and the client has not noticed.
ChannelStates == {"open", "closing", "closed"}

TypeOK ==
  /\ call \in [Callers -> CallStates]
  /\ key \in [Callers -> Keys \cup {None}]
  /\ reply \in [Callers -> Message \cup {None}]
  /\ DOMAIN pending \subseteq Keys
  /\ pending \in [DOMAIN pending -> SUBSET Callers]
  /\ queue \in Seq(Message)
  /\ buffer \in Seq(Message)
  /\ inHand \in Message \cup {None}
  /\ listener \in ListenerStates
  /\ link \in LinkStates
  /\ pubChan \in ChannelStates
  /\ restarts \in Nat

-----------------------------------------------------------------------------
NoPending == [k \in {} |-> {}]

Init ==
  /\ call = [c \in Callers |-> "idle"]
  /\ key = [c \in Callers |-> None]
  /\ reply = [c \in Callers |-> None]
  /\ pending = NoPending
  /\ queue = <<>>
  /\ buffer = <<>>
  /\ inHand = None
  /\ listener = "waiting"
  /\ link = "up"
  /\ pubChan = "open"
  /\ restarts = 0

-----------------------------------------------------------------------------
(* request_response and await_response *)

Senders(k) == IF k \in DOMAIN pending THEN pending[k] ELSE {}

\* Defective variant: insert(task_id, vec![tx]) in place of the entry API.
AddSenderOverwriting(k, c) ==
  [j \in DOMAIN pending \cup {k} |-> IF j = k THEN {c} ELSE pending[j]]

\* entry(task_id).or_insert_with(Vec::new).push(tx)
AddSender(k, c) ==
  [j \in DOMAIN pending \cup {k} |->
     IF j = k THEN Senders(k) \cup {c} ELSE pending[j]]

RemoveEntry(k) == [j \in DOMAIN pending \ {k} |-> pending[j]]

\* The sender is stored before anything is published.
Register(c, k) ==
  /\ call[c] = "idle"
  /\ call' = [call EXCEPT ![c] = "registered"]
  /\ key' = [key EXCEPT ![c] = k]
  /\ pending' = AddSender(k, c)
  /\ UNCHANGED <<reply, queue, listenVars, linkVars>>

CanPublish == link # "closed" /\ pubChan # "closed"
BrokerReachable == link = "up" /\ pubChan = "open"

\* The exchange of a node's config: the fanout exchange that the response queue is bound to,
\* another one, or one that no one declared.
Exchanges == {"@RECEIVE@", "other", "undeclared"}

\* The broker queues a message and, while the connection is up, delivers it.
Arrives(m) ==
  /\ queue' = Append(queue, m)
  /\ buffer' = IF link = "up" THEN Append(buffer, m) ELSE buffer

\* Without publisher confirms, publish succeeds once the frame is written; the broker
\* answers a publish to an undeclared exchange by closing the channel.
PublishTo(x, m) ==
  /\ CanPublish
  /\ IF x = "@RECEIVE@" /\ BrokerReachable THEN Arrives(m) ELSE UNCHANGED <<queue, buffer>>
  /\ pubChan' = IF x = "undeclared" /\ BrokerReachable THEN "closing" ELSE pubChan

Publish(c, x) ==
  /\ call[c] = "registered"
  /\ PublishTo(x, TaskRequest(key[c]))
  /\ call' = [call EXCEPT ![c] = "awaiting"]
  /\ UNCHANGED <<key, reply, pending, inHand, listener, link, restarts>>

\* A node that only publishes, as DelayNode does; it ignores the error.
PublishStatus(k) ==
  /\ \/ PublishTo("@RECEIVE@", TaskStatus(k, "COMPLETED"))
     \/ ~CanPublish /\ UNCHANGED <<queue, buffer, pubChan>>
  /\ UNCHANGED <<callVars, pending, inHand, listener, link, restarts>>

\* The error leaves request_response through `?`: the sender stays in the map.
PublishFails(c) ==
  /\ call[c] = "registered"
  /\ ~CanPublish
  /\ call' = [call EXCEPT ![c] = "failed"]
  /\ UNCHANGED <<key, reply, pending, queue, listenVars, linkVars>>

Receiving(c) == call[c] \in {"registered", "awaiting"}

SenderAlive(c) == \E k \in DOMAIN pending : c \in pending[k]

\* rx.await: a value was sent, or the sender was dropped unused.
AwaitResponse(c) ==
  /\ call[c] = "awaiting"
  /\ reply[c] # None \/ ~SenderAlive(c)
  /\ IF reply[c] # None
       THEN /\ call' = [call EXCEPT ![c] = "returned"]
            /\ UNCHANGED pending
       ELSE /\ call' = [call EXCEPT ![c] = "failed"]
            /\ pending' = IF key[c] \in DOMAIN pending /\ Senders(key[c]) = {}
                            THEN RemoveEntry(key[c]) ELSE pending
  /\ UNCHANGED <<key, reply, queue, listenVars, linkVars>>

\* A workflow that is cancelled drops the future, and with it the receiver; the sender
\* stays in the map.
DropCall(c) ==
  /\ Receiving(c)
  /\ call' = [call EXCEPT ![c] = "dropped"]
  /\ UNCHANGED <<key, reply, pending, queue, listenVars, linkVars>>

-----------------------------------------------------------------------------
(* response_listener_loop *)

NextDelivery ==
  /\ listener = "waiting"
  /\ buffer # <<>>
  /\ inHand' = Head(buffer)
  /\ buffer' = Tail(buffer)
  /\ listener' = "dispatching"
  /\ UNCHANGED <<callVars, pending, queue, linkVars>>

\* Defective variants: every TaskStatus is an answer; an "ERROR" is none.
AnyTaskStatus(m) == m.type = "TaskStatus"
OnlyCompleted(m) == m.type = "TaskStatus" /\ m.status = "COMPLETED"

\* The messages that signal waiters.
IsFinal(m) == m.type = "TaskStatus" /\ m.status \in FinalStatuses

\* Defective variant: get() in place of remove(), the entry stays.
DispatchLeavingEntry ==
  /\ listener = "dispatching"
  /\ listener' = "acking"
  /\ reply' = [c \in Callers |->
        IF IsFinal(inHand) /\ c \in Senders(inHand.key) /\ Receiving(c)
          THEN inHand ELSE reply[c]]
  /\ UNCHANGED <<call, key, pending, queue, buffer, inHand, linkVars>>

\* pending.remove(task_id), then send to every sender; a send whose receiver is gone
\* is ignored.
Dispatch ==
  /\ listener = "dispatching"
  /\ listener' = "acking"
  /\ IF IsFinal(inHand)
       THEN /\ pending' = RemoveEntry(inHand.key)
            /\ reply' = [c \in Callers |->
                  IF c \in Senders(inHand.key) /\ Receiving(c) THEN inHand ELSE reply[c]]
       ELSE UNCHANGED <<pending, reply>>
  /\ UNCHANGED <<call, key, queue, buffer, inHand, linkVars>>

\* An ack on a lost connection settles nothing: the broker has requeued the delivery.
Ack ==
  /\ listener = "acking"
  /\ listener' = "waiting"
  /\ inHand' = None
  /\ queue' = IF link = "up" THEN Tail(queue) ELSE queue
  /\ UNCHANGED <<callVars, pending, buffer, linkVars>>

\* The consumer stream of a closed connection yields an error, then ends.
ListenerEnds ==
  /\ listener = "waiting"
  /\ link = "closed"
  /\ buffer = <<>>
  /\ listener' = "ended"
  /\ UNCHANGED <<callVars, pending, queue, buffer, inHand, linkVars>>

-----------------------------------------------------------------------------
(* The environment: assets and other publishers, the connection, restarts *)

TaskStatusArrives(k, s) ==
  /\ Len(queue) < MaxQueue
  /\ Arrives(TaskStatus(k, s))
  /\ UNCHANGED <<callVars, pending, inHand, listener, linkVars>>

LinkBreaks ==
  /\ link = "up"
  /\ link' = "broken"
  /\ UNCHANGED <<callVars, pending, queue, listenVars, pubChan, restarts>>

LinkLossNoticed ==
  /\ link = "broken"
  /\ link' = "closed"
  /\ UNCHANGED <<callVars, pending, queue, listenVars, pubChan, restarts>>

ChannelCloseNoticed ==
  /\ pubChan = "closing"
  /\ pubChan' = "closed"
  /\ UNCHANGED <<callVars, pending, queue, listenVars, link, restarts>>

\* The process dies; connect() of the next one starts with an empty map, and the
\* durable queue delivers again what was not acknowledged.
Restart ==
  /\ restarts < MaxRestarts
  /\ restarts' = restarts + 1
  /\ call' = [c \in Callers |-> "idle"]
  /\ key' = [c \in Callers |-> None]
  /\ reply' = [c \in Callers |-> None]
  /\ pending' = NoPending
  /\ buffer' = queue
  /\ inHand' = None
  /\ listener' = "waiting"
  /\ link' = "up"
  /\ pubChan' = "open"
  /\ UNCHANGED queue

Listening == NextDelivery \/ Dispatch \/ Ack \/ ListenerEnds

Next ==
  \/ \E c \in Callers, k \in Keys : Register(c, k)
  \/ \E c \in Callers, x \in Exchanges : Publish(c, x)
  \/ \E k \in Keys : PublishStatus(k)
  \/ \E c \in Callers : PublishFails(c)
  \/ \E c \in Callers : AwaitResponse(c)
  \/ \E c \in Callers : DropCall(c)
  \/ Listening
  \/ \E k \in Keys, s \in AssetStatuses : TaskStatusArrives(k, s)
  \/ LinkBreaks
  \/ LinkLossNoticed
  \/ ChannelCloseNoticed
  \/ Restart

Spec == Init /\ [][Next]_vars

-----------------------------------------------------------------------------
(* Properties *)

Waiting(c) == Receiving(c) /\ reply[c] = None

\* No lost wake-up: a call that still waits has its sender in the map under its own
\* task id, whatever other calls of the same id and the listener did meanwhile.  So
\* the next final status of the task wakes it, and its sender is never dropped unused.
WaitersRegistered ==
  \A c \in Callers : Waiting(c) => c \in Senders(key[c])

\* The map is exact up to failed publishes: a sender is filed under the id of its call,
\* has not been used, and belongs to a call that waits, that could not publish or whose
\* workflow was cancelled; no entry is empty.
PendingExact ==
  \A k \in DOMAIN pending :
    /\ pending[k] # {}
    /\ \A c \in pending[k] :
         key[c] = k /\ reply[c] = None /\ call[c] \notin {"idle", "returned"}

\* request_response returns Ok only with a final TaskStatus of the task it asked for:
\* not with the echo of its own request off the fanout exchange, not with RUNNING.
RepliesAreFinal ==
  \A c \in Callers : reply[c] # None =>
    /\ reply[c].type = "TaskStatus"
    /\ reply[c].key = key[c]
    /\ reply[c].status \in FinalStatuses

\* A published request never ends in an error: the error arm of await_response is
\* unreachable, the only failing calls are those that could not publish.
NeverFailsAfterPublish ==
  [][\A c \in Callers : call[c] = "awaiting" => call'[c] # "failed"]_vars

\* The client keeps the promise of RequestReply.
Promise == INSTANCE RequestReply WITH
  Answers <- FinalStatuses,
  state <- call,
  answer <- [c \in Callers |-> IF reply[c] = None THEN None ELSE reply[c].status]

PromiseSpec == Promise!Spec

=============================================================================
