-------------------------- MODULE ScheduleConsumer --------------------------
(***************************************************************************)
(* How a Schedule message becomes a workflow run: main of src/src/main.rs   *)
(* starts run_consumer and then binds the HTTP server, consumer_loop of     *)
(* src/src/client/clients/amqp.rs hands every delivery to a task of its own *)
(* and handle_workflow_execute of src/src/executor/amqp_handlers.rs posts   *)
(* the diagram to that server and waits until the workflow has ended.       *)
(*                                                                         *)
(* broker[m] is where the broker has a message, task[m] what the process    *)
(* does with its delivery.  The consumer sets no prefetch limit and never   *)
(* reconnects: a delivery is buffered as soon as the consumer exists.       *)
(***************************************************************************)
EXTENDS Naturals

CONSTANTS
  Messages,
  Kind,       \* [Messages -> Kinds]
  MaxBoots    \* bound: starts of the process

\* "Malformed": not JSON, without an id, or with a payload string that is not JSON.
Kinds == {"Other", "Malformed", "Schedule"}

ASSUME ConsumerAssumption == Kind \in [Messages -> Kinds] /\ MaxBoots \in Nat

VARIABLES
  main,       \* progress of main()
  consumer,   \* run_consumer and its consumer_loop
  link,       \* the consumer's connection
  bound,      \* the durable queue exists and is bound to the exchange
  broker,     \* [Messages -> BrokerStates]
  task,       \* [Messages -> TaskStates]
  boots,
  lastRun,    \* history: [Messages -> the start of the process that ran it last, or 0]
  succeeded   \* history: the messages with a run that succeeded

vars == <<main, consumer, link, bound, broker, task, boots, lastRun, succeeded>>
processVars == <<main, consumer, link, bound, boots>>
history == <<lastRun, succeeded>>

BrokerStates == {"unsent", "unrouted", "ready", "unacked", "acked", "discarded"}
TaskStates == {"none", "buffered", "handling", "posted", "ok", "err"}

TypeOK ==
  /\ main \in {"down", "connected", "spawned", "serving"}
  /\ consumer \in {"off", "setup", "looping", "ended", "failed"}
  /\ link \in {"up", "lost"}
  /\ bound \in BOOLEAN
  /\ broker \in [Messages -> BrokerStates]
  /\ task \in [Messages -> TaskStates]
  /\ boots \in 0 .. MaxBoots
  /\ lastRun \in [Messages -> 0 .. MaxBoots]
  /\ succeeded \subseteq Messages
  /\ consumer = "looping" => bound

Init ==
  /\ main = "down"
  /\ consumer = "off"
  /\ link = "up"
  /\ bound = FALSE
  /\ broker = [m \in Messages |-> "unsent"]
  /\ task = [m \in Messages |-> "none"]
  /\ boots = 0
  /\ lastRun = [m \in Messages |-> 0]
  /\ succeeded = {}

-----------------------------------------------------------------------------
(* main *)

\* spawn() has returned and AmqpConnection::new has connected; when either fails the
\* process ends before it has done anything here.
Boot ==
  /\ main = "down"
  /\ boots < MaxBoots
  /\ main' = "connected"
  /\ boots' = boots + 1
  /\ link' = "up"
  /\ UNCHANGED <<consumer, bound, broker, task, history>>

SpawnConsumer ==
  /\ main = "connected"
  /\ main' = "spawned"
  /\ consumer' = "setup"
  /\ UNCHANGED <<link, bound, broker, task, boots, history>>

\* From TcpListener::bind on a connection to the server is accepted.
Bind ==
  /\ main = "spawned"
  /\ main' = "serving"
  /\ UNCHANGED <<consumer, link, bound, broker, task, boots, history>>

\* What the broker does when it sees the connection gone.
Requeued == [m \in Messages |-> IF broker[m] = "unacked" THEN "ready" ELSE broker[m]]

\* The process ends, by a crash or because bind failed, and every task with it.
Crash ==
  /\ main # "down"
  /\ main' = "down"
  /\ consumer' = "off"
  /\ broker' = Requeued
  /\ task' = [m \in Messages |-> "none"]
  /\ UNCHANGED <<link, bound, boots, history>>

-----------------------------------------------------------------------------
(* run_consumer and consumer_loop *)

\* Defective variant: basic_consume without the queue_bind.
QueueUnbound ==
  /\ consumer = "setup"
  /\ link = "up"
  /\ consumer' = "looping"
  /\ UNCHANGED <<main, link, bound, broker, task, boots, history>>

QueueBound ==
  /\ consumer = "setup"
  /\ link = "up"
  /\ bound' = TRUE
  /\ consumer' = "looping"
  /\ UNCHANGED <<main, link, broker, task, boots, history>>

\* An error of the set-up, before or after the queue was bound, is dropped with the
\* JoinHandle: main goes on serving.
SetupFails ==
  /\ consumer = "setup"
  /\ consumer' = "failed"
  /\ bound' \in {bound, TRUE}
  /\ UNCHANGED <<main, link, broker, task, boots, history>>

Deliver(m) ==
  /\ broker[m] = "ready"
  /\ consumer = "looping"
  /\ link = "up"
  /\ broker' = [broker EXCEPT ![m] = "unacked"]
  /\ task' = [task EXCEPT ![m] = "buffered"]
  /\ UNCHANGED <<processVars, history>>

\* An ack or nack counts only while the connection on which it was delivered is up.
Settle(m, outcome) ==
  /\ task' = [task EXCEPT ![m] = "none"]
  /\ broker' = IF link = "up" THEN [broker EXCEPT ![m] = outcome] ELSE broker

\* Defective variant: `continue` without the ack.
SkipOtherUnsettled(m) ==
  /\ task[m] = "buffered"
  /\ Kind[m] = "Other"
  /\ task' = [task EXCEPT ![m] = "none"]
  /\ UNCHANGED <<processVars, broker, history>>

SkipOther(m) ==
  /\ task[m] = "buffered"
  /\ Kind[m] = "Other"
  /\ Settle(m, "acked")
  /\ UNCHANGED <<processVars, history>>

\* Defective variant: the loop awaits the handler instead of spawning it.
SpawnHandlerInline(m) ==
  /\ task[m] = "buffered"
  /\ Kind[m] # "Other"
  /\ \A n \in Messages : task[n] \in {"none", "buffered"}
  /\ task' = [task EXCEPT ![m] = "handling"]
  /\ UNCHANGED <<processVars, broker, history>>

SpawnHandler(m) ==
  /\ task[m] = "buffered"
  /\ Kind[m] # "Other"
  /\ task' = [task EXCEPT ![m] = "handling"]
  /\ UNCHANGED <<processVars, broker, history>>

Ack(m) ==
  /\ task[m] = "ok"
  /\ Settle(m, "acked")
  /\ UNCHANGED <<processVars, history>>

\* Defective variant: nack with requeue.
NackRequeuing(m) ==
  /\ task[m] = "err"
  /\ Settle(m, "ready")
  /\ UNCHANGED <<processVars, history>>

\* nack with default options: requeue is false, the message is gone.
Nack(m) ==
  /\ task[m] = "err"
  /\ Settle(m, "discarded")
  /\ UNCHANGED <<processVars, history>>

ConsumerEnds ==
  /\ consumer = "looping"
  /\ link = "lost"
  /\ \A m \in Messages : task[m] # "buffered"
  /\ consumer' = "ended"
  /\ UNCHANGED <<main, link, bound, broker, task, boots, history>>

-----------------------------------------------------------------------------
(* handle_workflow_execute *)

ParseFails(m) ==
  /\ task[m] = "handling"
  /\ Kind[m] = "Malformed"
  /\ task' = [task EXCEPT ![m] = "err"]
  /\ UNCHANGED <<processVars, broker, history>>

\* The request reaches the executor, which starts the workflow.
Post(m) ==
  /\ task[m] = "handling"
  /\ Kind[m] = "Schedule"
  /\ main = "serving"
  /\ task' = [task EXCEPT ![m] = "posted"]
  /\ lastRun' = [lastRun EXCEPT ![m] = boots]
  /\ UNCHANGED <<processVars, broker, succeeded>>

\* Nothing listens at executor_url yet: connection refused.
PostRefused(m) ==
  /\ task[m] = "handling"
  /\ Kind[m] = "Schedule"
  /\ main # "serving"
  /\ task' = [task EXCEPT ![m] = "err"]
  /\ UNCHANGED <<processVars, broker, history>>

\* Defective variant: every response counts as a success.
WorkflowFailsUnnoticed(m) ==
  /\ task[m] = "posted"
  /\ task' = [task EXCEPT ![m] = "ok"]
  /\ UNCHANGED <<processVars, broker, history>>

\* Any status but 2xx, or no response.
WorkflowFails(m) ==
  /\ task[m] = "posted"
  /\ task' = [task EXCEPT ![m] = "err"]
  /\ UNCHANGED <<processVars, broker, history>>

WorkflowSucceeds(m) ==
  /\ task[m] = "posted"
  /\ task' = [task EXCEPT ![m] = "ok"]
  /\ succeeded' = succeeded \cup {m}
  /\ UNCHANGED <<processVars, broker, lastRun>>

-----------------------------------------------------------------------------
(* The environment *)

\* A message sent before the queue was ever bound is routed nowhere.
Send(m) ==
  /\ broker[m] = "unsent"
  /\ broker' = [broker EXCEPT ![m] = IF bound THEN "ready" ELSE "unrouted"]
  /\ UNCHANGED <<processVars, task, history>>

\* The connection fails, or the broker closes the channel.
LinkLost ==
  /\ main # "down"
  /\ link = "up"
  /\ link' = "lost"
  /\ broker' = Requeued
  /\ UNCHANGED <<main, consumer, bound, task, boots, history>>

\* The steps of the loop and of one handler.
Handle(m) == SkipOther(m) \/ SpawnHandler(m) \/ ParseFails(m) \/ Post(m) \/ PostRefused(m) \/ Ack(m) \/ Nack(m)

Next ==
  \/ Boot
  \/ SpawnConsumer
  \/ Bind
  \/ Crash
  \/ QueueBound
  \/ SetupFails
  \/ ConsumerEnds
  \/ LinkLost
  \/ \E m \in Messages :
       Send(m) \/ Deliver(m) \/ Handle(m) \/ WorkflowFails(m) \/ WorkflowSucceeds(m)

Safety == Init /\ [][Next]_vars

\* The broker pushes to a consumer that is there and tokio polls every task.  How long
\* main takes to bind and a workflow to end is left open, and so is the link.
Fairness == \A m \in Messages : WF_vars(Deliver(m)) /\ WF_vars(Handle(m))

Spec == Safety /\ Fairness

-----------------------------------------------------------------------------
(* Properties *)

\* The ack of a Schedule comes after a run of its workflow that succeeded: a crash or a
\* lost connection at any point before leaves it with the broker.
AckedMeansSucceeded ==
  \A m \in Messages : broker[m] = "acked" /\ Kind[m] = "Schedule" => m \in succeeded

\* One process runs a message once: what the broker requeues when the connection goes is
\* not run again before the process starts anew.
RunsOncePerBoot ==
  [][\A m \in Messages : task[m] = "handling" /\ task'[m] = "posted" => lastRun[m] < boots]_vars

\* The consumer keeps the promise of ScheduleQueue across crashes and lost connections.
QueueState(m) ==
  CASE broker[m] = "unsent" -> "unsent"
    [] broker[m] = "unrouted" -> "lost"
    [] broker[m] \in {"ready", "unacked"} -> "held"
    [] broker[m] = "acked" -> "accepted"
    [] OTHER -> "rejected"

Queue == INSTANCE ScheduleQueue WITH
  Schedules <- {m \in Messages : Kind[m] = "Schedule"},
  state <- [m \in Messages |-> QueueState(m)],
  running <- {m \in Messages : task[m] = "posted"},
  epoch <- boots

KeepsQueue == Queue!Spec

\* The broker and the process agree: every delivery that the broker counts as unacknowledged
\* has a task that will settle it, and while the connection is up a task has a delivery
\* that is not settled yet.
UnackedIsHeld ==
  \A m \in Messages :
    /\ broker[m] = "unacked" => task[m] # "none"
    /\ task[m] # "none" /\ link = "up" => broker[m] = "unacked"

\* A message is taken up whatever other workflows still run: it is settled or its workflow
\* started, unless the connection or the process goes.
TakenUp ==
  \A m \in Messages :
    (broker[m] = "ready" /\ consumer = "looping" /\ link = "up") ~>
      (task[m] = "posted" \/ broker[m] \in {"acked", "discarded"} \/ link = "lost" \/ main = "down")

\* docs/interfaces.md: messages of type Schedule are processed.  None is thrown away
\* without a run of its workflow.
DiscardedWasRun ==
  \A m \in Messages : broker[m] = "discarded" /\ Kind[m] = "Schedule" => lastRun[m] > 0
=============================================================================
