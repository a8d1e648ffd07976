----------------------- MODULE ScheduleConsumerProofs -----------------------
(***************************************************************************)
(* Proofs about ScheduleConsumer for every set of messages and every number *)
(* of starts of the process.                                                *)
(***************************************************************************)
EXTENDS ScheduleConsumer, TLAPS

USE ConsumerAssumption

\* A process that is down holds nothing.
DownIsEmpty ==
  main = "down" => consumer = "off" /\ \A m \in Messages : task[m] = "none"

\* On a lost connection nothing is unacknowledged: it has all been requeued.
LostIsRequeued == link = "lost" => \A m \in Messages : broker[m] # "unacked"

\* A run that has come back with a success is on record before the ack.
OkMeansSucceeded == \A m \in Messages : task[m] = "ok" => m \in succeeded

\* A message that this process may still run: its handler has not posted it yet, or the
\* broker may still deliver it on the connection that is up.
Fresh(m) ==
  \/ task[m] \in {"buffered", "handling"}
  \/ main # "down" /\ link = "up" /\ broker[m] \in {"unsent", "ready"}

\* RunsOncePerBoot is not inductive: it needs that a fresh message was last run, if ever, by
\* an earlier process.
FreshIsUnrun == \A m \in Messages : Fresh(m) => lastRun[m] < boots

\* No run is ascribed to a process that has not started yet.
NoRunAhead == \A m \in Messages : lastRun[m] <= boots

\* The broker keeps a message while a task is at work on it, on whichever connection it came.
WorkedOnIsHeld == \A m \in Messages : task[m] # "none" => broker[m] \in {"ready", "unacked"}

IInv ==
  /\ TypeOK
  /\ DownIsEmpty
  /\ LostIsRequeued
  /\ UnackedIsHeld
  /\ AckedMeansSucceeded
  /\ OkMeansSucceeded
  /\ NoRunAhead
  /\ FreshIsUnrun
  /\ WorkedOnIsHeld

LEMMA IInvInit == Init => IInv
<1> SUFFICES ASSUME Init PROVE IInv
  OBVIOUS
<1>1. TypeOK
  <2>1. bound \in BOOLEAN
    BY Zenon DEF Init
  <2>2. boots \in 0 .. MaxBoots
    BY DEF Init
  <2>3. broker \in [Messages -> BrokerStates] /\ task \in [Messages -> TaskStates] /\ lastRun \in [Messages -> 0 .. MaxBoots]
    BY DEF Init, BrokerStates, TaskStates
  <2> QED
    BY <2>1, <2>2, <2>3 DEF Init, TypeOK
<1>2. \A m \in Messages : broker[m] = "unsent" /\ task[m] = "none" /\ lastRun[m] = 0
  BY DEF Init
<1>3. main = "down" /\ consumer = "off" /\ link = "up" /\ boots = 0
  BY DEF Init
<1>4. DownIsEmpty /\ LostIsRequeued /\ WorkedOnIsHeld /\ UnackedIsHeld /\ AckedMeansSucceeded /\ OkMeansSucceeded
  BY <1>2, <1>3 DEF DownIsEmpty, LostIsRequeued, WorkedOnIsHeld, UnackedIsHeld, AckedMeansSucceeded, OkMeansSucceeded
<1>5. NoRunAhead /\ FreshIsUnrun
  BY <1>2, <1>3 DEF NoRunAhead, FreshIsUnrun, Fresh
<1> QED
  BY <1>1, <1>4, <1>5 DEF IInv

LEMMA RequeuedTyped ==
  ASSUME TypeOK
  PROVE  /\ Requeued \in [Messages -> BrokerStates]
         /\ \A m \in Messages : /\ Requeued[m] # "unacked"
                                /\ Requeued[m] = "acked" => broker[m] = "acked"
                                /\ broker[m] \in {"ready", "unacked"} => Requeued[m] = "ready"
BY DEF Requeued, TypeOK, BrokerStates

\* Every settlement keeps the invariant, if an ack of a Schedule has a success to show.
LEMMA SettleStep ==
  ASSUME IInv, NEW m \in Messages, task[m] # "none", NEW outcome \in {"acked", "discarded"},
         outcome = "acked" /\ Kind[m] = "Schedule" => m \in succeeded,
         Settle(m, outcome), UNCHANGED <<processVars, history>>
  PROVE  IInv'
<1> USE DEF IInv, processVars, history
<1>1. TypeOK'
  BY DEF TypeOK, Settle, BrokerStates, TaskStates
<1>2. \A n \in Messages : n # m => task'[n] = task[n] /\ broker'[n] = broker[n]
  BY DEF Settle, TypeOK
<1>3. task'[m] = "none" /\ (link = "up" => broker'[m] = outcome) /\ (link # "up" => broker'[m] = broker[m])
  BY DEF Settle, TypeOK
<1>4. DownIsEmpty' /\ LostIsRequeued' /\ WorkedOnIsHeld'
  BY <1>2, <1>3 DEF DownIsEmpty, LostIsRequeued, WorkedOnIsHeld
<1>5. UnackedIsHeld'
  BY <1>2, <1>3 DEF UnackedIsHeld, LostIsRequeued, TypeOK
<1>6. AckedMeansSucceeded' /\ OkMeansSucceeded'
  BY <1>2, <1>3 DEF AckedMeansSucceeded, OkMeansSucceeded
<1>7. NoRunAhead' /\ FreshIsUnrun'
  BY <1>2, <1>3 DEF NoRunAhead, FreshIsUnrun, Fresh
<1> QED
  BY <1>1, <1>4, <1>5, <1>6, <1>7

\* A handler that moves on without touching the broker keeps the invariant, if it claims
\* success only for a success.
LEMMA HandlerStep ==
  ASSUME IInv, NEW m \in Messages, NEW s \in {"handling", "posted", "ok", "err"},
         task[m] \in {"buffered", "handling", "posted"},
         s = "handling" => task[m] = "buffered",
         s = "ok" => m \in succeeded',
         task' = [task EXCEPT ![m] = s],
         succeeded \subseteq succeeded', succeeded' \subseteq Messages,
         UNCHANGED <<processVars, broker, lastRun>>
  PROVE  IInv'
<1> USE DEF IInv, processVars
<1>1. TypeOK'
  BY DEF TypeOK, TaskStates
<1>2. task'[m] = s /\ \A n \in Messages : n # m => task'[n] = task[n]
  BY DEF TypeOK
<1>3. main # "down"
  BY DEF DownIsEmpty
<1>4. DownIsEmpty' /\ LostIsRequeued' /\ WorkedOnIsHeld' /\ UnackedIsHeld'
  BY <1>2, <1>3 DEF DownIsEmpty, LostIsRequeued, WorkedOnIsHeld, UnackedIsHeld
<1>5. AckedMeansSucceeded' /\ OkMeansSucceeded'
  BY <1>2 DEF AckedMeansSucceeded, OkMeansSucceeded
<1>6. NoRunAhead' /\ FreshIsUnrun'
  BY <1>2 DEF NoRunAhead, FreshIsUnrun, Fresh
<1> QED
  BY <1>1, <1>4, <1>5, <1>6

\* The steps of main, of the consumer's set-up and end, and of the environment.
LEMMA ProcessStep ==
  ASSUME IInv, Boot \/ SpawnConsumer \/ Bind \/ QueueBound \/ SetupFails \/ ConsumerEnds
  PROVE  IInv'
<1> USE DEF IInv, history
<1>1. CASE Boot
  BY <1>1 DEF Boot, TypeOK, DownIsEmpty, LostIsRequeued, WorkedOnIsHeld, UnackedIsHeld, AckedMeansSucceeded,
    OkMeansSucceeded, NoRunAhead, FreshIsUnrun, Fresh
<1>2. CASE SpawnConsumer \/ Bind
  BY <1>2 DEF SpawnConsumer, Bind, TypeOK, DownIsEmpty, LostIsRequeued, WorkedOnIsHeld, UnackedIsHeld,
    AckedMeansSucceeded, OkMeansSucceeded, NoRunAhead, FreshIsUnrun, Fresh
<1>3. CASE QueueBound \/ SetupFails \/ ConsumerEnds
  BY <1>3 DEF QueueBound, SetupFails, ConsumerEnds, TypeOK, DownIsEmpty, LostIsRequeued, WorkedOnIsHeld, UnackedIsHeld,
    AckedMeansSucceeded, OkMeansSucceeded, NoRunAhead, FreshIsUnrun, Fresh
<1> QED
  BY <1>1, <1>2, <1>3

\* A crash and a lost connection requeue what was not settled; neither makes a message
\* fresh that this process has run already.
LEMMA LossStep ==
  ASSUME IInv, Crash \/ LinkLost
  PROVE  IInv'
<1> USE DEF IInv, history
<1>1. broker' = Requeued
  BY DEF Crash, LinkLost
<1>2. /\ broker' \in [Messages -> BrokerStates]
      /\ \A m \in Messages : /\ broker'[m] # "unacked"
                             /\ broker'[m] = "acked" => broker[m] = "acked"
                             /\ broker[m] \in {"ready", "unacked"} => broker'[m] = "ready"
  BY <1>1, RequeuedTyped
<1>3. CASE Crash
  BY <1>2, <1>3 DEF Crash, TypeOK, TaskStates, DownIsEmpty, LostIsRequeued, WorkedOnIsHeld, UnackedIsHeld,
    AckedMeansSucceeded, OkMeansSucceeded, NoRunAhead, FreshIsUnrun, Fresh
<1>4. CASE LinkLost
  BY <1>2, <1>4 DEF LinkLost, TypeOK, DownIsEmpty, LostIsRequeued, WorkedOnIsHeld, UnackedIsHeld,
    AckedMeansSucceeded, OkMeansSucceeded, NoRunAhead, FreshIsUnrun, Fresh
<1> QED
  BY <1>3, <1>4

\* The steps of one message.
LEMMA MessageStep ==
  ASSUME IInv, NEW m \in Messages,
         Send(m) \/ Deliver(m) \/ Handle(m) \/ WorkflowFails(m) \/ WorkflowSucceeds(m)
  PROVE  IInv'
<1>0. TypeOK /\ DownIsEmpty /\ LostIsRequeued /\ WorkedOnIsHeld /\ UnackedIsHeld /\ AckedMeansSucceeded /\ OkMeansSucceeded
      /\ NoRunAhead /\ FreshIsUnrun
  BY DEF IInv
<1>1. CASE Send(m)
  <2>1. broker'[m] # "unacked" /\ broker'[m] # "acked" /\ \A n \in Messages : n # m => broker'[n] = broker[n]
    BY <1>0, <1>1 DEF Send, TypeOK
  <2>2. TypeOK'
    BY <1>0, <1>1 DEF Send, TypeOK, BrokerStates, processVars, history
  <2>3. UNCHANGED <<processVars, task, history>> /\ broker[m] = "unsent"
    BY <1>1 DEF Send
  <2> QED
    BY <1>0, <2>1, <2>2, <2>3 DEF IInv, processVars, history, DownIsEmpty, LostIsRequeued, WorkedOnIsHeld, UnackedIsHeld,
      AckedMeansSucceeded, OkMeansSucceeded, NoRunAhead, FreshIsUnrun, Fresh
<1>2. CASE Deliver(m)
  <2>1. broker'[m] = "unacked" /\ task'[m] = "buffered"
        /\ \A n \in Messages : n # m => broker'[n] = broker[n] /\ task'[n] = task[n]
    BY <1>0, <1>2 DEF Deliver, TypeOK
  <2>2. TypeOK'
    BY <1>0, <1>2 DEF Deliver, TypeOK, BrokerStates, TaskStates, processVars, history
  <2>3. main # "down" /\ link = "up" /\ broker[m] = "ready" /\ UNCHANGED <<processVars, history>>
    BY <1>0, <1>2 DEF Deliver, DownIsEmpty
  <2> QED
    BY <1>0, <2>1, <2>2, <2>3 DEF IInv, processVars, history, DownIsEmpty, LostIsRequeued, WorkedOnIsHeld, UnackedIsHeld,
      AckedMeansSucceeded, OkMeansSucceeded, NoRunAhead, FreshIsUnrun, Fresh
<1>3. CASE SkipOther(m) \/ Ack(m) \/ Nack(m)
  BY <1>0, <1>3, SettleStep DEF SkipOther, Ack, Nack, OkMeansSucceeded
<1>4. CASE SpawnHandler(m) \/ ParseFails(m) \/ PostRefused(m) \/ WorkflowFails(m)
  BY <1>0, <1>4, HandlerStep DEF SpawnHandler, ParseFails, PostRefused, WorkflowFails, TypeOK, history
<1>5. CASE WorkflowSucceeds(m)
  BY <1>0, <1>5, HandlerStep DEF WorkflowSucceeds, TypeOK
<1>6. CASE Post(m)
  <2>1. task'[m] = "posted" /\ lastRun'[m] = boots
        /\ \A n \in Messages : n # m => task'[n] = task[n] /\ lastRun'[n] = lastRun[n]
    BY <1>0, <1>6 DEF Post, TypeOK
  <2>3. lastRun[m] < boots /\ lastRun[m] \in Nat /\ boots \in 0 .. MaxBoots
    BY <1>0, <1>6 DEF Post, FreshIsUnrun, Fresh, TypeOK
  <2>2. TypeOK'
    <3>1. lastRun' \in [Messages -> 0 .. MaxBoots]
      BY <1>0, <1>6, <2>3 DEF Post, TypeOK
    <3> QED
      BY <1>0, <1>6, <3>1 DEF Post, TypeOK, TaskStates, processVars
  <2>4. task[m] = "handling" /\ main = "serving" /\ UNCHANGED <<processVars, broker, succeeded>>
    BY <1>6 DEF Post
  <2>5. link = "up" => broker[m] = "unacked"
    BY <1>0, <2>4 DEF UnackedIsHeld
  <2> QED
    BY <1>0, <2>1, <2>2, <2>3, <2>4, <2>5 DEF IInv, processVars, DownIsEmpty, LostIsRequeued, WorkedOnIsHeld, UnackedIsHeld,
      AckedMeansSucceeded, OkMeansSucceeded, NoRunAhead, FreshIsUnrun, Fresh
<1> QED
  BY <1>1, <1>2, <1>3, <1>4, <1>5, <1>6 DEF Handle

LEMMA IInvStep == IInv /\ [Next]_vars => IInv'
<1> SUFFICES ASSUME IInv, [Next]_vars PROVE IInv'
  OBVIOUS
<1>1. CASE UNCHANGED vars
  BY <1>1 DEF vars, IInv, TypeOK, DownIsEmpty, LostIsRequeued, WorkedOnIsHeld, UnackedIsHeld,
    AckedMeansSucceeded, OkMeansSucceeded, NoRunAhead, FreshIsUnrun, Fresh
<1>2. CASE Next
  BY <1>2, ProcessStep, LossStep, MessageStep DEF Next
<1> QED
  BY <1>1, <1>2

LEMMA Invariance == Safety => []IInv
BY IInvInit, IInvStep, PTL DEF Safety

\* Every variable keeps its type.
THEOREM TypeCorrect == Safety => []TypeOK
BY Invariance, PTL DEF IInv

\* At least once: no crash, lost connection or failed workflow makes the consumer
\* acknowledge a Schedule whose workflow did not succeed.
THEOREM AckAfterSuccess == Safety => []AckedMeansSucceeded
BY Invariance, PTL DEF IInv

\* At most once per process: whatever the broker redelivers, a process posts a message once.
THEOREM OneRunPerBoot == Safety => RunsOncePerBoot
<1> DEFINE Good == \A m \in Messages : task[m] = "handling" /\ task'[m] = "posted" => lastRun[m] < boots
<1>1. IInv => [Good]_vars
  BY DEF IInv, FreshIsUnrun, Fresh
<1> QED
  BY <1>1, Invariance, PTL DEF Safety, RunsOncePerBoot

\* The broker never waits for a settlement that no task will send.
THEOREM UnackedHeld == Safety => []UnackedIsHeld
BY Invariance, PTL DEF IInv

-----------------------------------------------------------------------------
(* Refinement *)

\* What the broker requeues stays held.
LEMMA RequeuedKeepsState ==
  ASSUME TypeOK, broker' = Requeued
  PROVE  \A m \in Messages : QueueState(m)' = QueueState(m)
BY DEF TypeOK, BrokerStates, Requeued, QueueState

\* A settlement is one of the queue on a connection that is up, and nothing on a lost one.
LEMMA SettleRefines ==
  ASSUME IInv, NEW m \in Messages, task[m] \notin {"none", "posted"}, NEW outcome \in {"acked", "discarded"},
         outcome = "acked" /\ Kind[m] = "Schedule" => m \in succeeded,
         Settle(m, outcome), UNCHANGED <<processVars, history>>
  PROVE  [Queue!Next]_(Queue!vars)
<1> DEFINE State == [n \in Messages |-> QueueState(n)]
           Running == {n \in Messages : task[n] = "posted"}
<1>1. task \in [Messages -> TaskStates] /\ broker \in [Messages -> BrokerStates]
  BY DEF IInv, TypeOK
<1>2. Running' = Running /\ m \notin Running
  BY <1>1 DEF Settle
<1>3. UNCHANGED <<boots, lastRun, succeeded>>
  BY DEF processVars, history
<1>4. CASE link = "up"
  <2>1. State[m] = "held"
    BY <1>4 DEF IInv, UnackedIsHeld, QueueState
  <2>2. broker' = [broker EXCEPT ![m] = outcome]
    BY <1>4 DEF Settle
  <2>3. State' = [State EXCEPT ![m] = IF outcome = "acked" THEN "accepted" ELSE "rejected"]
    BY <1>1, <2>2 DEF QueueState
  <2>4. Queue!Settle(m)
    BY <1>2, <1>3, <2>1, <2>3 DEF Queue!Settle
  <2> QED
    BY <2>4 DEF Queue!Next
<1>5. CASE link # "up"
  <2>1. State' = State
    BY <1>5 DEF Settle, QueueState
  <2> QED
    BY <1>2, <1>3, <2>1 DEF Queue!vars
<1> QED
  BY <1>4, <1>5

\* What leaves state, running workflows and history alone is a stutter of the queue.
LEMMA MessageRefines ==
  ASSUME IInv, NEW m \in Messages,
         Send(m) \/ Deliver(m) \/ Handle(m) \/ WorkflowFails(m) \/ WorkflowSucceeds(m)
  PROVE  [Queue!Next]_(Queue!vars)
<1> DEFINE State == [n \in Messages |-> QueueState(n)]
           Running == {n \in Messages : task[n] = "posted"}
<1>0. task \in [Messages -> TaskStates] /\ broker \in [Messages -> BrokerStates]
  BY DEF IInv, TypeOK
<1>1. CASE Send(m)
  <2>1. State[m] = "unsent" /\ \E s \in {"held", "lost"} : State' = [State EXCEPT ![m] = s]
    BY <1>0, <1>1 DEF Send, QueueState
  <2>2. UNCHANGED <<boots, lastRun, succeeded, task>>
    BY <1>1 DEF Send, processVars, history
  <2>3. Queue!Send(m)
    BY <2>1, <2>2 DEF Queue!Send
  <2> QED
    BY <2>3 DEF Queue!Next
<1>2. CASE Deliver(m)
  <2>1. State' = State
    BY <1>0, <1>2 DEF Deliver, QueueState
  <2>2. task[m] = "none"
    BY <1>2 DEF Deliver, IInv, UnackedIsHeld
  <2>3. Running' = Running
    BY <1>0, <1>2, <2>2 DEF Deliver
  <2> QED
    BY <1>2, <2>1, <2>3 DEF Deliver, processVars, history, Queue!vars
<1>3. CASE SkipOther(m) \/ Ack(m) \/ Nack(m)
  BY <1>3, SettleRefines DEF SkipOther, Ack, Nack, IInv, OkMeansSucceeded
<1>4. CASE SpawnHandler(m) \/ ParseFails(m) \/ PostRefused(m)
  <2>1. Running' = Running
    BY <1>0, <1>4 DEF SpawnHandler, ParseFails, PostRefused
  <2>2. UNCHANGED <<processVars, broker, history>>
    BY <1>4 DEF SpawnHandler, ParseFails, PostRefused
  <2>3. State' = State
    BY <2>2 DEF QueueState
  <2> QED
    BY <2>1, <2>2, <2>3 DEF processVars, history, Queue!vars
<1>5. CASE WorkflowFails(m) \/ WorkflowSucceeds(m)
  <2>1. m \in Running /\ Running' = Running \ {m}
    BY <1>0, <1>5 DEF WorkflowFails, WorkflowSucceeds
  <2>2. UNCHANGED <<boots, lastRun, broker>> /\ succeeded' \in {succeeded, succeeded \cup {m}}
    BY <1>5 DEF WorkflowFails, WorkflowSucceeds, processVars, history
  <2>3. State' = State
    BY <2>2 DEF QueueState
  <2>4. Queue!Finish(m)
    BY <2>1, <2>2, <2>3 DEF Queue!Finish
  <2> QED
    BY <2>4 DEF Queue!Next
<1>6. CASE Post(m)
  <2>1. State[m] = "held"
    BY <1>6 DEF Post, IInv, WorkedOnIsHeld, QueueState
  <2>2. lastRun[m] < boots
    BY <1>6 DEF Post, IInv, FreshIsUnrun, Fresh
  <2>3. m \notin Running /\ Running' = Running \cup {m}
    BY <1>0, <1>6 DEF Post
  <2>4. UNCHANGED <<boots, broker, succeeded>> /\ lastRun' = [lastRun EXCEPT ![m] = boots] /\ Kind[m] = "Schedule"
    BY <1>6 DEF Post, processVars
  <2>5. State' = State
    BY <2>4 DEF QueueState
  <2>6. Queue!Run(m)
    BY <2>1, <2>2, <2>3, <2>4, <2>5 DEF Queue!Run
  <2> QED
    BY <2>6 DEF Queue!Next
<1> QED
  BY <1>1, <1>2, <1>3, <1>4, <1>5, <1>6 DEF Handle

LEMMA StepRefines == IInv /\ [Next]_vars => [Queue!Next]_(Queue!vars)
<1> SUFFICES ASSUME IInv, [Next]_vars PROVE [Queue!Next]_(Queue!vars)
  OBVIOUS
<1> DEFINE State == [n \in Messages |-> QueueState(n)]
           Running == {n \in Messages : task[n] = "posted"}
<1>1. CASE Boot
  <2>1. State' = State /\ Running' = Running
    BY <1>1 DEF Boot, QueueState
  <2>2. Queue!StartProcess
    BY <1>1, <2>1 DEF Boot, history, Queue!StartProcess
  <2> QED
    BY <2>2 DEF Queue!Next
<1>2. CASE Crash
  <2>1. State' = State
    BY <1>2, RequeuedKeepsState DEF Crash, IInv
  <2>2. Running' = {}
    BY <1>2 DEF Crash
  <2>3. Queue!EndProcess
    BY <1>2, <2>1, <2>2 DEF Crash, history, Queue!EndProcess
  <2> QED
    BY <2>3 DEF Queue!Next
<1>3. CASE LinkLost
  <2>1. State' = State
    BY <1>3, RequeuedKeepsState DEF LinkLost, IInv
  <2> QED
    BY <1>3, <2>1 DEF LinkLost, history, Queue!vars
<1>4. CASE SpawnConsumer \/ Bind \/ QueueBound \/ SetupFails \/ ConsumerEnds
  <2>1. UNCHANGED <<broker, task, boots, lastRun, succeeded>>
    BY <1>4 DEF SpawnConsumer, Bind, QueueBound, SetupFails, ConsumerEnds, history
  <2>2. State' = State /\ Running' = Running
    BY <2>1 DEF QueueState
  <2> QED
    BY <2>1, <2>2 DEF Queue!vars
<1>5. CASE UNCHANGED vars
  <2>1. State' = State /\ Running' = Running
    BY <1>5 DEF vars, QueueState
  <2> QED
    BY <1>5, <2>1 DEF vars, Queue!vars
<1> QED
  BY <1>1, <1>2, <1>3, <1>4, <1>5, MessageRefines DEF Next

\* The consumer implements ScheduleQueue: with tasks, deliveries and the connection hidden, a
\* message is settled once, accepted only after a success, and run once by a process.
THEOREM ImplementsQueue == Safety => KeepsQueue
<1>1. Init => Queue!Init
  BY DEF Init, Queue!Init, QueueState
<1> QED
  BY <1>1, StepRefines, Invariance, PTL DEF Safety, KeepsQueue, Queue!Spec
=============================================================================
