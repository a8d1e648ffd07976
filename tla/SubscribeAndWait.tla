-------------------------- MODULE SubscribeAndWait --------------------------
(***************************************************************************)
(* mqtt_subscribe_and_wait of src/src/node/mqtt.rs, on top of MqttHandle: a *)
(* crossflow scope in which an mqtt_listen node, with a buffer, a listener  *)
(* of the buffer and a condition behind it, races against the timer service *)
(* of src/src/node/utils.rs.  Whoever terminates the scope first gives its   *)
(* output, and the rest of the scope is dropped.                            *)
(*                                                                         *)
(* Each operation that the wiring queues is one step.  Of the order in      *)
(* which crossflow performs what is queued nothing is assumed but that a    *)
(* link keeps the order of its messages.                                    *)
(***************************************************************************)
EXTENDS MqttHandle, Integers, CelCondition

CONSTANTS
  Timeout,     \* [Subscribers -> Nat], timeout_secs
  Condition,   \* [Subscribers -> condition]
  Json,        \* what a payload parses to, Undefined for what is not JSON
  MaxFrame,    \* bound: time between two updates of the Bevy loop
  Ticks        \* the steps in which time passes

Data == Payloads \cup Publishers

ASSUME WaitAssumption ==
  /\ Timeout \in [Subscribers -> Nat]
  /\ DOMAIN Condition = Subscribers
  /\ \A w \in Subscribers : /\ Condition[w].kind \in {"empty", "faulty", "equals"}
                            /\ Condition[w].kind = "equals" => Condition[w].literal # Undefined
  /\ DOMAIN Json = Data
  /\ MaxFrame \in Nat \ {0}
  /\ Ticks \subseteq 1 .. MaxFrame
  /\ None \notin Data

VARIABLES
  scope,      \* [Subscribers -> progress of the scope]
  stream,     \* messages on their way from the mqtt_listen node to the buffer
  buffer,     \* msg_buffer, which keeps the newest message
  firings,    \* triggers of the buffer's listener that are queued
  remaining,  \* time_buffer
  timer,      \* the order at the timer service
  output,     \* what the scope ended with
  heard,      \* history: what has come into the buffer
  passed,     \* history: time since the scope was started, as far as the time-out
  sinceFrame  \* time since the last update, the next one's delta_secs

scopeVars == <<scope, stream, buffer, firings, remaining, timer, output>>
timeVars == <<passed, sinceFrame>>
waitVars == <<scopeVars, heard, timeVars>>
allVars == <<vars, waitVars>>

\* What ends a wait: by the code, and by the docs.
Accepted(w, d) == ConditionNode(Condition[w], Json[d])
Accepting == [w \in Subscribers |-> {d \in Data : Json[d] # Undefined /\ Accepted(w, d)}]
Wanted == [w \in Subscribers |-> {d \in Data : Json[d] # Undefined /\ Means(Condition[w], Json[d])}]

Running(w) == scope[w] = "running"
Ended(w) == scope[w] \in {"matched", "timeout", "cancelled"}

\* A frame takes the remaining time below 0 once, by less than a frame.
WaitTypeOK ==
  /\ TypeOK
  /\ scope \in [Subscribers -> {"idle", "running", "matched", "timeout", "cancelled"}]
  /\ stream \in [Subscribers -> Seq(Data)]
  /\ buffer \in [Subscribers -> Data \cup {None}]
  /\ firings \in [Subscribers -> Nat]
  /\ DOMAIN remaining = Subscribers
  /\ \A w \in Subscribers : remaining[w] # None =>
       /\ remaining[w] \in Int
       /\ remaining[w] <= 0 /\ Timeout[w] # 0 =>
            timer[w] = "due" /\ remaining[w] + MaxFrame > 0
  /\ timer \in [Subscribers -> {"off", "asked", "due"}]
  /\ output \in [Subscribers -> Data \cup {None}]
  /\ heard \in [Subscribers -> SUBSET Data]
  /\ passed \in [Subscribers -> Nat]
  /\ sinceFrame \in 0 .. MaxFrame

WaitInit ==
  /\ Init
  /\ scope = [w \in Subscribers |-> "idle"]
  /\ stream = [w \in Subscribers |-> <<>>]
  /\ buffer = [w \in Subscribers |-> None]
  /\ firings = [w \in Subscribers |-> 0]
  /\ remaining = [w \in Subscribers |-> None]
  /\ timer = [w \in Subscribers |-> "off"]
  /\ output = [w \in Subscribers |-> None]
  /\ heard = [w \in Subscribers |-> {}]
  /\ passed = [w \in Subscribers |-> 0]
  /\ sinceFrame = 0

-----------------------------------------------------------------------------
(* The scope: scope.start is cloned into three branches *)

Start(w) ==
  /\ scope[w] = "idle"
  /\ scope' = [scope EXCEPT ![w] = "running"]
  /\ UNCHANGED <<vars, stream, buffer, firings, remaining, timer, output, heard, timeVars>>

StartListen(w) ==
  /\ Running(w)
  /\ CheckMap(w)
  /\ UNCHANGED waitVars

\* Defective variant: the service is given the time as it is when it is asked.
StoreTimeBeforeAsking(w) ==
  /\ Running(w)
  /\ remaining[w] = None
  /\ timer[w] = "off"
  /\ remaining' = [remaining EXCEPT ![w] = Timeout[w]]
  /\ UNCHANGED <<vars, scope, stream, buffer, firings, timer, output, heard, timeVars>>

StoreTime(w) ==
  /\ Running(w)
  /\ remaining[w] = None
  /\ remaining' = [remaining EXCEPT ![w] = Timeout[w]]
  /\ UNCHANGED <<vars, scope, stream, buffer, firings, timer, output, heard, timeVars>>

AskTimer(w) ==
  /\ Running(w)
  /\ timer[w] = "off"
  /\ timer' = [timer EXCEPT ![w] = "asked"]
  /\ UNCHANGED <<vars, scope, stream, buffer, firings, remaining, output, heard, timeVars>>

\* scope.terminate: buffers, orders and what is queued go with the scope.
Terminate(w, how, value) ==
  /\ scope' = [scope EXCEPT ![w] = how]
  /\ output' = [output EXCEPT ![w] = value]
  /\ stream' = [stream EXCEPT ![w] = <<>>]
  /\ buffer' = [buffer EXCEPT ![w] = None]
  /\ firings' = [firings EXCEPT ![w] = 0]
  /\ remaining' = [remaining EXCEPT ![w] = None]
  /\ timer' = [timer EXCEPT ![w] = "off"]
  /\ UNCHANGED <<vars, heard, timeVars>>

Cancel(w) == Running(w) /\ Terminate(w, "cancelled", None)

\* The future of the mqtt_listen node goes after its scope, at its next await.
Drop(w) ==
  /\ Ended(w)
  /\ Leave(w)
  /\ UNCHANGED waitVars

-----------------------------------------------------------------------------
(* mqtt_listen, the buffer and the condition *)

\* A Lagged receiver goes on, a message that does not parse is skipped.
Hear(w) ==
  /\ Running(w)
  /\ Recv(w)
  /\ LET data == Head(inbox[w]).data
     IN  stream' = [stream EXCEPT ![w] = IF Json[data] = Undefined THEN @ ELSE Append(@, data)]
  /\ UNCHANGED <<scope, buffer, firings, remaining, timer, output, heard, timeVars>>

\* An error of the node, from subscribe or a closed channel, is connected to nothing.
ListenStep(w) ==
  \/ StartListen(w)
  \/ Hear(w)
  \/ (BadQos(w) \/ SendRequest(w) \/ Insert(w) \/ RecvClosed(w)) /\ UNCHANGED waitVars

\* Defective variant: the listener is triggered when the buffer becomes non-empty.
BufferWhenEmpty(w) ==
  /\ stream[w] # <<>>
  /\ stream' = [stream EXCEPT ![w] = Tail(@)]
  /\ buffer' = [buffer EXCEPT ![w] = Head(stream[w])]
  /\ firings' = [firings EXCEPT ![w] = IF buffer[w] = None THEN 1 ELSE @]
  /\ heard' = [heard EXCEPT ![w] = @ \cup {Head(stream[w])}]
  /\ UNCHANGED <<vars, scope, remaining, timer, output, timeVars>>

\* The message takes the place of the one before it and triggers the listener.
BufferMessage(w) ==
  /\ stream[w] # <<>>
  /\ stream' = [stream EXCEPT ![w] = Tail(@)]
  /\ buffer' = [buffer EXCEPT ![w] = Head(stream[w])]
  /\ firings' = [firings EXCEPT ![w] = @ + 1]
  /\ heard' = [heard EXCEPT ![w] = @ \cup {Head(stream[w])}]
  /\ UNCHANGED <<vars, scope, remaining, timer, output, timeVars>>

\* Defective variant: the Err branch of the condition terminates the scope as well.
ConsumeAny(w) == firings[w] > 0 /\ Terminate(w, "matched", buffer[w])

\* consume_message leaves the message where it is; the condition's Err goes nowhere.
Consume(w) ==
  /\ firings[w] > 0
  /\ IF Accepted(w, buffer[w])
       THEN Terminate(w, "matched", buffer[w])
       ELSE /\ firings' = [firings EXCEPT ![w] = @ - 1]
            /\ UNCHANGED <<vars, scope, stream, buffer, remaining, timer, output, heard, timeVars>>

-----------------------------------------------------------------------------
(* Time, and timer_countdown, run by the Bevy loop once per update *)

Tick(d) ==
  /\ sinceFrame + d <= MaxFrame
  /\ sinceFrame' = sinceFrame + d
  /\ passed' = [w \in Subscribers |->
                  IF ~Running(w) THEN passed[w]
                  ELSE IF passed[w] + d < Timeout[w] THEN passed[w] + d ELSE Timeout[w]]
  /\ UNCHANGED <<vars, scopeVars, heard>>

\* The orders of scopes that still run, with the remaining time in the buffer.
Counting == {w \in Subscribers : Running(w) /\ timer[w] = "asked" /\ remaining[w] # None}

CountDown(counted, left) ==
  /\ sinceFrame > 0
  /\ sinceFrame' = 0
  /\ remaining' = [w \in Subscribers |-> IF w \in counted THEN left[w] ELSE remaining[w]]
  /\ timer' = [w \in Subscribers |-> IF w \in counted /\ left[w] <= 0 THEN "due" ELSE timer[w]]
  /\ UNCHANGED <<vars, scope, stream, buffer, firings, output, heard, passed>>

\* Defective variant: an order that is due goes on counting.
FrameOverrunning ==
  LET counted == {w \in Subscribers : Running(w) /\ timer[w] # "off" /\ remaining[w] # None}
  IN  CountDown(counted, [w \in counted |-> remaining[w] - sinceFrame])

\* Defective variant: no time in the buffer counts as no time left.
FrameWithoutTime ==
  LET counted == {w \in Subscribers : Running(w) /\ timer[w] = "asked"}
  IN  CountDown(counted, [w \in counted |-> IF remaining[w] = None THEN 0 ELSE remaining[w] - sinceFrame])

\* Takes the time since the last update from every order, also from one that was made since.
\* An order whose time is not in its buffer yet waits for the next update.
Frame == CountDown(Counting, [w \in Counting |-> remaining[w] - sinceFrame])

TimeOut(w) ==
  /\ timer[w] = "due"
  /\ Terminate(w, "timeout", None)

-----------------------------------------------------------------------------

\* mqtt_publish of another branch: the config's payload or else the input, named by p.
PublishNode(p) == Publish(p) /\ UNCHANGED waitVars

ScopeStep(w) == StoreTime(w) \/ AskTimer(w) \/ BufferMessage(w) \/ Consume(w) \/ TimeOut(w)
HandleStep == EventLoop \/ Reconnect \/ Disconnect \/ \E t \in Topics, d \in Payloads : DevicePublishes(t, d)

WaitNext ==
  \/ \E w \in Subscribers : Start(w) \/ ScopeStep(w) \/ ListenStep(w) \/ Cancel(w) \/ Drop(w)
  \/ \E d \in Ticks : Tick(d)
  \/ Frame
  \/ \E p \in Publishers : PublishNode(p)
  \/ HandleStep /\ UNCHANGED waitVars

WaitSafety == WaitInit /\ [][WaitNext]_allVars

\* Time passes, and the Bevy loop runs for ever and performs all that is queued before it sleeps; tokio polls
\* the listen node.  Nothing is assumed of the connection and of the devices.
WaitFairness ==
  /\ WF_allVars(\E d \in Ticks : Tick(d)) /\ WF_allVars(Frame)
  /\ \A w \in Subscribers : WF_allVars(StoreTime(w)) /\ WF_allVars(AskTimer(w)) /\ WF_allVars(TimeOut(w))

WaitSpec == WaitSafety /\ WaitFairness

-----------------------------------------------------------------------------
(* Properties *)

\* The newest message always gets to the condition: with no trigger outstanding, a message
\* that ends the wait is not left lying in the buffer.
NewestIsConsidered ==
  \A w \in Subscribers : Running(w) /\ firings[w] = 0 => buffer[w] \notin Accepting[w]

\* A scope that was started ends: with the time-out at the latest, also when subscribing
\* failed, the channel was taken away or the connection is gone.
ScopeEnds == \A w \in Subscribers : Running(w) ~> Ended(w)

\* The node keeps the promise of WaitForMatch: it ends once, and with a message that has
\* arrived and that the condition accepts, or at most one frame before its time: the first
\* update takes off time in which the scope was not there yet.
Promise == INSTANCE WaitForMatch WITH
  Waiters <- Subscribers, Heard <- Data, Accepts <- Accepting, Early <- MaxFrame

KeepsPromise == Promise!Spec

\* docs/nodes.md: the node waits for a message matching the condition.  A message that
\* matches and has arrived in the running scope is not replaced before it is considered.
NoMatchSkipped ==
  [][\A w \in Subscribers :
       Running(w) /\ buffer[w] \in Wanted[w] /\ scope'[w] = "running" => buffer'[w] = buffer[w]]_allVars

\* The comment at utils.rs:82: the form with the prefix message and the one without it name the
\* same value.  Each condition accepts of the messages in the buffers just those of which it holds,
\* so read; but of a message with a field named message the form with the prefix reads that field.
ReadAsDocumented ==
  \A w, v \in Subscribers : buffer[w] # None =>
    LET message == Json[buffer[w]]
        reading == IF Hidden(Condition[v], message) THEN MeansField(Condition[v], message)
                   ELSE Means(Condition[v], message)
    IN  Accepted(v, buffer[w]) <=> reading
=============================================================================
