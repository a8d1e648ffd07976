--------------------------- MODULE AmqpNodesProofs ---------------------------
(***************************************************************************)
(* The workflow nodes use the client by its rules: AmqpNodes implements     *)
(* AmqpClient, so every theorem about the client holds of the nodes too.    *)
(***************************************************************************)
EXTENDS AmqpNodes, AmqpClientProofs

LEMMA NodeStepIsClientStep ==
  ASSUME [NodesNext]_allVars
  PROVE  [Next]_vars
<1>1. CASE UNCHANGED allVars
  BY <1>1 DEF allVars
<1>2. CASE ClientStep
  BY <1>2 DEF ClientStep, Next
<1>3. ASSUME NEW c \in Callers, NEW id \in GoToIds, GoToStart(c, id) PROVE Next
  BY <1>3, NodesAssumption DEF GoToStart, Next
<1>4. ASSUME NEW c \in Callers, GoToFinish(c) PROVE UNCHANGED vars
  BY <1>4 DEF GoToFinish
<1>5. ASSUME NEW d \in Delayers, DelayStart(d) PROVE UNCHANGED vars
  BY <1>5 DEF DelayStart
<1>6. ASSUME NEW d \in Delayers, NEW id \in DelayIds, DelayFinish(d, id) PROVE Next
  BY <1>6, NodesAssumption DEF DelayFinish, Next
<1>7. CASE NodesRestart
  BY <1>7 DEF NodesRestart, Next
<1> QED
  BY <1>1, <1>2, <1>3, <1>4, <1>5, <1>6, <1>7 DEF NodesNext

\* Whatever the nodes do, the client runs one of its own behaviours.
THEOREM NodesImplementClient == NodesSafety => Spec
<1>1. NodesInit => Init
  BY DEF NodesInit
<1> QED
  BY <1>1, NodeStepIsClientStep, PTL DEF NodesSafety, Spec

\* Workflow nodes never see the error of a published request, and each answer reaches all
\* the nodes that wait for its task.
THEOREM NodesKeepPromise == NodesSafety => PromiseSpec
BY NodesImplementClient, KeepsPromise

-----------------------------------------------------------------------------
\* How a call ended says why: with a reply, or because nothing can be published any more.
EndInv ==
  \A c \in Callers :
    /\ call[c] = "returned" => reply[c] # None
    /\ call[c] = "failed" => ~CanPublish
    /\ output[c] = "ok" => call[c] \in {"returned", "failed"}

\* A client whose connection or channel is gone stays so until the process restarts.
LEMMA CannotPublishIsStable ==
  ASSUME Next, ~Restart, ~CanPublish
  PROVE  ~CanPublish'
<1> USE DEF CanPublish, linkVars, listenVars, callVars
<1>1. ASSUME NEW c \in Callers, NEW k \in Keys, Register(c, k) PROVE ~CanPublish'
  BY <1>1 DEF Register
<1>2. ASSUME NEW c \in Callers, NEW x \in Exchanges, Publish(c, x) PROVE ~CanPublish'
  BY <1>2 DEF Publish, PublishTo
<1>3. ASSUME NEW k \in Keys, PublishStatus(k) PROVE ~CanPublish'
  BY <1>3 DEF PublishStatus, PublishTo
<1>4. ASSUME NEW c \in Callers, PublishFails(c) \/ AwaitResponse(c) \/ DropCall(c) PROVE ~CanPublish'
  BY <1>4 DEF PublishFails, AwaitResponse, DropCall
<1>5. ASSUME Listening PROVE ~CanPublish'
  BY <1>5 DEF Listening, NextDelivery, Dispatch, Ack, ListenerEnds
<1>6. ASSUME NEW k \in Keys, NEW s \in AssetStatuses, TaskStatusArrives(k, s) PROVE ~CanPublish'
  BY <1>6 DEF TaskStatusArrives
<1>7. ASSUME LinkBreaks \/ LinkLossNoticed \/ ChannelCloseNoticed PROVE ~CanPublish'
  BY <1>7 DEF LinkBreaks, LinkLossNoticed, ChannelCloseNoticed
<1> QED
  BY <1>1, <1>2, <1>3, <1>4, <1>5, <1>6, <1>7 DEF Next

\* A reply is never taken back while the process lives.
LEMMA RepliesStay ==
  ASSUME TypeInv, Next, ~Restart, NEW c \in Callers, reply[c] # None
  PROVE  reply'[c] # None
<1>1. ASSUME Dispatch PROVE reply'[c] # None
  BY <1>1 DEF Dispatch, TypeInv, TypeOK, HandOK
<1>2. ASSUME ~Dispatch PROVE UNCHANGED reply
  BY <1>2 DEF Next, Register, Publish, PublishStatus, PublishFails, AwaitResponse, DropCall, Listening,
    NextDelivery, Ack, ListenerEnds, TaskStatusArrives, LinkBreaks, LinkLossNoticed,
    ChannelCloseNoticed, callVars
<1> QED
  BY <1>1, <1>2

\* The state a call moves to: it ends as returned with its reply, as failed when nothing
\* can be published, and an ended call stays as it ended.
LEMMA CallSteps ==
  ASSUME TypeInv, WaitInv, Next, ~Restart, NEW c \in Callers, call'[c] # call[c]
  PROVE  /\ call[c] \in {"idle", "registered", "awaiting"}
         /\ call'[c] = "returned" => reply[c] # None
         /\ call'[c] = "failed" => ~CanPublish
<1>0. call \in [Callers -> CallStates]
  BY DEF TypeInv, TypeOK
<1> DEFINE Goal == /\ call[c] \in {"idle", "registered", "awaiting"}
                   /\ call'[c] = "returned" => reply[c] # None
                   /\ call'[c] = "failed" => ~CanPublish
<1>1. ASSUME NEW d \in Callers, NEW k \in Keys, Register(d, k) PROVE Goal
  BY <1>0, <1>1 DEF Register
<1>2. ASSUME NEW d \in Callers, NEW x \in Exchanges, Publish(d, x) PROVE Goal
  BY <1>0, <1>2 DEF Publish
<1>3. ASSUME NEW d \in Callers, PublishFails(d) PROVE Goal
  BY <1>0, <1>3 DEF PublishFails
<1>4. ASSUME NEW d \in Callers, AwaitResponse(d) PROVE Goal
  <2>1. call[d] = "awaiting" /\ reply[d] # None /\ call' = [call EXCEPT ![d] = "returned"]
    BY <1>4, AwaitReturns DEF AwaitResponse
  <2> QED
    BY <1>0, <2>1
<1>5. ASSUME NEW d \in Callers, DropCall(d) PROVE Goal
  BY <1>0, <1>5 DEF DropCall, Receiving
<1>6. ASSUME \/ Listening \/ LinkBreaks \/ LinkLossNoticed \/ ChannelCloseNoticed
             \/ \E k \in Keys : PublishStatus(k)
             \/ \E k \in Keys, s \in AssetStatuses : TaskStatusArrives(k, s)
      PROVE  UNCHANGED call
  BY <1>6 DEF Listening, NextDelivery, Dispatch, Ack, ListenerEnds, LinkBreaks, LinkLossNoticed,
    ChannelCloseNoticed, PublishStatus, TaskStatusArrives, callVars
<1> QED
  BY <1>1, <1>2, <1>3, <1>4, <1>5, <1>6 DEF Next

NodeVarsTyped ==
  /\ output \in [Callers -> {"none", "ok"}]
  /\ delay \in [Delayers -> {"idle", "delaying", "ok"}]

LEMMA NodeVarsTypedStep == NodeVarsTyped /\ [NodesNext]_allVars => NodeVarsTyped'
<1> SUFFICES ASSUME NodeVarsTyped, [NodesNext]_allVars PROVE NodeVarsTyped'
  OBVIOUS
<1> USE DEF NodeVarsTyped
<1>1. CASE UNCHANGED nodeVars
  BY <1>1 DEF nodeVars
<1>2. ASSUME NEW c \in Callers, GoToFinish(c) PROVE NodeVarsTyped'
  BY <1>2 DEF GoToFinish
<1>3. ASSUME NEW d \in Delayers, DelayStart(d) PROVE NodeVarsTyped'
  BY <1>3 DEF DelayStart
<1>4. ASSUME NEW d \in Delayers, NEW id \in DelayIds, DelayFinish(d, id) PROVE NodeVarsTyped'
  BY <1>4 DEF DelayFinish
<1>5. CASE NodesRestart
  BY <1>5 DEF NodesRestart
<1> QED
  BY <1>1, <1>2, <1>3, <1>4, <1>5 DEF NodesNext, GoToStart, allVars

\* Only a restart counts as one.
LEMMA RestartIsNodesRestart ==
  ASSUME TypeInv, NodesNext, ~NodesRestart
  PROVE  ~Restart
<1>1. UNCHANGED restarts
  BY DEF NodesNext, ClientStep, Listening, Publish, PublishFails, AwaitResponse, DropCall, NextDelivery,
    Dispatch, Ack, ListenerEnds, TaskStatusArrives, LinkBreaks, LinkLossNoticed, ChannelCloseNoticed,
    GoToStart, Register, GoToFinish, DelayStart, DelayFinish, PublishStatus, vars, linkVars
<1>2. restarts \in Nat
  BY DEF TypeInv, TypeOK
<1> QED
  BY <1>1, <1>2 DEF Restart

LEMMA EndInvStep == TypeInv /\ WaitInv /\ NodeVarsTyped /\ EndInv /\ [NodesNext]_allVars => EndInv'
<1> SUFFICES ASSUME TypeInv, WaitInv, NodeVarsTyped, EndInv, [NodesNext]_allVars PROVE EndInv'
  OBVIOUS
<1>0. [Next]_vars
  BY NodeStepIsClientStep
<1>1. CASE NodesRestart
  BY <1>1 DEF NodesRestart, Restart, EndInv
<1>2. ASSUME ~NodesRestart, NEW c \in Callers
      PROVE  output'[c] = output[c] \/ (call[c] \in {"returned", "failed"} /\ UNCHANGED vars)
  <2>1. ASSUME NEW d \in Callers, GoToFinish(d)
        PROVE  output'[c] = output[c] \/ (call[c] \in {"returned", "failed"} /\ UNCHANGED vars)
    BY <2>1 DEF GoToFinish, NodeVarsTyped
  <2> QED
    BY <1>2, <2>1 DEF NodesNext, GoToStart, DelayStart, DelayFinish, nodeVars, allVars
<1>3. CASE UNCHANGED vars /\ ~NodesRestart
  BY <1>2, <1>3 DEF EndInv, vars, CanPublish
<1>4. CASE ~UNCHANGED vars /\ ~NodesRestart
  <2>1. NodesNext /\ Next
    BY <1>0, <1>4 DEF allVars
  <2>2. ~Restart
    BY <1>4, <2>1, RestartIsNodesRestart
  <2>3. ASSUME NEW c \in Callers
        PROVE  /\ call'[c] = "returned" => reply'[c] # None
               /\ call'[c] = "failed" => ~CanPublish'
               /\ output'[c] = "ok" => call'[c] \in {"returned", "failed"}
    <3>1. output'[c] = output[c]
      BY <1>2, <1>4
    <3>2. CASE call'[c] = call[c]
      BY <2>1, <2>2, <3>1, <3>2, RepliesStay, CannotPublishIsStable DEF EndInv
    <3>3. CASE call'[c] # call[c]
      BY <2>1, <2>2, <3>1, <3>3, CallSteps, RepliesStay, CannotPublishIsStable DEF EndInv
    <3> QED
      BY <3>2, <3>3
  <2> QED
    BY <2>3 DEF EndInv
<1> QED
  BY <1>1, <1>3, <1>4

\* The variables of the client and of the nodes keep their types.
THEOREM NodesTypeCorrect == NodesSafety => []NodesTypeOK
<1>1. NodesInit => NodeVarsTyped
  BY DEF NodesInit, NodeVarsTyped
<1>2. TypeOK /\ NodeVarsTyped => NodesTypeOK
  BY DEF NodeVarsTyped, NodesTypeOK
<1> QED
  BY <1>1, <1>2, NodeVarsTypedStep, TypeCorrect, NodesImplementClient, PTL DEF NodesSafety

\* A GoToNode whose request was published hands on its output only with a final status of
\* its own task.
THEOREM OutputWithReply == NodesSafety => []OutputAfterReply
<1>1. NodesInit => EndInv /\ NodeVarsTyped
  BY DEF NodesInit, Init, EndInv, NodeVarsTyped
<1>2. WaitInv /\ EndInv => OutputAfterReply
  BY DEF WaitInv, EndInv, OutputAfterReply, RepliesAreFinal
<1> QED
  BY <1>1, <1>2, EndInvStep, NodeVarsTypedStep, Invariance, NodesImplementClient, PTL DEF NodesSafety
=============================================================================
