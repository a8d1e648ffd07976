-------------------------- MODULE AmqpClientProofs --------------------------
(***************************************************************************)
(* Proofs about AmqpClient for every set of callers, task ids and statuses. *)
(***************************************************************************)
EXTENDS AmqpClient, TLAPS, SequenceTheorems

USE ClientAssumption

\* What the listener holds while it works on a delivery.
HandOK == listener \in {"dispatching", "acking"} <=> inHand # None

\* While the connection is up the broker's queue is the delivery in hand and the buffer;
\* an ack always finds its delivery at the head.
Held == IF inHand = None THEN <<>> ELSE <<inHand>>
UnsettledInOrder == link = "up" => queue = Held \o buffer

\* A call that was made has its task id.
KeyOK == \A c \in Callers : call[c] # "idle" => key[c] \in Keys

LEMMA MessageFields ==
  ASSUME NEW m \in Message
  PROVE  m.key \in Keys /\ m.type \in {"TaskRequest", "TaskStatus"} /\ m.status \in Statuses
BY DEF Message

\* Every message put into the queue is a Message.
LEMMA MessagesTyped ==
  ASSUME NEW k \in Keys
  PROVE  /\ TaskRequest(k) \in Message
         /\ \A s \in Statuses : TaskStatus(k, s) \in Message
BY DEF TaskRequest, TaskStatus, Message, Statuses

\* An arriving message keeps both sequences typed.
LEMMA ArrivesTyped ==
  ASSUME queue \in Seq(Message), buffer \in Seq(Message), NEW m \in Message, Arrives(m)
  PROVE  queue' \in Seq(Message) /\ buffer' \in Seq(Message)
BY DEF Arrives

\* A delivery put in front of a sequence can be taken off again.
LEMMA HeadInFront ==
  ASSUME NEW S, NEW b \in Seq(S), NEW h \in S
  PROVE  /\ <<h>> \o b \in Seq(S)
         /\ Tail(<<h>> \o b) = b
         /\ b # <<>> => <<Head(b)>> \o Tail(b) = b
<1>1. <<h>> \in Seq(S) /\ Len(<<h>>) = 1 /\ <<h>>[1] = h
  OBVIOUS
<1>2. <<h>> \o b \in Seq(S)
  BY <1>1, ConcatProperties
<1>3. Len(<<h>> \o b) = 1 + Len(b) /\ \A i \in 1 .. Len(b) : (<<h>> \o b)[i + 1] = b[i]
  BY <1>1, ConcatProperties
<1>4. <<h>> \o b # <<>>
  BY <1>1, ConcatEqualIffEmpty
<1>5. Tail(<<h>> \o b) = b
  <2>1. Tail(<<h>> \o b) \in Seq(S) /\ Len(Tail(<<h>> \o b)) = Len(b)
    BY <1>2, <1>3, <1>4, HeadTailProperties
  <2>2. \A i \in 1 .. Len(b) : Tail(<<h>> \o b)[i] = b[i]
    BY <1>2, <1>3, <1>4, <2>1, HeadTailProperties
  <2> QED
    BY <2>1, <2>2, SeqEqual
<1>6. ASSUME b # <<>> PROVE <<Head(b)>> \o Tail(b) = b
  <2>1. Head(b) \in S /\ Tail(b) \in Seq(S) /\ Len(Tail(b)) = Len(b) - 1 /\ Len(b) \in Nat
        /\ \A i \in 1 .. Len(Tail(b)) : Tail(b)[i] = b[i + 1]
    BY <1>6, HeadTailProperties, LenProperties
  <2>2. <<Head(b)>> \in Seq(S) /\ Len(<<Head(b)>>) = 1 /\ <<Head(b)>>[1] = b[1]
    BY <2>1
  <2>3. /\ <<Head(b)>> \o Tail(b) \in Seq(S)
        /\ Len(<<Head(b)>> \o Tail(b)) = Len(b)
        /\ \A i \in 1 .. Len(b) : (<<Head(b)>> \o Tail(b))[i] =
              IF i <= 1 THEN b[1] ELSE b[i]
    BY <2>1, <2>2, ConcatProperties
  <2>4. \A i \in 1 .. Len(b) : (<<Head(b)>> \o Tail(b))[i] = b[i]
    BY <2>1, <2>3
  <2> QED
    BY <2>3, <2>4, SeqEqual
<1> QED
  BY <1>2, <1>5, <1>6

LEMMA PublishTyped ==
  ASSUME TypeOK, NEW m \in Message, NEW x, PublishTo(x, m)
  PROVE  /\ queue' \in Seq(Message)
         /\ buffer' \in Seq(Message)
         /\ pubChan' \in ChannelStates
BY ArrivesTyped DEF TypeOK, PublishTo, ChannelStates

\* The entry operations keep pending_responses a map from task ids to sets of calls.
LEMMA AddSenderTyped ==
  ASSUME TypeOK, NEW k \in Keys, NEW c \in Callers
  PROVE  /\ DOMAIN AddSender(k, c) = DOMAIN pending \cup {k}
         /\ AddSender(k, c) \in [DOMAIN AddSender(k, c) -> SUBSET Callers]
BY DEF TypeOK, AddSender, Senders

LEMMA RemoveEntryTyped ==
  ASSUME TypeOK, NEW k
  PROVE  /\ DOMAIN RemoveEntry(k) = DOMAIN pending \ {k}
         /\ RemoveEntry(k) \in [DOMAIN RemoveEntry(k) -> SUBSET Callers]
BY DEF TypeOK, RemoveEntry

-----------------------------------------------------------------------------
\* Typing is inductive together with what each part needs of the others: a publish uses
\* the task id of its call, an ack takes the delivery in hand off the head of the queue.
TypeInv == TypeOK /\ KeyOK /\ HandOK /\ UnsettledInOrder

LEMMA TypeInvInit == Init => TypeInv
BY ConcatEmptySeq DEF Init, TypeInv, TypeOK, KeyOK, HandOK, UnsettledInOrder, Held, NoPending,
  CallStates, ListenerStates, LinkStates, ChannelStates

\* A message that arrives keeps the queue and the buffer in step.
LEMMA ArrivesInOrder ==
  ASSUME TypeInv, NEW m \in Message, Arrives(m), UNCHANGED <<inHand, link>>
  PROVE  UnsettledInOrder'
<1>1. CASE link = "up"
  <2>1. Held \in Seq(Message) /\ buffer \in Seq(Message)
    <3>1. <<>> \in Seq(Message) /\ (inHand \in Message => <<inHand>> \in Seq(Message))
      OBVIOUS
    <3> QED
      BY <3>1 DEF TypeInv, TypeOK, Held
  <2>2. Append(Held \o buffer, m) = Held \o Append(buffer, m)
    BY <2>1
  <2>3. queue = Held \o buffer
    BY <1>1 DEF TypeInv, UnsettledInOrder
  <2>4. Append(queue, m) = Held \o Append(buffer, m)
    BY <2>2, <2>3, Zenon
  <2> QED
    BY <1>1, <2>4 DEF Arrives, UnsettledInOrder, Held
<1> QED
  BY <1>1 DEF UnsettledInOrder

LEMMA PublishInOrder ==
  ASSUME TypeInv, NEW m \in Message, NEW x, PublishTo(x, m), UNCHANGED <<inHand, link>>
  PROVE  UnsettledInOrder'
BY ArrivesInOrder DEF PublishTo, TypeInv, UnsettledInOrder, Held

LEMMA TypeInvStep == TypeInv /\ [Next]_vars => TypeInv'
<1> SUFFICES ASSUME TypeInv, [Next]_vars PROVE TypeInv'
  OBVIOUS
<1>0. TypeOK /\ KeyOK /\ HandOK /\ UnsettledInOrder
  BY DEF TypeInv
<1> USE <1>0 DEF TypeOK, KeyOK, HandOK, callVars, listenVars, linkVars
<1> SUFFICES TypeOK' /\ KeyOK' /\ HandOK' /\ UnsettledInOrder'
  BY DEF TypeInv
<1>1. CASE UNCHANGED vars
  BY <1>1 DEF vars, UnsettledInOrder, Held
<1>2. ASSUME NEW c \in Callers, NEW k \in Keys, Register(c, k)
      PROVE  TypeOK' /\ KeyOK' /\ HandOK' /\ UnsettledInOrder'
  <2>1. DOMAIN pending' \subseteq Keys /\ pending' \in [DOMAIN pending' -> SUBSET Callers]
    <3>1. /\ DOMAIN AddSender(k, c) = DOMAIN pending \cup {k}
          /\ AddSender(k, c) \in [DOMAIN AddSender(k, c) -> SUBSET Callers]
      BY AddSenderTyped
    <3>2. pending' = AddSender(k, c)
      BY <1>2 DEF Register
    <3> QED
      BY <3>1, <3>2
  <2>2. call' \in [Callers -> CallStates] /\ key' \in [Callers -> Keys \cup {None}]
    BY <1>2 DEF Register, CallStates
  <2>3. UNCHANGED <<reply, queue, buffer, inHand, listener, link, pubChan, restarts>>
    BY <1>2 DEF Register
  <2>4. TypeOK'
    BY <2>1, <2>2, <2>3
  <2>5. KeyOK'
    BY <1>2 DEF Register
  <2> QED
    BY <2>3, <2>4, <2>5 DEF UnsettledInOrder, Held
<1>3. ASSUME NEW c \in Callers, NEW x \in Exchanges, Publish(c, x)
      PROVE  TypeOK' /\ KeyOK' /\ HandOK' /\ UnsettledInOrder'
  <2>1. TaskRequest(key[c]) \in Message
    BY <1>3, MessagesTyped DEF Publish
  <2>2. UnsettledInOrder'
    BY <1>3, <2>1, PublishInOrder DEF Publish, TypeInv
  <2> QED
    BY <1>3, <2>1, <2>2, PublishTyped DEF Publish, CallStates
<1>4. ASSUME NEW k \in Keys, PublishStatus(k)
      PROVE  TypeOK' /\ KeyOK' /\ HandOK' /\ UnsettledInOrder'
  <2>1. TaskStatus(k, "COMPLETED") \in Message
    BY MessagesTyped DEF Statuses, FinalStatuses
  <2>2. UnsettledInOrder'
    BY <1>4, <2>1, PublishInOrder DEF PublishStatus, TypeInv, UnsettledInOrder, Held
  <2> QED
    BY <1>4, <2>1, <2>2, PublishTyped DEF PublishStatus
<1>5. ASSUME NEW c \in Callers, PublishFails(c)
      PROVE  TypeOK' /\ KeyOK' /\ HandOK' /\ UnsettledInOrder'
  BY <1>5 DEF PublishFails, CallStates, UnsettledInOrder, Held
<1>6. ASSUME NEW c \in Callers, AwaitResponse(c)
      PROVE  TypeOK' /\ KeyOK' /\ HandOK' /\ UnsettledInOrder'
  <2>1. DOMAIN pending' \subseteq Keys /\ pending' \in [DOMAIN pending' -> SUBSET Callers]
    BY <1>6, RemoveEntryTyped DEF AwaitResponse
  <2>2. call' \in [Callers -> CallStates]
    BY <1>6 DEF AwaitResponse, CallStates
  <2>3. UNCHANGED <<key, reply, queue, buffer, inHand, listener, link, pubChan, restarts>>
    BY <1>6 DEF AwaitResponse
  <2>4. KeyOK'
    BY <1>6 DEF AwaitResponse
  <2> QED
    BY <2>1, <2>2, <2>3, <2>4 DEF UnsettledInOrder, Held
<1>7. ASSUME NEW c \in Callers, DropCall(c)
      PROVE  TypeOK' /\ KeyOK' /\ HandOK' /\ UnsettledInOrder'
  BY <1>7 DEF DropCall, Receiving, CallStates, UnsettledInOrder, Held
<1>8. ASSUME NextDelivery
      PROVE  TypeOK' /\ KeyOK' /\ HandOK' /\ UnsettledInOrder'
  <2>1. Head(buffer) \in Message /\ Tail(buffer) \in Seq(Message)
    BY <1>8 DEF NextDelivery
  <2>2. inHand = None /\ Head(buffer) # None
    BY <1>8, <2>1 DEF NextDelivery
  <2>3. <<Head(buffer)>> \o Tail(buffer) = buffer /\ <<>> \o buffer = buffer
    BY <1>8, <2>1, HeadInFront, ConcatEmptySeq DEF NextDelivery
  <2>4. UnsettledInOrder'
    BY <1>8, <2>2, <2>3 DEF NextDelivery, UnsettledInOrder, Held
  <2> QED
    BY <1>8, <2>1, <2>2, <2>4 DEF NextDelivery, ListenerStates
<1>9. ASSUME Dispatch
      PROVE  TypeOK' /\ KeyOK' /\ HandOK' /\ UnsettledInOrder'
  <2>1. DOMAIN pending' \subseteq Keys /\ pending' \in [DOMAIN pending' -> SUBSET Callers]
    BY <1>9, RemoveEntryTyped DEF Dispatch
  <2>2. inHand \in Message /\ reply' \in [Callers -> Message \cup {None}]
    BY <1>9 DEF Dispatch
  <2> QED
    BY <1>9, <2>1, <2>2 DEF Dispatch, ListenerStates, UnsettledInOrder, Held
<1>10. ASSUME Ack
       PROVE  TypeOK' /\ KeyOK' /\ HandOK' /\ UnsettledInOrder'
  <2>1. inHand \in Message
    BY <1>10 DEF Ack
  <2>2. link = "up" => queue = <<inHand>> \o buffer /\ Tail(queue) = buffer
    BY <2>1, HeadInFront DEF UnsettledInOrder, Held
  <2>3. <<>> \o buffer = buffer
    BY ConcatEmptySeq
  <2> QED
    BY <1>10, <2>2, <2>3 DEF Ack, ListenerStates, UnsettledInOrder, Held
<1>11. ASSUME ListenerEnds
       PROVE  TypeOK' /\ KeyOK' /\ HandOK' /\ UnsettledInOrder'
  BY <1>11 DEF ListenerEnds, ListenerStates, UnsettledInOrder, Held
<1>12. ASSUME NEW k \in Keys, NEW s \in AssetStatuses, TaskStatusArrives(k, s)
       PROVE  TypeOK' /\ KeyOK' /\ HandOK' /\ UnsettledInOrder'
  <2>1. TaskStatus(k, s) \in Message
    BY MessagesTyped DEF Statuses
  <2>2. UnsettledInOrder'
    BY <1>12, <2>1, ArrivesInOrder DEF TaskStatusArrives, TypeInv
  <2> QED
    BY <1>12, <2>1, <2>2, ArrivesTyped DEF TaskStatusArrives
<1>13. ASSUME LinkBreaks \/ LinkLossNoticed \/ ChannelCloseNoticed
       PROVE  TypeOK' /\ KeyOK' /\ HandOK' /\ UnsettledInOrder'
  BY <1>13 DEF LinkBreaks, LinkLossNoticed, ChannelCloseNoticed, LinkStates, ChannelStates,
    UnsettledInOrder, Held
<1>14. ASSUME Restart
       PROVE  TypeOK' /\ KeyOK' /\ HandOK' /\ UnsettledInOrder'
  <2>1. <<>> \o queue = queue
    BY ConcatEmptySeq
  <2> QED
    BY <1>14, <2>1 DEF Restart, NoPending, CallStates, ListenerStates, LinkStates, ChannelStates,
      UnsettledInOrder, Held
<1> QED
  BY <1>1, <1>2, <1>3, <1>4, <1>5, <1>6, <1>7, <1>8, <1>9, <1>10, <1>11, <1>12, <1>13, <1>14
    DEF Next, Listening

\* pending_responses stays a map from task ids to sets of calls, both sequences of messages
\* stay well formed and the listener holds a delivery exactly while it works on one.
THEOREM TypeCorrect == Spec => []TypeOK
<1>1. TypeInv => TypeOK
  BY DEF TypeInv
<1> QED
  BY <1>1, TypeInvInit, TypeInvStep, PTL DEF Spec

-----------------------------------------------------------------------------
\* A call that was never made has no reply.
IdleUnanswered == \A c \in Callers : call[c] = "idle" => reply[c] = None

\* The map, the calls and the replies, related.  None of the first three parts is inductive
\* alone: Dispatch needs PendingExact to wake only calls of the task, WaitersRegistered to
\* wake all of them, and Register needs the calls it did not reach to be unanswered.
WaitInv == WaitersRegistered /\ PendingExact /\ RepliesAreFinal /\ IdleUnanswered

\* The calls that a dispatch signals are those that wait for the task.
LEMMA SignalledAreWaiting ==
  ASSUME TypeInv, WaitInv, NEW k \in Keys, NEW c \in Callers
  PROVE  c \in Senders(k) /\ Receiving(c) <=> Waiting(c) /\ key[c] = k
BY DEF TypeInv, TypeOK, WaitInv, WaitersRegistered, PendingExact, Senders, Waiting

\* The error arm of await_response is never taken.
LEMMA AwaitReturns ==
  ASSUME WaitInv, NEW c \in Callers, AwaitResponse(c)
  PROVE  reply[c] # None /\ call' = [call EXCEPT ![c] = "returned"] /\ UNCHANGED pending
BY DEF WaitInv, WaitersRegistered, AwaitResponse, SenderAlive, Senders, Waiting, Receiving

LEMMA WaitInvInit == Init => WaitInv
BY DEF Init, WaitInv, WaitersRegistered, PendingExact, RepliesAreFinal, IdleUnanswered, NoPending,
  Waiting, Receiving

LEMMA WaitInvStep == TypeInv /\ WaitInv /\ [Next]_vars => WaitInv'
<1> SUFFICES ASSUME TypeInv, WaitInv, [Next]_vars PROVE WaitInv'
  OBVIOUS
<1>0. TypeOK /\ WaitersRegistered /\ PendingExact /\ RepliesAreFinal /\ IdleUnanswered
  BY DEF TypeInv, WaitInv
<1> USE <1>0 DEF WaitersRegistered, PendingExact, RepliesAreFinal, IdleUnanswered, Waiting, Receiving,
      Senders, callVars, listenVars, linkVars
<1> SUFFICES WaitersRegistered' /\ PendingExact' /\ RepliesAreFinal' /\ IdleUnanswered'
  BY DEF WaitInv
<1>1. ASSUME UNCHANGED <<call, key, reply, pending>>
      PROVE  WaitersRegistered' /\ PendingExact' /\ RepliesAreFinal' /\ IdleUnanswered'
  BY <1>1
<1>2. ASSUME NEW c \in Callers, NEW k \in Keys, Register(c, k)
      PROVE  WaitersRegistered' /\ PendingExact' /\ RepliesAreFinal' /\ IdleUnanswered'
  <2>1. /\ call \in [Callers -> CallStates] /\ call' = [call EXCEPT ![c] = "registered"]
        /\ key \in [Callers -> Keys \cup {None}] /\ key' = [key EXCEPT ![c] = k]
        /\ UNCHANGED reply
        /\ call[c] = "idle"
    BY <1>2 DEF Register, TypeOK
  <2>2. /\ DOMAIN pending' = DOMAIN pending \cup {k}
        /\ \A j \in DOMAIN pending' :
             pending'[j] = IF j = k THEN Senders(k) \cup {c} ELSE pending[j]
    BY <1>2 DEF Register, AddSender
  <2>3. \A j \in DOMAIN pending : c \notin pending[j] /\ pending[j] \subseteq Callers
    BY <2>1 DEF TypeOK
  <2>4. WaitersRegistered'
    BY <2>1, <2>2
  <2>5. PendingExact'
    BY <2>1, <2>2, <2>3
  <2> QED
    BY <2>1, <2>4, <2>5
<1>3. ASSUME NEW c \in Callers, NEW s \in {"awaiting", "failed", "dropped"},
             Receiving(c), call' = [call EXCEPT ![c] = s], UNCHANGED <<key, reply, pending>>
      PROVE  WaitersRegistered' /\ PendingExact' /\ RepliesAreFinal' /\ IdleUnanswered'
  BY <1>3 DEF TypeOK
<1>4. ASSUME NEW c \in Callers, AwaitResponse(c)
      PROVE  WaitersRegistered' /\ PendingExact' /\ RepliesAreFinal' /\ IdleUnanswered'
  <2>1. reply[c] # None /\ call' = [call EXCEPT ![c] = "returned"]
        /\ UNCHANGED <<pending, key, reply>>
    BY <1>4, AwaitReturns DEF AwaitResponse
  <2> QED
    BY <2>1 DEF TypeOK
<1>5. ASSUME Dispatch
      PROVE  WaitersRegistered' /\ PendingExact' /\ RepliesAreFinal' /\ IdleUnanswered'
  <2>1. CASE ~IsFinal(inHand)
    BY <1>5, <2>1, <1>1 DEF Dispatch
  <2>2. CASE IsFinal(inHand)
    <3>1. inHand \in Message /\ inHand # None
      BY <1>5 DEF Dispatch, TypeInv, TypeOK, HandOK
    <3>2. inHand.key \in Keys /\ inHand.type = "TaskStatus" /\ inHand.status \in FinalStatuses
      BY <2>2, <3>1, MessageFields DEF IsFinal
    <3>3. /\ DOMAIN pending' = DOMAIN pending \ {inHand.key}
          /\ \A j \in DOMAIN pending' : pending'[j] = pending[j]
      BY <1>5, <2>2 DEF Dispatch, RemoveEntry
    <3>4. /\ UNCHANGED <<call, key>>
          /\ \A c \in Callers : reply'[c] =
               IF Waiting(c) /\ key[c] = inHand.key THEN inHand ELSE reply[c]
      BY <1>5, <2>2, <3>2, SignalledAreWaiting DEF Dispatch
    <3>5. WaitersRegistered'
      BY <3>1, <3>3, <3>4
    <3>6. PendingExact'
      BY <3>1, <3>3, <3>4 DEF TypeOK
    <3>7. RepliesAreFinal'
      BY <3>2, <3>4
    <3> QED
      BY <3>4, <3>5, <3>6, <3>7
  <2> QED
    BY <2>1, <2>2
<1>6. ASSUME Restart
      PROVE  WaitersRegistered' /\ PendingExact' /\ RepliesAreFinal' /\ IdleUnanswered'
  BY <1>6 DEF Restart, NoPending
<1>7. ASSUME NEW c \in Callers, NEW x \in Exchanges, Publish(c, x)
      PROVE  WaitersRegistered' /\ PendingExact' /\ RepliesAreFinal' /\ IdleUnanswered'
  BY <1>3, <1>7 DEF Publish
<1>8. ASSUME NEW c \in Callers, PublishFails(c) \/ DropCall(c)
      PROVE  WaitersRegistered' /\ PendingExact' /\ RepliesAreFinal' /\ IdleUnanswered'
  BY <1>3, <1>8 DEF PublishFails, DropCall
<1>9. ASSUME \/ NextDelivery \/ Ack \/ ListenerEnds
             \/ LinkBreaks \/ LinkLossNoticed \/ ChannelCloseNoticed
             \/ \E k \in Keys : PublishStatus(k)
             \/ \E k \in Keys, s \in AssetStatuses : TaskStatusArrives(k, s)
             \/ UNCHANGED vars
      PROVE  WaitersRegistered' /\ PendingExact' /\ RepliesAreFinal' /\ IdleUnanswered'
  <2>1. UNCHANGED <<call, key, reply, pending>>
    BY <1>9 DEF NextDelivery, Ack, ListenerEnds, LinkBreaks, LinkLossNoticed, ChannelCloseNoticed,
      PublishStatus, TaskStatusArrives, vars
  <2> QED
    BY <1>1, <2>1
<1> QED
  BY <1>2, <1>4, <1>5, <1>6, <1>7, <1>8, <1>9 DEF Next, Listening

LEMMA Invariance == Spec => [](TypeInv /\ WaitInv)
<1>1. Init => TypeInv /\ WaitInv
  BY TypeInvInit, WaitInvInit
<1>2. TypeInv /\ WaitInv /\ [Next]_vars => (TypeInv /\ WaitInv)'
  BY TypeInvStep, WaitInvStep
<1> QED
  BY <1>1, <1>2, PTL DEF Spec

\* No wake-up is lost, however many calls share a task id and however registrations
\* interleave with the listener.
THEOREM NoLostWakeup == Spec => []WaitersRegistered
BY Invariance, PTL DEF WaitInv

\* pending_responses holds exactly the senders it should, up to failed and dropped calls.
THEOREM MapExact == Spec => []PendingExact
BY Invariance, PTL DEF WaitInv

\* request_response hands its caller only a final TaskStatus of the caller's own task.
THEOREM RepliesFinal == Spec => []RepliesAreFinal
BY Invariance, PTL DEF WaitInv

\* The error arm of await_response is unreachable: a call that was published either
\* returns a reply, is dropped, or waits.
THEOREM PublishedNeverFails == Spec => NeverFailsAfterPublish
<1> DEFINE Good == \A c \in Callers : call[c] = "awaiting" => call'[c] # "failed"
<1>1. ASSUME TypeInv, WaitInv, [Next]_vars PROVE [Good]_vars
  <2> SUFFICES ASSUME Next, NEW c \in Callers, call[c] = "awaiting"
               PROVE  call'[c] # "failed"
    BY <1>1
  <2>0. call \in [Callers -> CallStates]
    BY <1>1 DEF TypeInv, TypeOK
  <2>1. ASSUME UNCHANGED call PROVE call'[c] # "failed"
    BY <2>1
  <2>2. ASSUME NEW d \in Callers, NEW s, call' = [call EXCEPT ![d] = s], s = "failed" => d # c
        PROVE  call'[c] # "failed"
    BY <2>0, <2>2
  <2>3. ASSUME NEW d \in Callers, NEW k \in Keys, Register(d, k) PROVE call'[c] # "failed"
    BY <2>2, <2>3 DEF Register
  <2>4. ASSUME NEW d \in Callers, NEW x \in Exchanges, Publish(d, x) PROVE call'[c] # "failed"
    BY <2>2, <2>4 DEF Publish
  <2>5. ASSUME NEW d \in Callers, PublishFails(d) PROVE call'[c] # "failed"
    BY <2>2, <2>5 DEF PublishFails
  <2>6. ASSUME NEW d \in Callers, AwaitResponse(d) PROVE call'[c] # "failed"
    BY <1>1, <2>2, <2>6, AwaitReturns
  <2>7. ASSUME NEW d \in Callers, DropCall(d) PROVE call'[c] # "failed"
    BY <2>2, <2>7 DEF DropCall
  <2>8. ASSUME Restart PROVE call'[c] # "failed"
    BY <2>8 DEF Restart
  <2>9. ASSUME \/ Listening \/ LinkBreaks \/ LinkLossNoticed \/ ChannelCloseNoticed
               \/ \E k \in Keys : PublishStatus(k)
               \/ \E k \in Keys, s \in AssetStatuses : TaskStatusArrives(k, s)
        PROVE  call'[c] # "failed"
    BY <2>1, <2>9 DEF Listening, NextDelivery, Dispatch, Ack, ListenerEnds, LinkBreaks, LinkLossNoticed,
      ChannelCloseNoticed, PublishStatus, TaskStatusArrives, callVars
  <2> QED
    BY <2>3, <2>4, <2>5, <2>6, <2>7, <2>8, <2>9 DEF Next
<1> QED
  BY <1>1, Invariance, PTL DEF Spec, NeverFailsAfterPublish

-----------------------------------------------------------------------------
(* Refinement *)

\* The listener's remove-and-signal is one Answer of the abstract specification.
LEMMA DispatchAnswers ==
  ASSUME TypeInv, WaitInv, Dispatch, IsFinal(inHand)
  PROVE  \E k \in Keys, a \in FinalStatuses : Promise!Answer(k, a)
<1>1. inHand \in Message /\ inHand # None
  BY DEF Dispatch, TypeInv, TypeOK, HandOK
<1>2. PICK k \in Keys, a \in FinalStatuses : k = inHand.key /\ a = inHand.status
  BY <1>1, MessageFields DEF IsFinal
<1>3. \A c \in Callers : reply'[c] = IF Waiting(c) /\ key[c] = k THEN inHand ELSE reply[c]
  BY <1>2, SignalledAreWaiting DEF Dispatch
<1>4. \A c \in Callers : Waiting(c) <=> Receiving(c) /\ reply[c] = None
  BY DEF Waiting
<1>5. \A c \in Callers : reply[c] # None => reply[c].status # None
  BY DEF WaitInv, RepliesAreFinal
<1>6. Promise!Answer(k, a)
  BY <1>1, <1>2, <1>3, <1>4, <1>5 DEF Promise!Answer, Promise!Waiting, Receiving, Dispatch
<1> QED
  BY <1>6

LEMMA StepRefines ==
  ASSUME TypeInv, WaitInv, [Next]_vars
  PROVE  [Promise!Next]_(Promise!vars)
<1>0. call \in [Callers -> CallStates] /\ key \in [Callers -> Keys \cup {None}]
  BY DEF TypeInv, TypeOK
<1>1. ASSUME UNCHANGED <<call, key, reply>> PROVE UNCHANGED Promise!vars
  BY <1>1 DEF Promise!vars
<1>2. ASSUME NEW c \in Callers, NEW k \in Keys, Register(c, k) PROVE Promise!Ask(c, k)
  BY <1>2 DEF Register, Promise!Ask
<1>3. ASSUME NEW c \in Callers, NEW x \in Exchanges, Publish(c, x) PROVE Promise!Requested(c)
  BY <1>3 DEF Publish, Promise!Requested
<1>4. ASSUME NEW c \in Callers, PublishFails(c) PROVE Promise!Fail(c)
  BY <1>4 DEF PublishFails, Promise!Fail
<1>5. ASSUME NEW c \in Callers, AwaitResponse(c) PROVE Promise!Return(c)
  <2>1. reply[c] # None /\ call' = [call EXCEPT ![c] = "returned"]
    BY <1>5, AwaitReturns
  <2>2. reply[c].status # None
    BY <2>1 DEF WaitInv, RepliesAreFinal
  <2> QED
    BY <1>5, <2>1, <2>2 DEF AwaitResponse, Promise!Return
<1>6. ASSUME NEW c \in Callers, DropCall(c) PROVE Promise!Drop(c)
  BY <1>6 DEF DropCall, Receiving, Promise!Drop
<1>7. ASSUME Dispatch PROVE [Promise!Next]_(Promise!vars)
  <2>1. CASE ~IsFinal(inHand)
    BY <1>1, <1>7, <2>1 DEF Dispatch
  <2>2. CASE IsFinal(inHand)
    BY <1>7, <2>2, DispatchAnswers DEF Promise!Next
  <2> QED
    BY <2>1, <2>2
<1>8. ASSUME Restart PROVE Promise!Reset
  BY <1>8 DEF Restart, Promise!Reset
<1>9. ASSUME \/ NextDelivery \/ Ack \/ ListenerEnds
             \/ LinkBreaks \/ LinkLossNoticed \/ ChannelCloseNoticed
             \/ \E k \in Keys : PublishStatus(k)
             \/ \E k \in Keys, s \in AssetStatuses : TaskStatusArrives(k, s)
             \/ UNCHANGED vars
      PROVE  UNCHANGED Promise!vars
  <2>1. UNCHANGED <<call, key, reply>>
    BY <1>9 DEF NextDelivery, Ack, ListenerEnds, LinkBreaks, LinkLossNoticed, ChannelCloseNoticed,
      PublishStatus, TaskStatusArrives, vars, callVars
  <2> QED
    BY <1>1, <2>1
<1> QED
  BY <1>2, <1>3, <1>4, <1>5, <1>6, <1>7, <1>8, <1>9 DEF Next, Listening, Promise!Next

\* AmqpClient implements RequestReply: with the map, the queue and the listener hidden, its
\* callers see answers that reach all the waiters of a task at once and nobody else.
THEOREM KeepsPromise == Spec => PromiseSpec
<1>1. Init => Promise!Init
  BY DEF Init, Promise!Init
<1> QED
  BY <1>1, StepRefines, Invariance, PTL DEF Spec, PromiseSpec, Promise!Spec
=============================================================================
