-------------------------- MODULE MCSubscribeAndWait --------------------------
(* Small instances of SubscribeAndWait for TLC.                              *)
EXTENDS SubscribeAndWait

CONSTANTS w1, w2, p1, t1, busy, junk, note, IDLE, BUSY, Text

MCTopic == [x \in Clients |-> t1]
MCQos == [x \in Clients |-> IF x = w2 THEN 3 ELSE 0]
MCTimeout == [w \in Subscribers |-> IF w = w1 THEN 3 ELSE 0]

\* The example of the config and the same condition without the prefix.
MCCondition == [w \in Subscribers |->
                  IF w = w1 THEN Equals(<<"message", "state">>, Scalar(IDLE)) ELSE Equals(<<"state">>, Scalar(IDLE))]

\* What another workflow publishes is what the scopes wait for, and so is what a device adds a
\* text to; but that text hides the message from the condition with the prefix.
MCJson == [d \in Data |->
             CASE d = p1 -> Object([state |-> Scalar(IDLE)])
               [] d = busy -> Object([state |-> Scalar(BUSY)])
               [] d = note -> Object([state |-> Scalar(IDLE), message |-> Scalar(Text)])
               [] OTHER -> Undefined]
=============================================================================
