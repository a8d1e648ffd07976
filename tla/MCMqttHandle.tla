---------------------------- MODULE MCMqttHandle ----------------------------
(* Small instances of MqttHandle for TLC.                                    *)
EXTENDS MqttHandle

CONSTANTS s1, s2, s3, p1, p2, t1, t2, d1

\* Two nodes on one topic, a third on another, a publisher on the first topic.
MCTopic == [x \in Clients |-> IF x = s3 THEN t2 ELSE t1]

\* s3 and p2 are configured with a qos that does not exist.
MCQos == [x \in Clients |-> IF x \in {s3, p2} THEN 3 ELSE 0]
MCGoodQos == [x \in Clients |-> 0]
=============================================================================
