--------------------------- MODULE MCDeviceRequest ---------------------------
(* Small instances of DeviceRequest for TLC.                                 *)
EXTENDS DeviceRequest

CONSTANTS n1, n2

MCSubscribers == Nodes \X {"status", "response"}
MCTopics == {"status", "response", "request"}
MCTopic == [x \in Nodes \cup MCSubscribers |-> IF x \in Nodes THEN "request" ELSE x[2]]
MCPayloads == {"IDLE", "BUSY", "RUNNING", "COMPLETED", "FAILED"}
MCQos == [x \in Nodes \cup MCSubscribers |-> 0]
=============================================================================
