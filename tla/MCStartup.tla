------------------------------ MODULE MCStartup ------------------------------
(* A small instance of Startup for TLC.                                      *)
EXTENDS Startup

CONSTANTS d1, d2, d3

\* Diagrams with two, one and no MQTT nodes.
MCMqttNodes == [d \in Workflows |-> IF d = d1 THEN 2 ELSE IF d = d2 THEN 1 ELSE 0]
=============================================================================
