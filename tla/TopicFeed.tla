------------------------------ MODULE TopicFeed ------------------------------
(***************************************************************************)
(* What MqttHandle promises a node that listens to a topic: once it has     *)
(* joined it reads what is passed on to the client, each message at most    *)
(* once and in order.  From its first message on it misses none, unless it  *)
(* has fallen behind by more than a channel holds or the connection has     *)
(* been lost.  Nothing is said of channels, of the map that nodes share, or *)
(* of requests.                                                             *)
(***************************************************************************)
EXTENDS Naturals

CONSTANTS
  Readers,
  Topics,
  Topic,      \* [Readers -> Topics], at least
  Capacity    \* how far a reader may fall behind

VARIABLES
  state,  \* [Readers -> "outside", "listening" or "ended"]
  got,    \* [Readers -> number of the last message read]
  sent,   \* [Topics -> number of messages passed on to the client]
  lost    \* whether the connection has ever been lost

vars == <<state, got, sent, lost>>

Init ==
  /\ state = [r \in Readers |-> "outside"]
  /\ got = [r \in Readers |-> 0]
  /\ sent = [t \in Topics |-> 0]
  /\ lost = FALSE

PassOn(t) ==
  /\ sent' = [sent EXCEPT ![t] = @ + 1]
  /\ UNCHANGED <<state, got, lost>>

Join(r) ==
  /\ state[r] = "outside"
  /\ state' = [state EXCEPT ![r] = "listening"]
  /\ UNCHANGED <<got, sent, lost>>

Behind(r) == sent[Topic[r]] - got[r]

Read(r, n) ==
  /\ state[r] = "listening"
  /\ n \in got[r] + 1 .. sent[Topic[r]]
  /\ got[r] > 0 /\ n # got[r] + 1 => lost \/ Behind(r) > Capacity
  /\ got' = [got EXCEPT ![r] = n]
  /\ UNCHANGED <<state, sent, lost>>

\* It has what it waited for, could not join, or is told that its channel was closed.
End(r) ==
  /\ state[r] # "ended"
  /\ state' = [state EXCEPT ![r] = "ended"]
  /\ UNCHANGED <<got, sent, lost>>

Lose ==
  /\ lost' = TRUE
  /\ UNCHANGED <<state, got, sent>>

Next ==
  \/ \E t \in Topics : PassOn(t)
  \/ \E r \in Readers : Join(r) \/ End(r)
  \/ \E r \in Readers : \E n \in got[r] + 1 .. sent[Topic[r]] : Read(r, n)
  \/ Lose

Spec == Init /\ [][Next]_vars
=============================================================================
