---------------------------- MODULE WaitForMatch ----------------------------
(***************************************************************************)
(* What mqtt_subscribe_and_wait promises: a wait that has begun ends once,  *)
(* with a message that it has heard and that its condition accepts, or with *)
(* a time-out when its time has all but passed, or because it is cancelled.*)
(* Nothing is said of brokers, channels, buffers or frames.                 *)
(***************************************************************************)
EXTENDS Naturals

CONSTANTS
  Waiters,
  Heard,      \* what a wait can hear
  Timeout,    \* [Waiters -> Nat]
  Accepts,    \* [Waiters -> SUBSET Heard]
  Early,      \* how much too soon a time-out may come
  None

VARIABLES
  scope,   \* [Waiters -> "idle", "running", "matched", "timeout" or "cancelled"]
  output,  \* [Waiters -> what the wait ended with, or None]
  heard,   \* [Waiters -> SUBSET Heard]
  passed   \* [Waiters -> the time since the wait began]

vars == <<scope, output, heard, passed>>

Init ==
  /\ scope = [w \in Waiters |-> "idle"]
  /\ output = [w \in Waiters |-> None]
  /\ heard = [w \in Waiters |-> {}]
  /\ passed = [w \in Waiters |-> 0]

Begin(w) ==
  /\ scope[w] = "idle"
  /\ scope' = [scope EXCEPT ![w] = "running"]
  /\ UNCHANGED <<output, heard, passed>>

Hear(w, m) ==
  /\ scope[w] = "running"
  /\ heard' = [heard EXCEPT ![w] = @ \cup {m}]
  /\ UNCHANGED <<scope, output, passed>>

TimePasses ==
  /\ passed' \in [Waiters -> Nat]
  /\ \A w \in Waiters : passed'[w] >= passed[w]
  /\ UNCHANGED <<scope, output, heard>>

Match(w, m) ==
  /\ scope[w] = "running"
  /\ m \in heard[w] \cap Accepts[w]
  /\ scope' = [scope EXCEPT ![w] = "matched"]
  /\ output' = [output EXCEPT ![w] = m]
  /\ UNCHANGED <<heard, passed>>

TimeOut(w) ==
  /\ scope[w] = "running"
  /\ passed[w] + Early >= Timeout[w]
  /\ scope' = [scope EXCEPT ![w] = "timeout"]
  /\ UNCHANGED <<output, heard, passed>>

Cancel(w) ==
  /\ scope[w] = "running"
  /\ scope' = [scope EXCEPT ![w] = "cancelled"]
  /\ UNCHANGED <<output, heard, passed>>

Next ==
  \/ \E w \in Waiters : Begin(w) \/ TimeOut(w) \/ Cancel(w)
  \/ \E w \in Waiters, m \in Heard : Hear(w, m) \/ Match(w, m)
  \/ TimePasses

Spec == Init /\ [][Next]_vars
=============================================================================
