---------------------------- MODULE RequestReply ----------------------------
(***************************************************************************)
(* What AmqpClient::request_response promises its callers, with no map of   *)
(* waiters, no queue and no listener: a caller asks under the id of a task, *)
(* a final answer for a task reaches at one instant every caller that is    *)
(* still waiting for it and nobody else, and only a caller whose request    *)
(* could not be published sees an error.                                    *)
(***************************************************************************)
CONSTANTS
  Callers,   \* the invocations of request_response
  Keys,      \* task ids
  Answers,   \* the final answers
  None

VARIABLES
  state,     \* progress of each caller
  key,       \* the task id each caller asked for
  answer     \* the answer each caller has been given, or None

vars == <<state, key, answer>>

States == {"idle", "registered", "awaiting", "returned", "failed", "dropped"}

Waiting(c) == state[c] \in {"registered", "awaiting"} /\ answer[c] = None

Init ==
  /\ state = [c \in Callers |-> "idle"]
  /\ key = [c \in Callers |-> None]
  /\ answer = [c \in Callers |-> None]

Ask(c, k) ==
  /\ state[c] = "idle"
  /\ state' = [state EXCEPT ![c] = "registered"]
  /\ key' = [key EXCEPT ![c] = k]
  /\ UNCHANGED answer

Requested(c) ==
  /\ state[c] = "registered"
  /\ state' = [state EXCEPT ![c] = "awaiting"]
  /\ UNCHANGED <<key, answer>>

\* An answer wakes all the callers waiting for the task, and only them.
Answer(k, a) ==
  /\ answer' = [c \in Callers |->
                  IF Waiting(c) /\ key[c] = k THEN a ELSE answer[c]]
  /\ UNCHANGED <<state, key>>

Return(c) ==
  /\ state[c] = "awaiting"
  /\ answer[c] # None
  /\ state' = [state EXCEPT ![c] = "returned"]
  /\ UNCHANGED <<key, answer>>

\* Only a request that was never published fails.
Fail(c) ==
  /\ state[c] = "registered"
  /\ state' = [state EXCEPT ![c] = "failed"]
  /\ UNCHANGED <<key, answer>>

\* A caller may be cancelled while it waits.
Drop(c) ==
  /\ state[c] \in {"registered", "awaiting"}
  /\ state' = [state EXCEPT ![c] = "dropped"]
  /\ UNCHANGED <<key, answer>>

\* The process restarts and forgets its callers.
Reset ==
  /\ state' = [c \in Callers |-> "idle"]
  /\ key' = [c \in Callers |-> None]
  /\ answer' = [c \in Callers |-> None]

Next ==
  \/ \E c \in Callers, k \in Keys : Ask(c, k)
  \/ \E c \in Callers : Requested(c) \/ Return(c) \/ Fail(c) \/ Drop(c)
  \/ \E k \in Keys, a \in Answers : Answer(k, a)
  \/ Reset

Spec == Init /\ [][Next]_vars
=============================================================================
