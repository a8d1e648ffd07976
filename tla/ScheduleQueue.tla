--------------------------- MODULE ScheduleQueue ---------------------------
(***************************************************************************)
(* What the Schedule consumer promises of the messages it is sent: a message *)
(* is held until it is settled, settled once and for good; a Schedule is    *)
(* accepted only after a run of its workflow that succeeded; and no process *)
(* runs it twice.  Nothing is said of deliveries, tasks or connections.     *)
(***************************************************************************)
EXTENDS Naturals

CONSTANTS Messages, Schedules   \* Schedules: the messages with a workflow

VARIABLES
  state,      \* [Messages -> "unsent", "lost", "held", "accepted" or "rejected"]
  running,    \* the messages whose workflow the process has begun to run
  epoch,      \* the number of the process
  lastRun,    \* [Messages -> the process that ran it last, or 0]
  succeeded   \* the messages with a run that succeeded

vars == <<state, running, epoch, lastRun, succeeded>>

Init ==
  /\ state = [m \in Messages |-> "unsent"]
  /\ running = {}
  /\ epoch = 0
  /\ lastRun = [m \in Messages |-> 0]
  /\ succeeded = {}

Send(m) ==
  /\ state[m] = "unsent"
  /\ \E s \in {"held", "lost"} : state' = [state EXCEPT ![m] = s]
  /\ UNCHANGED <<running, epoch, lastRun, succeeded>>

StartProcess ==
  /\ epoch' = epoch + 1
  /\ UNCHANGED <<state, running, lastRun, succeeded>>

EndProcess ==
  /\ running' = {}
  /\ UNCHANGED <<state, epoch, lastRun, succeeded>>

Run(m) ==
  /\ m \in Schedules \ running
  /\ state[m] = "held"
  /\ lastRun[m] < epoch
  /\ running' = running \cup {m}
  /\ lastRun' = [lastRun EXCEPT ![m] = epoch]
  /\ UNCHANGED <<state, epoch, succeeded>>

Finish(m) ==
  /\ m \in running
  /\ running' = running \ {m}
  /\ succeeded' \in {succeeded, succeeded \cup {m}}
  /\ UNCHANGED <<state, epoch, lastRun>>

Settle(m) ==
  /\ state[m] = "held"
  /\ m \notin running
  /\ \/ state' = [state EXCEPT ![m] = "rejected"]
     \/ /\ m \in Schedules => m \in succeeded
        /\ state' = [state EXCEPT ![m] = "accepted"]
  /\ UNCHANGED <<running, epoch, lastRun, succeeded>>

Next ==
  \/ StartProcess
  \/ EndProcess
  \/ \E m \in Messages : Send(m) \/ Run(m) \/ Finish(m) \/ Settle(m)

Spec == Init /\ [][Next]_vars
=============================================================================
