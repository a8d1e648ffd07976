------------------------- MODULE MCScheduleConsumer -------------------------
(* Small instances of ScheduleConsumer for TLC.                              *)
EXTENDS ScheduleConsumer

CONSTANTS s1, s2, x1, o1

\* Two schedules, one message that cannot be parsed, one of another type.
MCMessages == {s1, s2, x1, o1}
MCKind == [m \in MCMessages |->
             IF m = x1 THEN "Malformed" ELSE IF m = o1 THEN "Other" ELSE "Schedule"]
=============================================================================
