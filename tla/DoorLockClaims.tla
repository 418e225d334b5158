--------------------------- MODULE DoorLockClaims ---------------------------
(***************************************************************************)
(* What a comment of the firmware says of the door lock and the code does  *)
(* not do: a run refutes it; the README describes the counterexample.      *)
(***************************************************************************)
EXTENDS DoorLock

\* Mq2.c:159 "after the alarm triggers the door unlocks by itself": an alarm
\* opening gets the door opened.
AlarmUnlocks == "OPEN_ALARM" \in asked \cup owed ~> g_door_state = "OPEN"
=============================================================================
