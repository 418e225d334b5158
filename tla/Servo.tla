------------------------------- MODULE Servo --------------------------------
(***************************************************************************)
(* The arm that moves the door, STM32/applications/servo.c: one PWM        *)
(* channel, its angle, and the busy flag that is meant to keep two sweeps  *)
(* apart.  The door thread (priority 5) opens at once and closes in a      *)
(* sweep; the shell (priority 20) sets angles and sweeps from the console. *)
(*                                                                         *)
(* Scheduling.  The shell runs only while the door thread is blocked,      *)
(* between two calls or in the delay of a sweep, and may be preempted      *)
(* between any two statements.  The sections under servo_mutex do not      *)
(* block and are one step each.  The two channels share nothing but that   *)
(* mutex; the module is the one the door uses.                             *)
(***************************************************************************)
EXTENDS Integers

CONSTANTS
  Threads,   \* the threads that drive the channel, the door thread among them
  Open,      \* SERVO_ANGLE_OPEN
  Max        \* SERVO_ANGLE_MAX

ASSUME ThreadsAssumption == "door" \in Threads
ASSUME AngleAssumption == Open \in Nat \ {0} /\ Max \in Nat /\ Open <= Max

Angle == 0..Max

VARIABLES
  angle,   \* g_servo_angle of the channel
  busy,    \* g_servo_busy of the channel
  pc,      \* where each thread is in servo_sweep_ch
  cur,     \* the angle a sweep believes in
  target,  \* the angle it moves to
  door,    \* the door thread's last call, "open" or "close"
  meddled  \* history: the shell drove the channel since that opening

vars == <<angle, busy, pc, cur, target, door, meddled>>

Sweeping == {"read", "step", "delay"}

TypeOK ==
  /\ angle \in Angle
  /\ busy \in BOOLEAN
  /\ pc \in [Threads -> {"idle", "test", "claim"} \cup Sweeping]
  /\ cur \in [Threads -> Angle]
  /\ target \in [Threads -> Angle]
  /\ door \in {"open", "close"}
  /\ meddled \in BOOLEAN

\* servo_init, and door_lock_init's call of relay_off.
Init ==
  /\ angle = 0
  /\ busy = FALSE
  /\ pc = [t \in Threads |-> "idle"]
  /\ cur = [t \in Threads |-> 0]
  /\ target = [t \in Threads |-> 0]
  /\ door = "close"
  /\ meddled = FALSE

\* A thread below the door thread's priority waits until that one is blocked.
Runs(t) == t = "door" \/ pc["door"] \in {"idle", "delay"}

Goto(t, where) == pc' = [pc EXCEPT ![t] = where]

-----------------------------------------------------------------------------
\* servo_set_angle_ch; it does not look at the busy flag.
servo_set_angle_ch(a) == angle' = IF a > Max THEN Max ELSE a

servo_open_door ==
  /\ pc["door"] = "idle" /\ door = "close"
  /\ servo_set_angle_ch(Open)
  /\ door' = "open"
  /\ meddled' = (\E t \in Threads : pc[t] # "idle")
  /\ UNCHANGED <<busy, pc, cur, target>>

servo_close_door ==
  /\ pc["door"] = "idle" /\ door = "open"
  /\ Goto("door", "test")
  /\ target' = [target EXCEPT !["door"] = 0]
  /\ door' = "close"
  /\ UNCHANGED <<angle, busy, cur, meddled>>

\* sv_angle and sv_open.
sv_angle(t, a) ==
  /\ t # "door" /\ pc[t] = "idle" /\ Runs(t)
  /\ servo_set_angle_ch(a)
  /\ meddled' = TRUE
  /\ UNCHANGED <<busy, pc, cur, target, door>>

\* sv_sweep and sv_close.
sv_sweep(t, a) ==
  /\ t # "door" /\ pc[t] = "idle" /\ Runs(t)
  /\ Goto(t, "test")
  /\ target' = [target EXCEPT ![t] = a]
  /\ meddled' = TRUE
  /\ UNCHANGED <<angle, busy, cur, door>>

-----------------------------------------------------------------------------
(***************************************************************************)
(* servo_sweep_ch, statement by statement.                                 *)
(***************************************************************************)
TestBusy(t) ==
  /\ pc[t] = "test" /\ Runs(t)
  /\ Goto(t, IF busy THEN "idle" ELSE "claim")
  /\ UNCHANGED <<angle, busy, cur, target, door, meddled>>

Claim(t) ==
  /\ pc[t] = "claim" /\ Runs(t)
  /\ busy' = TRUE
  /\ Goto(t, "read")
  /\ UNCHANGED <<angle, cur, target, door, meddled>>

\* Mutant: nothing to do, and the flag stays set.
ReadKeepsBusy(t) ==
  /\ pc[t] = "read" /\ Runs(t)
  /\ cur' = [cur EXCEPT ![t] = angle]
  /\ Goto(t, IF angle = target[t] THEN "idle" ELSE "step")
  /\ UNCHANGED <<angle, busy, target, door, meddled>>

ReadAngle(t) ==
  /\ pc[t] = "read" /\ Runs(t)
  /\ cur' = [cur EXCEPT ![t] = angle]
  /\ IF angle = target[t]
       THEN busy' = FALSE /\ Goto(t, "idle")
       ELSE busy' = busy /\ Goto(t, "step")
  /\ UNCHANGED <<angle, target, door, meddled>>

Towards(from, to) == IF to > from THEN from + 1 ELSE from - 1

\* Mutants: the sweep goes on from the shared angle; it has no direction.
StepFromShared(t) ==
  /\ pc[t] = "step" /\ Runs(t)
  /\ cur' = [cur EXCEPT ![t] = Towards(angle, target[t])]
  /\ servo_set_angle_ch(cur'[t])
  /\ Goto(t, "delay")
  /\ UNCHANGED <<busy, target, door, meddled>>

StepUp(t) ==
  /\ pc[t] = "step" /\ Runs(t)
  /\ cur' = [cur EXCEPT ![t] = @ + 1]
  /\ servo_set_angle_ch(cur'[t])
  /\ Goto(t, "delay")
  /\ UNCHANGED <<busy, target, door, meddled>>

\* One degree, from the sweep's own idea of the angle, then a delay.
Step(t) ==
  /\ pc[t] = "step" /\ Runs(t)
  /\ cur' = [cur EXCEPT ![t] = Towards(@, target[t])]
  /\ servo_set_angle_ch(cur'[t])
  /\ Goto(t, "delay")
  /\ UNCHANGED <<busy, target, door, meddled>>

DelayEnds(t) ==
  /\ pc[t] = "delay" /\ Runs(t)
  /\ IF cur[t] = target[t]
       THEN busy' = FALSE /\ Goto(t, "idle")
       ELSE busy' = busy /\ Goto(t, "step")
  /\ UNCHANGED <<angle, cur, target, door, meddled>>

servo_sweep_ch(t) ==
  TestBusy(t) \/ Claim(t) \/ ReadAngle(t) \/ Step(t) \/ DelayEnds(t)

Next ==
  \/ servo_open_door \/ servo_close_door
  \/ \E t \in Threads : servo_sweep_ch(t)
  \/ \E t \in Threads, a \in Angle : sv_angle(t, a) \/ sv_sweep(t, a)

Spec == Init /\ [][Next]_vars

\* Started sweeps run on; nobody has to start one.  The door thread always gets
\* the processor (weak fairness); a thread below it gets the processor again and
\* again, because each call of the door thread waits for an event of its own
\* and leaves the processor idle before (strong fairness).
Fairness ==
  /\ WF_vars(servo_sweep_ch("door"))
  /\ \A t \in Threads \ {"door"} : SF_vars(servo_sweep_ch(t))

FairSpec == Spec /\ Fairness

-----------------------------------------------------------------------------
\* A set flag belongs to a sweep in progress: the flag is never left behind to
\* refuse every later closing of the door (servo.c:140-142, 161).
BusyHasOwner == busy => \E t \in Threads : pc[t] \in Sweeping

\* A door that is reported locked has its arm closed, unless the console moved
\* the arm since it was opened: the result of the closing sweep is ignored
\* (door_lock.c:94), and no earlier sweep may leave anything behind that makes
\* it refuse or stop short (servo.c:130-133).
ArmClosed == pc["door"] = "idle" /\ door = "close" /\ ~meddled => angle = 0

\* Every sweep ends, also when two of them or an opening fight over the arm:
\* the door thread is never kept in relay_off.
SweepEnds == \A t \in Threads : pc[t] # "idle" ~> pc[t] = "idle"
=============================================================================
