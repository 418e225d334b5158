------------------------------ MODULE GasAlarm ------------------------------
(***************************************************************************)
(* The gas alarm: the MQ2 sensor's interrupt and polling thread            *)
(* (STM32/applications/Mq2.c) and the sound-and-light alarm                *)
(* (STM32/applications/docker.c) that it starts and stops, which the face  *)
(* unit, the cloud and the shell may start and stop as well.               *)
(*                                                                         *)
(* Scheduling.  The alarm thread (priority 6) is above every caller of     *)
(* alarm_start and alarm_stop (priorities 8 to 20): what it does between   *)
(* two delays is one step, and such a step may fall between any two        *)
(* statements of a caller.  The callers interleave freely, which allows    *)
(* more orders than their priorities do.                                   *)
(*                                                                         *)
(* Time.  The polling period (2 s) is the unit.  The relay window is also  *)
(* 2 s long, so it never reaches over two polls; the 10 s between two      *)
(* triggers are counted in polls.                                          *)
(***************************************************************************)
EXTENDS Naturals, FiniteSets

CONSTANTS
  Remote,          \* the threads other than mq2_sensor that control the alarm
  RetriggerPolls,  \* polls in the 10 s in which no second trigger is accepted
  ConfirmCnt,      \* DO_NORMAL_CONFIRM_CNT
  OnCycles,        \* ALARM_ON_CYCLES
  OffCycles        \* ALARM_OFF_CYCLES

ASSUME CyclesAssumption == OnCycles \in Nat \ {0} /\ OffCycles \in Nat \ {0}
ASSUME PollsAssumption  == RetriggerPolls \in Nat \ {0} /\ ConfirmCnt \in Nat \ {0}
ASSUME RemoteAssumption == "mq2" \notin Remote

Caller == Remote \cup {"mq2"}

VARIABLES
  do_low,        \* the comparator's DO pin is LOW: gas above its threshold
  do_triggered,  \* g_mq2_do_triggered, set by the interrupt
  edge_recent,   \* an edge was accepted less than MQ2_DO_DEBOUNCE_MS ago
  relay_recent,  \* the door relay moved less than RELAY_OP_IGNORE_MS ago
  mq2_pc,        \* where the polling thread is
  since_trigger, \* polls since the last trigger (or boot), up to RetriggerPolls
  normal_cnt,    \* g_do_normal_cnt
  alarm_enabled, \* set by alarm_start, cleared by alarm_stop
  stopping,      \* callers of alarm_stop that have not yet silenced the alarm
  alarm_pc,      \* the delay the alarm thread is in
  cycle_count,   \* its loop counter
  buzzer,        \* the buzzer sounds
  led,           \* the alarm lamp is lit
  quiet,         \* history: normal polls in a row since the alarm began, or
                 \* was triggered again
  carried        \* history: a remote stop has cut a count short

sensorVars == <<do_low, do_triggered, edge_recent, relay_recent>>
pollVars   == <<mq2_pc, since_trigger, normal_cnt>>
alarmVars  == <<alarm_pc, cycle_count, buzzer, led>>
history    == <<quiet, carried>>
vars == <<sensorVars, pollVars, alarmVars, alarm_enabled, stopping, history>>

TypeOK ==
  /\ do_low \in BOOLEAN /\ do_triggered \in BOOLEAN
  /\ edge_recent \in BOOLEAN /\ relay_recent \in BOOLEAN
  /\ mq2_pc \in {"sleep", "fire", "open", "read", "stop", "silence"}
  /\ since_trigger \in 0..RetriggerPolls
  /\ normal_cnt \in 0..(ConfirmCnt - 1)
  /\ alarm_enabled \in BOOLEAN
  /\ stopping \subseteq Caller
  /\ alarm_pc \in {"idle", "on", "off", "pause"}
  /\ cycle_count \in Nat
  /\ buzzer \in BOOLEAN /\ led \in BOOLEAN
  /\ quiet \in 0..ConfirmCnt
  /\ carried \in BOOLEAN

\* The tick counters start at zero, so the first 200 ms count as following an
\* edge and the first 10 s as following a trigger.
Init ==
  /\ do_low \in BOOLEAN
  /\ do_triggered = FALSE
  /\ edge_recent = TRUE
  /\ relay_recent = TRUE
  /\ mq2_pc = "sleep"
  /\ since_trigger = 0
  /\ normal_cnt = 0
  /\ alarm_enabled = FALSE
  /\ stopping = {}
  /\ alarm_pc = "idle"
  /\ cycle_count = 0
  /\ buzzer = FALSE
  /\ led = FALSE
  /\ quiet = 0
  /\ carried = FALSE

-----------------------------------------------------------------------------
(***************************************************************************)
(* The sensor pin, its interrupt and the two windows.                      *)
(***************************************************************************)
mq2_do_irq_callback ==
  IF edge_recent
    THEN UNCHANGED <<do_triggered, edge_recent>>
    ELSE do_triggered' = TRUE /\ edge_recent' = TRUE

GasRises ==
  /\ ~do_low
  /\ do_low' = TRUE
  /\ mq2_do_irq_callback
  /\ UNCHANGED <<relay_recent, pollVars, alarmVars, alarm_enabled, stopping, history>>

GasFalls ==
  /\ do_low
  /\ do_low' = FALSE
  /\ UNCHANGED <<do_triggered, edge_recent, relay_recent, pollVars, alarmVars,
                 alarm_enabled, stopping, history>>

WindowEnds ==
  /\ \/ edge_recent /\ edge_recent' = FALSE /\ UNCHANGED relay_recent
     \/ relay_recent /\ relay_recent' = FALSE /\ UNCHANGED edge_recent
  /\ UNCHANGED <<do_low, do_triggered, pollVars, alarmVars, alarm_enabled, stopping, history>>

\* Called by the door lock each time it drives its relay.
mq2_ignore_after_relay_op ==
  /\ relay_recent' = TRUE
  /\ UNCHANGED <<do_low, do_triggered, edge_recent, pollVars, alarmVars,
                 alarm_enabled, stopping, history>>

-----------------------------------------------------------------------------
(***************************************************************************)
(* Starting and stopping the alarm.                                        *)
(***************************************************************************)
alarm_start == alarm_enabled' = TRUE

\* Clears the flag under the mutex; the outputs are turned off afterwards.
alarm_stop(c) ==
  /\ alarm_enabled' = FALSE
  /\ stopping' = IF alarm_enabled THEN stopping \cup {c} ELSE stopping

silence(c) ==
  /\ c \in stopping
  /\ stopping' = stopping \ {c}
  /\ buzzer' = FALSE
  /\ led' = FALSE

RemoteStart(c) ==
  /\ c \notin stopping
  /\ alarm_start
  /\ quiet' = IF alarm_enabled THEN quiet ELSE 0
  /\ UNCHANGED <<sensorVars, pollVars, alarmVars, stopping, carried>>

\* A count, or the decision to stop that came of it.
Counting == normal_cnt > 0 \/ mq2_pc = "stop"

RemoteStop(c) ==
  /\ c \notin stopping
  /\ alarm_stop(c)
  /\ carried' = (carried \/ (alarm_enabled /\ Counting))
  /\ UNCHANGED <<sensorVars, pollVars, alarmVars, quiet>>

RemoteSilence(c) ==
  /\ silence(c)
  /\ UNCHANGED <<sensorVars, pollVars, alarm_pc, cycle_count, alarm_enabled, history>>

-----------------------------------------------------------------------------
(***************************************************************************)
(* The polling thread.                                                     *)
(***************************************************************************)
Polls(n) == IF since_trigger + 1 < n THEN since_trigger + 1 ELSE n

\* Mutant: a rejected trigger also starts the ten seconds.
PollRestartsWindow ==
  /\ mq2_pc = "sleep"
  /\ do_triggered' = FALSE
  /\ relay_recent' = FALSE
  /\ IF do_triggered /\ ~relay_recent /\ Polls(RetriggerPolls) = RetriggerPolls
       THEN mq2_pc' = "fire" ELSE mq2_pc' = "read"
  /\ since_trigger' = IF do_triggered THEN 0 ELSE Polls(RetriggerPolls)
  /\ UNCHANGED <<do_low, edge_recent, normal_cnt, alarmVars, alarm_enabled, stopping, history>>

Poll ==
  /\ mq2_pc = "sleep"
  /\ do_triggered' = FALSE
  /\ relay_recent' = FALSE
  /\ \/ /\ ~do_triggered
        /\ mq2_pc' = "read"
        /\ since_trigger' = Polls(RetriggerPolls)
     \/ /\ do_triggered /\ relay_recent
        /\ mq2_pc' = "sleep"
        /\ since_trigger' = Polls(RetriggerPolls)
     \/ /\ do_triggered /\ ~relay_recent
        /\ IF Polls(RetriggerPolls) = RetriggerPolls
             THEN mq2_pc' = "fire" /\ since_trigger' = 0
             ELSE mq2_pc' = "read" /\ since_trigger' = Polls(RetriggerPolls)
  /\ UNCHANGED <<do_low, edge_recent, normal_cnt, alarmVars, alarm_enabled, stopping, history>>

Fire ==
  /\ mq2_pc = "fire"
  /\ alarm_start
  /\ mq2_pc' = "open"
  /\ quiet' = 0
  /\ UNCHANGED <<sensorVars, since_trigger, normal_cnt, alarmVars, stopping, carried>>

\* Mutant: the count survives a trigger.
OpenDoorKeepsCount ==
  /\ mq2_pc = "open"
  /\ mq2_pc' = "read"
  /\ UNCHANGED <<sensorVars, since_trigger, normal_cnt, alarmVars, alarm_enabled, stopping, history>>

\* door_lock_open_no_auto_close, then the count of normal polls is reset.
OpenDoor ==
  /\ mq2_pc = "open"
  /\ mq2_pc' = "read"
  /\ normal_cnt' = 0
  /\ carried' = FALSE
  /\ UNCHANGED <<sensorVars, since_trigger, alarmVars, alarm_enabled, stopping, quiet>>

\* The test for a pin back to normal, which alone may stop the alarm.
ReadWith(low, needed) ==
  /\ mq2_pc = "read"
  /\ \/ /\ ~alarm_enabled
        /\ mq2_pc' = "sleep"
        /\ UNCHANGED <<normal_cnt, history>>
     \/ /\ alarm_enabled /\ low
        /\ mq2_pc' = "sleep"
        /\ normal_cnt' = 0
        /\ quiet' = 0 /\ carried' = FALSE
     \/ /\ alarm_enabled /\ ~low
        /\ quiet' = IF quiet < ConfirmCnt THEN quiet + 1 ELSE quiet
        /\ UNCHANGED carried
        /\ IF normal_cnt + 1 >= needed
             THEN mq2_pc' = "stop" /\ normal_cnt' = 0
             ELSE mq2_pc' = "sleep" /\ normal_cnt' = normal_cnt + 1
  /\ UNCHANGED <<sensorVars, since_trigger, alarmVars, alarm_enabled, stopping>>

\* Mutants: the pin's level is read the wrong way round; one poll too many.
ReadInverted  == ReadWith(~do_low, ConfirmCnt)
ReadOffByOne  == ReadWith(do_low, ConfirmCnt + 1)

Read == ReadWith(do_low, ConfirmCnt)

AutoStop ==
  /\ mq2_pc = "stop"
  /\ alarm_stop("mq2")
  /\ mq2_pc' = IF alarm_enabled THEN "silence" ELSE "sleep"
  /\ carried' = FALSE
  /\ UNCHANGED <<sensorVars, since_trigger, normal_cnt, alarmVars, quiet>>

AutoSilence ==
  /\ mq2_pc = "silence"
  /\ silence("mq2")
  /\ mq2_pc' = "sleep"
  /\ UNCHANGED <<sensorVars, since_trigger, normal_cnt, alarm_pc, cycle_count, alarm_enabled, history>>

adc1_5_entry == Poll \/ Fire \/ OpenDoor \/ Read \/ AutoStop \/ AutoSilence

-----------------------------------------------------------------------------
(***************************************************************************)
(* The alarm thread: each action is what it does from the end of a delay   *)
(* to the next one.                                                        *)
(***************************************************************************)
Beep(n) ==
  /\ alarm_enabled
  /\ buzzer' = TRUE /\ led' = TRUE
  /\ alarm_pc' = "on"
  /\ cycle_count' = n

\* Mutant: the pause starts over after every delay.
PauseStartsOver(n) ==
  /\ alarm_enabled
  /\ buzzer' = FALSE
  /\ alarm_pc' = "pause"
  /\ cycle_count' = 0
  /\ UNCHANGED led

Pause(n) ==
  /\ alarm_enabled
  /\ buzzer' = FALSE
  /\ alarm_pc' = "pause"
  /\ cycle_count' = n
  /\ UNCHANGED led

Idle ==
  /\ ~alarm_enabled
  /\ buzzer' = FALSE
  /\ alarm_pc' = "idle"
  /\ cycle_count' = 0
  /\ UNCHANGED led

AfterIdle  == alarm_pc = "idle" /\ (Beep(0) \/ Idle)

AfterOn ==
  /\ alarm_pc = "on"
  /\ buzzer' = FALSE /\ led' = FALSE
  /\ alarm_pc' = "off"
  /\ UNCHANGED cycle_count

\* Mutant: the flag is not tested again before the next beep.
AfterOffUnchecked ==
  /\ alarm_pc = "off"
  /\ IF cycle_count + 1 < OnCycles
       THEN /\ buzzer' = TRUE /\ led' = TRUE
            /\ alarm_pc' = "on"
            /\ cycle_count' = cycle_count + 1
       ELSE Pause(0) \/ Idle

AfterOff ==
  /\ alarm_pc = "off"
  /\ \/ cycle_count + 1 < OnCycles /\ Beep(cycle_count + 1)
     \/ cycle_count + 1 >= OnCycles /\ Pause(0)
     \/ Idle

AfterPause ==
  /\ alarm_pc = "pause"
  /\ \/ cycle_count + 1 < OffCycles /\ Pause(cycle_count + 1)
     \/ cycle_count + 1 >= OffCycles /\ Beep(0)
     \/ Idle

alarm_thread_entry ==
  /\ AfterIdle \/ AfterOn \/ AfterOff \/ AfterPause
  /\ UNCHANGED <<sensorVars, pollVars, alarm_enabled, stopping, history>>

Next ==
  \/ GasRises \/ GasFalls \/ WindowEnds
  \/ mq2_ignore_after_relay_op
  \/ adc1_5_entry
  \/ alarm_thread_entry
  \/ \E c \in Remote : RemoteStart(c) \/ RemoteStop(c) \/ RemoteSilence(c)

Spec == Init /\ [][Next]_vars

\* The threads run; gas, relay and remote commands come and go as they like.
Fairness ==
  /\ WF_vars(adc1_5_entry)
  /\ WF_vars(alarm_thread_entry)
  /\ WF_vars(WindowEnds)
  /\ \A c \in Remote : WF_vars(RemoteSilence(c))

FairSpec == Spec /\ Fairness

-----------------------------------------------------------------------------
\* Once a stop has been carried out the alarm is silent and dark, and stays so
\* until it is started again, although alarm_stop does not wait for the alarm
\* thread (docker.c:186).
SilentWhenStopped == ~alarm_enabled /\ stopping = {} => ~buzzer /\ ~led

\* The polling thread stops an alarm only after ConfirmCnt polls in a row, all
\* after the start of that alarm and after its last trigger, have found the pin
\* back to normal (Mq2.c:39-40), unless a remote stop has cut a count short
\* that the code then carries over.
ConfirmedQuiet == mq2_pc = "stop" /\ ~carried => quiet >= ConfirmCnt

\* An alarm that is left on is heard.
AlarmSounds == alarm_enabled ~> buzzer \/ ~alarm_enabled

\* When the gas stays away, no alarm goes on for ever.
AlarmEnds == (<>[]~do_low) => []<>(~alarm_enabled)

\* The edges that the windows swallow do not silence the sensor for good: gas
\* that keeps coming and going, while the door is left alone, raises the alarm,
\* and raises it again after every stop.
FluctuatingGasHeard ==
  <>[](~relay_recent) /\ []<>(do_triggered) => []<>(alarm_enabled)
=============================================================================
