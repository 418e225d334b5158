--------------------------- MODULE GasAlarmProofs ---------------------------
(***************************************************************************)
(* Proofs about the gas alarm, for every set of remote callers and every   *)
(* number of cycles and polls.                                             *)
(***************************************************************************)
EXTENDS GasAlarm, TLAPS

\* The outputs follow the alarm thread's place in its cycle, and are active
\* only while the alarm is enabled or a caller has still to turn them off.
OutputInv ==
  buzzer \/ led => alarm_enabled \/ stopping # {}

\* The polling thread is in its silencing step exactly when it owes one.
SilenceInv == mq2_pc = "silence" <=> "mq2" \in stopping

\* As long as no remote stop has cut it short, the code's count belongs to the
\* running alarm and never runs ahead of the polls in a row that found the pin
\* back to normal; only between alarm_start and the reset that follows may it
\* be an old one.
QuietInv ==
  /\ mq2_pc = "stop" => normal_cnt = 0
  /\ ~carried =>
       /\ mq2_pc # "open" => quiet >= normal_cnt
       /\ ~alarm_enabled => normal_cnt = 0
       /\ mq2_pc = "stop" => alarm_enabled /\ quiet >= ConfirmCnt

IInv == TypeOK /\ OutputInv /\ SilenceInv /\ QuietInv

-----------------------------------------------------------------------------
LEMMA InitIInv == Init => IInv
<1> SUFFICES ASSUME Init PROVE IInv
  OBVIOUS
<1> USE DEF Init
<1>1. do_low \in BOOLEAN /\ do_triggered \in BOOLEAN
  OBVIOUS
<1>2. edge_recent \in BOOLEAN /\ relay_recent \in BOOLEAN
  OBVIOUS
<1>3. since_trigger \in 0..RetriggerPolls /\ normal_cnt \in 0..(ConfirmCnt - 1)
      /\ quiet \in 0..ConfirmCnt
  BY PollsAssumption
<1>4. alarm_enabled \in BOOLEAN /\ buzzer \in BOOLEAN /\ carried \in BOOLEAN
  OBVIOUS
<1>5. led \in BOOLEAN /\ stopping \subseteq Caller
  OBVIOUS
<1>6. cycle_count \in Nat
  OBVIOUS
<1>7. TypeOK
  BY <1>1, <1>2, <1>3, <1>4, <1>5, <1>6 DEF TypeOK
<1>8. OutputInv /\ SilenceInv /\ QuietInv
  BY DEF OutputInv, SilenceInv, QuietInv
<1> QED BY <1>7, <1>8 DEF IInv

\* One fact per group of actions for the typing of the state.
LEMMA TypeStep == TypeOK /\ [Next]_vars => TypeOK'
<1> SUFFICES ASSUME TypeOK, [Next]_vars PROVE TypeOK'
  OBVIOUS
<1> USE CyclesAssumption, PollsAssumption DEF TypeOK, history
<1>c. "mq2" \in Caller /\ Remote \subseteq Caller
  BY DEF Caller
<1>1. CASE GasRises \/ GasFalls \/ WindowEnds \/ mq2_ignore_after_relay_op
  <2>1. CASE GasRises
    BY <2>1 DEF GasRises, mq2_do_irq_callback, pollVars, alarmVars
  <2>2. CASE GasFalls
    BY <2>2 DEF GasFalls, pollVars, alarmVars
  <2>3. CASE WindowEnds
    <3>1. edge_recent' \in BOOLEAN /\ relay_recent' \in BOOLEAN
      BY <2>3 DEF WindowEnds
    <3> QED BY <2>3, <3>1 DEF WindowEnds, pollVars, alarmVars
  <2>4. CASE mq2_ignore_after_relay_op
    BY <2>4 DEF mq2_ignore_after_relay_op, pollVars, alarmVars
  <2> QED BY <1>1, <2>1, <2>2, <2>3, <2>4
<1>2. CASE adc1_5_entry
  <2>1. CASE Poll
    <3>1. since_trigger' \in 0..RetriggerPolls
      BY <2>1 DEF Poll, Polls
    <3>2. relay_recent' \in BOOLEAN /\ do_triggered' \in BOOLEAN
      BY <2>1 DEF Poll
    <3>3. mq2_pc' \in {"sleep", "fire", "read"}
      BY <2>1 DEF Poll
    <3> QED BY <2>1, <3>1, <3>2, <3>3 DEF Poll, alarmVars
  <2>2. CASE Fire
    BY <2>2 DEF Fire, alarm_start, sensorVars, alarmVars
  <2>3. CASE OpenDoor
    <3>1. normal_cnt' \in 0..(ConfirmCnt - 1)
      BY <2>3 DEF OpenDoor
    <3>2. carried' \in BOOLEAN
      BY <2>3 DEF OpenDoor
    <3>3. mq2_pc' = "read"
          /\ UNCHANGED <<sensorVars, since_trigger, alarmVars, alarm_enabled, stopping, quiet>>
      BY <2>3 DEF OpenDoor
    <3> QED BY <3>1, <3>2, <3>3 DEF sensorVars, alarmVars
  <2>4. CASE Read
    <3>1. mq2_pc' \in {"sleep", "stop"} /\ normal_cnt' \in 0..(ConfirmCnt - 1)
      BY <2>4 DEF Read, ReadWith
    <3>2. quiet' \in 0..ConfirmCnt
      BY <2>4 DEF Read, ReadWith
    <3>3. carried' \in BOOLEAN
      BY <2>4 DEF Read, ReadWith
    <3> QED BY <2>4, <3>1, <3>2, <3>3 DEF Read, ReadWith, sensorVars, alarmVars
  <2>5. CASE AutoStop
    <3>1. stopping' \subseteq Caller /\ alarm_enabled' \in BOOLEAN
      BY <1>c, <2>5 DEF AutoStop, alarm_stop
    <3>2. mq2_pc' \in {"sleep", "silence"}
      BY <2>5 DEF AutoStop
    <3> QED BY <2>5, <3>1, <3>2 DEF AutoStop, sensorVars, alarmVars
  <2>6. CASE AutoSilence
    BY <2>6 DEF AutoSilence, silence, sensorVars
  <2> QED BY <1>2, <2>1, <2>2, <2>3, <2>4, <2>5, <2>6 DEF adc1_5_entry
<1>3. CASE alarm_thread_entry
  <2>1. AfterIdle \/ AfterOn \/ AfterOff \/ AfterPause
    BY <1>3 DEF alarm_thread_entry
  <2> USE <2>1 DEF AfterIdle, AfterOn, AfterOff, AfterPause, Beep, Pause, Idle
  <2>2. buzzer' \in BOOLEAN
    OBVIOUS
  <2>3. led' \in BOOLEAN
    OBVIOUS
  <2>4. cycle_count' \in Nat
    OBVIOUS
  <2>5. alarm_pc' \in {"idle", "on", "off", "pause"}
    OBVIOUS
  <2>6. UNCHANGED <<sensorVars, pollVars, alarm_enabled, stopping, history>>
    BY <1>3 DEF alarm_thread_entry
  <2> HIDE <2>1 DEF AfterIdle, AfterOn, AfterOff, AfterPause, Beep, Pause, Idle
  <2> QED BY <2>2, <2>3, <2>4, <2>5, <2>6 DEF sensorVars, pollVars
<1>4. ASSUME NEW c \in Remote, RemoteStart(c) \/ RemoteStop(c) \/ RemoteSilence(c)
      PROVE TypeOK'
  <2>1. CASE RemoteStart(c)
    BY <2>1 DEF RemoteStart, alarm_start, sensorVars, pollVars, alarmVars
  <2>2. CASE RemoteStop(c)
    BY <1>c, <2>2 DEF RemoteStop, alarm_stop, sensorVars, pollVars, alarmVars
  <2>3. CASE RemoteSilence(c)
    BY <2>3 DEF RemoteSilence, silence, sensorVars, pollVars
  <2> QED BY <1>4, <2>1, <2>2, <2>3
<1>5. CASE UNCHANGED vars
  BY <1>5 DEF vars, sensorVars, pollVars, alarmVars
<1> QED BY <1>1, <1>2, <1>3, <1>4, <1>5 DEF Next

\* The outputs are turned on only by Beep, which tests the flag, and the flag
\* is cleared only together with a debt to turn them off.
LEMMA OutputStep == IInv /\ [Next]_vars => OutputInv'
<1> SUFFICES ASSUME IInv, [Next]_vars PROVE OutputInv'
  OBVIOUS
<1> USE DEF IInv, TypeOK, OutputInv, history
<1>1. CASE GasRises \/ GasFalls \/ WindowEnds \/ mq2_ignore_after_relay_op
  BY <1>1 DEF GasRises, GasFalls, WindowEnds, mq2_ignore_after_relay_op, alarmVars
<1>2. CASE adc1_5_entry
  <2>1. CASE Poll \/ OpenDoor \/ Read
    BY <2>1 DEF Poll, OpenDoor, Read, ReadWith, alarmVars
  <2>2. CASE Fire
    BY <2>2 DEF Fire, alarm_start
  <2>3. CASE AutoStop
    BY <2>3 DEF AutoStop, alarm_stop, alarmVars
  <2>4. CASE AutoSilence
    BY <2>4 DEF AutoSilence, silence
  <2> QED BY <1>2, <2>1, <2>2, <2>3, <2>4 DEF adc1_5_entry
<1>3. CASE alarm_thread_entry
  BY <1>3 DEF alarm_thread_entry, AfterIdle, AfterOn, AfterOff, AfterPause,
       Beep, Pause, Idle
<1>4. ASSUME NEW c \in Remote, RemoteStart(c) \/ RemoteStop(c) \/ RemoteSilence(c)
      PROVE OutputInv'
  BY <1>4 DEF RemoteStart, RemoteStop, RemoteSilence, alarm_start, alarm_stop,
       silence, alarmVars
<1>5. CASE UNCHANGED vars
  BY <1>5 DEF vars, alarmVars
<1> QED BY <1>1, <1>2, <1>3, <1>4, <1>5 DEF Next

LEMMA SilenceStep == IInv /\ [Next]_vars => SilenceInv'
<1> SUFFICES ASSUME IInv, [Next]_vars PROVE SilenceInv'
  OBVIOUS
<1> USE RemoteAssumption DEF IInv, TypeOK, SilenceInv
<1>1. CASE GasRises \/ GasFalls \/ WindowEnds \/ mq2_ignore_after_relay_op
  BY <1>1 DEF GasRises, GasFalls, WindowEnds, mq2_ignore_after_relay_op, pollVars
<1>2. CASE adc1_5_entry
  BY <1>2 DEF adc1_5_entry, Poll, Fire, OpenDoor, Read, ReadWith, AutoStop,
       AutoSilence, alarm_stop, silence
<1>3. CASE alarm_thread_entry
  BY <1>3 DEF alarm_thread_entry, pollVars
<1>4. ASSUME NEW c \in Remote, RemoteStart(c) \/ RemoteStop(c) \/ RemoteSilence(c)
      PROVE SilenceInv'
  BY <1>4 DEF RemoteStart, RemoteStop, RemoteSilence, alarm_stop, silence, pollVars
<1>5. CASE UNCHANGED vars
  BY <1>5 DEF vars, pollVars
<1> QED BY <1>1, <1>2, <1>3, <1>4, <1>5 DEF Next

LEMMA QuietStep == IInv /\ [Next]_vars => QuietInv'
<1> SUFFICES ASSUME IInv, [Next]_vars PROVE QuietInv'
  OBVIOUS
<1> USE PollsAssumption DEF IInv, TypeOK, QuietInv, history
<1>1. CASE GasRises \/ GasFalls \/ WindowEnds \/ mq2_ignore_after_relay_op
  BY <1>1 DEF GasRises, GasFalls, WindowEnds, mq2_ignore_after_relay_op, pollVars
<1>2. CASE adc1_5_entry
  <2>1. CASE Poll
    BY <2>1 DEF Poll
  <2>2. CASE Fire
    BY <2>2 DEF Fire, alarm_start
  <2>3. CASE OpenDoor
    BY <2>3 DEF OpenDoor
  <2>4. CASE Read
    <3>1. CASE ~alarm_enabled
      BY <2>4, <3>1 DEF Read, ReadWith
    <3>2. CASE alarm_enabled /\ do_low
      BY <2>4, <3>2 DEF Read, ReadWith
    <3>3. CASE alarm_enabled /\ ~do_low
      <4> SUFFICES ASSUME ~carried'
                   PROVE /\ quiet' >= normal_cnt'
                         /\ mq2_pc' = "stop" => quiet' >= ConfirmCnt
        BY <2>4, <3>3 DEF Read, ReadWith
      <4>1. ~carried /\ quiet >= normal_cnt
        BY <2>4, <3>3 DEF Read, ReadWith
      <4>2. quiet' = IF quiet < ConfirmCnt THEN quiet + 1 ELSE quiet
        BY <2>4, <3>3 DEF Read, ReadWith
      <4>3. IF normal_cnt + 1 >= ConfirmCnt
              THEN mq2_pc' = "stop" /\ normal_cnt' = 0
              ELSE mq2_pc' = "sleep" /\ normal_cnt' = normal_cnt + 1
        BY <2>4, <3>3 DEF Read, ReadWith
      <4> QED BY <4>1, <4>2, <4>3
    <3> QED BY <3>1, <3>2, <3>3
  <2>5. CASE AutoStop
    BY <2>5 DEF AutoStop, alarm_stop
  <2>6. CASE AutoSilence
    BY <2>6 DEF AutoSilence
  <2> QED BY <1>2, <2>1, <2>2, <2>3, <2>4, <2>5, <2>6 DEF adc1_5_entry
<1>3. CASE alarm_thread_entry
  BY <1>3 DEF alarm_thread_entry, pollVars
<1>4. ASSUME NEW c \in Remote, RemoteStart(c) \/ RemoteStop(c) \/ RemoteSilence(c)
      PROVE QuietInv'
  <2>1. CASE RemoteStart(c)
    BY <2>1 DEF RemoteStart, alarm_start, pollVars
  <2>2. CASE RemoteStop(c)
    BY <2>2 DEF RemoteStop, alarm_stop, Counting, pollVars
  <2>3. CASE RemoteSilence(c)
    BY <2>3 DEF RemoteSilence, silence, pollVars
  <2> QED BY <1>4, <2>1, <2>2, <2>3
<1>5. CASE UNCHANGED vars
  BY <1>5 DEF vars, pollVars
<1> QED BY <1>1, <1>2, <1>3, <1>4, <1>5 DEF Next

\* IInv holds in every reachable state.
THEOREM Invariance == Spec => []IInv
<1>1. IInv /\ [Next]_vars => IInv'
  BY TypeStep, OutputStep, SilenceStep, QuietStep DEF IInv
<1> QED BY InitIInv, <1>1, PTL DEF Spec

\* The variables keep their types.
THEOREM TypeCorrect == Spec => []TypeOK
<1>1. IInv => TypeOK
  BY DEF IInv
<1> QED BY Invariance, <1>1, PTL

\* A stopped alarm is silent and dark, however many threads start and stop it
\* and wherever the alarm thread is in its cycle.
THEOREM StoppedIsSilent == Spec => []SilentWhenStopped
<1>1. IInv => SilentWhenStopped
  BY DEF IInv, OutputInv, SilentWhenStopped
<1> QED BY Invariance, <1>1, PTL

\* An alarm is stopped by the sensor only after ConfirmCnt normal polls in a
\* row since its last trigger, unless a remote stop has cut a count short.
THEOREM StopIsConfirmed == Spec => []ConfirmedQuiet
<1>1. IInv => ConfirmedQuiet
  BY DEF IInv, QuietInv, ConfirmedQuiet
<1> QED BY Invariance, <1>1, PTL

-----------------------------------------------------------------------------
(***************************************************************************)
(* How long an alarm that is on can be silent.  That it is heard in the    *)
(* end is a liveness property; how many delays of the alarm thread may     *)
(* pass before is not.                                                     *)
(***************************************************************************)
\* The delays the alarm thread has to sit through before it beeps.
DelaysToBeep ==
  LET afterOff == IF cycle_count + 1 < OnCycles THEN 1 ELSE OffCycles + 1
  IN  CASE alarm_pc = "idle"  -> 1
        [] alarm_pc = "on"    -> 1 + afterOff
        [] alarm_pc = "off"   -> afterOff
        [] alarm_pc = "pause" -> OffCycles - cycle_count

\* The counter never reaches the limit of the loop it counts for.
InCycle ==
  /\ alarm_pc \in {"on", "off"} => cycle_count < OnCycles
  /\ alarm_pc = "pause" => cycle_count < OffCycles

BeepIsNear == InCycle /\ DelaysToBeep \in 1..(OffCycles + 2)

\* While the alarm is on, only the alarm thread's own delays count, and each of
\* them ends in a beep or brings it nearer.
SilenceIsBounded ==
  [][alarm_enabled =>
       IF alarm_thread_entry
         THEN buzzer' \/ DelaysToBeep' < DelaysToBeep
         ELSE DelaysToBeep' = DelaysToBeep]_vars

LEMMA BeepInRange == TypeOK /\ InCycle => DelaysToBeep \in 1..(OffCycles + 2)
  BY CyclesAssumption DEF TypeOK, InCycle, DelaysToBeep

\* The places of the alarm thread belong to the alarm thread.
LEMMA OthersLeaveCycle ==
  ASSUME [Next]_vars, ~alarm_thread_entry
  PROVE  UNCHANGED <<alarm_pc, cycle_count>>
<1>1. CASE GasRises \/ GasFalls \/ WindowEnds \/ mq2_ignore_after_relay_op
  BY <1>1 DEF GasRises, GasFalls, WindowEnds, mq2_ignore_after_relay_op, alarmVars
<1>2. CASE adc1_5_entry
  BY <1>2 DEF adc1_5_entry, Poll, Fire, OpenDoor, Read, ReadWith, AutoStop,
              AutoSilence, alarmVars
<1>3. ASSUME NEW c \in Remote, RemoteStart(c) \/ RemoteStop(c) \/ RemoteSilence(c)
      PROVE  UNCHANGED <<alarm_pc, cycle_count>>
  BY <1>3 DEF RemoteStart, RemoteStop, RemoteSilence, alarmVars
<1>4. CASE UNCHANGED vars
  BY <1>4 DEF vars, alarmVars
<1> QED BY <1>1, <1>2, <1>3, <1>4 DEF Next

LEMMA CycleStep == TypeOK /\ InCycle /\ [Next]_vars => InCycle'
<1> SUFFICES ASSUME TypeOK, InCycle, [Next]_vars PROVE InCycle'
  OBVIOUS
<1>1. CASE alarm_thread_entry
  BY <1>1, CyclesAssumption
     DEF alarm_thread_entry, AfterIdle, AfterOn, AfterOff, AfterPause, Beep, Pause,
         Idle, TypeOK, InCycle
<1>2. CASE ~alarm_thread_entry
  BY <1>2, OthersLeaveCycle DEF InCycle
<1> QED BY <1>1, <1>2

LEMMA BeepApproaches ==
  ASSUME TypeOK, InCycle, alarm_enabled, alarm_thread_entry
  PROVE  buzzer' \/ DelaysToBeep' < DelaysToBeep
<1> USE CyclesAssumption DEF TypeOK, InCycle, DelaysToBeep, Idle
<1>1. CASE AfterIdle
  BY <1>1 DEF AfterIdle, Beep
<1>2. CASE AfterOn
  BY <1>2 DEF AfterOn
<1>3. CASE AfterOff
  BY <1>3 DEF AfterOff, Beep, Pause
<1>4. CASE AfterPause
  BY <1>4 DEF AfterPause, Beep, Pause
<1> QED BY <1>1, <1>2, <1>3, <1>4 DEF alarm_thread_entry

\* At any time, an alarm that is on and stays on beeps within OffCycles + 2
\* delays of the alarm thread, wherever in its cycle it was turned on and
\* whatever the sensor and the remote callers do meanwhile.
THEOREM BeepBound == Spec => []BeepIsNear /\ SilenceIsBounded
<1>1. Init => InCycle
  BY DEF Init, InCycle
<1>2. TypeOK /\ InCycle => BeepIsNear
  BY BeepInRange DEF BeepIsNear
<1>3. TypeOK /\ InCycle /\ [Next]_vars =>
        [alarm_enabled =>
           IF alarm_thread_entry
             THEN buzzer' \/ DelaysToBeep' < DelaysToBeep
             ELSE DelaysToBeep' = DelaysToBeep]_vars
  BY BeepApproaches, OthersLeaveCycle DEF DelaysToBeep
<1> QED BY TypeCorrect, CycleStep, <1>1, <1>2, <1>3, PTL DEF Spec, SilenceIsBounded

-----------------------------------------------------------------------------
(***************************************************************************)
(* How long an alarm can outlast the gas.  That it ends is a liveness      *)
(* property; how many steps of the polling thread it takes is not.  A last *)
(* edge may still be waiting to be polled, and it starts the count anew.   *)
(***************************************************************************)
\* The steps the polling thread has still to make until it stops the alarm, if
\* the pin is normal and stays so.
StepsToStop ==
  LET triggered == 2 * ConfirmCnt + 3
      counting  == 2 * (ConfirmCnt - normal_cnt)
  IN  CASE mq2_pc = "sleep"   -> IF do_triggered THEN triggered ELSE counting + 1
        [] mq2_pc = "fire"    -> IF do_triggered THEN triggered + 3 ELSE triggered - 1
        [] mq2_pc = "open"    -> IF do_triggered THEN triggered + 2 ELSE triggered - 2
        [] mq2_pc = "read"    -> IF do_triggered THEN triggered + 1 ELSE counting
        [] mq2_pc = "stop"    -> 1
        [] mq2_pc = "silence" -> IF do_triggered THEN triggered + 1 ELSE counting + 2

StopIsNear == StepsToStop \in 1..(2 * ConfirmCnt + 6)

\* With a normal pin every step of the polling thread ends the alarm or brings
\* its end nearer; no window, relay or remote caller puts it off.
NothingPutsOff ==
  [][alarm_enabled /\ alarm_enabled' /\ ~do_low /\ ~do_low' =>
       IF adc1_5_entry
         THEN StepsToStop' < StepsToStop
         ELSE StepsToStop' = StepsToStop]_vars

LEMMA StopInRange == TypeOK => StopIsNear
  BY PollsAssumption DEF TypeOK, StopIsNear, StepsToStop

LEMMA OthersLeaveCount ==
  ASSUME TypeOK, [Next]_vars, ~adc1_5_entry, ~do_low, ~do_low'
  PROVE  StepsToStop' = StepsToStop
<1> SUFFICES UNCHANGED <<mq2_pc, normal_cnt, do_triggered>>
  BY DEF StepsToStop
<1>1. CASE GasRises \/ GasFalls
  BY <1>1 DEF GasRises, GasFalls
<1>2. CASE WindowEnds \/ mq2_ignore_after_relay_op
  BY <1>2 DEF WindowEnds, mq2_ignore_after_relay_op, pollVars
<1>3. CASE alarm_thread_entry
  BY <1>3 DEF alarm_thread_entry, sensorVars, pollVars
<1>4. ASSUME NEW c \in Remote, RemoteStart(c) \/ RemoteStop(c) \/ RemoteSilence(c)
      PROVE  UNCHANGED <<mq2_pc, normal_cnt, do_triggered>>
  BY <1>4 DEF RemoteStart, RemoteStop, RemoteSilence, sensorVars, pollVars
<1>5. CASE UNCHANGED vars
  BY <1>5 DEF vars, sensorVars, pollVars
<1> QED BY <1>1, <1>2, <1>3, <1>4, <1>5 DEF Next

LEMMA PollingApproaches ==
  ASSUME TypeOK, adc1_5_entry, alarm_enabled, alarm_enabled', ~do_low
  PROVE  StepsToStop' < StepsToStop
<1> USE PollsAssumption DEF TypeOK, StepsToStop, sensorVars
<1>1. CASE Poll
  BY <1>1 DEF Poll
<1>2. CASE Fire \/ OpenDoor
  BY <1>2 DEF Fire, OpenDoor
<1>3. CASE Read
  BY <1>3 DEF Read, ReadWith
<1>4. CASE AutoStop
  BY <1>4 DEF AutoStop, alarm_stop
<1>5. CASE AutoSilence
  BY <1>5 DEF AutoSilence
<1> QED BY <1>1, <1>2, <1>3, <1>4, <1>5 DEF adc1_5_entry

\* Whoever started the alarm and whatever was counted before: once the gas is
\* gone the polling thread stops the alarm within 2 * ConfirmCnt + 6 of its
\* steps, two of which make up a poll that finds the pin normal (Mq2.c:184-191).
THEOREM AlarmEndsSoon == Spec => []StopIsNear /\ NothingPutsOff
<1>1. TypeOK /\ [Next]_vars =>
        [alarm_enabled /\ alarm_enabled' /\ ~do_low /\ ~do_low' =>
           IF adc1_5_entry
             THEN StepsToStop' < StepsToStop
             ELSE StepsToStop' = StepsToStop]_vars
  BY PollingApproaches, OthersLeaveCount
<1> QED BY TypeCorrect, StopInRange, <1>1, PTL DEF Spec, NothingPutsOff
=============================================================================
