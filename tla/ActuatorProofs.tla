--------------------------- MODULE ActuatorProofs ---------------------------
(***************************************************************************)
(* Proofs about what the firmware drives: the arm of the door, for every   *)
(* set of threads and every range of angles, and the lamp, for every set   *)
(* of callers and every length of its queue.                               *)
(***************************************************************************)
EXTENDS Servo, LedControl, SequenceTheorems, TLAPS

\* A sweep that is about to move has somewhere to go, so its next degree lies
\* between its own angle and its target and cannot wrap.
NotThereYet == \A t \in Threads : pc[t] = "step" => cur[t] # target[t]

IInv == TypeOK /\ NotThereYet /\ BusyHasOwner

\* While the console has stayed away the door thread has the channel to itself:
\* nobody else is in a sweep, its own sweep leads to the closed angle and knows
\* where the arm is, and one that has not begun finds the flag clear.
DoorAlone ==
  ~meddled =>
    /\ \A t \in Threads \ {"door"} : pc[t] = "idle"
    /\ pc["door"] # "idle" => target["door"] = 0 /\ door = "close"
    /\ pc["door"] \in {"step", "delay"} => cur["door"] = angle
    /\ pc["door"] = "claim" => ~busy

AInv == IInv /\ DoorAlone /\ ArmClosed

-----------------------------------------------------------------------------
LEMMA InitIInv == Init => IInv
<1>1. 0 \in Angle
  BY AngleAssumption DEF Angle
<1>2. Init => TypeOK
  BY <1>1 DEF Init, TypeOK
<1>3. Init => NotThereYet /\ BusyHasOwner
  BY DEF Init, NotThereYet, BusyHasOwner
<1> QED BY <1>2, <1>3 DEF IInv

\* One degree towards an angle of the range stays in the range.
LEMMA TowardsInRange ==
  ASSUME NEW from \in Angle, NEW to \in Angle, from # to
  PROVE  Towards(from, to) \in Angle
  BY AngleAssumption DEF Towards, Angle

LEMMA ClampInRange ==
  ASSUME NEW a \in Nat, servo_set_angle_ch(a)
  PROVE  angle' \in Angle
  BY AngleAssumption DEF servo_set_angle_ch, Angle

\* What the sweep of one thread does.
LEMMA SweepStep ==
  ASSUME IInv, NEW t \in Threads, servo_sweep_ch(t)
  PROVE  IInv'
<1> USE DEF IInv, TypeOK, NotThereYet, BusyHasOwner, Sweeping, Goto
<1>1. CASE TestBusy(t)
  BY <1>1 DEF TestBusy
<1>2. CASE Claim(t)
  BY <1>2 DEF Claim
<1>3. CASE ReadAngle(t)
  BY <1>3 DEF ReadAngle
<1>4. CASE Step(t)
  <2>1. cur'[t] \in Angle
    BY <1>4, TowardsInRange DEF Step
  <2>2. angle' \in Angle
    BY <1>4, <2>1, ClampInRange, AngleAssumption DEF Step, Angle
  <2> QED BY <1>4, <2>1, <2>2 DEF Step
<1>5. CASE DelayEnds(t)
  BY <1>5 DEF DelayEnds
<1> QED BY <1>1, <1>2, <1>3, <1>4, <1>5 DEF servo_sweep_ch

LEMMA CallStep ==
  ASSUME IInv,
         \/ servo_open_door \/ servo_close_door
         \/ \E t \in Threads, a \in Angle : sv_angle(t, a) \/ sv_sweep(t, a)
  PROVE  IInv'
<1> USE ThreadsAssumption, AngleAssumption
    DEF IInv, TypeOK, NotThereYet, BusyHasOwner, Sweeping, Goto
<1>1. CASE servo_open_door
  <2>1. angle' \in Angle
    BY <1>1, ClampInRange DEF servo_open_door
  <2> QED BY <1>1, <2>1 DEF servo_open_door
<1>2. CASE servo_close_door
  <2>1. 0 \in Angle
    BY DEF Angle
  <2> QED BY <1>2, <2>1 DEF servo_close_door
<1>3. ASSUME NEW t \in Threads, NEW a \in Angle, sv_angle(t, a) PROVE IInv'
  <2>1. angle' \in Angle
    BY <1>3, ClampInRange DEF sv_angle, Angle
  <2> QED BY <1>3, <2>1 DEF sv_angle
<1>4. ASSUME NEW t \in Threads, NEW a \in Angle, sv_sweep(t, a) PROVE IInv'
  BY <1>4 DEF sv_sweep
<1> QED BY <1>1, <1>2, <1>3, <1>4

LEMMA InvariantStep == IInv /\ [Next]_vars => IInv'
<1>1. ASSUME IInv, UNCHANGED vars PROVE IInv'
  BY <1>1 DEF vars, IInv, TypeOK, NotThereYet, BusyHasOwner
<1> QED BY <1>1, SweepStep, CallStep DEF Next

\* IInv holds in every reachable state.
THEOREM Invariance == Spec => []IInv
  BY InitIInv, InvariantStep, PTL DEF Spec

\* The variables keep their types; the angles stay within the servo's range.
THEOREM TypeCorrect == Spec => []TypeOK
<1>1. IInv => TypeOK
  BY DEF IInv
<1> QED BY Invariance, <1>1, PTL

\* However many threads race for the channel, no finished sweep leaves the busy
\* flag set.
THEOREM FlagReturned == Spec => []BusyHasOwner
<1>1. IInv => BusyHasOwner
  BY DEF IInv
<1> QED BY Invariance, <1>1, PTL

-----------------------------------------------------------------------------
LEMMA InitAlone == Init => DoorAlone /\ ArmClosed
  BY ThreadsAssumption DEF Init, DoorAlone, ArmClosed

\* The door thread's own sweep.
LEMMA DoorSweepAlone ==
  ASSUME AInv, servo_sweep_ch("door")
  PROVE  DoorAlone' /\ ArmClosed'
<1> USE ThreadsAssumption DEF AInv, IInv, TypeOK, DoorAlone, ArmClosed, Goto
<1>1. CASE TestBusy("door")
  BY <1>1 DEF TestBusy, BusyHasOwner, Sweeping
<1>2. CASE Claim("door")
  BY <1>2 DEF Claim
<1>3. CASE ReadAngle("door")
  BY <1>3 DEF ReadAngle
<1>4. CASE Step("door")
  <2>1. cur'["door"] \in Angle
    BY <1>4, TowardsInRange DEF Step, NotThereYet
  <2>2. angle' = cur'["door"]
    BY <1>4, <2>1, AngleAssumption DEF Step, servo_set_angle_ch, Angle
  <2> QED BY <1>4, <2>2 DEF Step
<1>5. CASE DelayEnds("door")
  BY <1>5 DEF DelayEnds
<1> QED BY <1>1, <1>2, <1>3, <1>4, <1>5 DEF servo_sweep_ch

\* A sweep of another thread means that the console has been there.
LEMMA OtherSweepAlone ==
  ASSUME AInv, NEW t \in Threads \ {"door"}, servo_sweep_ch(t)
  PROVE  DoorAlone' /\ ArmClosed'
<1>1. pc[t] # "idle" /\ meddled' = meddled
  BY DEF servo_sweep_ch, TestBusy, Claim, ReadAngle, Step, DelayEnds
<1>2. meddled'
  BY <1>1 DEF AInv, IInv, TypeOK, DoorAlone
<1> QED BY <1>2 DEF DoorAlone, ArmClosed

LEMMA CallAlone ==
  ASSUME AInv,
         \/ servo_open_door \/ servo_close_door
         \/ \E t \in Threads, a \in Angle : sv_angle(t, a) \/ sv_sweep(t, a)
  PROVE  DoorAlone' /\ ArmClosed'
<1> USE ThreadsAssumption DEF AInv, IInv, TypeOK, DoorAlone, ArmClosed
<1>1. CASE servo_open_door
  BY <1>1 DEF servo_open_door
<1>2. CASE servo_close_door
  BY <1>2 DEF servo_close_door, Goto
<1>3. ASSUME NEW t \in Threads, NEW a \in Angle, sv_angle(t, a) \/ sv_sweep(t, a)
      PROVE  DoorAlone' /\ ArmClosed'
  BY <1>3 DEF sv_angle, sv_sweep
<1> QED BY <1>1, <1>2, <1>3

\* Unless the console moved the arm since the opening, a door whose closing has
\* returned has its arm closed, whatever sweeps were made before.
THEOREM ClosedWhenLocked == Spec => []ArmClosed
<1>1. ASSUME AInv, [Next]_vars PROVE AInv'
  <2>1. IInv'
    BY <1>1, InvariantStep DEF AInv
  <2>2. CASE UNCHANGED vars
    BY <1>1, <2>1, <2>2 DEF vars, AInv, DoorAlone, ArmClosed
  <2>3. CASE Next
    BY <1>1, <2>1, <2>3, DoorSweepAlone, OtherSweepAlone, CallAlone DEF AInv, Next
  <2> QED BY <1>1, <2>2, <2>3
<1>2. Init => AInv
  BY InitIInv, InitAlone DEF AInv
<1>3. AInv => ArmClosed
  BY DEF AInv
<1> QED BY <1>1, <1>2, <1>3, PTL DEF Spec
-----------------------------------------------------------------------------
(***************************************************************************)
(* How long a sweep can take.  That it ends is a liveness property; that   *)
(* nobody can lengthen it is not.                                          *)
(***************************************************************************)
Distance(t) ==
  IF cur[t] > target[t] THEN cur[t] - target[t] ELSE target[t] - cur[t]

\* An upper bound of the steps a sweep has still to make.
StepsLeft(t) ==
  CASE pc[t] = "idle"  -> 0
    [] pc[t] = "delay" -> 2 * Distance(t) + 1
    [] pc[t] = "step"  -> 2 * Distance(t)
    [] pc[t] = "read"  -> 2 * Max + 1
    [] pc[t] = "claim" -> 2 * Max + 2
    [] pc[t] = "test"  -> 2 * Max + 3

StepsBounded == \A t \in Threads : StepsLeft(t) \in 0..(2 * Max + 3)

\* Every step of a sweep brings it nearer to its end, and no other step, of
\* whichever thread, takes it away from there.
SweepAdvances ==
  [][\A t \in Threads :
       pc[t] # "idle" =>
         IF servo_sweep_ch(t)
           THEN StepsLeft(t)' < StepsLeft(t)
           ELSE StepsLeft(t)' = StepsLeft(t)]_vars

LEMMA StepsInRange == IInv => StepsBounded
<1> SUFFICES ASSUME IInv, NEW t \in Threads PROVE StepsLeft(t) \in 0..(2 * Max + 3)
  BY DEF StepsBounded
<1>1. Max \in Nat /\ Distance(t) \in 0..Max
  BY AngleAssumption DEF IInv, TypeOK, Distance, Angle
<1>2. pc[t] \in {"idle", "test", "claim", "read", "step", "delay"}
  BY DEF IInv, TypeOK, Sweeping
<1> QED BY <1>1, <1>2 DEF StepsLeft

LEMMA SweepComesNearer ==
  ASSUME IInv, NEW t \in Threads, servo_sweep_ch(t)
  PROVE  StepsLeft(t)' < StepsLeft(t)
<1>1. /\ Max \in Nat /\ angle \in 0..Max /\ cur[t] \in 0..Max /\ target[t] \in 0..Max
      /\ pc \in [Threads -> {"idle", "test", "claim"} \cup Sweeping]
      /\ cur \in [Threads -> Angle]
  BY AngleAssumption DEF IInv, TypeOK, Angle
<1>2. CASE TestBusy(t)
  BY <1>1, <1>2 DEF TestBusy, Goto, StepsLeft, Distance
<1>3. CASE Claim(t)
  BY <1>1, <1>3 DEF Claim, Goto, StepsLeft, Distance
<1>4. CASE ReadAngle(t)
  <2>1. cur'[t] = angle /\ target' = target /\ pc'[t] \in {"idle", "step"}
    BY <1>1, <1>4 DEF ReadAngle, Goto
  <2>2. Distance(t)' \in 0..Max
    BY <1>1, <2>1 DEF Distance
  <2>3. pc[t] = "read"
    BY <1>4 DEF ReadAngle
  <2> QED BY <1>1, <2>1, <2>2, <2>3 DEF StepsLeft
<1>5. CASE Step(t)
  <2>1. /\ cur'[t] = Towards(cur[t], target[t]) /\ target' = target
        /\ pc[t] = "step" /\ pc'[t] = "delay"
    BY <1>1, <1>5 DEF Step, Goto
  <2>2. cur[t] # target[t]
    BY <2>1 DEF IInv, NotThereYet
  <2>3. Distance(t)' = Distance(t) - 1 /\ Distance(t) \in Nat
    BY <1>1, <2>1, <2>2 DEF Distance, Towards
  <2> QED BY <2>1, <2>3 DEF StepsLeft
<1>6. CASE DelayEnds(t)
  <2>1. /\ UNCHANGED <<cur, target>> /\ pc[t] = "delay"
        /\ pc'[t] \in {"idle", "step"}
    BY <1>1, <1>6 DEF DelayEnds, Goto
  <2>2. Distance(t)' = Distance(t) /\ Distance(t) \in Nat
    BY <1>1, <2>1 DEF Distance
  <2> QED BY <2>1, <2>2 DEF StepsLeft
<1> QED BY <1>2, <1>3, <1>4, <1>5, <1>6 DEF servo_sweep_ch

LEMMA OthersLeaveSweep ==
  ASSUME IInv, [Next]_vars, NEW t \in Threads, pc[t] # "idle", ~servo_sweep_ch(t)
  PROVE  UNCHANGED <<pc[t], cur[t], target[t]>>
<1> USE DEF IInv, TypeOK, Goto
<1>1. CASE servo_open_door \/ servo_close_door
  BY <1>1, ThreadsAssumption DEF servo_open_door, servo_close_door
<1>2. ASSUME NEW u \in Threads, servo_sweep_ch(u)
      PROVE  UNCHANGED <<pc[t], cur[t], target[t]>>
  <2>1. u # t
    BY <1>2
  <2> QED BY <1>2, <2>1
          DEF servo_sweep_ch, TestBusy, Claim, ReadAngle, Step, DelayEnds
<1>3. ASSUME NEW u \in Threads, NEW a \in Angle, sv_angle(u, a) \/ sv_sweep(u, a)
      PROVE  UNCHANGED <<pc[t], cur[t], target[t]>>
  BY <1>3 DEF sv_angle, sv_sweep
<1>4. CASE UNCHANGED vars
  BY <1>4 DEF vars
<1> QED BY <1>1, <1>2, <1>3, <1>4 DEF Next

\* A sweep makes at most 2 * Max + 3 steps from its start to its end, however
\* many threads sweep or set angles at the same time: a sweep goes by its own
\* idea of the angle, not by the shared one the others move.
THEOREM SweepBound == Spec => []StepsBounded /\ SweepAdvances
<1>1. IInv /\ [Next]_vars =>
        [\A t \in Threads :
           pc[t] # "idle" =>
             IF servo_sweep_ch(t)
               THEN StepsLeft(t)' < StepsLeft(t)
               ELSE StepsLeft(t)' = StepsLeft(t)]_vars
  <2> SUFFICES ASSUME IInv, [Next]_vars, NEW t \in Threads, pc[t] # "idle"
               PROVE  IF servo_sweep_ch(t)
                        THEN StepsLeft(t)' < StepsLeft(t)
                        ELSE StepsLeft(t)' = StepsLeft(t)
    OBVIOUS
  <2>1. CASE servo_sweep_ch(t)
    BY <2>1, SweepComesNearer
  <2>2. CASE ~servo_sweep_ch(t)
    BY <2>2, OthersLeaveSweep DEF StepsLeft, Distance
  <2> QED BY <2>1, <2>2
<1> QED BY Invariance, StepsInRange, <1>1, PTL DEF Spec, SweepAdvances

-----------------------------------------------------------------------------
(* The lamp.                                                               *)

\* A call that was not overtaken has left nobody behind with an older command.
PostsAreCurrent ==
  ~overtaken => \A c \in Callers : caller_pc[c] = "send" => cmd[c] = g_led_state

LampInv == LedTypeOK /\ PostsAreCurrent /\ LampFollows

\* What the lamp will show when the last command has been posted.
LEMMA SettledAppend ==
  ASSUME pin \in BOOLEAN, g_led_mq \in Seq(BOOLEAN), NEW b \in BOOLEAN,
         pin' = pin, g_led_mq' = Append(g_led_mq, b)
  PROVE  Settled' = b
  BY DEF Settled

\* A reception changes the lamp and the queue, not what they come to.
LEMMA SettledReceive ==
  ASSUME pin \in BOOLEAN, g_led_mq \in Seq(BOOLEAN), g_led_mq # <<>>,
         pin' = Head(g_led_mq), g_led_mq' = Tail(g_led_mq)
  PROVE  Settled' = Settled
<1>1. Len(g_led_mq) \in Nat \ {0} /\ Len(g_led_mq') = Len(g_led_mq) - 1
  OBVIOUS
<1>2. CASE Len(g_led_mq) = 1
  <2>1. g_led_mq' = <<>> /\ pin' = g_led_mq[1]
    BY <1>1, <1>2
  <2> QED BY <1>2, <2>1, Zenon DEF Settled
<1>3. CASE Len(g_led_mq) # 1
  <2>1. g_led_mq' # <<>>
    <3>1. Len(g_led_mq') # 0
      BY <1>1, <1>3
    <3> QED BY <3>1, EmptySeq
  <2>2. g_led_mq'[Len(g_led_mq')] = g_led_mq[Len(g_led_mq)]
    BY <1>1, <1>3
  <2> QED BY <2>1, <2>2, Zenon DEF Settled
<1> QED BY <1>2, <1>3

LEMMA InitLamp == LedInit => LampInv
<1> SUFFICES ASSUME LedInit PROVE LampInv
  OBVIOUS
<1>1. g_led_mq = <<>> /\ pin = FALSE /\ g_led_state = FALSE
  BY DEF LedInit
<1>2. LedTypeOK
  <2>1. g_led_mq \in Seq(BOOLEAN) /\ Len(g_led_mq) <= Capacity
    BY <1>1, EmptySeq, CapacityAssumption
  <2>2. /\ caller_pc \in [Callers -> {"out", "read", "send"}]
        /\ cmd \in [Callers -> BOOLEAN]
    BY DEF LedInit
  <2>3. dropped \in BOOLEAN /\ overtaken \in BOOLEAN
    BY Zenon DEF LedInit
  <2> QED BY <1>1, <2>1, <2>2, <2>3 DEF LedTypeOK
<1>3. Settled = g_led_state
  BY <1>1 DEF Settled
<1> QED BY <1>2, <1>3 DEF LedInit, LampInv, PostsAreCurrent, LampFollows

LEMMA CallLamp ==
  ASSUME LampInv, NEW c \in Callers, set_led_status(c)
  PROVE  LampInv'
<1> USE CapacityAssumption DEF LampInv, LedTypeOK, PostsAreCurrent, LampFollows, Quiet
<1>1. ASSUME NEW status \in BOOLEAN, SetState(c, status) PROVE LampInv'
  BY <1>1 DEF SetState
<1>2. CASE ReadState(c)
  BY <1>2 DEF ReadState
<1>3. CASE SendCommand(c)
  <2>1. /\ caller_pc' = [caller_pc EXCEPT ![c] = "out"]
        /\ dropped' = (Len(g_led_mq) = Capacity)
        /\ g_led_mq' = IF dropped' THEN g_led_mq ELSE Append(g_led_mq, cmd[c])
        /\ UNCHANGED <<g_led_state, pin, cmd, overtaken>>
        /\ caller_pc[c] = "send"
    BY <1>3 DEF SendCommand
  <2>2. CASE Len(g_led_mq) = Capacity
    <3>1. dropped' = TRUE /\ g_led_mq' = g_led_mq
      BY <2>1, <2>2
    <3> QED BY <2>1, <3>1
  <2>3. CASE Len(g_led_mq) # Capacity
    <3>1. dropped' = FALSE /\ g_led_mq' = Append(g_led_mq, cmd[c])
      BY <2>1, <2>3
    <3>2. g_led_mq' \in Seq(BOOLEAN) /\ Len(g_led_mq') <= Capacity
      BY <2>3, <3>1
    <3>3. Settled' = cmd[c]
      BY <2>1, <3>1, SettledAppend
    <3> QED BY <2>1, <3>1, <3>2, <3>3
  <2> QED BY <2>2, <2>3
<1> QED BY <1>1, <1>2, <1>3 DEF set_led_status

LEMMA LampStep == LampInv /\ [LedNext]_ledVars => LampInv'
<1> SUFFICES ASSUME LampInv, [LedNext]_ledVars PROVE LampInv'
  OBVIOUS
<1>1. CASE led_thread_entry
  <2>1. Settled' = Settled
    BY <1>1, SettledReceive DEF led_thread_entry, LampInv, LedTypeOK
  <2>2. /\ pin' \in BOOLEAN
        /\ g_led_mq' \in Seq(BOOLEAN) /\ Len(g_led_mq') <= Capacity
    BY <1>1, CapacityAssumption DEF led_thread_entry, LampInv, LedTypeOK
  <2>3. UNCHANGED <<g_led_state, caller_pc, cmd, dropped, overtaken>>
    BY <1>1 DEF led_thread_entry
  <2> QED BY <2>1, <2>2, <2>3
          DEF LampInv, LedTypeOK, PostsAreCurrent, LampFollows, Quiet
<1>2. CASE UNCHANGED ledVars
  BY <1>2 DEF ledVars, LampInv, LedTypeOK, PostsAreCurrent,
              LampFollows, Quiet, Settled
<1> QED BY <1>1, <1>2, CallLamp DEF LedNext

\* The queue never holds more commands than it has room for.
THEOREM LampTypeCorrect == LedSpec => []LedTypeOK
<1>1. LampInv => LedTypeOK
  BY DEF LampInv
<1> QED BY InitLamp, LampStep, <1>1, PTL DEF LedSpec

\* For any number of callers, however they preempt each other and the LED
\* thread: the lamp ends up as reported, unless the last command found the queue
\* full or the last call began while another was about to post.
THEOREM LampShowsState == LedSpec => []LampFollows
<1>1. LampInv => LampFollows
  BY DEF LampInv
<1> QED BY InitLamp, LampStep, <1>1, PTL DEF LedSpec
=============================================================================
