----------------------------- MODULE LedControl -----------------------------
(***************************************************************************)
(* The lamp of STM32/applications/onenet_recv.c: set_led_status, called by *)
(* the MQTT callback and by the face unit's UART thread, records the state *)
(* and posts a command to the message queue of the LED thread.             *)
(*                                                                         *)
(* Scheduling.  A caller is named by its priority (8 for the UART thread,  *)
(* 10 for the MQTT thread; a smaller number preempts a larger one) and     *)
(* does not block inside the call: it runs only while every caller above   *)
(* it is outside.  The LED thread (priority 22) runs while all are.        *)
(***************************************************************************)
EXTENDS Naturals, Sequences

CONSTANTS
  Callers,   \* the priorities of the threads that call set_led_status
  Capacity   \* the length of the message queue

ASSUME CallersAssumption  == Callers \subseteq Nat
ASSUME CapacityAssumption == Capacity \in Nat \ {0}

VARIABLES
  g_led_state, \* the state that is reported to the cloud
  g_led_mq,    \* the commands posted and not yet received
  pin,         \* the lamp is lit
  caller_pc,   \* where each caller is
  cmd,         \* the command it is about to post
  dropped,     \* history: the last command posted found the queue full
  overtaken    \* history: the last call began while another was about to post

ledVars == <<g_led_state, g_led_mq, pin, caller_pc, cmd, dropped, overtaken>>

LedTypeOK ==
  /\ g_led_state \in BOOLEAN
  /\ g_led_mq \in Seq(BOOLEAN) /\ Len(g_led_mq) <= Capacity
  /\ pin \in BOOLEAN
  /\ caller_pc \in [Callers -> {"out", "read", "send"}]
  /\ cmd \in [Callers -> BOOLEAN]
  /\ dropped \in BOOLEAN /\ overtaken \in BOOLEAN

LedInit ==
  /\ g_led_state = FALSE
  /\ g_led_mq = <<>>
  /\ pin = FALSE
  /\ caller_pc = [c \in Callers |-> "out"]
  /\ cmd = [c \in Callers |-> FALSE]
  /\ dropped = FALSE /\ overtaken = FALSE

Undisturbed(c) == \A d \in Callers : d < c => caller_pc[d] = "out"

\* The assignment under g_state_mutex.
SetState(c, status) ==
  /\ caller_pc[c] = "out" /\ Undisturbed(c)
  /\ g_led_state' = status
  /\ caller_pc' = [caller_pc EXCEPT ![c] = "read"]
  /\ overtaken' = (\E d \in Callers : caller_pc[d] = "send")
  /\ UNCHANGED <<g_led_mq, pin, cmd, dropped>>

\* Mutant: the command is the opposite of the state.
ReadInverted(c) ==
  /\ caller_pc[c] = "read" /\ Undisturbed(c)
  /\ cmd' = [cmd EXCEPT ![c] = ~g_led_state]
  /\ caller_pc' = [caller_pc EXCEPT ![c] = "send"]
  /\ UNCHANGED <<g_led_state, g_led_mq, pin, dropped, overtaken>>

\* The state is read again after the mutex has been released.
ReadState(c) ==
  /\ caller_pc[c] = "read" /\ Undisturbed(c)
  /\ cmd' = [cmd EXCEPT ![c] = g_led_state]
  /\ caller_pc' = [caller_pc EXCEPT ![c] = "send"]
  /\ UNCHANGED <<g_led_state, g_led_mq, pin, dropped, overtaken>>

\* Mutant: the queue takes a message more than it holds.
SendBeyondCapacity(c) ==
  /\ caller_pc[c] = "send" /\ Undisturbed(c)
  /\ dropped' = (Len(g_led_mq) > Capacity)
  /\ g_led_mq' = IF dropped' THEN g_led_mq ELSE Append(g_led_mq, cmd[c])
  /\ caller_pc' = [caller_pc EXCEPT ![c] = "out"]
  /\ UNCHANGED <<g_led_state, pin, cmd, overtaken>>

\* rt_mq_send does not wait, and a full queue is not noticed by its caller.
SendCommand(c) ==
  /\ caller_pc[c] = "send" /\ Undisturbed(c)
  /\ dropped' = (Len(g_led_mq) = Capacity)
  /\ g_led_mq' = IF dropped' THEN g_led_mq ELSE Append(g_led_mq, cmd[c])
  /\ caller_pc' = [caller_pc EXCEPT ![c] = "out"]
  /\ UNCHANGED <<g_led_state, pin, cmd, overtaken>>

set_led_status(c) ==
  (\E status \in BOOLEAN : SetState(c, status)) \/ ReadState(c) \/ SendCommand(c)

Quiet == \A c \in Callers : caller_pc[c] = "out"

led_thread_entry ==
  /\ Quiet
  /\ g_led_mq # <<>>
  /\ pin' = Head(g_led_mq)
  /\ g_led_mq' = Tail(g_led_mq)
  /\ UNCHANGED <<g_led_state, caller_pc, cmd, dropped, overtaken>>

LedNext == led_thread_entry \/ \E c \in Callers : set_led_status(c)

LedSpec == LedInit /\ [][LedNext]_ledVars

-----------------------------------------------------------------------------
\* What the lamp will show when the queue has been worked off.
Settled == IF g_led_mq = <<>> THEN pin ELSE g_led_mq[Len(g_led_mq)]

\* The lamp is on its way to the reported state, however calls and receptions
\* interleave, unless the last command was dropped or the last call began while
\* another one had read the state and not posted it (onenet_recv.c:68-69).
LampFollows == Quiet /\ ~dropped /\ ~overtaken => Settled = g_led_state
=============================================================================
