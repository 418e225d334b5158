------------------------------ MODULE DoorLock ------------------------------
(***************************************************************************)
(* The door-lock driver, STM32/applications/door_lock.c: the door thread   *)
(* (priority 5), the key scanning thread (priority 4), the one-shot        *)
(* auto-close timer (its callback runs in the soft-timer thread, priority  *)
(* 4) and the non-blocking calls of the other threads, all of which only   *)
(* set bits of one RT-Thread event object.                                 *)
(*                                                                         *)
(* Scheduling.  The board has one core and the kernel is strictly          *)
(* preemptive, so the key and timer threads may run between any two        *)
(* statements of the door thread, while the callers of the API (priorities *)
(* 8 to 20) run only where the door thread is blocked: in rt_event_recv,   *)
(* or in the delays of the servo sweep.  A statement of the door thread    *)
(* that touches shared state is a step of its own; the sections under      *)
(* door_mutex contain no blocking call and are one step each.              *)
(*                                                                         *)
(* No code sends DOOR_EVENT_STOP, so the loop's break is unreachable and   *)
(* the module has no stopped state.                                        *)
(***************************************************************************)
EXTENDS Naturals, FiniteSets

CONSTANT Calls \* the API requests that the rest of the firmware makes

OpenEvents == {"KEY", "OPEN", "OPEN_ALARM"}
ApiEvents  == {"OPEN", "OPEN_ALARM", "CLOSE"}
Event      == OpenEvents \cup {"CLOSE"}

ASSUME CallsAssumption == Calls \subseteq ApiEvents

VARIABLES
  pc,            \* where the door thread is
  events,        \* its local copy of the batch it received
  door_event,    \* the bits set in the event object and not yet received
  g_door_state,  \* the state the driver reports
  relay,         \* TRUE when the relay is energised: the lock is released
  servo,         \* the arm that moves the door: "closed", "moving", "open"
  door_timer,    \* TRUE while the auto-close timer is armed
  button,        \* TRUE while the push button is held down
  key_pc,        \* where the key scanning thread is
  asked,         \* history: open requests made and not yet received
  owed,          \* history: open requests received and not yet served
  causes         \* history: requests served since the door was last locked

doorVars == <<pc, events, door_event, g_door_state, relay, servo, door_timer>>
keyVars  == <<button, key_pc>>
requests == <<asked, owed, causes>>
vars     == <<doorVars, keyVars, requests>>

DoorState == {"LOCKED", "OPENING", "OPEN", "CLOSING"}
DoorPc == {"wait", "handle",
           "relayOff", "sweep", "stopTimer", "setLocked", "resend",
           "relayOn", "setOpen", "restart", "start", "recv"}

TypeOK ==
  /\ pc \in DoorPc
  /\ events \subseteq Event
  /\ door_event \subseteq Event
  /\ g_door_state \in DoorState
  /\ relay \in BOOLEAN
  /\ servo \in {"closed", "moving", "open"}
  /\ door_timer \in BOOLEAN
  /\ button \in BOOLEAN
  /\ key_pc \in {"scan", "debounce", "held"}
  /\ asked \subseteq OpenEvents
  /\ owed \subseteq OpenEvents
  /\ causes \subseteq OpenEvents

(***************************************************************************)
(* door_lock_init has driven the relay off and started the threads; the    *)
(* door thread is about to receive for the first time.                     *)
(***************************************************************************)
Init ==
  /\ pc = "recv"
  /\ events = {}
  /\ door_event = {}
  /\ g_door_state = "LOCKED"
  /\ relay = FALSE
  /\ servo = "closed"
  /\ door_timer = FALSE
  /\ button = FALSE
  /\ key_pc = "scan"
  /\ asked = {}
  /\ owed = {}
  /\ causes = {}

-----------------------------------------------------------------------------
(***************************************************************************)
(* The event object.  A set of bits sent to a suspended receiver is handed *)
(* over at once and alone; bits sent while the receiver is busy accumulate *)
(* and make up one batch at the next receive.                              *)
(***************************************************************************)
\* Mutant: a bit handed over to the suspended receiver also stays set.
SendKeepsBits(set) ==
  /\ door_event' = door_event \cup set
  /\ IF pc = "wait"
       THEN pc' = "handle" /\ events' = set
       ELSE UNCHANGED <<pc, events>>

rt_event_send(set) ==
  IF pc = "wait"
    THEN /\ pc' = "handle"
         /\ events' = set
         /\ UNCHANGED door_event
    ELSE /\ door_event' = door_event \cup set
         /\ UNCHANGED <<pc, events>>

rt_event_recv ==
  /\ pc = "recv"
  /\ events' = door_event
  /\ door_event' = {}
  /\ pc' = IF door_event = {} THEN "wait" ELSE "handle"
  /\ owed' = owed \cup asked
  /\ asked' = {}
  /\ UNCHANGED <<g_door_state, relay, servo, door_timer, keyVars, causes>>

Send(e) ==
  /\ rt_event_send({e})
  /\ LET opening == {e} \cap OpenEvents
     IN  IF pc = "wait"
           THEN owed' = owed \cup opening /\ UNCHANGED asked
           ELSE asked' = asked \cup opening /\ UNCHANGED owed

-----------------------------------------------------------------------------
(***************************************************************************)
(* Closing.                                                                *)
(***************************************************************************)
CloseTo(state) ==
  /\ pc = "handle"
  /\ "CLOSE" \in events
  /\ IF g_door_state = "OPEN"
       THEN g_door_state' = state /\ pc' = "relayOff"
       ELSE pc' = "resend" /\ UNCHANGED g_door_state
  /\ UNCHANGED <<events, door_event, relay, servo, door_timer, keyVars, requests>>

\* Mutant: the final state is reported before the relay is driven.
CloseReportsEarly == CloseTo("LOCKED")

CloseBegin == CloseTo("CLOSING")

\* servo_close_door sweeps for about two seconds, or returns at once when the
\* channel is busy or already in place; relay_off ignores what it returns.
relay_off ==
  /\ pc = "relayOff"
  /\ relay' = FALSE
  /\ \/ servo' = "moving" /\ pc' = "sweep"
     \/ pc' = "stopTimer" /\ UNCHANGED servo
  /\ UNCHANGED <<events, door_event, g_door_state, door_timer, keyVars, requests>>

SweepDone ==
  /\ pc = "sweep"
  /\ servo' = "closed"
  /\ pc' = "stopTimer"
  /\ UNCHANGED <<events, door_event, g_door_state, relay, door_timer, keyVars, requests>>

\* Mutant: the timer is left running by a close that was asked for.
TimerLeftRunning ==
  /\ pc = "stopTimer"
  /\ pc' = "setLocked"
  /\ UNCHANGED <<events, door_event, g_door_state, relay, servo, door_timer, keyVars, requests>>

StopTimer ==
  /\ pc = "stopTimer"
  /\ door_timer' = FALSE
  /\ pc' = "setLocked"
  /\ UNCHANGED <<events, door_event, g_door_state, relay, servo, keyVars, requests>>

SetLocked ==
  /\ pc = "setLocked"
  /\ g_door_state' = "LOCKED"
  /\ causes' = {}
  /\ pc' = "resend"
  /\ UNCHANGED <<events, door_event, relay, servo, door_timer, keyVars, asked, owed>>

ResendOf(kept) ==
  /\ pc = "resend"
  /\ door_event' = door_event \cup (events \cap kept)
  /\ asked' = asked \cup owed
  /\ owed' = {}
  /\ pc' = "recv"
  /\ UNCHANGED <<events, g_door_state, relay, servo, door_timer, keyVars, causes>>

\* Mutant: the key press of the batch is forgotten.
ResendOpenOnly == ResendOf({"OPEN"})

\* The open requests of the batch are put back; the alarm's is not among them.
Resend == ResendOf({"KEY", "OPEN"})

-----------------------------------------------------------------------------
(***************************************************************************)
(* Opening.                                                                *)
(***************************************************************************)
NoAuto == "OPEN_ALARM" \in events

OpenBegin ==
  /\ pc = "handle"
  /\ "CLOSE" \notin events
  /\ IF g_door_state = "LOCKED"
       THEN g_door_state' = "OPENING" /\ pc' = "relayOn"
       ELSE pc' = (IF NoAuto THEN "recv" ELSE "restart") /\ UNCHANGED g_door_state
  /\ owed' = owed \ events
  /\ causes' = causes \cup events
  /\ UNCHANGED <<events, door_event, relay, servo, door_timer, keyVars, asked>>

relay_on ==
  /\ pc = "relayOn"
  /\ relay' = TRUE
  /\ servo' = "open"
  /\ pc' = "setOpen"
  /\ UNCHANGED <<events, door_event, g_door_state, door_timer, keyVars, requests>>

SetOpen ==
  /\ pc = "setOpen"
  /\ g_door_state' = "OPEN"
  /\ pc' = "restart"
  /\ UNCHANGED <<events, door_event, relay, servo, door_timer, keyVars, requests>>

\* Mutant: the timer is stopped and never started again.
RestartForgotten ==
  /\ pc = "restart"
  /\ door_timer' = FALSE
  /\ pc' = "recv"
  /\ UNCHANGED <<events, door_event, g_door_state, relay, servo, keyVars, requests>>

\* rt_timer_stop, then rt_timer_start unless the batch holds an alarm opening.
RestartStop ==
  /\ pc = "restart"
  /\ door_timer' = FALSE
  /\ pc' = IF NoAuto THEN "recv" ELSE "start"
  /\ UNCHANGED <<events, door_event, g_door_state, relay, servo, keyVars, requests>>

RestartStart ==
  /\ pc = "start"
  /\ door_timer' = TRUE
  /\ pc' = "recv"
  /\ UNCHANGED <<events, door_event, g_door_state, relay, servo, keyVars, requests>>

door_lock_entry ==
  \/ rt_event_recv
  \/ CloseBegin \/ relay_off \/ SweepDone \/ StopTimer \/ SetLocked \/ Resend
  \/ OpenBegin \/ relay_on \/ SetOpen \/ RestartStop \/ RestartStart

-----------------------------------------------------------------------------
(***************************************************************************)
(* The two threads that preempt the door thread, and its callers.          *)
(***************************************************************************)
\* Mutant: the callback sets a bit that nobody handles.
TimerSendsStop ==
  /\ door_timer
  /\ door_timer' = FALSE
  /\ Send("STOP")
  /\ UNCHANGED <<g_door_state, relay, servo, keyVars, causes>>

door_timer_callback ==
  /\ door_timer
  /\ door_timer' = FALSE
  /\ Send("CLOSE")
  /\ UNCHANGED <<g_door_state, relay, servo, keyVars, causes>>

KeyScan ==
  /\ key_pc = "scan" /\ button
  /\ key_pc' = "debounce"
  /\ UNCHANGED <<doorVars, button, requests>>

\* Mutant: a press is accepted without its event being sent.
KeySwallowed ==
  /\ key_pc = "debounce"
  /\ key_pc' = IF button THEN "held" ELSE "scan"
  /\ UNCHANGED <<doorVars, button, requests>>

KeyDebounced ==
  /\ key_pc = "debounce"
  /\ IF button
       THEN key_pc' = "held" /\ Send("KEY")
       ELSE key_pc' = "scan" /\ UNCHANGED <<pc, events, door_event, asked, owed>>
  /\ UNCHANGED <<g_door_state, relay, servo, door_timer, button, causes>>

KeyReleased ==
  /\ key_pc = "held" /\ ~button
  /\ key_pc' = "scan"
  /\ UNCHANGED <<doorVars, button, requests>>

key_scan_entry == KeyScan \/ KeyDebounced \/ KeyReleased

\* Someone presses or releases the push button.
Button ==
  /\ button' = ~button
  /\ UNCHANGED <<doorVars, key_pc, requests>>

DoorThreadBlocked == pc \in {"wait", "sweep"}

\* door_lock_open, door_lock_open_no_auto_close, door_lock_close.
ApiCall(e) ==
  /\ DoorThreadBlocked
  /\ Send(e)
  /\ UNCHANGED <<g_door_state, relay, servo, door_timer, keyVars, causes>>

Next ==
  \/ door_lock_entry
  \/ door_timer_callback
  \/ key_scan_entry
  \/ Button
  \/ \E e \in Calls : ApiCall(e)

Spec == Init /\ [][Next]_vars

(***************************************************************************)
(* The kernel runs a ready thread of this priority, the sweep is a finite  *)
(* number of delays and an armed timer expires.  People and the network    *)
(* owe nothing.                                                            *)
(***************************************************************************)
Fairness ==
  /\ WF_vars(door_lock_entry)
  /\ WF_vars(door_timer_callback)
  /\ WF_vars(key_scan_entry)

FairSpec == Spec /\ Fairness

-----------------------------------------------------------------------------
(***************************************************************************)
(* Safety.                                                                 *)
(***************************************************************************)
\* What the driver reports is what the lock does: LOCKED only with the relay
\* released, OPEN only with the relay energised, and no statement after
\* relay_off leaves it energised (door_lock_get_state and door_lock_is_open
\* answer the cloud and the face unit from g_door_state).
ReportIsTrue ==
  /\ g_door_state = "LOCKED" => ~relay
  /\ g_door_state = "OPEN" => relay
  /\ g_door_state = "CLOSING" => (relay <=> pc = "relayOff")

\* A timer is armed only for a door that is open or being closed: a timer left
\* armed on a locked door would cut the next opening short.
TimerOnlyWhenOpen == door_timer => g_door_state \in {"OPEN", "CLOSING"}

\* A door waiting for events while open, with no timer to close it, was opened
\* by the gas alarm: no other opening is left without its auto-close.
NoStrandedOpen ==
  pc = "wait" /\ g_door_state = "OPEN" /\ ~door_timer => "OPEN_ALARM" \in causes

\* The batch the door thread holds and has not yet served.
InFlight ==
  IF pc \in {"handle", "relayOff", "sweep", "stopTimer", "setLocked", "resend"}
    THEN events
    ELSE {}

\* Key presses and open calls are neither lost nor replayed: the ones not yet
\* served are exactly those set in the event object and those held in the
\* batch (the resend of door_lock.c:152-155).
RequestsConserved ==
  /\ asked \ {"OPEN_ALARM"} = door_event \cap {"KEY", "OPEN"}
  /\ owed \ {"OPEN_ALARM"} = InFlight \cap {"KEY", "OPEN"}

\* The lock is released only to serve a request that has not been served yet.
UnlockOnlyWhenAsked ==
  [][g_door_state = "LOCKED" /\ g_door_state' = "OPENING" => owed \cap events # {}]_vars

(***************************************************************************)
(* Liveness.                                                               *)
(***************************************************************************)
\* A door that the alarm has not opened locks again by itself, unless requests
\* keep coming.
DoorLocksAgain ==
  g_door_state = "OPEN" /\ "OPEN_ALARM" \notin causes
    ~> \/ g_door_state = "LOCKED"
       \/ (door_event \cup InFlight) \cap OpenEvents # {}

\* A new press of the button, held, opens the door.
HeldButtonOpens ==
  button /\ key_pc # "held" ~> ~button \/ g_door_state = "OPEN"

(***************************************************************************)
(* Refinement: the driver keeps the contract, with the bolt released from  *)
(* the moment the driver decides to open until the relay drops.            *)
(***************************************************************************)
Contract == INSTANCE DoorContract
  WITH Requests <- OpenEvents,
       Kept     <- {"KEY", "OPEN"},
       bolt     <- IF relay \/ g_door_state = "OPENING" THEN "released" ELSE "locked",
       wanted   <- asked \cup owed

\* The driver implements the contract, its liveness included: every key press
\* and every open call releases the bolt, also when it comes in one batch with
\* a close or during the closing sweep.
KeepsContract == Contract!Promise
=============================================================================
