--------------------------- MODULE DoorLockProofs ---------------------------
(***************************************************************************)
(* Theorems about DoorLock, for every set of calls the firmware may make.  *)
(* One inductive invariant, IInv, carries all of them: it ties the         *)
(* reported state, the relay and the timer to the place where the door     *)
(* thread is, and the history of requests to the event object.             *)
(***************************************************************************)
EXTENDS DoorLock, TLAPS

\* A suspended receiver has no bit left unread; a batch is never empty.
EventInv ==
  /\ pc = "wait" => door_event = {}
  /\ pc = "handle" => events # {}

\* The reported state is a function of where the thread is, but for the
\* places where it is about to receive or to dispatch.
StateInv ==
  /\ pc \in {"relayOff", "sweep", "stopTimer", "setLocked"} <=> g_door_state = "CLOSING"
  /\ pc \in {"relayOn", "setOpen"} <=> g_door_state = "OPENING"
  /\ pc \in {"restart", "start"} => g_door_state = "OPEN"
  /\ pc = "resend" => g_door_state = "LOCKED"

\* ReportIsTrue, and what the relay is on the way from one state to the next.
RelayInv ==
  /\ ReportIsTrue
  /\ g_door_state = "OPENING" => (relay <=> pc = "setOpen")

TimerInv ==
  /\ TimerOnlyWhenOpen
  /\ pc = "setLocked" => ~door_timer

\* Where the door rests open without a timer, an alarm opening has been
\* served, or a close has been sent and not yet been handled.
StrandInv ==
  /\ pc \in {"relayOn", "setOpen", "restart", "start"} => events \cap {"OPEN_ALARM"} \subseteq causes
  /\ g_door_state = "OPEN" /\ ~door_timer /\ pc \in {"wait", "recv", "handle"} =>
       \/ "OPEN_ALARM" \in causes
       \/ "CLOSE" \in door_event
       \/ pc = "handle" /\ "CLOSE" \in events

\* RequestsConserved, and the half of it that holds of the alarm's request.
RequestInv ==
  /\ RequestsConserved
  /\ door_event \cap OpenEvents \subseteq asked
  /\ InFlight \cap OpenEvents \subseteq owed

IInv == TypeOK /\ EventInv /\ StateInv /\ RelayInv /\ TimerInv /\ StrandInv /\ RequestInv

LEMMA InitIInv == Init => IInv
  BY DEF Init, IInv, TypeOK, EventInv, StateInv, RelayInv, TimerInv, StrandInv, RequestInv,
         ReportIsTrue, TimerOnlyWhenOpen, RequestsConserved, InFlight,
         OpenEvents, Event, DoorState, DoorPc

-----------------------------------------------------------------------------
(***************************************************************************)
(* One lemma per conjunct.  Each names the steps that can disturb it; the  *)
(* others leave its variables alone.                                       *)
(***************************************************************************)
LEMMA TypeStep == TypeOK /\ [Next]_vars => TypeOK'
  <1> SUFFICES ASSUME TypeOK, [Next]_vars PROVE TypeOK'
    OBVIOUS
  <1> USE DEF TypeOK, Event, OpenEvents, DoorState, DoorPc, doorVars, keyVars, requests
  <1>1. CASE rt_event_recv
    BY <1>1 DEF rt_event_recv
  <1>2. CASE CloseBegin \/ relay_off \/ SweepDone \/ StopTimer \/ SetLocked \/ Resend
    BY <1>2 DEF CloseBegin, CloseTo, relay_off, SweepDone, StopTimer, SetLocked, Resend, ResendOf
  <1>3. CASE OpenBegin \/ relay_on \/ SetOpen \/ RestartStop \/ RestartStart
    BY <1>3 DEF OpenBegin, relay_on, SetOpen, RestartStop, RestartStart
  <1>4. CASE door_timer_callback
    BY <1>4 DEF door_timer_callback, Send, rt_event_send
  <1>5. CASE key_scan_entry
    <2>1. CASE KeyScan \/ KeyReleased
      BY <2>1 DEF KeyScan, KeyReleased
    <2>2. CASE KeyDebounced /\ button
      BY <2>2 DEF KeyDebounced, Send, rt_event_send
    <2>3. CASE KeyDebounced /\ ~button
      BY <2>3 DEF KeyDebounced
    <2>4. QED
      BY <1>5, <2>1, <2>2, <2>3 DEF key_scan_entry
  <1>6. CASE Button
    BY <1>6 DEF Button
  <1>7. ASSUME NEW e \in Calls, ApiCall(e) PROVE TypeOK'
    BY <1>7, CallsAssumption DEF ApiCall, Send, rt_event_send, ApiEvents
  <1>8. CASE UNCHANGED vars
    BY <1>8 DEF vars
  <1>9. QED
    BY <1>1, <1>2, <1>3, <1>4, <1>5, <1>6, <1>7, <1>8 DEF Next, door_lock_entry

(***************************************************************************)
(* What a step outside the door thread does to the door: it sends the bits *)
(* new (none, for a button move or a stuttering step), which wake the      *)
(* thread or are added to those set; an expiring timer sends CLOSE.        *)
(***************************************************************************)
OnlySends(new) ==
  /\ UNCHANGED <<g_door_state, relay, servo, causes>>
  /\ door_timer' => door_timer
  /\ door_timer /\ ~door_timer' => "CLOSE" \in new
  /\ IF pc = "wait" /\ new # {}
       THEN /\ pc' = "handle" /\ events' = new /\ UNCHANGED door_event
            /\ owed' = owed \cup (new \cap OpenEvents) /\ UNCHANGED asked
       ELSE /\ UNCHANGED <<pc, events, owed>>
            /\ door_event' = door_event \cup new
            /\ asked' = asked \cup (new \cap OpenEvents)

LEMMA OthersOnlySend ==
  ASSUME TypeOK, [Next]_vars, ~door_lock_entry
  PROVE  \E new \in SUBSET Event : OnlySends(new)
  <1> USE DEF TypeOK, Event, OpenEvents, OnlySends, doorVars, keyVars, requests, Send, rt_event_send
  <1>1. CASE door_timer_callback
    <2>1. OnlySends({"CLOSE"})
      BY <1>1 DEF door_timer_callback
    <2>2. QED
      BY <2>1
  <1>2. CASE KeyDebounced /\ button
    <2>1. OnlySends({"KEY"})
      BY <1>2 DEF KeyDebounced
    <2>2. QED
      BY <2>1
  <1>3. ASSUME NEW e \in Calls, ApiCall(e)
        PROVE  \E new \in SUBSET Event : OnlySends(new)
    <2>1. e \in Event
      BY CallsAssumption DEF ApiEvents
    <2>2. OnlySends({e})
      BY <1>3, <2>1 DEF ApiCall
    <2>3. QED
      BY <2>1, <2>2
  <1>4. CASE KeyScan \/ (KeyDebounced /\ ~button) \/ KeyReleased \/ Button \/ UNCHANGED vars
    <2>1. OnlySends({})
      BY <1>4 DEF KeyScan, KeyDebounced, KeyReleased, Button, vars
    <2>2. QED
      BY <2>1
  <1>5. QED
    BY <1>1, <1>2, <1>3, <1>4 DEF Next, key_scan_entry

LEMMA EventStep == TypeOK /\ EventInv /\ [Next]_vars => EventInv'
  <1> SUFFICES ASSUME TypeOK, EventInv, [Next]_vars PROVE EventInv'
    OBVIOUS
  <1>1. CASE door_lock_entry
    BY <1>1 DEF EventInv, door_lock_entry, rt_event_recv, CloseBegin, CloseTo, relay_off,
      SweepDone, StopTimer, SetLocked, Resend, ResendOf, OpenBegin, relay_on, SetOpen,
      RestartStop, RestartStart
  <1>2. CASE ~door_lock_entry
    BY <1>2, OthersOnlySend DEF EventInv, OnlySends
  <1>3. QED
    BY <1>1, <1>2

LEMMA StateStep == TypeOK /\ StateInv /\ [Next]_vars => StateInv'
  <1> SUFFICES ASSUME TypeOK, StateInv, [Next]_vars PROVE StateInv'
    OBVIOUS
  <1>1. CASE rt_event_recv
    BY <1>1 DEF StateInv, rt_event_recv
  <1>2. CASE CloseBegin \/ relay_off \/ SweepDone \/ StopTimer \/ SetLocked \/ Resend
    BY <1>2 DEF TypeOK, DoorState, StateInv, CloseBegin, CloseTo, relay_off, SweepDone, StopTimer, SetLocked,
      Resend, ResendOf
  <1>3. CASE OpenBegin \/ relay_on \/ SetOpen \/ RestartStop \/ RestartStart
    BY <1>3 DEF TypeOK, DoorState, StateInv, OpenBegin, relay_on, SetOpen, RestartStop, RestartStart
  <1>4. CASE ~door_lock_entry
    BY <1>4, OthersOnlySend DEF StateInv, OnlySends
  <1>5. QED
    BY <1>1, <1>2, <1>3, <1>4 DEF door_lock_entry

LEMMA RelayStep == TypeOK /\ StateInv /\ RelayInv /\ [Next]_vars => RelayInv'
  <1> SUFFICES ASSUME TypeOK, StateInv, RelayInv, [Next]_vars PROVE RelayInv'
    OBVIOUS
  <1> USE DEF RelayInv, ReportIsTrue, StateInv
  <1>1. CASE rt_event_recv
    BY <1>1 DEF rt_event_recv
  <1>2. CASE CloseBegin \/ relay_off \/ SweepDone \/ StopTimer \/ SetLocked \/ Resend
    BY <1>2 DEF CloseBegin, CloseTo, relay_off, SweepDone, StopTimer, SetLocked, Resend, ResendOf
  <1>3. CASE OpenBegin \/ relay_on \/ SetOpen \/ RestartStop \/ RestartStart
    BY <1>3 DEF OpenBegin, relay_on, SetOpen, RestartStop, RestartStart
  <1>4. CASE ~door_lock_entry
    BY <1>4, OthersOnlySend DEF OnlySends
  <1>5. QED
    BY <1>1, <1>2, <1>3, <1>4 DEF door_lock_entry

LEMMA TimerStep == TypeOK /\ StateInv /\ TimerInv /\ [Next]_vars => TimerInv'
  <1> SUFFICES ASSUME TypeOK, StateInv, TimerInv, [Next]_vars PROVE TimerInv'
    OBVIOUS
  <1> USE DEF TimerInv, TimerOnlyWhenOpen, StateInv
  <1>1. CASE rt_event_recv
    BY <1>1 DEF rt_event_recv
  <1>2. CASE CloseBegin \/ relay_off \/ SweepDone \/ StopTimer \/ SetLocked \/ Resend
    BY <1>2 DEF CloseBegin, CloseTo, relay_off, SweepDone, StopTimer, SetLocked, Resend, ResendOf
  <1>3. CASE OpenBegin \/ relay_on \/ SetOpen \/ RestartStop \/ RestartStart
    BY <1>3 DEF OpenBegin, relay_on, SetOpen, RestartStop, RestartStart
  <1>4. CASE ~door_lock_entry
    BY <1>4, OthersOnlySend DEF OnlySends
  <1>5. QED
    BY <1>1, <1>2, <1>3, <1>4 DEF door_lock_entry

LEMMA StrandStep == TypeOK /\ StateInv /\ TimerInv /\ StrandInv /\ [Next]_vars => StrandInv'
  <1> SUFFICES ASSUME TypeOK, StateInv, TimerInv, StrandInv, [Next]_vars PROVE StrandInv'
    OBVIOUS
  <1> USE DEF StrandInv, StateInv, NoAuto
  <1>1. CASE rt_event_recv
    BY <1>1 DEF rt_event_recv
  <1>2. CASE CloseBegin \/ relay_off \/ SweepDone \/ StopTimer \/ SetLocked \/ Resend
    BY <1>2 DEF CloseBegin, CloseTo, relay_off, SweepDone, StopTimer, SetLocked, Resend, ResendOf
  <1>3. CASE OpenBegin
    BY <1>3 DEF OpenBegin
  <1>4. CASE relay_on \/ SetOpen \/ RestartStop \/ RestartStart
    BY <1>4 DEF relay_on, SetOpen, RestartStop, RestartStart, requests
  <1>5. CASE ~door_lock_entry
    BY <1>5, OthersOnlySend DEF OnlySends
  <1>6. QED
    BY <1>1, <1>2, <1>3, <1>4, <1>5 DEF door_lock_entry

LEMMA RequestStep ==
  TypeOK /\ EventInv /\ StateInv /\ RequestInv /\ [Next]_vars => RequestInv'
  <1> SUFFICES ASSUME TypeOK, EventInv, StateInv, RequestInv, [Next]_vars PROVE RequestInv'
    OBVIOUS
  <1> USE DEF RequestInv, RequestsConserved, InFlight, OpenEvents
  <1>1. CASE rt_event_recv
    BY <1>1 DEF rt_event_recv
  <1>2. CASE CloseBegin \/ relay_off \/ SweepDone \/ StopTimer \/ SetLocked
    BY <1>2 DEF CloseBegin, CloseTo, relay_off, SweepDone, StopTimer, SetLocked, requests
  <1>3. CASE Resend
    BY <1>3 DEF Resend, ResendOf
  <1>4. CASE OpenBegin
    BY <1>4 DEF OpenBegin
  <1>5. CASE relay_on \/ SetOpen \/ RestartStop \/ RestartStart
    BY <1>5 DEF relay_on, SetOpen, RestartStop, RestartStart, requests
  <1>6. CASE ~door_lock_entry
    BY <1>6, OthersOnlySend DEF OnlySends
  <1>7. QED
    BY <1>1, <1>2, <1>3, <1>4, <1>5, <1>6 DEF door_lock_entry

-----------------------------------------------------------------------------
\* The inductive invariant holds in every state of every execution.
THEOREM Invariance == Spec => []IInv
  <1>1. IInv /\ [Next]_vars => IInv'
    BY TypeStep, EventStep, StateStep, RelayStep, TimerStep, StrandStep, RequestStep DEF IInv
  <1>2. QED
    BY InitIInv, <1>1, PTL DEF Spec

\* Every variable keeps to its type.
THEOREM TypeCorrect == Spec => []TypeOK
  BY Invariance, PTL DEF IInv

\* The reported door state tells the truth about the lock (door_lock_get_state
\* and door_lock_is_open, and with them the cloud and the face unit).
THEOREM ReportCorrect == Spec => []ReportIsTrue
  BY Invariance, PTL DEF IInv, RelayInv

\* The auto-close timer is never armed on a locked door.
THEOREM TimerCorrect == Spec => []TimerOnlyWhenOpen
  BY Invariance, PTL DEF IInv, TimerInv

\* Only an alarm opening leaves a door open with nothing to close it.
THEOREM NeverStranded == Spec => []NoStrandedOpen
  <1>1. IInv => NoStrandedOpen
    BY DEF IInv, EventInv, StrandInv, NoStrandedOpen
  <1>2. QED
    BY Invariance, <1>1, PTL

\* No key press and no open call is lost or served twice.
THEOREM Conserved == Spec => []RequestsConserved
  BY Invariance, PTL DEF IInv, RequestInv

\* The door is unlocked only to serve an unserved request.
THEOREM UnlockJustified == Spec => UnlockOnlyWhenAsked
  <1>1. IInv /\ [Next]_vars =>
          [g_door_state = "LOCKED" /\ g_door_state' = "OPENING" => owed \cap events # {}]_vars
    <2> SUFFICES ASSUME IInv, [Next]_vars, g_door_state = "LOCKED", g_door_state' = "OPENING"
                 PROVE  owed \cap events # {}
      OBVIOUS
    <2>1. OpenBegin
      BY OthersOnlySend
      DEF IInv, OnlySends, door_lock_entry, rt_event_recv, CloseBegin, CloseTo, relay_off,
          SweepDone, StopTimer, SetLocked, Resend, ResendOf, relay_on, SetOpen, RestartStop,
          RestartStart
    <2>2. events # {} /\ events \subseteq OpenEvents
      BY <2>1 DEF IInv, TypeOK, EventInv, OpenBegin, Event
    <2>3. QED
      BY <2>1, <2>2 DEF IInv, RequestInv, InFlight, OpenBegin
  <1>2. QED
    BY Invariance, <1>1, PTL DEF Spec, UnlockOnlyWhenAsked

-----------------------------------------------------------------------------
(***************************************************************************)
(* The driver implements the safety part of its contract.                  *)
(***************************************************************************)
LEMMA ContractStep == IInv /\ [Next]_vars => [Contract!Next]_(Contract!contractVars)
  <1> SUFFICES ASSUME IInv, [Next]_vars
               PROVE  Contract!Next \/ UNCHANGED Contract!contractVars
    OBVIOUS
  <1> USE DEF Contract!contractVars, IInv, RelayInv, ReportIsTrue, StateInv
  \* Receiving and resending move requests between asked and owed.
  <1>1. CASE rt_event_recv \/ Resend
    BY <1>1 DEF rt_event_recv, Resend, ResendOf
  <1>2. CASE relay_off
    <2>1. Contract!Lock
      BY <1>2 DEF relay_off, requests, Contract!Lock
    <2>2. QED
      BY <2>1 DEF Contract!Next
  <1>3. CASE OpenBegin
    <2>1. events # {} /\ events \subseteq OpenEvents /\ events \subseteq owed
      BY <1>3 DEF OpenBegin, TypeOK, EventInv, RequestInv, InFlight, Event
    <2>2. asked \cup owed # {} /\ asked' \cup owed' \subseteq asked \cup owed
      BY <1>3, <2>1 DEF OpenBegin
    <2>3. CASE g_door_state = "LOCKED"
      BY <1>3, <2>2, <2>3 DEF OpenBegin, Contract!Release, Contract!Next
    <2>4. CASE g_door_state = "OPEN"
      BY <1>3, <2>2, <2>4 DEF OpenBegin, Contract!Attend, Contract!Next
    <2>5. g_door_state \in {"LOCKED", "OPEN"}
      BY <1>3 DEF OpenBegin, TypeOK, DoorState
    <2>6. QED
      BY <2>3, <2>4, <2>5
  <1>4. CASE CloseBegin \/ SweepDone \/ StopTimer \/ SetLocked
    BY <1>4 DEF CloseBegin, CloseTo, SweepDone, StopTimer, SetLocked, requests
  <1>5. CASE relay_on \/ SetOpen \/ RestartStop \/ RestartStart
    BY <1>5 DEF relay_on, SetOpen, RestartStop, RestartStart, requests
  <1>6. CASE ~door_lock_entry
    <2>1. UNCHANGED <<g_door_state, relay>>
      BY <1>6, OthersOnlySend DEF OnlySends
    <2>2. CASE KeyDebounced /\ button
      <3>1. Contract!Ask("KEY")
        BY <2>1, <2>2 DEF KeyDebounced, Send, OpenEvents, Contract!Ask
      <3>2. QED
        BY <3>1 DEF Contract!Next, OpenEvents
    <2>3. ASSUME NEW e \in Calls, ApiCall(e)
          PROVE  Contract!Next \/ UNCHANGED Contract!contractVars
      <3>1. CASE e = "CLOSE"
        BY <2>1, <2>3, <3>1 DEF ApiCall, Send, OpenEvents
      <3>2. CASE e \in OpenEvents
        <4>1. Contract!Ask(e)
          BY <2>1, <2>3, <3>2 DEF ApiCall, Send, Contract!Ask
        <4>2. QED
          BY <4>1, <3>2 DEF Contract!Next
      <3>3. QED
        BY <3>1, <3>2, CallsAssumption DEF ApiEvents, OpenEvents
    <2>4. CASE door_timer_callback
      BY <2>1, <2>4 DEF door_timer_callback, Send, OpenEvents
    <2>5. CASE KeyScan \/ (KeyDebounced /\ ~button) \/ KeyReleased \/ Button \/ UNCHANGED vars
      BY <2>1, <2>5 DEF KeyScan, KeyDebounced, KeyReleased, Button, vars, requests
    <2>6. QED
      BY <1>6, <2>2, <2>3, <2>4, <2>5 DEF Next, key_scan_entry
  <1>7. QED
    BY <1>1, <1>2, <1>3, <1>4, <1>5, <1>6 DEF door_lock_entry

\* The door lock implements its contract: it never releases the bolt
\* unasked and forgets no request while the bolt is locked.
THEOREM Refinement == Spec => Contract!Spec
  <1>1. Init => Contract!Init
    BY DEF Init, Contract!Init
  <1>2. QED
    BY Invariance, ContractStep, <1>1, PTL DEF Spec, Contract!Spec

-----------------------------------------------------------------------------
(***************************************************************************)
(* How long a request can wait.  That it is served is a liveness property; *)
(* how many steps of the door thread may come before is not.  The worst    *)
(* case is a request that just misses a batch, is put back by a closing    *)
(* and then by a CLOSE that arrived during it.                             *)
(***************************************************************************)
Kept == {"KEY", "OPEN"}

Pending(r) == r \in asked \cup owed

\* The batch that holds the request is opened for.
Serves(r) == OpenBegin /\ r \in events

\* The steps the door thread has still to make until it serves a pending r.
StepsToServe(r) ==
  CASE pc = "wait"      -> 0
    [] pc = "resend"    -> IF "CLOSE" \in door_event THEN 6 ELSE 3
    [] pc = "setLocked" -> 7
    [] pc = "stopTimer" -> 8
    [] pc = "sweep"     -> 9
    [] pc = "relayOff"  -> 10
    [] pc = "start"     -> 13
    [] pc = "restart"   -> 14
    [] pc = "setOpen"   -> 15
    [] pc = "relayOn"   -> 16
    [] pc = "recv"      -> IF g_door_state = "OPEN" THEN 12
                           ELSE IF "CLOSE" \in door_event THEN 5 ELSE 2
    [] pc = "handle"    -> IF "CLOSE" \in events
                             THEN IF g_door_state = "OPEN" THEN 11 ELSE 4
                             ELSE IF r \in events THEN 1 ELSE 17

ServedWithin == \A r \in Kept : Pending(r) => StepsToServe(r) \in 1..17

\* Every step of the door thread serves the request or brings that nearer, and
\* no key press, expiry or call, however many there are, puts it off.
NothingPutsOff ==
  [][\A r \in Kept : Pending(r) /\ ~Serves(r) =>
       IF door_lock_entry
         THEN StepsToServe(r)' < StepsToServe(r)
         ELSE StepsToServe(r)' = StepsToServe(r)]_vars

\* On a locked door no CLOSE can come between a send and the next receive: the
\* timer is off, and the callers run only while the door thread is blocked.
LEMMA NoCloseWhileLocked ==
  ASSUME IInv, [Next]_vars, ~door_lock_entry,
         ~DoorThreadBlocked, g_door_state = "LOCKED"
  PROVE  "CLOSE" \in door_event' <=> "CLOSE" \in door_event
  <1>1. ~door_timer
    BY DEF IInv, TimerInv, TimerOnlyWhenOpen
  <1>2. QED
    BY <1>1 DEF Next, door_timer_callback, key_scan_entry, KeyScan, KeyDebounced,
      KeyReleased, Button, ApiCall, DoorThreadBlocked, Send, rt_event_send, vars, doorVars

\* While the batch of a locked door is dispatched, no CLOSE waits behind it.
LastClose == pc = "handle" /\ g_door_state = "LOCKED" => "CLOSE" \notin door_event

LEMMA LastCloseStep == IInv /\ LastClose /\ [Next]_vars => LastClose'
  <1> SUFFICES ASSUME IInv, LastClose, [Next]_vars, pc' = "handle", g_door_state' = "LOCKED"
               PROVE  "CLOSE" \notin door_event'
    BY DEF LastClose
  <1>1. CASE door_lock_entry
    BY <1>1 DEF door_lock_entry, rt_event_recv, CloseBegin, CloseTo, relay_off, SweepDone,
      StopTimer, SetLocked, Resend, ResendOf, OpenBegin, relay_on, SetOpen, RestartStop,
      RestartStart
  <1>2. CASE ~door_lock_entry /\ pc = "wait"
    <2>1. door_event' = {}
      BY <1>2, OthersOnlySend DEF OnlySends, IInv, EventInv
    <2>2. QED
      BY <2>1
  <1>3. CASE ~door_lock_entry /\ pc # "wait"
    <2>1. pc = "handle" /\ g_door_state = "LOCKED"
      BY <1>3, OthersOnlySend DEF OnlySends, IInv
    <2>2. QED
      BY <1>3, <2>1, NoCloseWhileLocked DEF LastClose, DoorThreadBlocked
  <1>4. QED
    BY <1>1, <1>2, <1>3

\* Where a pending request is.
LEMMA PendingWhere ==
  ASSUME IInv, NEW r \in Kept, Pending(r)
  PROVE  /\ pc # "wait"
         /\ pc = "recv" => r \in door_event
  BY DEF IInv, EventInv, RequestInv, RequestsConserved, InFlight, Pending, Kept

LEMMA StepsTyped == IInv => ServedWithin
  <1> SUFFICES ASSUME IInv, NEW r \in Kept, Pending(r) PROVE StepsToServe(r) \in 1..17
    BY DEF ServedWithin
  <1>1. pc # "wait"
    BY PendingWhere
  <1>2. QED
    BY <1>1 DEF StepsToServe, IInv, TypeOK, DoorPc

LEMMA OthersPutNothingOff ==
  ASSUME IInv, [Next]_vars, ~door_lock_entry, NEW r \in Kept, Pending(r)
  PROVE  StepsToServe(r)' = StepsToServe(r)
  <1>1. pc # "wait"
    BY PendingWhere
  <1>2. UNCHANGED <<pc, events, g_door_state>>
    BY <1>1, OthersOnlySend DEF OnlySends, IInv
  <1>3. CASE pc \in {"resend", "recv"} /\ g_door_state # "OPEN"
    <2>1. g_door_state = "LOCKED"
      BY <1>3 DEF IInv, TypeOK, DoorState, StateInv
    <2>2. "CLOSE" \in door_event' <=> "CLOSE" \in door_event
      BY <1>3, <2>1, NoCloseWhileLocked DEF DoorThreadBlocked
    <2>3. QED
      BY <1>2, <1>3, <2>2 DEF StepsToServe
  <1>4. CASE ~(pc \in {"resend", "recv"} /\ g_door_state # "OPEN")
    <2>1. pc # "resend"
      BY <1>4 DEF IInv, StateInv
    <2>2. QED
      BY <1>1, <1>2, <1>4, <2>1 DEF StepsToServe, IInv, TypeOK, DoorPc
  <1>5. QED
    BY <1>3, <1>4

LEMMA DoorThreadAdvances ==
  ASSUME IInv, LastClose, door_lock_entry, NEW r \in Kept, Pending(r), ~Serves(r)
  PROVE  StepsToServe(r)' < StepsToServe(r)
  <1> USE DEF StepsToServe
  <1>1. CASE rt_event_recv
    <2>1. r \in door_event
      BY <1>1, PendingWhere DEF rt_event_recv
    <2>2. QED
      BY <1>1, <2>1 DEF rt_event_recv
  <1>2. CASE CloseBegin
    <2>1. g_door_state \in {"OPEN", "LOCKED"}
      BY <1>2 DEF CloseBegin, CloseTo, IInv, TypeOK, DoorState, StateInv
    <2>2. QED
      BY <1>2, <2>1 DEF CloseBegin, CloseTo, LastClose
  <1>3. CASE relay_off \/ SweepDone \/ StopTimer \/ SetLocked
    BY <1>3 DEF relay_off, SweepDone, StopTimer, SetLocked
  <1>4. CASE Resend
    BY <1>4 DEF Resend, ResendOf, IInv, StateInv
  <1>5. CASE OpenBegin
    BY <1>5 DEF OpenBegin, Serves
  <1>6. CASE relay_on \/ SetOpen \/ RestartStop \/ RestartStart
    BY <1>6 DEF relay_on, SetOpen, RestartStop, RestartStart, IInv, StateInv
  <1>7. QED
    BY <1>1, <1>2, <1>3, <1>4, <1>5, <1>6 DEF door_lock_entry

\* A key press or an open call is served within 17 steps of the door thread, in
\* whatever state of the door it comes and whatever comes meanwhile: closings
\* put it back (door_lock.c:152-155), but never more than twice.
THEOREM ServedSoon == Spec => []ServedWithin /\ NothingPutsOff
  <1>1. IInv /\ LastClose /\ [Next]_vars =>
          [\A r \in Kept : Pending(r) /\ ~Serves(r) =>
             IF door_lock_entry
               THEN StepsToServe(r)' < StepsToServe(r)
               ELSE StepsToServe(r)' = StepsToServe(r)]_vars
    BY OthersPutNothingOff, DoorThreadAdvances
  <1>2. Init => LastClose
    BY DEF Init, LastClose
  <1>3. QED
    BY Invariance, StepsTyped, LastCloseStep, <1>1, <1>2, PTL DEF Spec, NothingPutsOff
=============================================================================
