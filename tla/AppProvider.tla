----------------------------- MODULE AppProvider -----------------------------
(***************************************************************************)
(* The two unlocking modes of the mobile application's DeviceProvider:     *)
(* press-and-hold ("press") and fire mode ("auto").  Each sends a first    *)
(* unlock request, and when that is answered starts a periodic timer that  *)
(* sends another every 1.5 s.                                              *)
(*                                                                         *)
(* Dart runs one callback at a time, to its next await.  What interleaves  *)
(* are the fingers of the user, the timers and the answers to the HTTP     *)
(* requests under way, which come in any order and need not tell whether   *)
(* the request had an effect.                                              *)
(***************************************************************************)
EXTENDS Integers, FiniteSetsExt

CONSTANTS
  MaxRequests,  (* bound of the model: HTTP requests of a mode under way    *)
  MaxTimers     (* bound of the model: timers of a mode                     *)

ASSUME AppAssumption == MaxRequests \in Nat \ {0} /\ MaxTimers \in Nat \ {0}

VARIABLES
  finger,     (* the press-and-hold button is touched                       *)
  on,         (* _isUnlocking, _isAutoUnlocking                             *)
  ref,        (* _unlockTimer, _autoUnlockTimer refer to a live timer       *)
  live,       (* live timers of each mode, referred to or not               *)
  sent,       (* requests under way that the device has not seen            *)
  done,       (* requests that took effect and are not answered yet         *)
  open,       (* the door is open                                           *)
  overtaken   (* history: a mode ended while its first request was under way *)

app  == <<on, ref, live, overtaken>>
http == <<sent, done>>
vars == <<finger, app, http, open>>

Mode    == {"press", "auto"}
Kind    == {"first", "tick", "lock"}
Request == Mode \X Kind

UnderWay(m) == MapThenSumSet(LAMBDA k : sent[<<m, k>>] + done[<<m, k>>], Kind)
Firsts(m)   == sent[<<m, "first">>] + done[<<m, "first">>]
Send(r)     == sent' = [sent EXCEPT ![r] = @ + 1]

\* Types; no timer is cancelled twice and a reference is to a live timer.
TypeOK ==
  /\ finger \in BOOLEAN /\ open \in BOOLEAN
  /\ on \in [Mode -> BOOLEAN] /\ ref \in [Mode -> BOOLEAN]
  /\ overtaken \in [Mode -> BOOLEAN]
  /\ live \in [Mode -> Nat]
  /\ sent \in [Request -> Nat] /\ done \in [Request -> Nat]
  /\ \A m \in Mode : ref[m] => live[m] > 0

Init ==
  /\ finger = FALSE /\ open = FALSE
  /\ on = [m \in Mode |-> FALSE] /\ ref = [m \in Mode |-> FALSE]
  /\ live = [m \in Mode |-> 0]
  /\ sent = [r \in Request |-> 0] /\ done = [r \in Request |-> 0]
  /\ overtaken = [m \in Mode |-> FALSE]

\* Bounds: room for another request and, were it a first one, another timer.
CanSend(m)  == UnderWay(m) < MaxRequests
CanStart(m) == CanSend(m) /\ live[m] + Firsts(m) < MaxTimers

-----------------------------------------------------------------------------
(* Ending and starting a mode.                                             *)

\* The mode m is left: the timer its reference names is cancelled.  first is the
\* number of first requests of m still under way afterwards.
Leave(m, first) ==
  /\ on'   = [on   EXCEPT ![m] = FALSE]
  /\ ref'  = [ref  EXCEPT ![m] = FALSE]
  /\ overtaken' = [overtaken EXCEPT ![m] = @ \/ first > 0]

\* Mutants: the timer is not cancelled; it is cancelled whether there is one or not.
Forget(m, first) == Leave(m, first) /\ live' = live
CancelTwice(m, first) == Leave(m, first) /\ live' = [live EXCEPT ![m] = @ - 1]

Cancel(m, first) ==
  /\ Leave(m, first)
  /\ live' = [live EXCEPT ![m] = @ - (IF ref[m] THEN 1 ELSE 0)]

\* The first request of the mode is answered: a new timer, whatever the mode is
\* by now and whatever the reference named before.
StartTimer(m) ==
  /\ ref'  = [ref  EXCEPT ![m] = TRUE]
  /\ live' = [live EXCEPT ![m] = @ + 1]
  /\ UNCHANGED <<on, overtaken>>

-----------------------------------------------------------------------------
(* The user.                                                               *)

\* Finger down on the press-and-hold button.
startUnlockPulse ==
  /\ ~finger /\ finger' = TRUE
  /\ IF on["press"]
     THEN UNCHANGED <<app, sent>>
     ELSE /\ CanStart("press")
          /\ on' = [on EXCEPT !["press"] = TRUE]
          /\ Send(<<"press", "first">>)
          /\ UNCHANGED <<ref, live, overtaken>>
  /\ UNCHANGED <<done, open>>

\* Finger up, or the touch is cancelled.
stopUnlockPulse ==
  /\ finger /\ finger' = FALSE
  /\ IF on["press"]
     THEN CanSend("press") /\ Cancel("press", Firsts("press")) /\ Send(<<"press", "lock">>)
     ELSE UNCHANGED <<app, sent>>
  /\ UNCHANGED <<done, open>>

\* A tap on the fire mode button; entering fire mode ends press-and-hold without
\* a lock request.
autoOff ==
  /\ on["auto"]
  /\ CanSend("auto")
  /\ Cancel("auto", Firsts("auto"))
  /\ Send(<<"auto", "lock">>)
autoOn ==
  /\ ~on["auto"]
  /\ CanStart("auto")
  /\ on' = [m \in Mode |-> m = "auto"]
  /\ ref' = [ref EXCEPT !["press"] = @ /\ ~on["press"]]
  /\ live' = [live EXCEPT !["press"] =
                @ - (IF on["press"] /\ ref["press"] THEN 1 ELSE 0)]
  /\ overtaken' = [overtaken EXCEPT !["press"] =
                     @ \/ (on["press"] /\ Firsts("press") > 0)]
  /\ Send(<<"auto", "first">>)
toggleAutoUnlock ==
  /\ autoOff \/ autoOn
  /\ UNCHANGED <<finger, done, open>>

-----------------------------------------------------------------------------
(* Timers and answers.                                                     *)

\* Mutant: the timer fires once.
OneShot(m) ==
  /\ live[m] > 0
  /\ CanSend(m)
  /\ Send(<<m, "tick">>)
  /\ live' = [live EXCEPT ![m] = @ - 1]
  /\ UNCHANGED <<finger, on, ref, overtaken, done, open>>

\* Every live timer sends, whether or not an earlier request is answered.
TimerFires(m) ==
  /\ live[m] > 0
  /\ CanSend(m)
  /\ Send(<<m, "tick">>)
  /\ UNCHANGED <<finger, app, done, open>>

\* The cloud passes the request on to the device, in any order.
Execute(r) ==
  /\ sent[r] > 0
  /\ sent' = [sent EXCEPT ![r] = @ - 1]
  /\ done' = [done EXCEPT ![r] = @ + 1]
  /\ open' = (r[2] # "lock")
  /\ UNCHANGED <<finger, app>>

\* The await returns true; only a first request has something left to do.
Succeeds(r) ==
  /\ done[r] > 0
  /\ done' = [done EXCEPT ![r] = @ - 1]
  /\ IF r[2] = "first" THEN StartTimer(r[1]) ELSE UNCHANGED app
  /\ UNCHANGED <<finger, sent, open>>

\* Mutant: the timer ends, the mode stays on.
AfterFailureKept(r) ==
  IF r[2] = "lock" THEN UNCHANGED app
  ELSE /\ live' = [live EXCEPT ![r[1]] = @ - (IF ref[r[1]] THEN 1 ELSE 0)]
       /\ ref'  = [ref EXCEPT ![r[1]] = FALSE]
       /\ UNCHANGED <<on, overtaken>>

\* The await returns false, or throws: an offline device, a lost request or a
\* lost answer.  A failed unlock request ends whatever its mode is doing now.
AfterFailure(r) ==
  IF r[2] = "lock" THEN UNCHANGED app
  ELSE Cancel(r[1], Firsts(r[1]) - (IF r[2] = "first" THEN 1 ELSE 0))
Fails(r) ==
  /\ \/ sent[r] > 0 /\ sent' = [sent EXCEPT ![r] = @ - 1] /\ UNCHANGED done
     \/ done[r] > 0 /\ done' = [done EXCEPT ![r] = @ - 1] /\ UNCHANGED sent
  /\ AfterFailure(r)
  /\ UNCHANGED <<finger, open>>

\* The device locks again a few seconds after the last request it acted on.
AutoClose ==
  /\ open /\ open' = FALSE
  /\ UNCHANGED <<finger, app, http>>

Next ==
  \/ startUnlockPulse \/ stopUnlockPulse \/ toggleAutoUnlock
  \/ \E m \in Mode : TimerFires(m)
  \/ \E r \in Request : Execute(r) \/ Succeeds(r) \/ Fails(r)
  \/ AutoClose

\* Timers fire, every request is answered or fails in the end, and the device
\* closes the door.  The user owes nothing.
Fairness ==
  /\ \A m \in Mode : WF_vars(TimerFires(m))
  /\ \A r \in Request : WF_vars(Execute(r) \/ Fails(r)) /\ WF_vars(Succeeds(r) \/ Fails(r))
  /\ WF_vars(AutoClose)

Spec == Init /\ [][Next]_vars /\ Fairness

-----------------------------------------------------------------------------
(* Properties.                                                             *)

\* A mode that is on is at work: its timer runs or its first request is under
\* way, whatever answers to earlier requests come in between.
ModeIsDriven == \A m \in Mode : on[m] => ref[m] \/ Firsts(m) > 0

\* The only way to a timer that outlives its mode, or that nothing refers to, is
\* that the mode ends while its first request is under way.
TimersBelong ==
  \A m \in Mode : ~overtaken[m] =>
    live[m] = (IF ref[m] THEN 1 ELSE 0) /\ (ref[m] => on[m])

\* Unless that happened, once nobody presses and fire mode is off the door locks
\* for good, in whatever order the requests still under way are carried out.
DoorLocksAfterRelease ==
  [](\A m \in Mode : ~overtaken[m]) /\ <>[](~finger /\ ~on["auto"]) => <>[]~open

\* As long as fire mode stays on, the door is opened again and again.
FireModeOpens == <>[]on["auto"] => []<>open

\* "Once released, sending stops" (device_provider.dart:165): a mode that is off
\* and has no first request under way has no timer.
NoOrphanTimer == \A m \in Mode : live[m] > 0 => on[m] \/ Firsts(m) > 0

=============================================================================
