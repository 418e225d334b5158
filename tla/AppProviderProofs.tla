------------------------- MODULE AppProviderProofs -------------------------
(***************************************************************************)
(* Proofs about the application's unlocking modes, for any number of       *)
(* requests under way and of timers, whatever order the answers come in.   *)
(***************************************************************************)
EXTENDS AppProvider, TLAPS

\* Where a mode was never ended during its first request, there is at most one
\* such request, and it belongs to a mode that is on and has no timer yet.
FirstsBelong ==
  \A m \in Mode : ~overtaken[m] =>
    Firsts(m) = 0 \/ (Firsts(m) = 1 /\ on[m] /\ ~ref[m])

\* The part of the invariant that is about the modes, and the part about the
\* requests under way.
ModesTyped ==
  /\ on \in [Mode -> BOOLEAN] /\ ref \in [Mode -> BOOLEAN]
  /\ overtaken \in [Mode -> BOOLEAN]
  /\ live \in [Mode -> Nat]
  /\ \A m \in Mode : ref[m] => live[m] > 0

HttpTyped == sent \in [Request -> Nat] /\ done \in [Request -> Nat]

AppInv == ModesTyped /\ ModeIsDriven /\ TimersBelong /\ FirstsBelong

IInv == finger \in BOOLEAN /\ open \in BOOLEAN /\ HttpTyped /\ AppInv

LEMMA InitInv == Init => IInv
<1> SUFFICES ASSUME Init PROVE IInv
  OBVIOUS
<1>1. finger \in BOOLEAN /\ open \in BOOLEAN /\ HttpTyped /\ ModesTyped
  BY DEF Init, HttpTyped, ModesTyped
<1>2. \A m \in Mode : Firsts(m) = 0 /\ ~on[m] /\ ~ref[m] /\ live[m] = 0
  BY DEF Init, Firsts, Request, Kind
<1> QED BY <1>1, <1>2 DEF IInv, AppInv, ModeIsDriven, TimersBelong, FirstsBelong

-----------------------------------------------------------------------------
(* What an action does to the requests under way.                          *)

LEMMA FirstsNat == HttpTyped => \A m \in Mode : Firsts(m) \in Nat
  BY DEF HttpTyped, Firsts, Request, Kind

LEMMA SendRequests ==
  ASSUME HttpTyped, NEW m \in Mode, NEW k \in Kind, Send(<<m, k>>), UNCHANGED done
  PROVE  /\ HttpTyped'
         /\ \A n \in Mode : Firsts(n)' = IF n = m /\ k = "first" THEN Firsts(n) + 1
                                         ELSE Firsts(n)
<1>1. <<m, k>> \in Request /\ \A n \in Mode : <<n, "first">> \in Request
  BY DEF Request, Kind
<1>2. HttpTyped'
  BY <1>1 DEF HttpTyped, Send
<1>3. \A n \in Mode : sent'[<<n, "first">>] =
        IF n = m /\ k = "first" THEN sent[<<n, "first">>] + 1 ELSE sent[<<n, "first">>]
  BY <1>1 DEF HttpTyped, Send
<1> QED BY <1>1, <1>2, <1>3 DEF Firsts, HttpTyped

LEMMA ExecuteRequests ==
  ASSUME HttpTyped, NEW m \in Mode, NEW k \in Kind, Execute(<<m, k>>)
  PROVE  HttpTyped' /\ \A n \in Mode : Firsts(n)' = Firsts(n)
<1>1. <<m, k>> \in Request /\ \A n \in Mode : <<n, "first">> \in Request
  BY DEF Request, Kind
<1>2. HttpTyped'
  BY <1>1 DEF HttpTyped, Execute
<1>3. \A n \in Mode : sent'[<<n, "first">>] =
        IF n = m /\ k = "first" THEN sent[<<n, "first">>] - 1 ELSE sent[<<n, "first">>]
  BY <1>1 DEF HttpTyped, Execute
<1>4. \A n \in Mode : done'[<<n, "first">>] =
        IF n = m /\ k = "first" THEN done[<<n, "first">>] + 1 ELSE done[<<n, "first">>]
  BY <1>1 DEF HttpTyped, Execute
<1> QED BY <1>1, <1>2, <1>3, <1>4 DEF Firsts, HttpTyped

\* An answer, whichever way it comes.
Answered(r) ==
  \/ sent[r] > 0 /\ sent' = [sent EXCEPT ![r] = sent[r] - 1] /\ UNCHANGED done
  \/ done[r] > 0 /\ done' = [done EXCEPT ![r] = done[r] - 1] /\ UNCHANGED sent

LEMMA AnswerRequests ==
  ASSUME HttpTyped, NEW m \in Mode, NEW k \in Kind, Answered(<<m, k>>)
  PROVE  /\ HttpTyped'
         /\ \A n \in Mode : Firsts(n)' = IF n = m /\ k = "first" THEN Firsts(n) - 1
                                         ELSE Firsts(n)
<1>1. <<m, k>> \in Request /\ \A n \in Mode : <<n, "first">> \in Request
  BY DEF Request, Kind
<1>2. HttpTyped'
  BY <1>1 DEF HttpTyped, Answered
<1>3. CASE sent' = [sent EXCEPT ![<<m, k>>] = sent[<<m, k>>] - 1] /\ UNCHANGED done
  <2>1. \A n \in Mode : sent'[<<n, "first">>] =
          IF n = m /\ k = "first" THEN sent[<<n, "first">>] - 1 ELSE sent[<<n, "first">>]
    BY <1>1, <1>3 DEF HttpTyped
  <2> QED BY <1>1, <1>2, <1>3, <2>1 DEF Firsts, HttpTyped
<1>4. CASE done' = [done EXCEPT ![<<m, k>>] = done[<<m, k>>] - 1] /\ UNCHANGED sent
  <2>1. \A n \in Mode : done'[<<n, "first">>] =
          IF n = m /\ k = "first" THEN done[<<n, "first">>] - 1 ELSE done[<<n, "first">>]
    BY <1>1, <1>4 DEF HttpTyped
  <2> QED BY <1>1, <1>2, <1>4, <2>1 DEF Firsts, HttpTyped
<1> QED BY <1>3, <1>4 DEF Answered

-----------------------------------------------------------------------------
(* What an action does to the modes.                                       *)

\* A mode ends, leaving first of its first requests under way.
LEMMA CancelModes ==
  ASSUME AppInv, NEW m \in Mode, NEW first \in Nat, Cancel(m, first),
         \A n \in Mode : Firsts(n) \in Nat /\ (n # m => Firsts(n)' = Firsts(n)),
         Firsts(m)' = first
  PROVE  AppInv'
<1> USE DEF AppInv, ModesTyped, Cancel, Leave
<1>1. \A n \in Mode \ {m} :
        /\ on'[n] = on[n] /\ ref'[n] = ref[n] /\ live'[n] = live[n]
        /\ overtaken'[n] = overtaken[n]
  OBVIOUS
<1>2. on'[m] = FALSE /\ ref'[m] = FALSE
  OBVIOUS
<1>3. ~overtaken'[m] => ~overtaken[m] /\ first = 0
  <2>1. overtaken'[m] = (overtaken[m] \/ first > 0)
    BY Zenon
  <2>2. ~(first > 0) => first = 0
    OBVIOUS
  <2> QED BY <2>1, <2>2, Zenon
<1>4. live'[m] = (IF ref[m] THEN live[m] - 1 ELSE live[m])
  OBVIOUS
<1>5. /\ on' \in [Mode -> BOOLEAN] /\ ref' \in [Mode -> BOOLEAN]
      /\ overtaken' \in [Mode -> BOOLEAN] /\ live' \in [Mode -> Nat]
  <2>1. overtaken' \in [Mode -> BOOLEAN]
    BY Zenon
  <2>2. live' \in [Mode -> Nat]
    BY <1>4
  <2> QED BY <2>1, <2>2
<1>6. ModesTyped'
  BY <1>1, <1>2, <1>5
<1>7. ModeIsDriven'
  BY <1>1, <1>2 DEF ModeIsDriven
<1>8. TimersBelong'
  BY <1>1, <1>2, <1>3, <1>4 DEF TimersBelong
<1>9. FirstsBelong'
  BY <1>1, <1>2, <1>3 DEF FirstsBelong
<1> QED BY <1>6, <1>7, <1>8, <1>9

\* The first request of a mode that was off.
LEMMA EnterMode ==
  ASSUME AppInv, NEW m \in Mode, ~on[m],
         on' = [on EXCEPT ![m] = TRUE], UNCHANGED <<ref, live, overtaken>>,
         \A n \in Mode : Firsts(n) \in Nat,
         \A n \in Mode : Firsts(n)' = IF n = m THEN Firsts(n) + 1 ELSE Firsts(n)
  PROVE  AppInv'
<1> USE DEF AppInv, ModesTyped
<1>1. ModesTyped' /\ \A n \in Mode : on'[n] = (on[n] \/ n = m)
  OBVIOUS
<1>2. ModeIsDriven'
  BY <1>1 DEF ModeIsDriven
<1>3. TimersBelong' /\ FirstsBelong'
  BY <1>1 DEF TimersBelong, FirstsBelong
<1> QED BY <1>1, <1>2, <1>3

LEMMA StartTimerModes ==
  ASSUME AppInv, NEW m \in Mode, StartTimer(m), Firsts(m) > 0,
         \A n \in Mode : Firsts(n) \in Nat,
         \A n \in Mode : Firsts(n)' = IF n = m THEN Firsts(n) - 1 ELSE Firsts(n)
  PROVE  AppInv'
<1> USE DEF AppInv, ModesTyped, StartTimer
<1>1. /\ ref' \in [Mode -> BOOLEAN] /\ live' \in [Mode -> Nat]
      /\ ref'[m] = TRUE /\ live'[m] = live[m] + 1
      /\ \A n \in Mode \ {m} : ref'[n] = ref[n] /\ live'[n] = live[n]
  OBVIOUS
<1>2. ModesTyped'
  BY <1>1
<1>3. ModeIsDriven'
  BY <1>1 DEF ModeIsDriven
<1>4. TimersBelong' /\ FirstsBelong'
  BY <1>1 DEF TimersBelong, FirstsBelong
<1> QED BY <1>2, <1>3, <1>4

LEMMA SameModes ==
  ASSUME AppInv, UNCHANGED app, \A n \in Mode : Firsts(n)' = Firsts(n)
  PROVE  AppInv'
  BY DEF AppInv, ModesTyped, ModeIsDriven, TimersBelong, FirstsBelong, app

\* Fire mode is entered; press-and-hold, if it was on, ends where it is.
LEMMA AutoOnModes ==
  ASSUME AppInv, autoOn,
         \A n \in Mode : Firsts(n) \in Nat,
         \A n \in Mode : Firsts(n)' = IF n = "auto" THEN Firsts(n) + 1 ELSE Firsts(n)
  PROVE  AppInv'
<1> USE DEF AppInv, ModesTyped, Mode
<1>1. on'["press"] = FALSE /\ on'["auto"] = TRUE /\ ~on["auto"]
  BY DEF autoOn
<1>2. ref'["press"] = (ref["press"] /\ ~on["press"]) /\ ref'["auto"] = ref["auto"]
  BY DEF autoOn
<1>3. /\ live'["press"] = (IF on["press"] /\ ref["press"] THEN live["press"] - 1
                           ELSE live["press"])
      /\ live'["auto"] = live["auto"]
  BY DEF autoOn
<1>4. /\ overtaken'["press"] = (overtaken["press"] \/ (on["press"] /\ Firsts("press") > 0))
      /\ overtaken'["auto"] = overtaken["auto"]
  BY Zenon DEF autoOn
<1>5. on' \in [Mode -> BOOLEAN] /\ ref' \in [Mode -> BOOLEAN] /\ overtaken' \in [Mode -> BOOLEAN]
  BY Zenon DEF autoOn
<1>6. live' \in [Mode -> Nat]
  BY <1>3 DEF autoOn
<1>7. ~overtaken'["press"] => ~overtaken["press"] /\ (on["press"] => Firsts("press") = 0)
  <2>1. ~(Firsts("press") > 0) => Firsts("press") = 0
    OBVIOUS
  <2> QED BY <1>4, <2>1, Zenon
<1>8. ModesTyped'
  BY <1>2, <1>3, <1>5, <1>6
<1>9. ModeIsDriven'
  BY <1>1 DEF ModeIsDriven
<1>10. TimersBelong' /\ FirstsBelong'
  BY <1>1, <1>2, <1>3, <1>4, <1>7 DEF TimersBelong, FirstsBelong
<1> QED BY <1>8, <1>9, <1>10

-----------------------------------------------------------------------------
(* Every step.                                                             *)

LEMMA UserStep ==
  ASSUME IInv, startUnlockPulse \/ stopUnlockPulse \/ toggleAutoUnlock
  PROVE  IInv'
<1> USE FirstsNat DEF IInv, Mode
<1>1. CASE startUnlockPulse
  <2>1. CASE on["press"]
    BY <1>1, <2>1, SameModes DEF startUnlockPulse, HttpTyped, Firsts
  <2>2. CASE ~on["press"]
    <3>1. Send(<<"press", "first">>)
      BY <1>1, <2>2 DEF startUnlockPulse
    <3>2. HttpTyped' /\ \A n \in Mode :
            Firsts(n)' = IF n = "press" THEN Firsts(n) + 1 ELSE Firsts(n)
      BY <1>1, <3>1, SendRequests DEF startUnlockPulse, Kind
    <3>3. AppInv'
      BY <1>1, <2>2, <3>2, EnterMode DEF startUnlockPulse
    <3> QED BY <1>1, <3>2, <3>3 DEF startUnlockPulse
  <2> QED BY <2>1, <2>2
<1>2. CASE stopUnlockPulse
  <2>1. CASE ~on["press"]
    BY <1>2, <2>1, SameModes DEF stopUnlockPulse, HttpTyped, Firsts
  <2>2. CASE on["press"]
    <3>1. Send(<<"press", "lock">>) /\ Cancel("press", Firsts("press"))
      BY <1>2, <2>2 DEF stopUnlockPulse
    <3>2. HttpTyped' /\ \A n \in Mode : Firsts(n)' = Firsts(n)
      BY <1>2, <3>1, SendRequests DEF stopUnlockPulse, Kind
    <3>3. AppInv'
      BY <3>1, <3>2, CancelModes
    <3> QED BY <1>2, <3>2, <3>3 DEF stopUnlockPulse
  <2> QED BY <2>1, <2>2
<1>3. CASE toggleAutoUnlock /\ autoOff
  <2>1. Send(<<"auto", "lock">>) /\ Cancel("auto", Firsts("auto"))
    BY <1>3 DEF autoOff
  <2>2. HttpTyped' /\ \A n \in Mode : Firsts(n)' = Firsts(n)
    BY <1>3, <2>1, SendRequests DEF toggleAutoUnlock, Kind
  <2>3. AppInv'
    BY <2>1, <2>2, CancelModes
  <2> QED BY <1>3, <2>2, <2>3 DEF toggleAutoUnlock
<1>4. CASE toggleAutoUnlock /\ autoOn
  <2>1. Send(<<"auto", "first">>)
    BY <1>4 DEF autoOn
  <2>2. HttpTyped' /\ \A n \in Mode :
          Firsts(n)' = IF n = "auto" THEN Firsts(n) + 1 ELSE Firsts(n)
    BY <1>4, <2>1, SendRequests DEF toggleAutoUnlock, Kind
  <2>3. AppInv'
    BY <1>4, <2>2, AutoOnModes
  <2> QED BY <1>4, <2>2, <2>3 DEF toggleAutoUnlock
<1> QED BY <1>1, <1>2, <1>3, <1>4 DEF toggleAutoUnlock

LEMMA AnswerStep ==
  ASSUME IInv, NEW m \in Mode, NEW k \in Kind,
         Execute(<<m, k>>) \/ Succeeds(<<m, k>>) \/ Fails(<<m, k>>)
  PROVE  IInv'
<1> USE FirstsNat DEF IInv
<1>1. CASE Execute(<<m, k>>)
  BY <1>1, ExecuteRequests, SameModes DEF Execute
<1>2. CASE Succeeds(<<m, k>>)
  <2>1. HttpTyped' /\ \A n \in Mode :
          Firsts(n)' = IF n = m /\ k = "first" THEN Firsts(n) - 1 ELSE Firsts(n)
    BY <1>2, AnswerRequests DEF Succeeds, Answered
  <2>2. CASE k = "first"
    <3>1. Firsts(m) > 0
      BY <1>2, <2>2 DEF Succeeds, HttpTyped, Firsts, Request, Kind
    <3>2. AppInv'
      BY <1>2, <2>1, <2>2, <3>1, StartTimerModes DEF Succeeds
    <3> QED BY <1>2, <2>1, <3>2 DEF Succeeds
  <2>3. CASE k # "first"
    BY <1>2, <2>1, <2>3, SameModes DEF Succeeds
  <2> QED BY <2>2, <2>3
<1>3. CASE Fails(<<m, k>>)
  <2>1. Answered(<<m, k>>) /\ AfterFailure(<<m, k>>)
    BY <1>3 DEF Fails, Answered
  <2>2. HttpTyped' /\ \A n \in Mode :
          Firsts(n)' = IF n = m /\ k = "first" THEN Firsts(n) - 1 ELSE Firsts(n)
    BY <2>1, AnswerRequests
  <2>3. CASE k = "lock"
    BY <1>3, <2>1, <2>2, <2>3, SameModes DEF AfterFailure, Fails
  <2>4. CASE k # "lock"
    <3>1. Cancel(m, Firsts(m) - (IF k = "first" THEN 1 ELSE 0))
      BY <2>1, <2>4 DEF AfterFailure
    <3>2. Firsts(m)' = Firsts(m) - (IF k = "first" THEN 1 ELSE 0) /\ Firsts(m)' \in Nat
      BY <2>2 DEF Firsts, HttpTyped, Request, Kind
    <3>3. AppInv'
      BY <2>2, <3>1, <3>2, CancelModes
    <3> QED BY <1>3, <2>2, <3>3 DEF Fails
  <2> QED BY <2>3, <2>4
<1> QED BY <1>1, <1>2, <1>3

LEMMA InvStep == IInv /\ [Next]_vars => IInv'
<1> SUFFICES ASSUME IInv, [Next]_vars PROVE IInv'
  OBVIOUS
<1> USE DEF IInv
<1>1. ASSUME NEW m \in Mode, TimerFires(m) PROVE IInv'
  <2>1. HttpTyped' /\ \A n \in Mode : Firsts(n)' = Firsts(n)
    BY <1>1, SendRequests DEF TimerFires, Kind
  <2> QED BY <1>1, <2>1, SameModes DEF TimerFires
<1>2. ASSUME NEW r \in Request, Execute(r) \/ Succeeds(r) \/ Fails(r) PROVE IInv'
  <2>1. PICK m \in Mode, k \in Kind : r = <<m, k>>
    BY DEF Request
  <2> QED BY <1>2, <2>1, AnswerStep
<1>3. CASE AutoClose
  BY <1>3, SameModes DEF AutoClose, http, HttpTyped, Firsts
<1>4. CASE UNCHANGED vars
  BY <1>4, SameModes DEF vars, http, HttpTyped, Firsts
<1> QED BY <1>1, <1>2, <1>3, <1>4, UserStep DEF Next

THEOREM Invariance == Spec => []IInv
  BY InitInv, InvStep, PTL DEF Spec

\* The variables keep their types; no timer is cancelled twice, and a reference is
\* to a live timer.
THEOREM TypeCorrect == Spec => []TypeOK
<1>1. IInv => TypeOK
  BY DEF IInv, HttpTyped, AppInv, ModesTyped, TypeOK
<1> QED BY Invariance, <1>1, PTL

\* A mode that is on has a timer or a first request under way, whatever fails.
THEOREM Driven == Spec => []ModeIsDriven
<1>1. IInv => ModeIsDriven
  BY DEF IInv, AppInv
<1> QED BY Invariance, <1>1, PTL

\* Timers outlive their mode only where it ended during its first request.
THEOREM NoOtherOrphans == Spec => []TimersBelong
<1>1. IInv => TimersBelong
  BY DEF IInv, AppInv
<1> QED BY Invariance, <1>1, PTL

-----------------------------------------------------------------------------
(***************************************************************************)
(* What "once released, sending stops" (device_provider.dart:165) comes to *)
(* in the code: true of a mode that was never ended during its first       *)
(* request.                                                                *)
(***************************************************************************)
Unlocking == {"first", "tick"}

\* A mode that is off and stays off sends no request that unlocks.
SendingStops ==
  [][\A m \in Mode :
       ~overtaken[m] /\ ~on[m] /\ ~on'[m] =>
         \A k \in Unlocking : sent'[<<m, k>>] <= sent[<<m, k>>]]_vars

\* Both modes are off, the door is locked and nothing is under way to unlock it.
AtRest ==
  /\ ~open
  /\ \A m \in Mode : ~overtaken[m] /\ ~on[m] /\ \A k \in Unlocking : sent[<<m, k>>] = 0

\* From there only a finger on the screen leads away: no timer and no late
\* answer, to whichever request, unlocks the door or starts a mode.
RestsUntilTouched ==
  [][AtRest => AtRest' \/ startUnlockPulse \/ toggleAutoUnlock]_vars

LEMMA OffIsIdle ==
  ASSUME IInv, NEW m \in Mode, ~overtaken[m], ~on[m]
  PROVE  live[m] = 0 /\ Firsts(m) = 0 /\ ~ref[m]
  BY DEF IInv, AppInv, TimersBelong, FirstsBelong

\* An answer or its execution takes requests away and ends modes, no more.
LEMMA AnswersTakeAway ==
  ASSUME IInv, NEW r \in Request, Execute(r) \/ Succeeds(r) \/ Fails(r)
  PROVE  /\ \A q \in Request : sent'[q] <= sent[q] /\ sent'[q] \in Nat
         /\ \A m \in Mode : on'[m] => on[m]
<1> USE DEF IInv, HttpTyped
<1>1. CASE Execute(r)
  BY <1>1 DEF Execute, app
<1>2. CASE Succeeds(r)
  BY <1>2 DEF Succeeds, StartTimer, app
<1>3. CASE Fails(r)
  <2>1. \A q \in Request : sent'[q] <= sent[q] /\ sent'[q] \in Nat
    BY <1>3 DEF Fails
  <2>2. r[1] \in Mode
    BY DEF Request
  <2>3. \A m \in Mode : on'[m] => on[m]
    BY <1>3, <2>2 DEF Fails, AfterFailure, Cancel, Leave, app, AppInv, ModesTyped
  <2> QED BY <2>1, <2>3
<1> QED BY <1>1, <1>2, <1>3

LEMMA OffStepSends ==
  ASSUME IInv, [Next]_vars, NEW m \in Mode, ~overtaken[m], ~on[m], ~on'[m],
         NEW k \in Unlocking
  PROVE  sent'[<<m, k>>] <= sent[<<m, k>>]
<1> DEFINE q == <<m, k>>
<1>1. q \in Request /\ sent \in [Request -> Nat]
  BY DEF Request, Kind, Unlocking, IInv, HttpTyped
<1>2. UNCHANGED sent => sent'[q] <= sent[q]
  BY <1>1
<1>3. ASSUME NEW n \in Mode, NEW j \in Kind, Send(<<n, j>>), <<n, j>> # q
      PROVE  sent'[q] <= sent[q]
  <2>1. sent'[q] = sent[q]
    BY <1>1, <1>3 DEF Send
  <2> QED BY <1>1, <2>1
<1>4. CASE startUnlockPulse
  <2>1. CASE UNCHANGED sent
    BY <1>2, <2>1
  <2>2. CASE on' = [on EXCEPT !["press"] = TRUE] /\ Send(<<"press", "first">>)
    <3>1. m # "press"
      BY <2>2 DEF IInv, AppInv, ModesTyped, Mode
    <3> QED BY <1>3, <2>2, <3>1 DEF Mode, Kind
  <2> QED BY <1>4, <2>1, <2>2 DEF startUnlockPulse
<1>5. CASE stopUnlockPulse
  <2>1. k # "lock"
    BY DEF Unlocking
  <2> QED BY <1>2, <1>3, <1>5, <2>1 DEF stopUnlockPulse, Mode, Kind
<1>6. CASE toggleAutoUnlock
  <2>1. CASE autoOff
    <3>1. k # "lock"
      BY DEF Unlocking
    <3> QED BY <1>3, <2>1, <3>1 DEF autoOff, Mode, Kind
  <2>2. CASE autoOn
    <3>1. m # "auto"
      BY <2>2 DEF autoOn
    <3> QED BY <1>3, <2>2, <3>1 DEF autoOn, Mode, Kind
  <2> QED BY <1>6, <2>1, <2>2 DEF toggleAutoUnlock
<1>7. ASSUME NEW n \in Mode, TimerFires(n) PROVE sent'[q] <= sent[q]
  <2>1. n # m
    BY <1>7, OffIsIdle DEF TimerFires
  <2> QED BY <1>3, <1>7, <2>1 DEF TimerFires, Kind
<1>8. ASSUME NEW r \in Request, Execute(r) \/ Succeeds(r) \/ Fails(r)
      PROVE  sent'[q] <= sent[q]
  BY <1>1, <1>8, AnswersTakeAway
<1>9. CASE AutoClose \/ UNCHANGED vars
  BY <1>2, <1>9 DEF AutoClose, vars, http
<1> QED BY <1>4, <1>5, <1>6, <1>7, <1>8, <1>9 DEF Next

\* A mode that has ended, otherwise than during its first request, sends nothing
\* more that unlocks until it is started again.
THEOREM OffSendsNothing == Spec => SendingStops
<1>1. IInv /\ [Next]_vars =>
        [\A m \in Mode :
           ~overtaken[m] /\ ~on[m] /\ ~on'[m] =>
             \A k \in Unlocking : sent'[<<m, k>>] <= sent[<<m, k>>]]_vars
  BY OffStepSends
<1> QED BY Invariance, <1>1, PTL DEF Spec, SendingStops

LEMMA RestStep ==
  ASSUME IInv, [Next]_vars, AtRest, ~startUnlockPulse, ~toggleAutoUnlock
  PROVE  AtRest'
<1>1. /\ ~open
      /\ \A m \in Mode : ~overtaken[m] /\ ~on[m] /\ ~ref[m] /\ live[m] = 0 /\ Firsts(m) = 0
      /\ \A m \in Mode : \A k \in Unlocking : sent[<<m, k>>] = 0
  BY OffIsIdle DEF AtRest
<1>2. \A m \in Mode : ~TimerFires(m)
  BY <1>1 DEF TimerFires
<1>3. CASE stopUnlockPulse
  BY <1>1, <1>3 DEF stopUnlockPulse, AtRest, Mode, app
<1>4. ASSUME NEW r \in Request, Execute(r) \/ Succeeds(r) \/ Fails(r) PROVE AtRest'
  <2>1. PICK n \in Mode, j \in Kind : r = <<n, j>>
    BY DEF Request
  <2>2. \A m \in Mode : \A k \in Unlocking : sent'[<<m, k>>] = 0 /\ ~on'[m]
    <3> SUFFICES ASSUME NEW m \in Mode, NEW k \in Unlocking
                 PROVE  sent'[<<m, k>>] = 0 /\ ~on'[m]
      OBVIOUS
    <3>1. <<m, k>> \in Request
      BY DEF Request, Kind, Unlocking
    <3> QED BY <1>1, <1>4, <3>1, AnswersTakeAway
  <2>3. ~open'
    <3>1. CASE Execute(r)
      <4>1. j = "lock"
        <5>1. sent[<<n, j>>] > 0
          BY <2>1, <3>1 DEF Execute
        <5>2. j \notin Unlocking
          BY <1>1, <5>1
        <5> QED BY <5>2 DEF Kind, Unlocking
      <4> QED BY <2>1, <3>1, <4>1 DEF Execute
    <3>2. CASE Succeeds(r) \/ Fails(r)
      BY <1>1, <3>2 DEF Succeeds, Fails
    <3> QED BY <1>4, <3>1, <3>2
  <2>4. \A m \in Mode : ~overtaken'[m]
    <3>1. CASE Execute(r) \/ Succeeds(r)
      BY <1>1, <3>1 DEF Execute, Succeeds, StartTimer, app
    <3>2. CASE Fails(r)
      <4>1. r[1] = n /\ Firsts(n) = 0
        BY <1>1, <2>1
      <4>2. CASE j = "lock"
        BY <1>1, <2>1, <3>2, <4>2 DEF Fails, AfterFailure, app
      <4>3. CASE j # "lock"
        <5>1. PICK first \in {0, -1} : Leave(n, first)
          BY <2>1, <3>2, <4>1, <4>3 DEF Fails, AfterFailure, Cancel
        <5>2. overtaken' = [overtaken EXCEPT ![n] = overtaken[n] \/ first > 0] /\ ~(first > 0)
          BY <5>1 DEF Leave
        <5> QED BY <1>1, <5>2, Zenon DEF IInv, AppInv, ModesTyped
      <4> QED BY <4>2, <4>3
    <3> QED BY <1>4, <3>1, <3>2
  <2> QED BY <2>2, <2>3, <2>4 DEF AtRest, Unlocking
<1>5. CASE AutoClose \/ UNCHANGED vars
  BY <1>1, <1>5 DEF AutoClose, vars, app, http, AtRest
<1> QED BY <1>2, <1>3, <1>4, <1>5 DEF Next

\* With both modes off and nothing under way that unlocks, the door stays locked
\* until the user touches the screen again.
THEOREM LockedUntilTouched == Spec => RestsUntilTouched
<1>1. IInv /\ [Next]_vars =>
        [AtRest => AtRest' \/ startUnlockPulse \/ toggleAutoUnlock]_vars
  BY RestStep
<1> QED BY Invariance, <1>1, PTL DEF Spec, RestsUntilTouched
=============================================================================
