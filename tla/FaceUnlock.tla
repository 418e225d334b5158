----------------------------- MODULE FaceUnlock -----------------------------
(***************************************************************************)
(* From a face to the door: the recognition counters and the cool-down of  *)
(* AccessController (K230/face_access_control.py), the unlock request it   *)
(* sends over the UART with its wait for an acknowledgement, and the       *)
(* firmware's handling of that request (k230_cmd_dispatch in               *)
(* STM32/applications/k230_uart.c).                                        *)
(*                                                                         *)
(* Each direction of the line is a queue of whole frames, of which         *)
(* K230Frame shows that they arrive unchanged, in order and at most once;  *)
(* on a faulty line they may be lost.  A frame is in the queue from the    *)
(* moment it is written until it has been read.                            *)
(*                                                                         *)
(* Bound.  A sequence number comes round every SeqCount requests (256 in the *)
(* code); a frame under way for that long has been lost.                   *)
(***************************************************************************)
EXTENDS Naturals, Sequences, SequencesExt

CONSTANTS
  People,         \* the persons of the database
  Required,       \* _required_consecutive
  MaxFail,        \* _max_tolerance_fail
  HeavyInterval,  \* HEAVY_MODEL_INTERVAL
  SeqCount        \* how many sequence numbers there are

ASSUME CountsAssumption ==
  /\ Required \in Nat \ {0} /\ MaxFail \in Nat \ {0}
  /\ HeavyInterval \in Nat \ {0} /\ SeqCount \in Nat \ {0}
ASSUME PeopleAssumption == People \cap {"none", "unclear", "stranger"} = {}

VARIABLES
  view,        \* what the camera sees; "unclear": no detection or a crowd
  faulty,      \* the line loses frames
  gap,         \* frames since the heavy models ran, up to HeavyInterval
  success,     \* _consecutive_success
  fail,        \* _consecutive_fail
  need_leave,  \* _need_leave
  cooled,      \* more than DOOR_OPEN_COOLDOWN has passed since the last unlock
  pc,          \* the frame loop is about to process, waits, or is about to poll
  seq,         \* _seq, the number of the next request
  expected_seq, \* the number whose acknowledgement is waited for
  requests,    \* frames from the face unit to the lock
  acks,        \* frames from the lock to the face unit
  confirmed,   \* the last wait_ack returned True
  asked,       \* history: the lock asked the door to open since the last
               \* request was sent: "no", for an "old" one, or for "this" one
  left,        \* history: a frame without a face since the last unlock
  fresh        \* history: recognitions since the unlocking was allowed again

camera   == <<view, faulty>>
counters == <<gap, success, fail, need_leave>>
link     == <<seq, expected_seq, requests, acks, confirmed, asked>>
history  == <<left, fresh>>
vars == <<camera, counters, cooled, pc, link, history>>

View  == People \cup {"none", "unclear", "stranger"}
Entry == [seq : 0..(SeqCount - 1), current : BOOLEAN]

TypeOK ==
  /\ view \in View /\ faulty \in BOOLEAN
  /\ gap \in 0..HeavyInterval
  /\ success \in 0..Required /\ fail \in 0..(MaxFail - 1)
  /\ need_leave \in BOOLEAN /\ cooled \in BOOLEAN
  /\ pc \in {"frame", "wait", "poll"}
  /\ seq \in 0..(SeqCount - 1) /\ expected_seq \in 0..(SeqCount - 1)
  /\ requests \in Seq(Entry) /\ acks \in Seq(Entry)
  /\ confirmed \in BOOLEAN
  /\ asked \in {"no", "old", "this"}
  /\ left \in BOOLEAN
  /\ fresh \in 0..Required

Init ==
  /\ view \in View /\ faulty \in BOOLEAN
  /\ gap = 1
  /\ success = 0 /\ fail = 0
  /\ need_leave = FALSE /\ cooled = TRUE
  /\ pc = "frame"
  /\ seq = 0 /\ expected_seq = 0
  /\ requests = <<>> /\ acks = <<>>
  /\ confirmed = FALSE
  /\ asked = "no"
  /\ left = FALSE /\ fresh = 0

UpTo(max, n) == IF n < max THEN n ELSE max

-----------------------------------------------------------------------------
(***************************************************************************)
(* Sending the request and waiting for its acknowledgement.                *)
(***************************************************************************)
\* The entries that are still under way when a request is sent: the last one
\* with its number, and what was written before that one, is gone.
Gone(line) ==
  Min({n \in 0..Len(line) : \A i \in (n + 1)..Len(line) : line[i].seq # seq})

Older(line) ==
  [i \in 1..(Len(line) - Gone(line)) |-> [line[i + Gone(line)] EXCEPT !.current = FALSE]]

send_face_unlock_req ==
  /\ requests' = Append(Older(requests), [seq |-> seq, current |-> TRUE])
  /\ acks' = Older(acks)
  /\ seq' = (seq + 1) % SeqCount
  /\ expected_seq' = seq
  /\ confirmed' = FALSE
  /\ asked' = "no"

\* Mutant: the counters are reset, the wait for leaving is forgotten.
FinishAtOnce(answer) ==
  /\ confirmed' = answer
  /\ need_leave' = FALSE /\ cooled' = FALSE
  /\ success' = 0 /\ fail' = 0
  /\ left' = FALSE /\ fresh' = 0
  /\ pc' = "poll"
  /\ UNCHANGED <<camera, gap, seq, expected_seq, requests, asked>>

\* The rest of _do_unlock, whatever the answer was.
FinishUnlock(answer) ==
  /\ confirmed' = answer
  /\ need_leave' = TRUE /\ cooled' = FALSE
  /\ success' = 0 /\ fail' = 0
  /\ left' = FALSE /\ fresh' = 0
  /\ pc' = "poll"
  /\ UNCHANGED <<camera, gap, seq, expected_seq, requests, asked>>

\* Mutant: any acknowledgement will do.
AcceptAny(e) == TRUE

Matches(e) == e.seq = expected_seq

\* What was read together with the acknowledgement is discarded.
AckRead ==
  /\ pc = "wait" /\ acks # <<>> /\ Matches(Head(acks))
  /\ \E n \in 2..(Len(acks) + 1) : acks' = SubSeq(acks, n, Len(acks))
  /\ FinishUnlock(TRUE)

OtherRead ==
  /\ pc = "wait" /\ acks # <<>> /\ ~Matches(Head(acks))
  /\ acks' = Tail(acks)
  /\ UNCHANGED <<camera, counters, cooled, pc, seq, expected_seq, requests, confirmed, asked,
                 history>>

\* The parser is reset: a frame that has been read in part is lost.
AckTimeout ==
  /\ pc = "wait"
  /\ FinishUnlock(FALSE)
  /\ \/ UNCHANGED acks
     \/ acks # <<>> /\ acks' = Tail(acks)

wait_ack == AckRead \/ OtherRead \/ AckTimeout

\* The main loop reads what has arrived, and only prints it.
poll ==
  /\ pc = "poll"
  /\ \E n \in 1..(Len(acks) + 1) : acks' = SubSeq(acks, n, Len(acks))
  /\ pc' = "frame"
  /\ UNCHANGED <<camera, counters, cooled, seq, expected_seq, requests, confirmed, asked,
                 history>>

-----------------------------------------------------------------------------
(***************************************************************************)
(* One frame of the camera.                                                *)
(***************************************************************************)
NoFace ==
  /\ view = "none"
  /\ need_leave' = FALSE
  /\ gap' = UpTo(HeavyInterval, gap + 1)
  /\ left' = TRUE
  /\ pc' = "poll"
  /\ UNCHANGED <<success, fail, link, fresh>>

\* Nothing usable is seen, or the heavy models are not due.
Skipped ==
  /\ \/ view = "unclear"
     \/ view # "none" /\ gap + 1 < HeavyInterval
  /\ gap' = UpTo(HeavyInterval, gap + 1)
  /\ pc' = "poll"
  /\ UNCHANGED <<success, fail, need_leave, link, history>>

Heavy == view \in People \cup {"stranger"} /\ gap + 1 >= HeavyInterval

\* Bookkeeping of the history for a recognition.
Recognised ==
  /\ fresh' = IF cooled \/ left THEN UpTo(Required, fresh + 1) ELSE fresh
  /\ UNCHANGED left

\* Mutant: only a frame without a face ends the wait.
StillThereForEver ==
  /\ Heavy /\ need_leave
  /\ gap' = 0
  /\ pc' = "poll"
  /\ IF view \in People THEN Recognised ELSE UNCHANGED history
  /\ UNCHANGED <<success, fail, need_leave, link>>

\* The person who unlocked is waited for to leave, or for the cool-down.
StillThere ==
  /\ Heavy /\ need_leave
  /\ gap' = 0
  /\ need_leave' = ~cooled
  /\ pc' = "poll"
  /\ IF view \in People THEN Recognised ELSE UNCHANGED history
  /\ UNCHANGED <<success, fail, link>>

Authorized ==
  /\ Heavy /\ ~need_leave /\ view \in People
  /\ gap' = 0
  /\ fail' = 0
  /\ success' = success + 1
  /\ Recognised
  /\ IF success' >= Required
       THEN send_face_unlock_req /\ pc' = "wait"
       ELSE UNCHANGED link /\ pc' = "poll"
  /\ UNCHANGED need_leave

Rejected ==
  /\ Heavy /\ ~need_leave /\ view = "stranger"
  /\ gap' = 0
  /\ IF fail + 1 >= MaxFail
       THEN success' = 0 /\ fail' = 0
       ELSE success' = success /\ fail' = fail + 1
  /\ pc' = "poll"
  /\ UNCHANGED <<need_leave, link, history>>

process ==
  /\ pc = "frame"
  /\ NoFace \/ Skipped \/ StillThere \/ Authorized \/ Rejected
  /\ UNCHANGED <<camera, cooled>>

CoolDown ==
  /\ ~cooled
  /\ cooled' = TRUE
  /\ UNCHANGED <<camera, counters, pc, link, history>>

-----------------------------------------------------------------------------
(***************************************************************************)
(* The lock's UART thread, and the surroundings.                           *)
(***************************************************************************)
\* door_lock_open, then the acknowledgement with the request's number.
k230_cmd_dispatch ==
  /\ requests # <<>>
  /\ requests' = Tail(requests)
  /\ acks' = Append(acks, Head(requests))
  /\ asked' = IF Head(requests).current THEN "this"
              ELSE IF asked = "no" THEN "old" ELSE asked
  /\ UNCHANGED <<camera, counters, cooled, pc, seq, expected_seq, confirmed, history>>

Lose ==
  /\ faulty
  /\ \/ requests # <<>> /\ requests' = Tail(requests) /\ UNCHANGED acks
     \/ acks # <<>> /\ acks' = Tail(acks) /\ UNCHANGED requests
  /\ UNCHANGED <<camera, counters, cooled, pc, seq, expected_seq, confirmed, asked, history>>

Surroundings ==
  /\ \/ view' \in View \ {view} /\ UNCHANGED faulty
     \/ faulty' = ~faulty /\ UNCHANGED view
  /\ UNCHANGED <<counters, cooled, pc, link, history>>

Next ==
  \/ process \/ wait_ack \/ poll \/ CoolDown
  \/ k230_cmd_dispatch \/ Lose \/ Surroundings

Spec == Init /\ [][Next]_vars

\* Both programs run on and time passes; faces and faults come as they like.
Fairness ==
  /\ WF_vars(process) /\ WF_vars(wait_ack) /\ WF_vars(poll)
  /\ WF_vars(CoolDown) /\ WF_vars(k230_cmd_dispatch)

FairSpec == Spec /\ Fairness

-----------------------------------------------------------------------------
Unlocks == pc = "frame" /\ pc' = "wait"

\* Two unlocks are apart: after the first one the cool-down passes or a frame
\* shows no face, and only recognitions after that count towards the second.
UnlocksApart == [][Unlocks => fresh' >= Required]_vars

\* "Master ACK received, unlock success" (line 1543) is true: the lock has
\* asked the door to open for this very request, not for an earlier one whose
\* acknowledgement came too late.
AckMeansAsked == confirmed => asked = "this"

\* A known person who stays before the camera gets the door asked to open again
\* and again, however many requests and acknowledgements were lost before.
PersonOpens ==
  \A p \in People :
    <>[](view = p /\ ~faulty) => []<>(asked = "no") /\ []<>(asked # "no")
=============================================================================
