-------------------------- MODULE FaceUnlockProofs --------------------------
(***************************************************************************)
(* Proofs about the unlocking by face, for every number of recognitions,   *)
(* failures, persons and sequence numbers and whatever the line does.      *)
(***************************************************************************)
EXTENDS FaceUnlock, FiniteSetTheorems, SequenceTheorems, TLAPS

\* Recognitions are counted only once unlocking is allowed again, so the count
\* never runs ahead of the recognitions that are fresh; and where no unlock is
\* under way there are fewer of them than an unlock needs.
FreshInv ==
  /\ success \in Nat /\ fresh \in Nat
  /\ pc \in {"frame", "wait", "poll"}
  /\ pc # "wait" => success <= fresh
  /\ need_leave => success = 0
  /\ ~need_leave /\ pc # "wait" => cooled \/ left

LEMMA InitFresh == Init => FreshInv
  BY DEF Init, FreshInv

LEMMA FreshStep == FreshInv /\ [Next]_vars => FreshInv'
<1> SUFFICES ASSUME FreshInv, [Next]_vars PROVE FreshInv'
  OBVIOUS
<1> USE CountsAssumption DEF FreshInv, history
<1>1. CASE process
  <2>1. CASE NoFace
    BY <1>1, <2>1 DEF process, NoFace
  <2>2. CASE Skipped
    BY <1>1, <2>2 DEF process, Skipped
  <2>3. CASE StillThere
    <3>1. fresh' \in Nat /\ success' = 0
      BY <2>3 DEF StillThere, Recognised, UpTo
    <3>2. UNCHANGED cooled /\ pc' = "poll"
      BY <1>1, <2>3 DEF process, StillThere
    <3>3. ~need_leave' => cooled
      BY <2>3, Zenon DEF StillThere
    <3> QED BY <3>1, <3>2, <3>3
  <2>4. CASE Authorized
    BY <1>1, <2>4 DEF process, Authorized, Recognised, UpTo
  <2>5. CASE Rejected
    BY <1>1, <2>5 DEF process, Rejected
  <2> QED BY <1>1, <2>1, <2>2, <2>3, <2>4, <2>5 DEF process
<1>2. CASE wait_ack
  BY <1>2 DEF wait_ack, AckRead, OtherRead, AckTimeout, FinishUnlock, counters
<1>3. CASE poll \/ CoolDown
  BY <1>3 DEF poll, CoolDown, counters
<1>4. CASE k230_cmd_dispatch \/ Lose \/ Surroundings
  BY <1>4 DEF k230_cmd_dispatch, Lose, Surroundings, counters
<1>5. CASE UNCHANGED vars
  BY <1>5 DEF vars, counters
<1> QED BY <1>1, <1>2, <1>3, <1>4, <1>5 DEF Next

THEOREM FreshInvariance == Spec => []FreshInv
  BY InitFresh, FreshStep, PTL DEF Spec

\* Two unlocks are apart: each rests on Required recognitions that were made
\* after the cool-down or a frame without a face.
THEOREM Apart == Spec => UnlocksApart
<1>1. FreshInv /\ [Next]_vars => [Unlocks => fresh' >= Required]_vars
  <2> SUFFICES ASSUME FreshInv, Next, Unlocks PROVE fresh' >= Required
    OBVIOUS
  <2> USE DEF Unlocks
  <2>1. Authorized /\ success' >= Required
    <3>1. ~(wait_ack \/ poll \/ CoolDown \/ k230_cmd_dispatch \/ Lose \/ Surroundings)
      BY DEF wait_ack, AckRead, OtherRead, AckTimeout, poll, CoolDown,
             k230_cmd_dispatch, Lose, Surroundings
    <3>2. process
      BY <3>1 DEF Next
    <3>3. ~(NoFace \/ Skipped \/ StillThere \/ Rejected)
      BY DEF NoFace, Skipped, StillThere, Rejected
    <3>4. Authorized
      BY <3>2, <3>3 DEF process
    <3> QED BY <3>4 DEF Authorized
  <2>2. cooled \/ left
    BY <2>1 DEF FreshInv, Authorized
  <2>3. fresh' = UpTo(Required, fresh + 1) /\ success' = success + 1
    BY <2>1, <2>2 DEF Authorized, Recognised
  <2> QED BY <2>1, <2>3, CountsAssumption DEF FreshInv, UpTo
<1> QED BY <1>1, FreshInvariance, PTL DEF Spec, UnlocksApart

-----------------------------------------------------------------------------
(* What is under way.                                                      *)

\* A set of natural numbers has a least element: the intervals up to its elements
\* are finite, and inclusion of finite sets is well founded.
LEMMA MinNat ==
  ASSUME NEW S, S \subseteq Nat, S # {}
  PROVE  Min(S) \in S
<1> DEFINE R == StrictSubsetOrdering(Nat)
           T == {1..n : n \in S}
<1>1. T \subseteq FiniteSubsetsOf(Nat)
  <2>1. \A n \in S : IsFiniteSet(1..n) /\ 1..n \subseteq Nat
    BY FS_Interval
  <2> QED BY <2>1, Zenon DEF FiniteSubsetsOf
<1>2. PICK x \in T : \A y \in T : ~(<<y, x>> \in R)
  <2>1. T # {}
    OBVIOUS
  <2> HIDE DEF R, T
  <2> QED BY <1>1, <2>1, WFMin, FS_StrictSubsetOrderingWellFounded DEF R
<1>3. PICK n \in S : x = 1..n
  OBVIOUS
<1>4. ASSUME NEW m \in S PROVE n <= m
  <2>1. 1..m \subseteq Nat /\ 1..n \subseteq Nat
    OBVIOUS
  <2>2. ~(1..m \subseteq 1..n /\ 1..m # 1..n)
    BY <1>2, <1>3, <2>1, Zenon DEF StrictSubsetOrdering
  <2>3. CASE m < n
    <3>1. n \in 1..n /\ n \notin 1..m /\ 1..m \subseteq 1..n
      BY <2>3
    <3> QED BY <2>2, <3>1
  <2> QED BY <2>3
<1> QED BY <1>4 DEF Min

\* What is left of a line when a request is sent has other numbers than that
\* request, and none of it is current.
LEMMA OlderEntries ==
  ASSUME NEW line \in Seq(Entry), NEW n \in 0..(SeqCount - 1), seq = n
  PROVE  /\ Older(line) \in Seq(Entry)
         /\ \A i \in 1..Len(Older(line)) :
              ~Older(line)[i].current /\ Older(line)[i].seq # n
<1> DEFINE S == {k \in 0..Len(line) : \A i \in (k + 1)..Len(line) : line[i].seq # seq}
<1>1. Gone(line) \in 0..Len(line)
      /\ \A i \in (Gone(line) + 1)..Len(line) : line[i].seq # seq
  <2>1. S \subseteq Nat /\ Len(line) \in S
    OBVIOUS
  <2>2. Min(S) \in S
    BY <2>1, MinNat
  <2> QED BY <2>2 DEF Gone
<1> DEFINE g == Gone(line)
<1>2. \A i \in 1..(Len(line) - g) : i + g \in 1..Len(line) /\ line[i + g] \in Entry
  BY <1>1
<1>3. \A i \in 1..(Len(line) - g) :
        /\ [line[i + g] EXCEPT !.current = FALSE] \in Entry
        /\ [line[i + g] EXCEPT !.current = FALSE].seq = line[i + g].seq
        /\ ~[line[i + g] EXCEPT !.current = FALSE].current
  BY <1>2 DEF Entry
<1>4. Len(line) - g \in Nat
  BY <1>1
<1>5. Older(line) \in Seq(Entry) /\ Len(Older(line)) = Len(line) - g
  <2> DEFINE f == [i \in 1..(Len(line) - g) |-> [line[i + g] EXCEPT !.current = FALSE]]
  <2>1. f \in [1..(Len(line) - g) -> Entry]
    BY <1>3
  <2>2. Older(line) = f
    BY DEF Older
  <2> HIDE DEF f, g
  <2>3. f \in Seq(Entry) /\ Len(f) = Len(line) - g
    BY <1>4, <2>1
  <2> QED BY <2>2, <2>3
<1>6. ASSUME NEW i \in 1..(Len(line) - g) PROVE line[i + g].seq # seq
  <2>1. i + g \in (Gone(line) + 1)..Len(line)
    BY <1>1
  <2> QED BY <1>1, <2>1, Zenon
<1> QED BY <1>3, <1>5, <1>6 DEF Older

-----------------------------------------------------------------------------
(* Type correctness.                                                       *)

\* Below the threshold where no unlock is under way; that keeps the count typed.
Counting == pc # "wait" => success < Required

TInv == TypeOK /\ Counting

LEMMA InitTyped == Init => TInv
<1> SUFFICES ASSUME Init PROVE TInv
  OBVIOUS
<1>1. <<>> \in Seq(Entry)
  BY EmptySeq
<1>2. /\ gap \in 0..HeavyInterval /\ success \in 0..Required
      /\ fail \in 0..(MaxFail - 1) /\ fresh \in 0..Required
      /\ seq \in 0..(SeqCount - 1) /\ expected_seq \in 0..(SeqCount - 1)
  BY CountsAssumption DEF Init
<1>3. faulty \in BOOLEAN /\ need_leave \in BOOLEAN /\ cooled \in BOOLEAN
      /\ confirmed \in BOOLEAN /\ left \in BOOLEAN
  BY Zenon DEF Init
<1>4. success < Required
  BY CountsAssumption DEF Init
<1> QED BY <1>1, <1>2, <1>3, <1>4 DEF Init, TInv, TypeOK, Counting

LEMMA SendTyped ==
  ASSUME TypeOK, send_face_unlock_req
  PROVE  /\ requests' \in Seq(Entry) /\ acks' \in Seq(Entry)
         /\ seq' \in 0..(SeqCount - 1) /\ expected_seq' \in 0..(SeqCount - 1)
         /\ confirmed' \in BOOLEAN /\ asked' \in {"no", "old", "this"}
<1>1. Older(requests) \in Seq(Entry) /\ Older(acks) \in Seq(Entry)
  BY OlderEntries DEF TypeOK
<1>2. [seq |-> seq, current |-> TRUE] \in Entry
  BY DEF TypeOK, Entry
<1>3. seq' \in 0..(SeqCount - 1)
  BY CountsAssumption DEF TypeOK, send_face_unlock_req
<1>4. requests' \in Seq(Entry) /\ acks' \in Seq(Entry)
  BY <1>1, <1>2, AppendProperties DEF send_face_unlock_req
<1> QED BY <1>3, <1>4 DEF TypeOK, send_face_unlock_req

LEMMA FrameTyped == ASSUME TInv, process PROVE TInv'
<1> USE CountsAssumption DEF TInv, Counting, TypeOK, camera, link, history
<1>1. CASE NoFace
  <2>1. gap' \in 0..HeavyInterval
    BY <1>1 DEF NoFace, UpTo
  <2> QED BY <1>1, <2>1 DEF process, NoFace
<1>2. CASE Skipped
  <2>1. gap' \in 0..HeavyInterval
    BY <1>2 DEF Skipped, UpTo
  <2> QED BY <1>2, <2>1 DEF process, Skipped
<1>3. CASE StillThere
  <2>1. fresh' \in 0..Required /\ left' \in BOOLEAN
    BY <1>3 DEF StillThere, Recognised, UpTo
  <2>2. need_leave' \in BOOLEAN
    BY <1>3, Zenon DEF StillThere
  <2> QED BY <1>3, <2>1, <2>2 DEF process, StillThere
<1>4. CASE Authorized
  <2>1. fresh' \in 0..Required /\ left' \in BOOLEAN
    BY <1>4 DEF Authorized, Recognised, UpTo
  <2>2. success' \in 0..Required /\ fail' \in 0..(MaxFail - 1) /\ gap' \in 0..HeavyInterval
    BY <1>4 DEF process, Authorized
  <2>3. CASE success' >= Required
    BY <1>4, <2>1, <2>2, <2>3, SendTyped DEF process, Authorized
  <2>4. CASE ~(success' >= Required)
    BY <1>4, <2>1, <2>2, <2>4 DEF process, Authorized
  <2> QED BY <2>3, <2>4
<1>5. CASE Rejected
  BY <1>5 DEF process, Rejected
<1> QED BY <1>1, <1>2, <1>3, <1>4, <1>5 DEF process

LEMMA FinishTyped ==
  ASSUME TInv, NEW answer \in BOOLEAN, FinishUnlock(answer), acks' \in Seq(Entry)
  PROVE  TInv'
<1>1. success' \in 0..Required /\ fail' \in 0..(MaxFail - 1) /\ fresh' \in 0..Required
      /\ success' < Required
  BY CountsAssumption DEF FinishUnlock
<1>2. confirmed' \in BOOLEAN /\ need_leave' \in BOOLEAN /\ cooled' \in BOOLEAN
      /\ left' \in BOOLEAN
  BY Zenon DEF FinishUnlock
<1>3. UNCHANGED <<view, faulty, gap, seq, expected_seq, requests, asked>> /\ pc' = "poll"
  BY DEF FinishUnlock, camera
<1> QED BY <1>1, <1>2, <1>3 DEF TInv, Counting, TypeOK

LEMMA LineTyped ==
  ASSUME TInv, wait_ack \/ poll \/ k230_cmd_dispatch \/ Lose
  PROVE  TInv'
<1> USE CountsAssumption DEF TInv, Counting, TypeOK, camera, counters, link, history
<1>1. CASE wait_ack
  <2>1. \A n \in 1..(Len(acks) + 1) : SubSeq(acks, n, Len(acks)) \in Seq(Entry)
    OBVIOUS
  <2>2. acks # <<>> => Tail(acks) \in Seq(Entry)
    BY HeadTailProperties
  <2>3. CASE AckRead
    <3>1. acks' \in Seq(Entry)
      BY <2>1, <2>3 DEF AckRead
    <3> QED BY <2>3, <3>1, FinishTyped DEF AckRead
  <2>4. CASE OtherRead
    BY <2>2, <2>4 DEF OtherRead
  <2>5. CASE AckTimeout
    <3>1. acks' \in Seq(Entry)
      BY <2>2, <2>5 DEF AckTimeout
    <3> QED BY <2>5, <3>1, FinishTyped DEF AckTimeout
  <2> QED BY <1>1, <2>3, <2>4, <2>5 DEF wait_ack
<1>2. CASE poll
  BY <1>2 DEF poll
<1>3. CASE k230_cmd_dispatch
  <2>1. Head(requests) \in Entry /\ Tail(requests) \in Seq(Entry)
    BY <1>3 DEF k230_cmd_dispatch
  <2>2. asked' \in {"no", "old", "this"}
    BY <1>3 DEF k230_cmd_dispatch
  <2> QED BY <1>3, <2>1, <2>2 DEF k230_cmd_dispatch
<1>4. CASE Lose
  <2>1. requests' \in Seq(Entry) /\ acks' \in Seq(Entry)
    BY <1>4, HeadTailProperties DEF Lose
  <2> QED BY <1>4, <2>1 DEF Lose
<1> QED BY <1>1, <1>2, <1>3, <1>4

LEMMA TypedStep == TInv /\ [Next]_vars => TInv'
<1> SUFFICES ASSUME TInv, [Next]_vars PROVE TInv'
  OBVIOUS
<1>1. CASE CoolDown
  BY <1>1 DEF CoolDown, TInv, Counting, TypeOK, camera, counters, link, history
<1>2. CASE Surroundings
  <2>1. view' \in View /\ faulty' \in BOOLEAN
    BY <1>2, Zenon DEF Surroundings, TInv, TypeOK
  <2> QED BY <1>2, <2>1 DEF Surroundings, TInv, Counting, TypeOK, counters, link, history
<1>3. CASE UNCHANGED vars
  BY <1>3 DEF vars, TInv, Counting, TypeOK, camera, counters, link, history
<1> QED BY <1>1, <1>2, <1>3, FrameTyped, LineTyped DEF Next

THEOREM TypedInvariance == Spec => []TInv
  BY InitTyped, TypedStep, PTL DEF Spec

\* The variables keep their types, the sequences on the line included.
THEOREM TypeCorrect == Spec => []TypeOK
<1>1. TInv => TypeOK
  BY DEF TInv
<1> QED BY TypedInvariance, <1>1, PTL

-----------------------------------------------------------------------------
(* Acknowledgements.                                                       *)

On(line) == {line[i] : i \in 1..Len(line)}

LEMMA OnTail ==
  ASSUME NEW line \in Seq(Entry), line # <<>>
  PROVE  Head(line) \in On(line) /\ On(Tail(line)) \subseteq On(line)
<1>1. /\ Len(Tail(line)) = Len(line) - 1
      /\ \A i \in 1..Len(Tail(line)) : Tail(line)[i] = line[i + 1]
  BY HeadTailProperties
<1>2. Head(line) = line[1] /\ Len(line) \in Nat \ {0}
  OBVIOUS
<1> QED BY <1>1, <1>2 DEF On

LEMMA OnSub ==
  ASSUME NEW line \in Seq(Entry), NEW n \in 1..(Len(line) + 1)
  PROVE  On(SubSeq(line, n, Len(line))) \subseteq On(line)
<1> DEFINE sub == SubSeq(line, n, Len(line))
<1>1. /\ Len(sub) = IF n <= Len(line) THEN Len(line) - n + 1 ELSE 0
      /\ \A i \in 1..(Len(line) - n + 1) : sub[i] = line[n + i - 1]
  BY SubSeqProperties
<1>2. \A i \in 1..Len(sub) : sub[i] = line[n + i - 1] /\ n + i - 1 \in 1..Len(line)
  BY <1>1
<1> QED BY <1>2 DEF On

LEMMA OnAppend ==
  ASSUME NEW line \in Seq(Entry), NEW e \in Entry
  PROVE  On(Append(line, e)) = On(line) \cup {e}
<1>1. /\ Len(Append(line, e)) = Len(line) + 1
      /\ \A i \in 1..Len(line) : Append(line, e)[i] = line[i]
      /\ Append(line, e)[Len(line) + 1] = e
  OBVIOUS
<1>2. Len(line) \in Nat
  OBVIOUS
<1> QED BY <1>1, <1>2 DEF On

\* An acknowledgement of the current request means that it was acted on; while
\* one is waited for, only the current request bears its number.
AckInv ==
  /\ \A e \in On(acks) : e.current => asked = "this"
  /\ pc = "wait" =>
       \A e \in On(requests) \cup On(acks) : e.seq = expected_seq => e.current
  /\ AckMeansAsked

LEMMA InitAck == Init => AckInv
<1>1. On(<<>>) = {}
  BY DEF On
<1> QED BY <1>1 DEF Init, AckInv, AckMeansAsked

LEMMA SendAck ==
  ASSUME TInv, AckInv, send_face_unlock_req
  PROVE  AckInv'
<1> DEFINE e == [seq |-> seq, current |-> TRUE]
<1>1. e \in Entry /\ seq \in 0..(SeqCount - 1)
  BY DEF TInv, TypeOK, Entry
<1>2. \A line \in {requests, acks} :
        /\ Older(line) \in Seq(Entry)
        /\ \A o \in On(Older(line)) : ~o.current /\ o.seq # seq
  BY <1>1, OlderEntries DEF TInv, TypeOK, On
<1>3. On(requests') = On(Older(requests)) \cup {e} /\ On(acks') = On(Older(acks))
  BY <1>1, <1>2, OnAppend DEF send_face_unlock_req
<1>4. confirmed' = FALSE /\ expected_seq' = seq
  BY DEF send_face_unlock_req
<1> QED BY <1>2, <1>3, <1>4 DEF AckInv, AckMeansAsked

\* What leaves the entries and the history alone, or only takes entries away.
LEMMA FewerAck ==
  ASSUME AckInv, On(requests') \subseteq On(requests), On(acks') \subseteq On(acks),
         UNCHANGED <<asked, expected_seq>>, pc' = "wait" => pc = "wait",
         confirmed' => confirmed \/ asked = "this"
  PROVE  AckInv'
  BY DEF AckInv, AckMeansAsked

LEMMA WaitAck == ASSUME TInv, AckInv, wait_ack PROVE AckInv'
<1>1. acks \in Seq(Entry)
  BY DEF TInv, TypeOK
<1>2. acks # <<>> => Head(acks) \in On(acks) /\ On(Tail(acks)) \subseteq On(acks)
  BY <1>1, OnTail
<1>3. CASE AckRead
  <2>1. asked = "this"
    BY <1>2, <1>3 DEF AckRead, Matches, AckInv
  <2>2. On(acks') \subseteq On(acks)
    BY <1>1, <1>3, OnSub DEF AckRead
  <2> QED BY <1>3, <2>1, <2>2, FewerAck DEF AckRead, FinishUnlock
<1>4. CASE OtherRead
  BY <1>2, <1>4, FewerAck DEF OtherRead
<1>5. CASE AckTimeout
  <2>1. On(acks') \subseteq On(acks)
    BY <1>2, <1>5 DEF AckTimeout
  <2> QED BY <1>5, <2>1, FewerAck DEF AckTimeout, FinishUnlock
<1> QED BY <1>3, <1>4, <1>5 DEF wait_ack

LEMMA DispatchAck == ASSUME TInv, AckInv, k230_cmd_dispatch PROVE AckInv'
<1>1. requests \in Seq(Entry) /\ acks \in Seq(Entry) /\ requests # <<>>
  BY DEF TInv, TypeOK, k230_cmd_dispatch
<1>2. Head(requests) \in On(requests) /\ On(requests') \subseteq On(requests)
  BY <1>1, OnTail DEF k230_cmd_dispatch
<1>3. On(acks') = On(acks) \cup {Head(requests)}
  BY <1>1, OnAppend, HeadTailProperties DEF k230_cmd_dispatch
<1>4. /\ Head(requests).current => asked' = "this"
      /\ asked = "this" => asked' = "this"
      /\ UNCHANGED <<pc, expected_seq, confirmed>>
  BY DEF k230_cmd_dispatch
<1> QED BY <1>2, <1>3, <1>4 DEF AckInv, AckMeansAsked

LEMMA AckStep == TInv /\ AckInv /\ [Next]_vars => AckInv'
<1> SUFFICES ASSUME TInv, AckInv, [Next]_vars PROVE AckInv'
  OBVIOUS
<1>1. CASE process
  <2>1. CASE send_face_unlock_req
    BY <2>1, SendAck
  <2>2. CASE UNCHANGED link /\ pc' = "poll"
    BY <2>2, FewerAck DEF link
  <2> QED BY <1>1, <2>1, <2>2
          DEF process, NoFace, Skipped, StillThere, Authorized, Rejected
<1>2. CASE poll
  BY <1>2, OnSub, FewerAck DEF poll, TInv, TypeOK
<1>3. CASE Lose
  BY <1>3, OnTail, FewerAck DEF Lose, TInv, TypeOK
<1>4. CASE CoolDown \/ Surroundings \/ UNCHANGED vars
  BY <1>4, FewerAck DEF CoolDown, Surroundings, vars, link
<1> QED BY <1>1, <1>2, <1>3, <1>4, WaitAck, DispatchAck DEF Next

\* An unlock that the face unit reports as acknowledged was acted on by the lock,
\* however late or lost earlier requests and acknowledgements are.
THEOREM Acknowledged == Spec => []AckMeansAsked
<1>1. TInv /\ AckInv /\ [Next]_vars => (TInv /\ AckInv)'
  BY TypedStep, AckStep
<1>2. Init => TInv /\ AckInv
  BY InitTyped, InitAck
<1>3. TInv /\ AckInv => AckMeansAsked
  BY DEF AckInv
<1> QED BY <1>1, <1>2, <1>3, PTL DEF Spec

-----------------------------------------------------------------------------
(***************************************************************************)
(* How long a person has to stay.  That the door is asked to open is a     *)
(* liveness property; how many frames it takes is not.                     *)
(***************************************************************************)
\* The frames that are skipped before the heavy models run, the times they have to
\* run, and the frames that makes until the request is sent, for a person who
\* stays once the cool-down is over.
SkipsLeft == IF gap + 1 < HeavyInterval THEN HeavyInterval - 1 - gap ELSE 0

RunsLeft == (Required - success) + (IF need_leave THEN 1 ELSE 0)

FramesLeft == SkipsLeft + 1 + (RunsLeft - 1) * HeavyInterval

\* Each frame is one turn of the main loop, in two steps.
StepsToRequest == 2 * FramesLeft - (IF pc = "frame" THEN 1 ELSE 0)

RequestIsNear ==
  pc # "wait" => StepsToRequest \in 1..(2 * (Required + 1) * HeavyInterval)

\* Every frame that shows the person sends the request or brings it nearer; no
\* frame lost on the line and no late acknowledgement puts it off.
NothingPutsOff ==
  [][\A p \in People : view = p /\ view' = p /\ cooled /\ pc # "wait" =>
       IF process \/ poll
         THEN pc' = "wait" \/ StepsToRequest' < StepsToRequest
         ELSE StepsToRequest' = StepsToRequest]_vars

LEMMA Products ==
  ASSUME NEW r \in Nat \ {0}, NEW h \in Nat \ {0}
  PROVE  /\ r * h \in Nat /\ (r - 1) * h = r * h - h
         /\ (r - 1) * h \in Nat
         /\ \A n \in Nat : r <= n => r * h <= n * h
<1>1. r * h \in Nat /\ (r - 1) * h \in Nat /\ (r - 1) * h = r * h - h
  OBVIOUS
<1>2. ASSUME NEW n \in Nat, r <= n PROVE r * h <= n * h
  <2>1. n = r + (n - r) /\ n - r \in Nat
    BY <1>2
  <2>2. (r + (n - r)) * h = r * h + (n - r) * h /\ (n - r) * h \in Nat
    BY <2>1
  <2> QED BY <1>1, <2>1, <2>2
<1> QED BY <1>1, <1>2

LEMMA FramesBounded ==
  ASSUME TInv, pc # "wait"
  PROVE  /\ RunsLeft \in 1..(Required + 1) /\ SkipsLeft \in 0..(HeavyInterval - 1)
         /\ FramesLeft \in 1..((Required + 1) * HeavyInterval)
<1> USE CountsAssumption
<1>1. RunsLeft \in 1..(Required + 1) /\ SkipsLeft \in 0..(HeavyInterval - 1)
  BY DEF TInv, TypeOK, Counting, RunsLeft, SkipsLeft
<1>2. /\ (RunsLeft - 1) * HeavyInterval = RunsLeft * HeavyInterval - HeavyInterval
      /\ (RunsLeft - 1) * HeavyInterval \in Nat
      /\ RunsLeft * HeavyInterval <= (Required + 1) * HeavyInterval
      /\ RunsLeft * HeavyInterval \in Nat /\ (Required + 1) * HeavyInterval \in Nat
  BY <1>1, Products
<1> QED BY <1>1, <1>2 DEF FramesLeft

\* A frame without the heavy models brings them nearer, one with them leaves a
\* recognition less to be made.
LEMMA FrameAdvances ==
  ASSUME TInv, NEW p \in People, view = p, cooled, process
  PROVE  pc' = "wait" \/ FramesLeft' = FramesLeft - 1
<1> USE CountsAssumption DEF TInv, TypeOK, Counting
<1>1. view \notin {"none", "unclear", "stranger"}
  BY PeopleAssumption
<1>2. pc = "frame" /\ gap \in 0..HeavyInterval /\ success \in 0..(Required - 1)
  BY DEF process
<1>3. CASE Skipped
  <2>1. gap + 1 < HeavyInterval /\ gap' = gap + 1 /\ RunsLeft' = RunsLeft
    BY <1>1, <1>2, <1>3 DEF Skipped, UpTo, RunsLeft
  <2>2. SkipsLeft' = SkipsLeft - 1
    BY <1>2, <2>1 DEF SkipsLeft
  <2>3. RunsLeft \in 1..(Required + 1) /\ SkipsLeft \in Nat
    BY <1>2, FramesBounded
  <2>4. (RunsLeft - 1) * HeavyInterval \in Nat
    BY <2>3, Products
  <2> QED BY <2>1, <2>2, <2>3, <2>4 DEF FramesLeft
<1>4. CASE StillThere \/ Authorized
  <2>1. gap + 1 >= HeavyInterval /\ gap' = 0
    BY <1>4 DEF StillThere, Authorized, Heavy
  <2>2. CASE pc' # "wait"
    <3>1. RunsLeft' = RunsLeft - 1 /\ RunsLeft >= 2
      <4>1. CASE StillThere
        <5>1. need_leave = TRUE /\ need_leave' = FALSE /\ success' = success
          BY <1>1, <4>1 DEF StillThere
        <5> QED BY <1>2, <5>1 DEF RunsLeft
      <4>2. CASE Authorized
        <5>1. success' = success + 1 /\ success + 1 < Required /\ UNCHANGED need_leave
          BY <1>2, <2>2, <4>2 DEF Authorized
        <5>2. need_leave = FALSE
          BY <4>2 DEF Authorized
        <5> QED BY <1>2, <5>1, <5>2 DEF RunsLeft
      <4> QED BY <1>4, <4>1, <4>2
    <3>2. SkipsLeft = 0 /\ SkipsLeft' = HeavyInterval - 1
      BY <1>2, <2>1 DEF SkipsLeft
    <3>3. RunsLeft - 1 \in Nat \ {0}
      <4>1. RunsLeft \in 1..(Required + 1)
        BY <1>2, FramesBounded
      <4> QED BY <3>1, <4>1
    <3>4. /\ (RunsLeft - 1) * HeavyInterval \in Nat
          /\ (RunsLeft - 1 - 1) * HeavyInterval = (RunsLeft - 1) * HeavyInterval - HeavyInterval
      BY <3>3, Products
    <3>5. FramesLeft' = SkipsLeft' + 1 + (RunsLeft - 1 - 1) * HeavyInterval
      BY <3>1 DEF FramesLeft
    <3>6. FramesLeft = 1 + (RunsLeft - 1) * HeavyInterval
      BY <3>2, <3>4 DEF FramesLeft
    <3> QED BY <3>2, <3>4, <3>5, <3>6
  <2> QED BY <2>2
<1> QED BY <1>1, <1>3, <1>4 DEF process, NoFace, Rejected

LEMMA OthersLeaveFrames ==
  ASSUME TInv, [Next]_vars, ~process, pc # "wait"
  PROVE  FramesLeft' = FramesLeft /\ (poll \/ pc' = pc)
<1> SUFFICES UNCHANGED <<gap, success, need_leave>> /\ (poll \/ pc' = pc)
  BY DEF FramesLeft, SkipsLeft, RunsLeft
<1>1. ~wait_ack
  BY DEF wait_ack, AckRead, OtherRead, AckTimeout
<1>2. CASE poll
  BY <1>2 DEF poll, counters
<1>3. CASE CoolDown \/ k230_cmd_dispatch \/ Lose \/ Surroundings \/ UNCHANGED vars
  BY <1>3 DEF CoolDown, k230_cmd_dispatch, Lose, Surroundings, vars, counters
<1> QED BY <1>1, <1>2, <1>3 DEF Next

\* A person who stays, in front of a unit in whatever state strangers, frames
\* without a face and lost acknowledgements have left it, has the door asked to
\* open after at most Required + 1 runs of the heavy models once the cool-down
\* is over.
THEOREM RequestSoon == Spec => []RequestIsNear /\ NothingPutsOff
<1> USE CountsAssumption
<1>1. TInv => RequestIsNear
  <2> SUFFICES ASSUME TInv, pc # "wait"
               PROVE  StepsToRequest \in 1..(2 * (Required + 1) * HeavyInterval)
    BY DEF RequestIsNear
  <2>1. /\ FramesLeft \in 1..((Required + 1) * HeavyInterval)
        /\ (Required + 1) * HeavyInterval \in Nat
    BY FramesBounded, Products
  <2>2. 2 * (Required + 1) * HeavyInterval = 2 * ((Required + 1) * HeavyInterval)
    OBVIOUS
  <2> QED BY <2>1, <2>2 DEF StepsToRequest
<1>2. ASSUME TInv, TInv', [Next]_vars, NEW p \in People, view = p, cooled, pc # "wait"
      PROVE  IF process \/ poll
               THEN pc' = "wait" \/ StepsToRequest' < StepsToRequest
               ELSE StepsToRequest' = StepsToRequest
  <2>1. FramesLeft \in Nat /\ pc \in {"frame", "poll"}
    BY <1>2, FramesBounded DEF TInv, TypeOK
  <2>2. CASE process
    <3>1. pc = "frame" /\ pc' \in {"wait", "poll"}
      BY <2>2 DEF process, NoFace, Skipped, StillThere, Authorized, Rejected
    <3> QED BY <1>2, <2>1, <2>2, <3>1, FrameAdvances DEF StepsToRequest
  <2>3. CASE ~process
    <3>1. FramesLeft' = FramesLeft /\ (poll \/ pc' = pc)
      BY <1>2, <2>3, OthersLeaveFrames
    <3>2. poll => pc = "poll" /\ pc' = "frame"
      BY DEF poll
    <3> QED BY <2>1, <2>3, <3>1, <3>2 DEF StepsToRequest
  <2> QED BY <2>2, <2>3
<1>3. TInv /\ TInv' /\ [Next]_vars =>
        [\A p \in People : view = p /\ view' = p /\ cooled /\ pc # "wait" =>
           IF process \/ poll
             THEN pc' = "wait" \/ StepsToRequest' < StepsToRequest
             ELSE StepsToRequest' = StepsToRequest]_vars
  BY <1>2
<1> QED BY TypedInvariance, <1>1, <1>3, PTL DEF Spec, NothingPutsOff
=============================================================================
