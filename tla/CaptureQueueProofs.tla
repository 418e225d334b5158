------------------------- MODULE CaptureQueueProofs -------------------------
(***************************************************************************)
(* Proofs about the captures of the face unit, for any number of captures  *)
(* and restarts, any limits and whatever network, card and people do.      *)
(***************************************************************************)
EXTENDS CaptureQueue, SequenceTheorems, TLAPS

-----------------------------------------------------------------------------
(* The frame counters.                                                     *)

\* Frames are counted for the queue only when they are counted at all.
QuietInv ==
  /\ idle \in 0..IdleFrames /\ quiet \in 0..IdleFrames
  /\ idle <= quiet
  /\ UploadsWaitForQuiet

LEMMA QuietStep == QuietInv /\ [Next]_vars => QuietInv'
<1> SUFFICES ASSUME QuietInv, [Next]_vars PROVE QuietInv'
  OBVIOUS
<1> USE CaptureAssumption DEF QuietInv, UploadsWaitForQuiet
<1>1. CASE EmptyFrame
  <2>1. /\ quiet' \in 0..IdleFrames /\ quiet <= quiet'
        /\ idle + 1 <= IdleFrames => idle + 1 <= quiet'
    BY <1>1 DEF EmptyFrame, UpTo
  <2>2. idle' \in 0..IdleFrames /\ idle' <= quiet'
    BY <1>1, <2>1 DEF EmptyFrame, UpTo
  <2>3. pc' \in {"connect", "frames"} /\ (pc' = "connect" => idle' = IdleFrames)
    BY <1>1 DEF EmptyFrame
  <2> QED BY <2>1, <2>2, <2>3
<1>2. CASE UsableFrame
  BY <1>2 DEF UsableFrame
<1>3. CASE CaptureSave \/ CaptureFails
  BY <1>3 DEF CaptureSave, CaptureFails, memory
<1>4. CASE UploadConnect
  BY <1>4 DEF UploadConnect, GiveUp
<1>5. CASE Attempt
  BY <1>5 DEF Attempt, StoredAndConfirmed, NotConfirmed, GiveUp
<1>6. CASE RemoveLocal \/ Restart \/ TimePasses
  BY <1>6 DEF RemoveLocal, Restart, TimePasses
<1>7. CASE Surroundings \/ CardFault \/ UNCHANGED vars
  BY <1>7 DEF Surroundings, CardFault, vars, memory
<1> QED BY <1>1, <1>2, <1>3, <1>4, <1>5, <1>6, <1>7 DEF Next

\* The frame loop stops for an upload only after IdleFrames frames without a face.
THEOREM QuietUploads == Spec => []UploadsWaitForQuiet
<1>1. Init => QuietInv
  BY CaptureAssumption DEF Init, QuietInv, UploadsWaitForQuiet
<1>2. QuietInv => UploadsWaitForQuiet
  BY DEF QuietInv
<1> QED BY <1>1, <1>2, QuietStep, PTL DEF Spec

-----------------------------------------------------------------------------
(* The queue.                                                              *)

\* The queue holds captures of this run in the order they were taken, none older
\* than the one the cloud received last; what is uploaded is its head.
QueueInv ==
  /\ count \in 0..MaxCaptures /\ first \in 1..(count + 1) /\ last \in 0..count
  /\ queue \in Seq(Nat)
  /\ \A i \in 1..Len(queue) : queue[i] \in first..count /\ last <= queue[i]
  /\ \A i, j \in 1..Len(queue) : i < j => queue[i] < queue[j]
  /\ pc \in {"connect", "upload"} => queue # <<>>

\* Where the picture is about to be removed, the cloud has it.
LossInv == NothingLost /\ (pc = "remove" => last \in cloud)

\* Removing the head of the queue keeps its order.
LEMMA TailKeepsOrder ==
  ASSUME QueueInv, queue # <<>>
  PROVE  /\ Head(queue) \in first..count /\ last <= Head(queue)
         /\ Tail(queue) \in Seq(Nat)
         /\ \A i \in 1..Len(Tail(queue)) :
              Tail(queue)[i] \in first..count /\ Head(queue) < Tail(queue)[i]
         /\ \A i, j \in 1..Len(Tail(queue)) : i < j => Tail(queue)[i] < Tail(queue)[j]
         /\ ToSet(queue) = {Head(queue)} \cup ToSet(Tail(queue))
<1> USE DEF QueueInv
<1>1. Len(queue) \in Nat \ {0} /\ Head(queue) = queue[1]
  OBVIOUS
<1>2. /\ Tail(queue) \in Seq(Nat) /\ Len(Tail(queue)) = Len(queue) - 1
      /\ \A i \in 1..Len(Tail(queue)) : Tail(queue)[i] = queue[i + 1] /\ i + 1 \in 1..Len(queue)
  BY <1>1, HeadTailProperties
<1>3. ToSet(queue) = {Head(queue)} \cup ToSet(Tail(queue))
  <2>1. DOMAIN queue = 1..Len(queue) /\ DOMAIN Tail(queue) = 1..(Len(queue) - 1)
    BY <1>2
  <2>2. \A i \in 1..Len(queue) : i = 1 \/ (i - 1 \in 1..(Len(queue) - 1) /\ queue[i] = Tail(queue)[i - 1])
    BY <1>1, <1>2
  <2>3. ASSUME NEW e \in ToSet(queue) PROVE e \in {Head(queue)} \cup ToSet(Tail(queue))
    <3>1. PICK i \in 1..Len(queue) : e = queue[i]
      BY <2>1 DEF ToSet
    <3> QED BY <1>1, <2>1, <2>2, <3>1 DEF ToSet
  <2>4. Head(queue) \in ToSet(queue)
    BY <1>1, <2>1 DEF ToSet
  <2>5. ASSUME NEW e \in ToSet(Tail(queue)) PROVE e \in ToSet(queue)
    <3>1. PICK i \in 1..(Len(queue) - 1) : e = Tail(queue)[i]
      BY <2>1 DEF ToSet
    <3>2. i + 1 \in 1..Len(queue) /\ e = queue[i + 1]
      BY <1>1, <1>2, <3>1
    <3> QED BY <2>1, <3>2 DEF ToSet
  <2> QED BY <2>3, <2>4, <2>5
<1> QED BY <1>1, <1>2, <1>3

LEMMA AppendKeepsOrder ==
  ASSUME QueueInv
  PROVE  LET q == Append(queue, count + 1) IN
         /\ q \in Seq(Nat)
         /\ \A i \in 1..Len(q) : q[i] \in first..(count + 1) /\ last <= q[i]
         /\ \A i, j \in 1..Len(q) : i < j => q[i] < q[j]
         /\ ToSet(q) = ToSet(queue) \cup {count + 1}
<1> DEFINE q == Append(queue, count + 1)
<1> USE DEF QueueInv
<1>1. count + 1 \in Nat /\ Len(queue) \in Nat
  OBVIOUS
<1>2. /\ q \in Seq(Nat) /\ Len(q) = Len(queue) + 1
      /\ \A i \in 1..Len(queue) : q[i] = queue[i]
      /\ q[Len(queue) + 1] = count + 1
  BY <1>1
<1>3. \A i \in 1..Len(q) : i \in 1..Len(queue) \/ i = Len(queue) + 1
  BY <1>1, <1>2
<1>4. ToSet(q) = ToSet(queue) \cup {count + 1}
  <2>1. DOMAIN q = 1..(Len(queue) + 1) /\ DOMAIN queue = 1..Len(queue)
    BY <1>2
  <2> HIDE DEF q
  <2>2. ASSUME NEW e \in ToSet(q) PROVE e \in ToSet(queue) \cup {count + 1}
    <3>1. PICK i \in 1..(Len(queue) + 1) : e = q[i]
      BY <2>1, Zenon DEF ToSet
    <3>2. CASE i = Len(queue) + 1
      BY <1>2, <3>1, <3>2
    <3>3. CASE i # Len(queue) + 1
      <4>1. i \in 1..Len(queue)
        BY <1>1, <3>3
      <4> QED BY <1>2, <2>1, <3>1, <4>1, Zenon DEF ToSet
    <3> QED BY <3>2, <3>3
  <2>3. ASSUME NEW e \in ToSet(queue) PROVE e \in ToSet(q)
    <3>1. PICK i \in 1..Len(queue) : e = queue[i]
      BY <2>1, Zenon DEF ToSet
    <3>2. i \in 1..(Len(queue) + 1) /\ e = q[i]
      BY <1>1, <1>2, <3>1
    <3> QED BY <2>1, <3>2, Zenon DEF ToSet
  <2>4. count + 1 \in ToSet(q)
    <3>1. Len(queue) + 1 \in 1..(Len(queue) + 1)
      BY <1>1
    <3> QED BY <1>2, <2>1, <3>1, Zenon DEF ToSet
  <2> QED BY <2>2, <2>3, <2>4
<1>5. \A i \in 1..Len(q) : q[i] \in first..(count + 1) /\ last <= q[i]
  BY <1>1, <1>2, <1>3
<1>6. \A i, j \in 1..Len(q) : i < j => q[i] < q[j]
  BY <1>1, <1>2, <1>3
<1> QED BY <1>2, <1>4, <1>5, <1>6

-----------------------------------------------------------------------------
(* One lemma for each step that does something to the queue or the cloud.  *)

CInv == QueueInv /\ LossInv

LEMMA InitC == Init => CInv
<1>1. ToSet(<<>>) = {}
  BY DEF ToSet
<1> QED BY <1>1, CaptureAssumption, EmptySeq DEF Init, CInv, QueueInv, LossInv, NothingLost

LEMMA SaveStep == ASSUME CInv, CaptureSave PROVE CInv'
<1> USE DEF CInv
<1>1. queue' = Append(queue, count + 1) /\ count' = count + 1 /\ pc' = "frames"
      /\ UNCHANGED <<first, last, cloud>>
  BY DEF CaptureSave
<1>2. QueueInv'
  BY <1>1, AppendKeepsOrder, CaptureAssumption DEF CaptureSave, QueueInv
<1>3. \A c \in files : ~(c < first) => c \in files'
  BY DEF CaptureSave
<1>4. count + 1 \in files' /\ ToSet(queue') = ToSet(queue) \cup {count + 1}
  BY <1>1, AppendKeepsOrder DEF CaptureSave
<1>5. ASSUME NEW c \in first..(count + 1)
      PROVE  c \in cloud \/ (c \in ToSet(queue') /\ c \in files')
  <2>1. c \in first..count \/ c = count + 1
    BY DEF QueueInv
  <2> QED BY <1>3, <1>4, <2>1 DEF LossInv, NothingLost, QueueInv
<1> QED BY <1>1, <1>2, <1>5 DEF LossInv, NothingLost

LEMMA AttemptStep == ASSUME CInv, Attempt PROVE CInv' /\ last' >= last
<1> USE DEF CInv
<1>1. /\ queue # <<>> /\ pc = "upload"
      /\ UNCHANGED <<first, count, files>>
  BY DEF Attempt, QueueInv, card, history
<1>2. last' \in {last, Head(queue)} /\ cloud \subseteq cloud'
  BY DEF Attempt
<1>3. Head(queue) \in first..count /\ last <= Head(queue)
  BY <1>1, TailKeepsOrder
<1>4. last' >= last /\ last' \in 0..count /\ last' <= Head(queue)
  BY <1>2, <1>3 DEF QueueInv
<1>5. CASE StoredAndConfirmed /\ Head(queue) \in cloud' /\ last' = Head(queue)
  <2>1. queue' = Tail(queue) /\ pc' = "remove"
    BY <1>5 DEF StoredAndConfirmed
  <2>2. QueueInv'
    BY <1>1, <1>4, <1>5, <2>1, TailKeepsOrder DEF QueueInv
  <2>3. ToSet(queue) = {Head(queue)} \cup ToSet(queue')
    BY <1>1, <2>1, TailKeepsOrder
  <2> QED BY <1>1, <1>2, <1>4, <1>5, <2>2, <2>3 DEF LossInv, NothingLost
<1>6. CASE NotConfirmed
  <2>1. queue' = queue /\ pc' # "remove"
    BY <1>1, <1>6 DEF NotConfirmed, GiveUp
  <2>2. \A i \in 1..Len(queue) : Head(queue) <= queue[i]
    BY <1>1 DEF QueueInv
  <2>3. QueueInv'
    BY <1>1, <1>4, <2>1, <2>2 DEF QueueInv
  <2> QED BY <1>1, <1>2, <1>4, <2>1, <2>3 DEF LossInv, NothingLost
<1> QED BY <1>5, <1>6 DEF Attempt

LEMMA RemoveStep == ASSUME CInv, RemoveLocal PROVE CInv'
<1>1. \A c \in files : c \in files' \/ c = last
  BY DEF RemoveLocal
<1>2. UNCHANGED <<queue, cloud, count, first, last>> /\ pc' = "frames" /\ last \in cloud
  BY DEF RemoveLocal, history, CInv, LossInv
<1> QED BY <1>1, <1>2 DEF CInv, QueueInv, LossInv, NothingLost

LEMMA RestartStep == ASSUME CInv, Restart PROVE CInv'
<1>1. queue' = <<>> /\ first' = count + 1 /\ pc' = "frames" /\ UNCHANGED <<count, last, cloud>>
  BY DEF Restart
<1>2. QueueInv'
  BY <1>1, EmptySeq DEF CInv, QueueInv
<1>3. first'..count' = {}
  BY <1>1 DEF CInv, QueueInv
<1> QED BY <1>1, <1>2, <1>3 DEF CInv, LossInv, NothingLost

\* The other steps only move the frame loop on.
LEMMA OtherStep ==
  ASSUME CInv, UNCHANGED <<queue, cloud, files, count, first, last>>,
         pc' \in {"connect", "upload"} => queue # <<>>,
         pc' = "remove" => pc = "remove"
  PROVE  CInv'
  BY DEF CInv, QueueInv, LossInv, NothingLost

LEMMA CStep == CInv /\ [Next]_vars => CInv'
<1> SUFFICES ASSUME CInv, [Next]_vars PROVE CInv'
  OBVIOUS
<1>1. CASE EmptyFrame \/ UsableFrame \/ CaptureFails
  BY <1>1, OtherStep DEF EmptyFrame, UsableFrame, CaptureFails, memory, card, history
<1>2. CASE UploadConnect
  BY <1>2, OtherStep DEF UploadConnect, GiveUp, card, history, CInv, QueueInv
<1>3. CASE TimePasses \/ Surroundings \/ CardFault \/ UNCHANGED vars
  <2>1. UNCHANGED <<queue, cloud, files, count, first, last, pc>>
    BY <1>3 DEF TimePasses, Surroundings, CardFault, vars, memory, card, history
  <2> QED BY <2>1, OtherStep DEF CInv, QueueInv
<1> QED BY <1>1, <1>2, <1>3, SaveStep, AttemptStep, RemoveStep, RestartStep DEF Next

THEOREM QueueInvariance == Spec => []CInv
  BY InitC, CStep, PTL DEF Spec

\* No capture of the current run is lost, whatever fails and however often.
THEOREM Kept == Spec => []NothingLost
<1>1. CInv => NothingLost
  BY DEF CInv, LossInv
<1> QED BY QueueInvariance, <1>1, PTL

\* The cloud receives the captures in the order they were taken, through retries
\* and restarts.
THEOREM InOrder == Spec => CloudFifo
<1>1. CInv /\ [Next]_vars => [last' >= last]_last
  <2> SUFFICES ASSUME CInv, Next, last' # last PROVE last' >= last
    BY DEF vars
  <2>1. Attempt
    BY DEF Next, EmptyFrame, UsableFrame, CaptureSave, CaptureFails, UploadConnect,
           RemoveLocal, Restart, TimePasses, Surroundings, CardFault
  <2> QED BY <2>1, AttemptStep
<1> QED BY <1>1, QueueInvariance, PTL DEF Spec, CloudFifo

-----------------------------------------------------------------------------
(* The queue implements Outbox.                                            *)

LEMMA AttemptDelivers ==
  ASSUME CInv, Attempt
  PROVE  Uploads!Deliver \/ UNCHANGED Uploads!boxVars
<1>1. queue # <<>> /\ UNCHANGED count
  BY DEF Attempt, history, CInv, QueueInv
<1>2. CASE cloud' = cloud \cup {Head(queue)}
  <2>1. queue' \in {queue, Tail(queue)}
    BY DEF Attempt, StoredAndConfirmed, NotConfirmed, GiveUp
  <2> QED BY <1>1, <1>2, <2>1 DEF Uploads!Deliver
<1>3. CASE cloud' # cloud \cup {Head(queue)}
  <2>1. cloud' = cloud /\ queue' = queue
    BY <1>3 DEF Attempt, NotConfirmed, GiveUp
  <2> QED BY <1>1, <2>1 DEF Uploads!boxVars
<1> QED BY <1>2, <1>3

LEMMA OutboxStep ==
  CInv /\ [Next]_vars => [Uploads!Next]_(Uploads!boxVars)
<1> SUFFICES ASSUME CInv, [Next]_vars
             PROVE  Uploads!Next \/ UNCHANGED Uploads!boxVars
  OBVIOUS
<1>1. CASE CaptureSave
  BY <1>1 DEF CaptureSave, Uploads!Put, Uploads!Next
<1>2. CASE Attempt
  BY <1>2, AttemptDelivers DEF Uploads!Next
<1>3. CASE Restart
  BY <1>3 DEF Restart, Uploads!Crash, Uploads!Next
<1>4. CASE EmptyFrame \/ UsableFrame \/ CaptureFails
  BY <1>4 DEF EmptyFrame, UsableFrame, CaptureFails, memory, history, Uploads!boxVars
<1>5. CASE UploadConnect \/ RemoveLocal
  BY <1>5 DEF UploadConnect, GiveUp, RemoveLocal, history, Uploads!boxVars
<1>6. CASE TimePasses \/ Surroundings \/ CardFault \/ UNCHANGED vars
  BY <1>6 DEF TimePasses, Surroundings, CardFault, vars, memory, history, Uploads!boxVars
<1> QED BY <1>1, <1>2, <1>3, <1>4, <1>5, <1>6 DEF Next

\* Every step of the face unit is a step of Outbox or leaves its variables alone:
\* no failure, retry or lost answer takes a capture out of the queue that the
\* cloud does not have.
THEOREM QueueIsOutbox == Spec => ImplementsOutbox
<1>1. Init => Uploads!Init
  BY DEF Init, Uploads!Init
<1> QED BY <1>1, QueueInvariance, OutboxStep, PTL DEF Spec, ImplementsOutbox, Uploads!Spec

-----------------------------------------------------------------------------
(* Type correctness.                                                       *)

\* What TypeOK says beyond QuietInv and QueueInv.
RestTyped ==
  /\ view \in {"nobody", "face"} /\ net \in {"down", "poor", "good"}
  /\ pc \in {"frames", "capture", "connect", "upload", "remove"}
  /\ recent \in BOOLEAN /\ connected \in BOOLEAN
  /\ attempt \in 0..(Retries - 1)
  /\ unreadable \subseteq files /\ files \subseteq 1..count /\ cloud \subseteq 1..count
  /\ restarts \in 0..MaxRestarts

LEMMA ChanceBoolean == Chance \subseteq BOOLEAN
  BY Zenon DEF Chance

LEMMA RestStep == CInv /\ RestTyped /\ [Next]_vars => RestTyped'
<1> SUFFICES ASSUME CInv, RestTyped, [Next]_vars PROVE RestTyped'
  OBVIOUS
<1> USE CaptureAssumption DEF RestTyped, outside, memory, card, history
<1>1. CASE EmptyFrame
  <2>1. pc' \in {"connect", "frames"}
    BY <1>1 DEF EmptyFrame
  <2> QED BY <1>1, <2>1 DEF EmptyFrame
<1>2. CASE UsableFrame \/ CaptureFails
  BY <1>2 DEF UsableFrame, CaptureFails
<1>3. CASE CaptureSave
  <2>1. 1..count \subseteq 1..(count + 1) /\ count + 1 \in 1..(count + 1)
    BY DEF CInv, QueueInv
  <2>2. /\ files' \subseteq files \cup {count + 1} /\ unreadable' \subseteq files'
        /\ count' = count + 1
    BY <1>3 DEF CaptureSave
  <2>3. recent' = TRUE /\ pc' = "frames"
        /\ UNCHANGED <<view, net, connected, attempt, cloud, restarts>>
    BY <1>3 DEF CaptureSave
  <2> QED BY <2>1, <2>2, <2>3
<1>4. CASE UploadConnect
  <2>1. connected' \in BOOLEAN
    BY <1>4, ChanceBoolean, Zenon DEF UploadConnect
  <2>2. attempt' \in 0..(Retries - 1) /\ pc' \in {"upload", "frames"}
    BY <1>4 DEF UploadConnect, GiveUp
  <2> QED BY <1>4, <2>1, <2>2 DEF UploadConnect
<1>5. CASE Attempt
  <2>1. attempt' \in 0..(Retries - 1) /\ pc' \in {"upload", "frames", "remove"}
    BY <1>5 DEF Attempt, StoredAndConfirmed, NotConfirmed, GiveUp
  <2>2. Head(queue) \in 1..count
    BY <1>5, TailKeepsOrder DEF Attempt, CInv, QueueInv
  <2>3. cloud' \subseteq 1..count
    BY <1>5, <2>2 DEF Attempt
  <2> QED BY <1>5, <2>1, <2>3 DEF Attempt
<1>6. CASE RemoveLocal
  BY <1>6 DEF RemoveLocal
<1>7. CASE Restart
  <2>1. connected' \in BOOLEAN
    BY <1>7, ChanceBoolean, Zenon DEF Restart
  <2>2. restarts' \in 0..MaxRestarts /\ attempt' \in 0..(Retries - 1)
    BY <1>7 DEF Restart
  <2>3. recent' = FALSE /\ pc' = "frames"
        /\ UNCHANGED <<view, net, files, unreadable, cloud, count>>
    BY <1>7 DEF Restart
  <2> QED BY <2>1, <2>2, <2>3
<1>8. CASE TimePasses \/ Surroundings \/ CardFault
  BY <1>8 DEF TimePasses, Surroundings, CardFault
<1>9. CASE UNCHANGED vars
  BY <1>9 DEF vars
<1> QED BY <1>1, <1>2, <1>3, <1>4, <1>5, <1>6, <1>7, <1>8, <1>9 DEF Next

\* The variables keep their types; no capture is queued twice.
THEOREM TypeCorrect == Spec => []TypeOK
<1>1. Init => QuietInv /\ RestTyped
  <2>1. Init => recent \in BOOLEAN /\ connected \in BOOLEAN
    BY Zenon DEF Init
  <2> QED BY <2>1, CaptureAssumption DEF Init, QuietInv, UploadsWaitForQuiet, RestTyped
<1>2. CInv /\ QuietInv /\ RestTyped => TypeOK
  <2> SUFFICES ASSUME CInv, QuietInv, RestTyped PROVE TypeOK
    OBVIOUS
  <2>1. \A i \in 1..Len(queue) : queue[i] \in Captures
    BY CaptureAssumption DEF CInv, QueueInv, Captures
  <2>2. queue \in Seq(Captures)
    BY <2>1 DEF CInv, QueueInv
  <2>3. ASSUME NEW i \in DOMAIN queue, NEW j \in DOMAIN queue, queue[i] = queue[j]
        PROVE  i = j
    <3>1. i \in 1..Len(queue) /\ j \in 1..Len(queue) /\ Len(queue) \in Nat
      BY DEF CInv, QueueInv
    <3>2. queue[i] \in Nat /\ ~(i < j) /\ ~(j < i)
      BY <2>3, <3>1 DEF CInv, QueueInv
    <3> QED BY <3>1, <3>2
  <2> QED BY <2>2, <2>3 DEF CInv, QueueInv, QuietInv, RestTyped, TypeOK, IsInjective
<1> QED BY <1>1, <1>2, InitC, CStep, QuietStep, RestStep, PTL DEF Spec

-----------------------------------------------------------------------------
(***************************************************************************)
(* How long an upload can take.  That the queue is worked off is a         *)
(* liveness property; that in good conditions nothing of the queue's past  *)
(* (counts, attempts, lost answers) holds the next upload up is not.       *)
(***************************************************************************)
\* What is queued is on the card, also while a confirmed picture is removed.
PicturesInv ==
  /\ \A i \in 1..Len(queue) : queue[i] \in files
  /\ pc = "remove" => \A i \in 1..Len(queue) : queue[i] # last

\* The network works, nobody is in view, the card can be read and the last
\* capture is 3 s old.
Calm == net = "good" /\ view = "nobody" /\ unreadable = {} /\ ~recent

\* The steps of the frame loop before the oldest capture is delivered.
StepsToUpload ==
  CASE pc = "upload"  -> 1
    [] pc = "connect" -> 2
    [] pc = "frames"  -> IF idle < IdleFrames THEN IdleFrames - idle + 2 ELSE 3
    [] pc = "remove"  -> IdleFrames + 3
    [] pc = "capture" -> IdleFrames + 4

UploadIsNear == StepsToUpload \in 1..(IdleFrames + 4)

Delivers == Head(queue) \in cloud' /\ queue' = Tail(queue)

NothingHoldsUp ==
  [][queue # <<>> /\ Calm /\ Calm' /\ ~Restart =>
       Delivers \/ StepsToUpload' < StepsToUpload]_vars

LEMMA PicturesStep == CInv /\ PicturesInv /\ [Next]_vars => PicturesInv'
<1> SUFFICES ASSUME CInv, PicturesInv, [Next]_vars PROVE PicturesInv'
  OBVIOUS
<1> USE DEF PicturesInv
<1>1. CASE CaptureSave
  <2>1. queue' = Append(queue, count + 1) /\ pc' = "frames"
    BY <1>1 DEF CaptureSave
  <2>2. \A c \in files : ~(c < first) => c \in files'
    BY <1>1 DEF CaptureSave
  <2>3. count + 1 \in files'
    BY <1>1 DEF CaptureSave
  <2>4. \A i \in 1..Len(queue) : queue[i] \in files'
    BY <2>2 DEF CInv, QueueInv
  <2>5. ASSUME NEW i \in 1..Len(queue') PROVE queue'[i] \in files'
    BY <2>1, <2>3, <2>4 DEF CInv, QueueInv
  <2> QED BY <2>1, <2>5
<1>2. CASE Attempt
  <2>1. queue # <<>> /\ UNCHANGED files
    BY <1>2 DEF Attempt, card, CInv, QueueInv
  <2>2. CASE StoredAndConfirmed /\ last' = Head(queue)
    <3>1. queue' = Tail(queue)
      BY <2>2 DEF StoredAndConfirmed
    <3>2. ASSUME NEW i \in 1..Len(queue') PROVE queue'[i] \in files /\ queue'[i] # last'
      <4>1. i + 1 \in 1..Len(queue) /\ queue'[i] = queue[i + 1] /\ 1 \in 1..Len(queue)
            /\ Head(queue) = queue[1]
        BY <2>1, <3>1 DEF CInv, QueueInv
      <4>2. queue[1] < queue[i + 1] /\ queue[1] \in Nat /\ queue[i + 1] \in Nat
        BY <4>1 DEF CInv, QueueInv
      <4> QED BY <2>2, <4>1, <4>2
    <3> QED BY <2>1, <3>2
  <2>3. CASE NotConfirmed
    <3>1. UNCHANGED queue /\ pc' # "remove"
      BY <1>2, <2>3 DEF Attempt, NotConfirmed, GiveUp
    <3> QED BY <2>1, <3>1
  <2> QED BY <1>2, <2>2, <2>3 DEF Attempt
<1>3. CASE RemoveLocal
  <2>1. pc = "remove" /\ pc' = "frames" /\ UNCHANGED queue
    BY <1>3 DEF RemoveLocal
  <2>2. \A c \in files : c \in files' \/ c = last
    BY <1>3 DEF RemoveLocal
  <2> QED BY <2>1, <2>2
<1>4. CASE Restart
  <2>1. Len(queue') = 0 /\ pc' = "frames"
    BY <1>4 DEF Restart
  <2> QED BY <2>1
<1>5. CASE EmptyFrame \/ UsableFrame \/ CaptureFails
  BY <1>5 DEF EmptyFrame, UsableFrame, CaptureFails, memory, card
<1>6. CASE UploadConnect
  <2>1. pc' # "remove" /\ UNCHANGED <<queue, files>>
    BY <1>6 DEF UploadConnect, GiveUp, card
  <2> QED BY <2>1
<1>7. CASE TimePasses \/ Surroundings \/ CardFault \/ UNCHANGED vars
  <2>1. UNCHANGED <<queue, files, pc, last>>
    BY <1>7 DEF TimePasses, Surroundings, CardFault, vars, memory, card
  <2> QED BY <2>1
<1> QED BY <1>1, <1>2, <1>3, <1>4, <1>5, <1>6, <1>7 DEF Next

LEMMA UploadAdvances ==
  ASSUME CInv, QuietInv, PicturesInv, Next, queue # <<>>, Calm, Calm', ~Restart
  PROVE  Delivers \/ StepsToUpload' < StepsToUpload
<1> USE CaptureAssumption DEF StepsToUpload, QuietInv
<1>1. CASE EmptyFrame
  <2>1. idle' = UpTo(IdleFrames, idle + 1) /\ pc = "frames"
        /\ pc' = IF idle' = IdleFrames THEN "connect" ELSE "frames"
    BY <1>1 DEF EmptyFrame, Calm
  <2>2. CASE idle + 1 < IdleFrames
    <3>1. idle' = idle + 1 /\ pc' = "frames"
      BY <2>1, <2>2 DEF UpTo
    <3> QED BY <2>1, <2>2, <3>1
  <2>3. CASE ~(idle + 1 < IdleFrames)
    <3>1. idle' = IdleFrames /\ pc' = "connect"
      BY <2>1, <2>3 DEF UpTo
    <3> QED BY <2>1, <2>3, <3>1
  <2> QED BY <2>2, <2>3
<1>2. CASE CaptureFails
  BY <1>2 DEF CaptureFails, memory
<1>3. CASE UploadConnect
  <2>1. Chance = {TRUE}
    BY DEF Chance, Calm
  <2>2. connected' = TRUE
    BY <1>3, <2>1 DEF UploadConnect
  <2>3. Head(queue) \in files \ unreadable
    <3>1. 1 \in 1..Len(queue) /\ Head(queue) = queue[1]
      BY DEF CInv, QueueInv
    <3> QED BY <3>1 DEF PicturesInv, Calm
  <2>4. pc = "connect" /\ pc' = "upload"
    BY <1>3, <2>2, <2>3 DEF UploadConnect
  <2> QED BY <2>4
<1>4. CASE Attempt
  <2>1. Chance = {TRUE}
    BY DEF Chance, Calm
  <2>2. cloud' = cloud \cup {Head(queue)} /\ StoredAndConfirmed
    BY <1>4, <2>1 DEF Attempt
  <2> QED BY <2>2 DEF StoredAndConfirmed, Delivers
<1>5. CASE RemoveLocal
  BY <1>5 DEF RemoveLocal
<1>6. ~UsableFrame /\ ~CaptureSave /\ ~TimePasses
  BY DEF UsableFrame, CaptureSave, TimePasses, Calm
<1>7. ~Surroundings /\ ~CardFault
  BY DEF Surroundings, CardFault, Calm
<1> QED BY <1>1, <1>2, <1>3, <1>4, <1>5, <1>6, <1>7 DEF Next

\* In calm conditions every step of the frame loop delivers the oldest capture or
\* brings its delivery nearer, which takes IdleFrames + 4 steps at most, whatever
\* attempts were made and whatever answers were lost before.
THEOREM UploadsSoon == Spec => []UploadIsNear /\ NothingHoldsUp
<1>1. Init => QuietInv /\ PicturesInv
  BY CaptureAssumption DEF Init, QuietInv, UploadsWaitForQuiet, PicturesInv
<1>2. TypeOK => UploadIsNear
  <2>1. TypeOK => idle \in 0..IdleFrames
                  /\ pc \in {"frames", "capture", "connect", "upload", "remove"}
    BY DEF TypeOK
  <2> QED BY <2>1, CaptureAssumption DEF UploadIsNear, StepsToUpload
<1>3. CInv /\ QuietInv /\ PicturesInv /\ [Next]_vars =>
        [queue # <<>> /\ Calm /\ Calm' /\ ~Restart =>
           Delivers \/ StepsToUpload' < StepsToUpload]_vars
  BY UploadAdvances
<1> QED BY <1>1, <1>2, <1>3, TypeCorrect, QueueInvariance, QuietStep, PicturesStep, PTL
        DEF Spec, NothingHoldsUp
=============================================================================
