---------------------------- MODULE CaptureQueue ----------------------------
(***************************************************************************)
(* The captures of the face unit (K230/face_access_control.py): each       *)
(* unlocking saves a picture on the card and queues it; when nobody has    *)
(* been in view for a while, the frame loop itself uploads the oldest one, *)
(* and removes it from the card once the cloud has confirmed it.           *)
(*                                                                         *)
(* The queue is in memory only, the pictures outlive a restart.  A picture *)
(* is named after the clock, which the program never sets: after a restart *)
(* a new picture may overwrite one of an earlier run.  Within a run names  *)
(* differ: saving a picture takes longer than the second they count.       *)
(* Captures are numbered here from 1 on, through restarts.                 *)
(*                                                                         *)
(* A frame with a crowd or a detector error changes nothing of this and is *)
(* a stuttering step.  A picture that is only partly written is no capture. *)
(***************************************************************************)
EXTENDS Naturals, Sequences, SequencesExt

CONSTANTS
  IdleFrames,   (* frames without a face before an upload, 30 in the code    *)
  Retries,      (* UPLOAD_RETRY                                              *)
  MaxCaptures,  (* bound of the model: captures in all                       *)
  MaxRestarts   (* bound of the model                                        *)

ASSUME CaptureAssumption ==
  /\ IdleFrames \in Nat \ {0} /\ Retries \in Nat \ {0}
  /\ MaxCaptures \in Nat /\ MaxRestarts \in Nat

VARIABLES
  view,       (* what the camera sees                                        *)
  net,        (* nothing works, anything may happen, everything works        *)
  pc,         (* where the frame loop is                                     *)
  queue,      (* _pending_uploads                                            *)
  idle,       (* _idle_frame_count                                           *)
  recent,     (* less than 3 s since _last_capture_time                      *)
  connected,  (* _connected                                                  *)
  attempt,    (* attempts made of this upload                                *)
  files,      (* the captures on the card                                    *)
  unreadable, (* those of them the card cannot read back                     *)
  cloud,      (* the captures the cloud has                                  *)
  restarts,   (* how often the program was started again                     *)
  count,      (* history: the number of the last capture                     *)
  first,      (* history: the number of the first capture of this run        *)
  last,       (* history: the capture the cloud received last                *)
  quiet       (* history: frames without a face since the last usable face   *)

memory  == <<queue, idle, recent, connected, attempt>>
card    == <<files, unreadable>>
outside == <<view, net>>
history == <<restarts, count, first>>
vars == <<outside, pc, memory, card, cloud, history, last, quiet>>

Captures == 1..MaxCaptures

TypeOK ==
  /\ view \in {"nobody", "face"} /\ net \in {"down", "poor", "good"}
  /\ pc \in {"frames", "capture", "connect", "upload", "remove"}
  /\ queue \in Seq(Captures) /\ IsInjective(queue)
  /\ idle \in 0..IdleFrames /\ quiet \in 0..IdleFrames
  /\ recent \in BOOLEAN /\ connected \in BOOLEAN
  /\ attempt \in 0..(Retries - 1)
  /\ unreadable \subseteq files /\ files \subseteq 1..count /\ cloud \subseteq 1..count
  /\ restarts \in 0..MaxRestarts
  /\ count \in 0..MaxCaptures /\ first \in 1..(count + 1) /\ last \in 0..count

Init ==
  /\ view = "nobody" /\ net = "down" /\ pc = "frames"
  /\ queue = <<>> /\ idle = 0 /\ recent = FALSE /\ attempt = 0
  /\ connected = FALSE
  /\ files = {} /\ unreadable = {} /\ cloud = {}
  /\ restarts = 0 /\ count = 0 /\ first = 1 /\ last = 0 /\ quiet = 0

UpTo(max, n) == IF n < max THEN n ELSE max

-----------------------------------------------------------------------------
(* The frame loop.                                                         *)

\* Mutant: the upload starts at the IdleFrames-th frame or not at all.
EmptyFrameExactly ==
  /\ pc = "frames" /\ view = "nobody"
  /\ quiet' = UpTo(IdleFrames, quiet + 1)
  /\ idle' = IF queue = <<>> THEN idle ELSE UpTo(IdleFrames, idle + 1)
  /\ pc' = IF queue # <<>> /\ idle + 1 = IdleFrames /\ ~recent THEN "connect" ELSE "frames"
  /\ UNCHANGED <<outside, queue, recent, connected, attempt, card, cloud, history, last>>

\* Nobody in view.  Frames are only counted while something waits, and an upload
\* also waits until the last capture is 3 s old.
EmptyFrame ==
  /\ pc = "frames" /\ view = "nobody"
  /\ quiet' = UpTo(IdleFrames, quiet + 1)
  /\ idle' = IF queue = <<>> THEN idle ELSE UpTo(IdleFrames, idle + 1)
  /\ pc' = IF queue # <<>> /\ idle' = IdleFrames /\ ~recent THEN "connect" ELSE "frames"
  /\ UNCHANGED <<outside, queue, recent, connected, attempt, card, cloud, history, last>>

\* Mutant: the counter goes on after the person.
FaceNotCounted ==
  /\ pc = "frames" /\ view = "face"
  /\ quiet' = 0 /\ idle' = idle
  /\ pc' \in {"frames", "capture"}
  /\ UNCHANGED <<outside, queue, recent, connected, attempt, card, cloud, history, last>>

\* A face that can be worked on; in some frame it makes the door open, and a
\* capture is taken at the end of that frame.
UsableFrame ==
  /\ pc = "frames" /\ view = "face"
  /\ quiet' = 0 /\ idle' = 0
  /\ pc' \in {"frames", "capture"}
  /\ UNCHANGED <<outside, queue, recent, connected, attempt, card, cloud, history, last>>

\* The picture is written, then queued; it may replace one of an earlier run.
CaptureSave ==
  /\ pc = "capture" /\ count < MaxCaptures
  /\ count' = count + 1
  /\ \E replaced \in SUBSET {f \in files : f < first} :
       /\ \A f, g \in replaced : f = g
       /\ files' = (files \ replaced) \cup {count'}
       /\ unreadable' = unreadable \ replaced
  /\ queue' = Append(queue, count')
  /\ recent' = TRUE
  /\ pc' = "frames"
  /\ UNCHANGED <<outside, idle, connected, attempt, cloud, restarts, first, last, quiet>>

\* Any exception while the picture is made or written: there is none.
CaptureFails ==
  /\ pc = "capture"
  /\ pc' = "frames"
  /\ UNCHANGED <<outside, memory, card, cloud, history, last, quiet>>

-----------------------------------------------------------------------------
(* Uploading the head of the queue; the frame loop stands still meanwhile. *)

\* Mutants: a picture that failed is dropped, or comes last.
DropHead ==
  /\ pc' = "frames"
  /\ idle' = 0 /\ attempt' = 0
  /\ queue' = Tail(queue)
Rotate ==
  /\ pc' = "frames"
  /\ idle' = 0 /\ attempt' = 0
  /\ queue' = Append(Tail(queue), Head(queue))

\* _process_uploads returns and the counting of frames begins again.
GiveUp ==
  /\ pc' = "frames"
  /\ idle' = 0 /\ attempt' = 0
  /\ UNCHANGED queue

\* Whether something that needs the network works.
Chance == IF net = "poor" THEN BOOLEAN ELSE {net = "good"}

\* The network is joined once and for all; then the picture is read.
UploadConnect ==
  /\ pc = "connect"
  /\ \E joins \in Chance :
       /\ connected' = (connected \/ joins)
       /\ IF connected' /\ Head(queue) \in files \ unreadable
          THEN pc' = "upload" /\ UNCHANGED <<queue, idle, attempt>>
          ELSE GiveUp
  /\ UNCHANGED <<outside, recent, card, cloud, history, last, quiet>>

StoredAndConfirmed ==
  /\ queue' = Tail(queue)
  /\ pc' = "remove"
  /\ attempt' = 0
  /\ UNCHANGED idle

\* Mutant: one attempt too many.
TryOnceMore ==
  IF attempt < Retries
  THEN attempt' = attempt + 1 /\ UNCHANGED <<pc, queue, idle>>
  ELSE GiveUp

NotConfirmed ==
  IF attempt + 1 < Retries
  THEN attempt' = attempt + 1 /\ UNCHANGED <<pc, queue, idle>>
  ELSE GiveUp

\* One attempt: the cloud may store the picture, and then its answer may arrive.
Attempt ==
  /\ pc = "upload"
  /\ \E stored \in Chance :
       /\ cloud' = IF stored THEN cloud \cup {Head(queue)} ELSE cloud
       /\ last'  = IF stored THEN Head(queue) ELSE last
       /\ \E answered \in Chance :
            IF stored /\ answered THEN StoredAndConfirmed ELSE NotConfirmed
  /\ UNCHANGED <<outside, recent, connected, card, history, quiet>>

\* The confirmed picture, the one received last, leaves the card if the card lets it.
RemoveLocal ==
  /\ pc = "remove"
  /\ \E gone \in SUBSET {last} :
       files' = files \ gone /\ unreadable' = unreadable \ gone
  /\ pc' = "frames"
  /\ idle' = 0
  /\ UNCHANGED <<outside, queue, recent, connected, attempt, cloud, history, last, quiet>>

-----------------------------------------------------------------------------
(* Everything else.                                                        *)

\* The program ends or the power fails, anywhere; it starts with an empty queue
\* and tries to join the network.
Restart ==
  /\ restarts < MaxRestarts
  /\ restarts' = restarts + 1
  /\ first' = count + 1
  /\ pc' = "frames"
  /\ queue' = <<>> /\ idle' = 0 /\ recent' = FALSE /\ attempt' = 0 /\ quiet' = 0
  /\ connected' \in Chance
  /\ UNCHANGED <<outside, card, cloud, count, last>>

\* External: time, the people, the network, the card.
TimePasses ==
  /\ recent /\ recent' = FALSE
  /\ UNCHANGED <<outside, pc, queue, idle, connected, attempt, card, cloud, history, last, quiet>>
Surroundings ==
  /\ \/ view' \in {"nobody", "face"} \ {view} /\ UNCHANGED net
     \/ net' \in {"down", "poor", "good"} \ {net} /\ UNCHANGED view
  /\ UNCHANGED <<pc, memory, card, cloud, history, last, quiet>>
CardFault ==
  /\ \E f \in files \ unreadable : unreadable' = unreadable \cup {f}
  /\ UNCHANGED <<outside, pc, memory, files, cloud, history, last, quiet>>

Next ==
  \/ EmptyFrame \/ UsableFrame \/ CaptureSave \/ CaptureFails
  \/ UploadConnect \/ Attempt \/ RemoveLocal
  \/ Restart \/ TimePasses \/ Surroundings \/ CardFault

\* The frame loop and the clock go on; people, network and card owe nothing.
Fairness ==
  /\ WF_vars(EmptyFrame \/ UsableFrame) /\ WF_vars(CaptureSave \/ CaptureFails)
  /\ WF_vars(UploadConnect) /\ WF_vars(Attempt) /\ WF_vars(RemoveLocal)
  /\ WF_vars(TimePasses)

Spec == Init /\ [][Next]_vars /\ Fairness

-----------------------------------------------------------------------------
(* Properties.                                                             *)

\* Since the program was started, no capture is lost, whatever fails and however
\* often: the cloud has it, or it is queued and still on the card.
NothingLost ==
  \A c \in first..count : c \in cloud \/ (c \in ToSet(queue) /\ c \in files)

\* The frame loop never stops for an upload while someone is being served: there
\* were IdleFrames frames without a face since the last usable one, though some
\* are not counted and the counter survives crowds and the 3 s.
UploadsWaitForQuiet == pc \in {"connect", "upload", "remove"} => quiet = IdleFrames

\* The cloud receives the captures in the order they were taken; attempts whose
\* answer was lost only repeat the last one.
CloudFifo == [][last' >= last]_last

\* A capture leaves the queue only from its head, only once the cloud has it, or
\* with all the others in a restart: the queue implements Outbox.
Uploads == INSTANCE Outbox WITH made <- count, box <- queue, delivered <- cloud
ImplementsOutbox == Uploads!Spec

\* With a card that can be read, once the network works and people stay away,
\* every queued capture reaches the cloud, unless a restart forgets it.
UploadedInTheEnd ==
  [](unreadable = {}) /\ <>[](net = "good" /\ view = "nobody") =>
    \A c \in Captures : (c \in ToSet(queue)) ~> (c \in cloud \/ c < first)

=============================================================================
