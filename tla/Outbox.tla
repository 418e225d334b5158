------------------------------- MODULE Outbox -------------------------------
(***************************************************************************)
(* What an upload queue that lives in memory promises: items leave it      *)
(* oldest first and only after they have been delivered; one whose         *)
(* delivery was not confirmed stays where it is and may be delivered       *)
(* again.  A crash forgets what is queued.  Items are numbered as they are *)
(* made.                                                                   *)
(***************************************************************************)
EXTENDS Naturals, Sequences

VARIABLES made, box, delivered

boxVars == <<made, box, delivered>>

Init == made = 0 /\ box = <<>> /\ delivered = {}

Put ==
  /\ made' = made + 1
  /\ box' = Append(box, made')
  /\ UNCHANGED delivered

Deliver ==
  /\ box # <<>>
  /\ delivered' = delivered \cup {Head(box)}
  /\ box' \in {box, Tail(box)}
  /\ UNCHANGED made

Crash ==
  /\ box' = <<>>
  /\ UNCHANGED <<made, delivered>>

Next == Put \/ Deliver \/ Crash

Spec == Init /\ [][Next]_boxVars
=============================================================================
