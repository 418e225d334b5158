----------------------------- MODULE FrameLine ------------------------------
(***************************************************************************)
(* What a serial protocol with framing promises to the programs at its two *)
(* ends, who see frames and no bytes: what is sent is received once, in    *)
(* order and unchanged.  A disturbance voids the promise, a silence        *)
(* renews it: then everything sent before has been received, and the       *)
(* histories start afresh.                                                 *)
(***************************************************************************)
EXTENDS Naturals, Sequences

CONSTANT Frames

VARIABLES sent, received, disturbed

lineVars == <<sent, received, disturbed>>

Init == sent = <<>> /\ received = <<>> /\ disturbed = FALSE

Send(f) ==
  /\ sent' = Append(sent, f)
  /\ UNCHANGED <<received, disturbed>>

Deliver ==
  /\ ~disturbed
  /\ Len(received) < Len(sent)
  /\ received' = Append(received, sent[Len(received) + 1])
  /\ UNCHANGED <<sent, disturbed>>

Disturb ==
  /\ disturbed' = TRUE
  /\ UNCHANGED <<sent, received>>

\* Anything may be taken for a frame.
Garble ==
  /\ disturbed
  /\ UNCHANGED <<sent, disturbed>>

Silence ==
  /\ disturbed \/ received = sent
  /\ sent' = <<>> /\ received' = <<>> /\ disturbed' = FALSE

Next ==
  \/ \E f \in Frames : Send(f)
  \/ Deliver \/ Disturb \/ Garble \/ Silence

Spec == Init /\ [][Next]_lineVars
=============================================================================
