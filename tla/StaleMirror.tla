---------------------------- MODULE StaleMirror ----------------------------
(***************************************************************************)
(* What a link that reports the state of a device promises to whoever      *)
(* looks at a report: each field may be old, and be replaced whenever the  *)
(* link likes, but it shows a state that the field has been in, and the    *)
(* state it shows next is not an older one.  States are numbered as they   *)
(* occur, for each field by itself: two fields shown together may never    *)
(* have been so at one time.                                               *)
(***************************************************************************)
EXTENDS Naturals

CONSTANT Views      \* the fields of a report, each with an order of its own

VARIABLES original, view

mirrorVars == <<original, view>>

Init ==
  /\ original = [v \in Views |-> 0]
  /\ view = [v \in Views |-> 0]

Change ==
  /\ original' \in [Views -> Nat]
  /\ \A v \in Views : original'[v] \in {original[v], original[v] + 1}
  /\ UNCHANGED view

Refresh ==
  /\ view' \in [Views -> Nat]
  /\ \A v \in Views : view'[v] \in view[v] .. original[v]
  /\ UNCHANGED original

Next == Change \/ Refresh

Spec == Init /\ [][Next]_mirrorVars
=============================================================================
