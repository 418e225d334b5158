---------------------------- MODULE DoorContract ----------------------------
(***************************************************************************)
(* What the door-lock driver promises to the rest of the firmware,         *)
(* whatever its threads, events and timer do: the bolt is released only    *)
(* for a request that is wanted, a wanted request is not forgotten, and    *)
(* the requests in Kept are answered by a released bolt.                   *)
(***************************************************************************)
CONSTANTS
  Requests,  \* the ways to ask for the door to be opened
  Kept       \* those of them that are never dropped

VARIABLES
  bolt,      \* "locked" or "released"
  wanted     \* the requests that have been made and not been attended to

contractVars == <<bolt, wanted>>

Init ==
  /\ bolt = "locked"
  /\ wanted = {}

Ask(r) ==
  /\ wanted' = wanted \cup {r}
  /\ UNCHANGED bolt

\* Requests may be made again while they are attended to, so attending to
\* them need not take any of them out of wanted.
Release ==
  /\ bolt = "locked"
  /\ wanted # {}
  /\ bolt' = "released"
  /\ wanted' \subseteq wanted

Attend ==
  /\ bolt = "released"
  /\ wanted # {}
  /\ wanted' \subseteq wanted
  /\ UNCHANGED bolt

Lock ==
  /\ bolt = "released"
  /\ bolt' = "locked"
  /\ UNCHANGED wanted

Next ==
  \/ \E r \in Requests : Ask(r)
  \/ Release \/ Attend \/ Lock

Spec == Init /\ [][Next]_contractVars

Answered == \A r \in Kept : r \in wanted ~> bolt = "released"

Promise == Spec /\ Answered
=============================================================================
