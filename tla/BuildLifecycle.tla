--------------------------- MODULE BuildLifecycle ---------------------------
(***************************************************************************)
(* What a ContainerImageBuild promises whoever watches it: a build that    *)
(* has been created is taken up once, finishes at most once, as completed  *)
(* or as failed, and what it has finished as never changes.  It can be     *)
(* deleted at any time, and does not come back; nothing is promised of it  *)
(* either when several pods have worked on it: both are the phase "gone".  *)
(***************************************************************************)
EXTENDS Naturals

CONSTANT Builds

VARIABLE phase

Phases == {"none", "pending", "building", "completed", "failed", "gone"}

Init == phase = [b \in Builds |-> "none"]

Move(b, from, to) ==
  /\ phase[b] \in from
  /\ phase' = [phase EXCEPT ![b] = to]

Create(b) == Move(b, {"none"}, "pending")

Start(b) == Move(b, {"pending"}, "building")

Complete(b) == Move(b, {"building"}, "completed")

Fail(b) == Move(b, {"building"}, "failed")

Leave(b) == Move(b, Phases \ {"none", "gone"}, "gone")

Next ==
  \E b \in Builds : Create(b) \/ Start(b) \/ Complete(b) \/ Fail(b) \/ Leave(b)

Spec == Init /\ [][Next]_phase
=============================================================================
