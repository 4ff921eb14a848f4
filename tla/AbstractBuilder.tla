--------------------------- MODULE AbstractBuilder ---------------------------
(***************************************************************************)
(* What BuildAndPush promises: one image, within the size limit, goes to   *)
(* the registries in their order; it returns the images when all of them   *)
(* have it, and an error otherwise, after which nothing more is pushed.    *)
(***************************************************************************)
EXTENDS Integers, Sequences

VARIABLES
  registries,  \* the registries to push to
  limit,       \* the size limit, 0 for none
  image,       \* the size of the image that was built, 0 before
  pushed,      \* the images pushed so far
  outcome      \* "working", "pushed" or "failed"

vars == <<registries, limit, image, pushed, outcome>>

Init ==
  /\ image = 0
  /\ pushed = <<>>
  /\ outcome = "working"

Build ==
  /\ outcome = "working"
  /\ image = 0
  /\ image' \in Nat \ {0}
  /\ limit > 0 => image' <= limit
  /\ UNCHANGED <<registries, limit, pushed, outcome>>

Push ==
  /\ outcome = "working"
  /\ image # 0
  /\ pushed' = Append(pushed, [name |-> registries[Len(pushed) + 1], image |-> image])
  /\ outcome' = IF Len(pushed') = Len(registries) THEN "pushed" ELSE "working"
  /\ UNCHANGED <<registries, limit, image>>

Fail ==
  /\ outcome = "working"
  /\ outcome' = "failed"
  /\ UNCHANGED <<registries, limit, image, pushed>>

Next == Build \/ Push \/ Fail

Spec == Init /\ [][Next]_vars
=============================================================================
