----------------------------- MODULE AtomicUpdate -----------------------------
(***************************************************************************)
(* What the update machinery promises, with no files in it: the appliance  *)
(* is committed to one image; an update puts a release on trial without    *)
(* touching that image; the trial ends with the whole new release          *)
(* committed, or with the committed image as it was.                       *)
(***************************************************************************)
CONSTANTS Releases, None, Items, Factory

VARIABLES
  image,  \* what a rollback would give now, or has given
  trial   \* the release on trial

Whole(r) == [i \in Items |-> r]

Init == image = Whole(Factory) /\ trial = None

Start ==
  /\ trial = None
  /\ trial' \in Releases
  /\ UNCHANGED image

Accept ==
  /\ trial # None
  /\ image' = Whole(trial)
  /\ trial' = None

RollBack ==
  /\ trial # None
  /\ trial' = None
  /\ UNCHANGED image

Next == Start \/ Accept \/ RollBack

Spec == Init /\ [][Next]_<<image, trial>>
=============================================================================
