--------------------------- MODULE ControllerView ---------------------------
(***************************************************************************)
(* What the mesh promises the controller behind a proxy: every item (a      *)
(* namespace of a resource, a user-agent) is decided at most once.  An item *)
(* is undecided until the controller asks for it; then it is shown to the   *)
(* controller or withheld from it, and stays so.                            *)
(***************************************************************************)
CONSTANT Items

VARIABLES shown, withheld

Init == shown = {} /\ withheld = {}

\* A response decides some of the items.
Decide ==
  /\ shown' \in SUBSET Items /\ withheld' \in SUBSET Items
  /\ shown \subseteq shown' /\ withheld \subseteq withheld'
  /\ shown' \cap withheld' = {}

Spec == Init /\ [][Decide]_<<shown, withheld>>
=============================================================================
