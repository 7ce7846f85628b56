------------------------------- MODULE Keyhole ------------------------------
(***************************************************************************)
(* What get_uksm_page promises its caller, which is what StableTree builds *)
(* on: one indivisible step that either takes hold of the node's page,     *)
(* which then cannot go away, or removes a node whose page is gone.        *)
(***************************************************************************)
VARIABLES alive, listed, held
keyholeVars == <<alive, listed, held>>

Init == alive = TRUE /\ listed = TRUE /\ held = FALSE

PageGone   == alive /\ ~held /\ alive' = FALSE /\ UNCHANGED <<listed, held>>
GetPage    == listed /\ alive /\ ~held /\ held' = TRUE /\ UNCHANGED <<alive, listed>>
DropNode   == listed /\ ~alive /\ listed' = FALSE /\ UNCHANGED <<alive, held>>
(* The caller's may have been the last reference. *)
PutPage    == held /\ held' = FALSE /\ alive' \in BOOLEAN /\ (alive' => alive) /\ UNCHANGED listed

Next == PageGone \/ GetPage \/ DropNode \/ PutPage
Spec == Init /\ [][Next]_keyholeVars
=============================================================================
