--------------------------- MODULE MCFloorLayout ---------------------------
(***************************************************************************)
(* Instance of FloorLayout for TLC.                                        *)
(***************************************************************************)
EXTENDS FloorLayout, TLC

Symmetry == Permutations(Floor) \cup Permutations(Revision) \cup Permutations(Layout)
=============================================================================
