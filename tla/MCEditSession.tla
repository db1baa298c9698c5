--------------------------- MODULE MCEditSession ---------------------------
(***************************************************************************)
(* Instances of EditSession for TLC.                                       *)
(***************************************************************************)
EXTENDS EditSession, TLC

Symmetry == {p @@ q : p \in Permutations(Client), q \in Permutations(Edit)}
=============================================================================
