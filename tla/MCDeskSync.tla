----------------------------- MODULE MCDeskSync -----------------------------
(***************************************************************************)
(* Instance of DeskSync for TLC: two spellings of one label and a label    *)
(* of punctuation, which has no form, in layouts of up to three desks.     *)
(***************************************************************************)
EXTENDS DeskSync, TLC

MCnormal == [l \in Label |-> IF l = "--" THEN NoForm ELSE "A1"]

Workplace(l) == [assetType |-> "workplace", label |-> l]

MCLayouts ==
    UNION {[1..n -> {Workplace(l) : l \in Label}] : n \in 0..2} \cup
    {<<Workplace("A1"), Workplace("--"), Workplace("A-1")>>,
     <<Workplace("A-1"), Workplace("A1"), Workplace("A-1")>>,
     <<[assetType |-> "other", label |-> "A1"], Workplace("A-1"), Workplace(NoLabel)>>}

Symmetry == Permutations(Row)
=============================================================================
