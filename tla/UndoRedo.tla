------------------------------ MODULE UndoRedo ------------------------------
(***************************************************************************)
(* The two stacks of useUndoRedo.js, as operators on [undo, redo].  The    *)
(* callers name the states: push is told the state before a change, undo   *)
(* and redo the state they leave.                                          *)
(***************************************************************************)
EXTENDS Naturals, Sequences

CONSTANT maxDepth

ASSUME DepthAssumption == maxDepth \in Nat \ {0}

NoHistory == [undo |-> << >>, redo |-> << >>]

Histories(S) == [undo : Seq(S), redo : Seq(S)]

Front(s) == SubSeq(s, 1, Len(s) - 1)
Top(s) == s[Len(s)]

\* A mutant of push: the oldest entry stays.
PushUnbounded(h, state) == [undo |-> Append(h.undo, state), redo |-> << >>]

\* What was undone is forgotten; beyond the depth the oldest entry goes.
push(h, state) ==
    [undo |-> IF Len(h.undo) < maxDepth THEN Append(h.undo, state)
              ELSE Append(SubSeq(h.undo, Len(h.undo) - maxDepth + 2, Len(h.undo)), state),
     redo |-> << >>]

\* The same state pushed n times, by a handler that does so for each of n objects.
pushEach(h, state, n) ==
    LET all == h.undo \o [i \in 1..n |-> state] IN
    [undo |-> SubSeq(all, IF Len(all) > maxDepth THEN Len(all) - maxDepth + 1 ELSE 1, Len(all)),
     redo |-> << >>]

canUndo(h) == h.undo # << >>
canRedo(h) == h.redo # << >>

undo(h, current) == [undo |-> Front(h.undo), redo |-> Append(h.redo, current)]
redo(h, current) == [undo |-> Append(h.undo, current), redo |-> Front(h.redo)]
=============================================================================
