----------------------------- MODULE MCPlanView -----------------------------
(* PlanSamples with small numbers: points of a 3 x 3 grid, outlines of up to *)
(* four corners, rows of three desks whose distances divide evenly.          *)
EXTENDS PlanSamples

MCOutlines == UNION {[1..n -> {At(x, y) : x, y \in 0..2}] : n \in 2..4}

Desk(i, x, y, w, h) == [id |-> i, x |-> x, y |-> y, w |-> w, h |-> h, r |-> 0]
MCDeskRows == {<<Desk(1, a, 0, 2, 4), Desk(2, b, 5, 4, 2), Desk(3, c, 13, 2, 2)>>
                  : a \in {0, 4}, b \in {1, 9}, c \in {2, 8, 16}}

MCBackgrounds == {[x |-> 2, y |-> 4, w |-> w, h |-> h, rotation |-> r]
                     : w \in {4, 8}, h \in {4, 8}, r \in {0, 90}}
MCBoxes == {[x |-> -4, w |-> 16], [x |-> 4, w |-> 4]}
=============================================================================
