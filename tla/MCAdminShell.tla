---------------------------- MODULE MCAdminShell ----------------------------
(* AdminShell with one page at a time and one component of the system.       *)
EXTENDS AdminShell

MCPages == {{"buildings"}, {"components"}}

\* From pixel a on, b pixels wide.
Box(a, b, fill) == [kind |-> "rect", a |-> a * Px, b |-> b * Px, fill |-> fill, stroke |-> "red", rx |-> 0]
MCMarkups == {<<[kind |-> "path"], Box(0, 6, "none")>>,
              <<Box(0, 0, "red"), [Box(6, 0, "none") EXCEPT !.kind = "line"]>>,
              <<[kind |-> "script"]>>}
MCStored == {NoComponent,
             [markup |-> <<Box(0, 6, "blue"), Box(6, 6, "none")>>, box |-> NoBox, w |-> 100 * Px]}
=============================================================================
