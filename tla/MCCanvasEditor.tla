--------------------------- MODULE MCCanvasEditor ---------------------------
(* CanvasEditor with a history of two entries and the families of operations *)
(* that share state used in pairs; for the redo after an undo, walls alone.   *)
EXTENDS CanvasEditor

MCKits == {{"desks", "groups"}, {"walls", "draw"}, {"zones", "draw"}, {"infra", "draw"},
           {"walls", "background"}, {"walls", "scale"}}
MCWalls == {{"walls"}}
=============================================================================
