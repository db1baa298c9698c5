---------------------------- MODULE CanvasEditor ----------------------------
(***************************************************************************)
(* The canvas of a floor plan (CanvasEditor.jsx): its document, selection, *)
(* tools, pointer gestures and undo history.                               *)
(*                                                                         *)
(* The geometry of an object is one of two Places.  The handlers of        *)
(* keydown and of a double click are closures that React renews only when  *)
(* one of their dependencies changes: keys and dbl are the view they were  *)
(* made in, and what they push or pass to undo is the document of that     *)
(* view.  Handlers that depend on the viewport, selection or grid objects, *)
(* new in every render, and those made while rendering see the present.    *)
(***************************************************************************)
EXTENDS UndoRedo, FiniteSets

CONSTANTS MaxDesk,    \* desks that may exist, for checking; so are the
          MaxLoads,   \* loads of a layout,
          MaxEdits,   \* changes of the document and steps of the history,
          Kits        \* and the families of operations used together

ASSUME DesksAssumption == MaxDesk \in Nat \ {0}

Desks == 1..MaxDesk
Walls == 1..2
Gone == 0
Places == {1, 2}
Tools == {"select", "pan", "place", "measure", "draw_wall", "draw_zone", "draw_infra", "bg_edit"}
DrawTools == {"draw_wall", "draw_zone", "draw_infra"}

VARIABLES layout,   \* the layout prop: the document as it was loaded
          doc,      \* the document that snapshot() copies
          scale,    \* canvas size and pixels per metre, in no snapshot
          dirty,
          ui,       \* tool, points drawn, selections, locks, clipboard
          hist,     \* the undo and redo stacks
          hand,     \* the pointer gesture under way
          keys,     \* the view the keydown handler was made in
          dbl,      \* the view the double-click handler was made in
          loading,  \* a background image that is being read
          born,     \* ids given so far
          edits,    \* edits so far, for checking
          kit       \* the operations of this behaviour

vars == <<layout, doc, scale, dirty, ui, hist, hand, keys, dbl, loading, born, edits, kit>>

\* of counts the loads: which layout the document is of.
NoGroup == {}
NewDoc(n) ==
    [of |-> n, desks |-> [d \in Desks |-> IF d < MaxDesk THEN 1 ELSE Gone],
     walls |-> [w \in Walls |-> IF w = 1 THEN 1 ELSE Gone],
     locked |-> FALSE, group |-> NoGroup, zone |-> Gone,
     infra |-> [layer |-> "none", lines |-> 0],
     bg |-> [image |-> 0, at |-> 1, locked |-> FALSE, look |-> 1]]

NoHand == [kind |-> "none"]
NotLoading == [on |-> FALSE]
View(d, u) == [doc |-> d, active |-> u.active]
NewUi == [tool |-> "select", points |-> 0, sel |-> {}, struct |-> Gone, zone |-> FALSE,
          line |-> FALSE, active |-> FALSE, desksLocked |-> FALSE, clip |-> FALSE]

Init ==
    /\ layout \in {NewDoc(1), [NewDoc(1) EXCEPT !.locked = TRUE]}
    /\ doc = layout /\ scale = 1 /\ dirty = FALSE
    /\ ui = NewUi /\ hist = NoHistory /\ hand = NoHand
    /\ keys = View(doc, ui) /\ dbl = View(doc, ui)
    /\ loading = NotLoading
    /\ born = [desk |-> MaxDesk - 1, wall |-> 1]
    /\ edits = 0
    /\ kit \in Kits

Live(d) == {i \in Desks : d.desks[i] # Gone}
IsDrawMode(u) == u.tool \in DrawTools
Other(place) == 3 - place
Now == View(doc, ui)

\* What runs from the toolbar or a panel sees the present, what runs from a key
\* the view of its handler.
Seen == {Now, keys}

\* Delete is for the first of these that there is; a button is for its own.
DeleteIsFor(what, seen) ==
    seen = Now \/ what = CASE ui.sel # {} -> "desks"
                           [] ui.sel = {} /\ ui.struct # Gone /\ ~doc.locked -> "struct"
                           [] OTHER -> IF ui.zone THEN "zone" ELSE "line"

-----------------------------------------------------------------------------
(***************************************************************************)
(* The end of every step: which handlers are made anew.  A handler is kept *)
(* only if none of its dependencies was set; setting one to a new object   *)
(* of the same contents counts, which the caller tells by k and d.         *)
(***************************************************************************)
KeyDeps(d, u) == <<u.sel, d.desks, d.zone, u.points, u.tool, u.struct, u.zone, d.locked>>
DblDeps(d, u) == <<u.tool \in DrawTools, u.tool = "draw_zone", u.points, d.locked,
                   IF u.tool \in DrawTools THEN u.tool ELSE "none">>

Renders(k, d) ==
    /\ keys' = IF k \/ KeyDeps(doc', ui') # KeyDeps(doc, ui) THEN View(doc', ui') ELSE keys
    /\ dbl' = IF d \/ DblDeps(doc', ui') # DblDeps(doc, ui) THEN View(doc', ui') ELSE dbl

Uses(family) == family \in kit

\* A change of the document, recorded or not.
Change(next, u, k) ==
    /\ edits < MaxEdits /\ edits' = edits + 1
    /\ doc' = next /\ ui' = u /\ dirty' = TRUE
    /\ Renders(k, FALSE)
    /\ UNCHANGED <<layout, scale, loading, kit>>

\* The usual shape: the state the handler knows is pushed, then it is changed.
Record(seen, next, u, k) == hist' = push(hist, seen.doc) /\ Change(next, u, k)

Unrecorded(next, u, k) == UNCHANGED hist /\ Change(next, u, k)

\* Only what is shown or selected changes.
Shows(next, k, d) ==
    /\ ui' = next
    /\ UNCHANGED <<layout, doc, scale, dirty, hist, loading, born, edits, kit>>
    /\ Renders(k, d)

cancelDraw(u) == [u EXCEPT !.points = 0]

-----------------------------------------------------------------------------
(***************************************************************************)
(* Desks                                                                   *)
(***************************************************************************)

modifyDesks(seen, desks, u) ==
    /\ Uses("desks")
    /\ Record(seen, [doc EXCEPT !.desks = desks], u, TRUE)
    /\ UNCHANGED hand

\* The toolbar aligns, distributes and rotates, arrow keys nudge.
MoveSelected(seen) ==
    /\ ui.sel # {}
    /\ modifyDesks(seen, [d \in Desks |-> IF d \in ui.sel \cap Live(doc) THEN Other(doc.desks[d])
                                         ELSE doc.desks[d]], ui)
    /\ UNCHANGED born

\* The panel is for a selected structure first, then for the selected desks.
ShowsStruct == ui.struct # Gone /\ ~doc.locked /\ doc.walls[ui.struct] # Gone

\* The panel of one desk: a field that loses the focus is committed whether or
\* not it was changed, and is an entry of the history either way.
UpdateDesk ==
    /\ ~ShowsStruct /\ Cardinality(ui.sel \cap Live(doc)) = 1
    /\ \E d \in ui.sel \cap Live(doc), place \in Places :
          modifyDesks(Now, [doc.desks EXCEPT ![d] = place], ui)
    /\ UNCHANGED born

\* The panel of several desks updates one after the other; each update pushes
\* the document of the view, the one before all of them.
BulkUpdate(place) ==
    LET desks == ui.sel \cap Live(doc) IN
    /\ Uses("desks") /\ ~ShowsStruct /\ Cardinality(desks) >= 2
    /\ hist' = pushEach(hist, doc, Cardinality(desks))
    /\ Change([doc EXCEPT !.desks = [d \in Desks |-> IF d \in desks THEN place ELSE doc.desks[d]]],
              ui, TRUE)
    /\ UNCHANGED <<hand, born>>

\* A mutant of deleteSelected: what was deleted stays selected.
DeleteUncleared(seen) ==
    /\ ui.sel # {}
    /\ modifyDesks(seen, [d \in Desks |-> IF d \in ui.sel THEN Gone ELSE doc.desks[d]], ui)
    /\ UNCHANGED born

deleteSelected(seen) ==
    /\ ui.sel # {}
    /\ modifyDesks(seen, [d \in Desks |-> IF d \in ui.sel THEN Gone ELSE doc.desks[d]],
                   [ui EXCEPT !.sel = {}])
    /\ UNCHANGED born

\* A copy, a pasted or placed desk or one from a block: a new id, selected.
AddDesk(seen, u) ==
    /\ born.desk < MaxDesk
    /\ LET new == born.desk + 1 IN
       /\ modifyDesks(seen, [doc.desks EXCEPT ![new] = 1], [u EXCEPT !.sel = {new}])
       /\ born' = [born EXCEPT !.desk = new]

duplicateSelected(seen) == ui.sel \cap Live(doc) # {} /\ AddDesk(seen, [ui EXCEPT !.struct = Gone])
Copy == /\ ui.sel # {} /\ ~ui.clip /\ Uses("desks")
        /\ Shows([ui EXCEPT !.clip = TRUE], FALSE, FALSE) /\ UNCHANGED hand
Paste == ui.clip /\ AddDesk(keys, [ui EXCEPT !.struct = Gone])
addDeskAt == ui.tool = "place" /\ hand = NoHand /\ AddDesk(Now, [ui EXCEPT !.struct = Gone])
insertObjects == AddDesk(Now, ui)

\* The catalogue changed a size that some desks follow.
CatalogueResizes ==
    /\ Uses("desks") /\ Live(doc) # {}
    /\ Unrecorded([doc EXCEPT !.desks = [d \in Desks |->
                      IF d \in Live(doc) THEN Other(doc.desks[d]) ELSE Gone]], ui, TRUE)
    /\ UNCHANGED <<hand, born>>

-----------------------------------------------------------------------------
(***************************************************************************)
(* Groups and zones                                                        *)
(***************************************************************************)

EditGroups(seen, group, u) ==
    /\ Uses("groups")
    /\ Record(seen, [doc EXCEPT !.group = group], u, FALSE)
    /\ UNCHANGED <<hand, born>>

\* One group at a time is enough here.
groupSelected(seen) ==
    Cardinality(ui.sel) >= 2 /\ doc.group = NoGroup /\ EditGroups(seen, ui.sel, ui)

\* Only the groups the handler knows are looked through.
ungroupSelected(seen) ==
    /\ seen.doc.group \cap ui.sel # {} /\ seen.doc.group = doc.group
    /\ EditGroups(seen, NoGroup, ui)

deleteGroup == doc.group # NoGroup /\ EditGroups(Now, NoGroup, ui)

selectGroup ==
    /\ Uses("groups") /\ doc.group # NoGroup
    /\ Shows([ui EXCEPT !.sel = doc.group], TRUE, FALSE) /\ UNCHANGED hand

EditZone(seen, zone, u) ==
    /\ Uses("zones")
    /\ Record(seen, [doc EXCEPT !.zone = zone], u, TRUE)
    /\ UNCHANGED <<hand, born>>

updateZone == ui.zone /\ doc.zone # Gone /\ EditZone(Now, Other(doc.zone), ui)
deleteZone(seen) ==
    /\ ui.zone /\ DeleteIsFor("zone", seen)
    /\ EditZone(seen, Gone, [ui EXCEPT !.zone = FALSE])

-----------------------------------------------------------------------------
(***************************************************************************)
(* Structures                                                              *)
(***************************************************************************)

EditWall(seen, w, place, u) ==
    /\ Record(seen, [doc EXCEPT !.walls[w] = place], u, FALSE)
    /\ UNCHANGED <<hand, born>>

\* A mutant of deleteSelectedStruct: the lock is not looked at.
DeleteStructAnyway(seen) ==
    /\ Uses("walls") /\ ui.struct # Gone /\ DeleteIsFor("struct", seen)
    /\ EditWall(seen, ui.struct, Gone, [ui EXCEPT !.struct = Gone])

deleteSelectedStruct(seen) ==
    /\ Uses("walls") /\ ui.struct # Gone /\ ~doc.locked /\ DeleteIsFor("struct", seen)
    /\ EditWall(seen, ui.struct, Gone, [ui EXCEPT !.struct = Gone])

\* The panel's thickness and name of a wall.
PatchStruct ==
    /\ Uses("walls") /\ ui.struct # Gone /\ ~doc.locked /\ doc.walls[ui.struct] # Gone
    /\ Unrecorded([doc EXCEPT !.walls[ui.struct] = Other(@)], ui, FALSE)
    /\ UNCHANGED <<hand, born>>

\* A double click on a side of the selected wall.
splitStructureSegment ==
    /\ Uses("walls") /\ ui.struct # Gone /\ ~doc.locked /\ doc.walls[ui.struct] # Gone
    /\ ~IsDrawMode(ui) /\ hand = NoHand
    /\ EditWall(dbl, ui.struct, Other(doc.walls[ui.struct]), ui)

\* Locking ends a drawing and the selection of a structure.
toggleStructureLock ==
    /\ Uses("walls")
    /\ Record(Now, [doc EXCEPT !.locked = ~@],
              IF doc.locked THEN ui
              ELSE IF IsDrawMode(ui)
              THEN cancelDraw([ui EXCEPT !.struct = Gone, !.tool = "select"])
              ELSE [ui EXCEPT !.struct = Gone], TRUE)
    /\ UNCHANGED <<hand, born>>

-----------------------------------------------------------------------------
(***************************************************************************)
(* Layers of lines (infra)                                                 *)
(***************************************************************************)

Infra == Uses("infra") /\ UNCHANGED <<hand, born>>

addInfraLayer ==
    /\ Infra /\ doc.infra.layer = "none"
    /\ Unrecorded([doc EXCEPT !.infra.layer = "shown"], [ui EXCEPT !.active = TRUE], FALSE)

removeInfraLayer ==
    /\ Infra /\ doc.infra.layer # "none"
    /\ Record(Now, [doc EXCEPT !.infra = [layer |-> "none", lines |-> 0]],
              [ui EXCEPT !.active = FALSE], FALSE)

\* The only edit that leaves dirty alone.
toggleInfraLayerVisibility ==
    /\ Infra /\ doc.infra.layer # "none" /\ edits < MaxEdits
    /\ edits' = edits + 1
    /\ doc' = [doc EXCEPT !.infra.layer = IF @ = "shown" THEN "hidden" ELSE "shown"]
    /\ UNCHANGED <<layout, scale, dirty, ui, hist, loading, kit>>
    /\ Renders(FALSE, FALSE)

\* The layer's name in the panel: choosing it begins a drawing.
ChooseInfraLayer ==
    /\ Uses("infra") /\ doc.infra.layer # "none" /\ UNCHANGED hand
    /\ IF ui.active
       THEN Shows([ui EXCEPT !.active = FALSE,
                             !.tool = IF @ = "draw_infra" THEN "select" ELSE @], FALSE, FALSE)
       ELSE Shows(cancelDraw([ui EXCEPT !.active = TRUE, !.tool = "draw_infra"]), TRUE, TRUE)

SelectInfraItem ==
    /\ Uses("infra") /\ ui.tool = "select" /\ hand = NoHand
    /\ doc.infra.lines > 0 /\ doc.infra.layer = "shown"
    /\ Shows([ui EXCEPT !.line = TRUE, !.sel = {}, !.struct = Gone, !.zone = FALSE], TRUE, FALSE)
    /\ UNCHANGED hand

DeleteInfraItem(seen) ==
    /\ Infra /\ ui.line /\ doc.infra.lines > 0 /\ DeleteIsFor("line", seen)
    /\ Record(seen, [doc EXCEPT !.infra.lines = @ - 1], [ui EXCEPT !.line = FALSE], FALSE)

-----------------------------------------------------------------------------
(***************************************************************************)
(* The background                                                          *)
(***************************************************************************)

EditBackground(bg, u) ==
    /\ Uses("background") /\ doc.bg.image > 0
    /\ Record(Now, [doc EXCEPT !.bg = bg], u, FALSE)
    /\ UNCHANGED <<hand, born>>

fitBackgroundToCanvas == EditBackground([doc.bg EXCEPT !.at = 1], ui)
commitBackgroundTransform ==
    /\ ~doc.bg.locked
    /\ EditBackground([doc.bg EXCEPT !.at = Other(@)], [ui EXCEPT !.tool = "bg_edit"])
toggleBackgroundLock ==
    EditBackground([doc.bg EXCEPT !.locked = ~@],
                   [ui EXCEPT !.tool = IF @ = "bg_edit" /\ ~doc.bg.locked THEN "select" ELSE @])
ToggleBackground == EditBackground([doc.bg EXCEPT !.look = Other(@)], ui)
RemoveBackground == EditBackground([image |-> 0, at |-> 1, locked |-> FALSE, look |-> doc.bg.look], ui)

\* Opacity, and the pages of a PDF.
AdjustBackground ==
    /\ Uses("background") /\ doc.bg.image > 0
    /\ Unrecorded([doc EXCEPT !.bg.look = Other(@)], ui, FALSE)
    /\ UNCHANGED <<hand, born>>

\* The image is read and measured while the user goes on.
onBgFileChange ==
    /\ Uses("background") /\ ~loading.on /\ edits < MaxEdits
    /\ loading' = [on |-> TRUE, seen |-> doc]
    /\ UNCHANGED <<layout, doc, scale, dirty, ui, hist, hand, keys, dbl, born, edits, kit>>

applyLoadedBackground ==
    /\ loading.on /\ edits < MaxEdits /\ edits' = edits + 1
    /\ loading' = NotLoading
    /\ hist' = push(hist, loading.seen)
    /\ doc' = [doc EXCEPT !.bg = [image |-> 1, at |-> 1, locked |-> FALSE, look |-> 1]]
    /\ dirty' = TRUE
    /\ UNCHANGED <<layout, scale, ui, hand, born, kit>>
    /\ Renders(FALSE, FALSE)

-----------------------------------------------------------------------------
(***************************************************************************)
(* Tools and drawing                                                       *)
(***************************************************************************)

\* From the toolbar: select, pan and place keep the points of a drawing.
PickTool(t) ==
    /\ Uses("draw") \/ (Uses("desks") /\ t \in {"select", "place"})
    /\ t # ui.tool /\ t # "draw_infra" /\ UNCHANGED hand
    /\ t = "draw_wall" => ~doc.locked
    /\ t = "bg_edit" => doc.bg.image > 0 /\ ~doc.bg.locked
    /\ IF t \in {"select", "pan", "place"}
       THEN Shows([ui EXCEPT !.tool = t], FALSE, FALSE)
       ELSE Shows(cancelDraw([ui EXCEPT !.tool = t]), TRUE, TRUE)

\* From the keyboard they do not.
KeyTool(t) ==
    /\ Uses("draw") /\ t \in {"select", "place", "measure", "draw_wall", "draw_zone", "draw_infra"}
    /\ t = "draw_wall" => ~doc.locked
    /\ t = "draw_infra" => keys.active
    /\ Shows(cancelDraw([ui EXCEPT !.tool =
                 IF t = @ /\ t \in {"measure", "draw_infra"} THEN "select" ELSE t]), TRUE, TRUE)
    /\ UNCHANGED hand

\* Space pans while it is held.
SpaceDown == Uses("draw") /\ Shows([ui EXCEPT !.tool = "pan"], FALSE, FALSE) /\ UNCHANGED hand
SpaceUp == Uses("draw") /\ Shows([ui EXCEPT !.tool = "select"], FALSE, FALSE) /\ UNCHANGED hand

MinPoints == IF ui.tool = "draw_zone" THEN 3 ELSE 2

\* What was drawn becomes a wall, a zone or a line of the active layer (whose
\* function pushes once more); with another tool nothing, but for the entry.
finishDraw(seen) ==
    /\ Uses("draw") /\ ui.points >= 2 /\ edits < MaxEdits /\ edits' = edits + 1
    /\ \/ /\ ui.tool = "draw_wall" /\ born.wall < 2
          /\ hist' = push(hist, seen.doc)
          /\ doc' = [doc EXCEPT !.walls[2] = 1] /\ born' = [born EXCEPT !.wall = 2]
          /\ ui' = cancelDraw(ui)
       \/ /\ ui.tool = "draw_zone" /\ ui.points >= 3 /\ doc.zone = Gone
          /\ hist' = push(hist, seen.doc)
          /\ doc' = [doc EXCEPT !.zone = 1]
          /\ ui' = cancelDraw([ui EXCEPT !.zone = TRUE, !.tool = "select"])
          /\ UNCHANGED born
       \/ /\ ui.tool = "draw_infra"
          /\ IF seen.active
             THEN /\ doc.infra.lines < 2
                  /\ hist' = push(push(hist, seen.doc), seen.doc)
                  /\ doc' = IF doc.infra.layer = "none" THEN doc
                            ELSE [doc EXCEPT !.infra.lines = @ + 1]
             ELSE hist' = push(hist, seen.doc) /\ UNCHANGED doc
          /\ ui' = cancelDraw(ui)
          /\ UNCHANGED born
       \/ /\ ui.tool \notin DrawTools
          /\ hist' = push(hist, seen.doc)
          /\ ui' = cancelDraw(ui)
          /\ UNCHANGED <<doc, born>>
    /\ dirty' = TRUE
    /\ Renders(TRUE, TRUE)
    /\ UNCHANGED <<layout, scale, hand, loading, kit>>

EnterKey == ui.points >= MinPoints /\ finishDraw(keys)
DoubleClickDraw == IsDrawMode(ui) /\ ui.points >= MinPoints /\ finishDraw(dbl)

\* A click in a draw mode: a point, or on the first point of a zone its end.
DrawPoint ==
    /\ Uses("draw") /\ IsDrawMode(ui) /\ hand = NoHand
    /\ ~doc.locked \/ ui.tool = "draw_zone"
    /\ \/ ui.points < 3 /\ Shows([ui EXCEPT !.points = @ + 1], TRUE, TRUE) /\ UNCHANGED hand
       \/ ui.tool = "draw_zone" /\ ui.points >= 3 /\ finishDraw(Now)

\* Escape gives up a drawing, then the selection and a drag: what was dragged
\* stays where it is and is not recorded.
EscapeKey ==
    /\ IF ui.tool \in {"measure", "bg_edit"}
       THEN Shows([ui EXCEPT !.tool = "select"], FALSE, FALSE) /\ UNCHANGED hand
       ELSE IF ui.points > 0 THEN Shows(cancelDraw(ui), TRUE, TRUE) /\ UNCHANGED hand
       ELSE /\ Shows([ui EXCEPT !.sel = {}, !.struct = Gone,
                                !.tool = IF @ = "place" \/ @ \in DrawTools THEN "select" ELSE @],
                     TRUE, FALSE)
            /\ hand' = IF hand.kind = "drag" THEN NoHand ELSE hand

-----------------------------------------------------------------------------
(***************************************************************************)
(* Clicks and gestures; one pointer is down at a time                      *)
(***************************************************************************)

\* The svg takes a press for a selection only with the tools that are left.
Selecting == hand = NoHand /\ ui.tool \in {"select", "bg_edit"}

\* A desk: selected, and with the pointer held ready to be dragged.  With Shift
\* the drag moves what was selected before.
PressDesk(d, shift) ==
    /\ Uses("desks") /\ Selecting /\ d \in Live(doc)
    /\ LET sel == IF ~shift THEN IF d \in ui.sel THEN ui.sel ELSE {d}
                  ELSE IF d \in ui.sel THEN ui.sel \ {d} ELSE ui.sel \cup {d}
           ids == IF shift \/ d \in ui.sel THEN ui.sel ELSE {d}
       IN  /\ Shows([ui EXCEPT !.sel = sel, !.struct = Gone], TRUE, FALSE)
           /\ hand' = IF ui.desksLocked THEN NoHand
                      ELSE [kind |-> "drag", ids |-> ids, moved |-> FALSE, start |-> doc]

PressWall(w) ==
    /\ Uses("walls") /\ Selecting /\ doc.walls[w] # Gone /\ ~doc.locked
    /\ Shows([ui EXCEPT !.sel = {}, !.struct = w], TRUE, FALSE) /\ UNCHANGED hand

PressZone ==
    /\ Uses("zones") /\ Selecting /\ doc.zone # Gone
    /\ Shows([ui EXCEPT !.zone = TRUE, !.sel = {}, !.struct = Gone], TRUE, FALSE) /\ UNCHANGED hand

PressEmpty(shift) ==
    /\ Uses("desks") /\ Selecting
    /\ Shows([ui EXCEPT !.sel = IF shift THEN @ ELSE {}, !.struct = Gone, !.zone = FALSE,
                        !.line = FALSE], ~shift, FALSE)
    /\ hand' = [kind |-> "marquee", append |-> shift]

\* A handle records the state first and then changes it as the pointer moves.
\* A press is no edit: the document is as it was.
Grip(what) ==
    /\ Selecting /\ edits < MaxEdits
    /\ \/ /\ what = "desk" /\ Uses("desks")
          /\ Cardinality(ui.sel) = 1 /\ ui.sel \subseteq Live(doc)
          /\ hand' = [kind |-> "desk", ids |-> ui.sel]
       \/ /\ what = "vertex" /\ Uses("walls")
          /\ ui.struct # Gone /\ doc.walls[ui.struct] # Gone /\ ~doc.locked
          /\ hand' = [kind |-> "vertex", wall |-> ui.struct]
       \/ /\ what = "bg" /\ Uses("background")
          /\ ui.tool = "bg_edit" /\ doc.bg.image > 0 /\ ~doc.bg.locked
          /\ hand' = [kind |-> "bg"]
    /\ hist' = push(hist, doc) /\ edits' = edits + 1
    /\ UNCHANGED <<layout, doc, scale, dirty, ui, loading, born, kit>>
    /\ Renders(FALSE, FALSE)

Placed(ids, place) == [d \in Desks |-> IF d \in ids /\ doc.desks[d] # Gone THEN place
                                      ELSE doc.desks[d]]

onSvgPointerMove(place) ==
    /\ CASE hand.kind \in {"drag", "desk"} ->
              Unrecorded([doc EXCEPT !.desks = Placed(hand.ids, place)], ui, TRUE)
         [] hand.kind = "vertex" ->
              Unrecorded([doc EXCEPT !.walls[hand.wall] = IF @ = Gone THEN Gone ELSE place], ui, FALSE)
         [] hand.kind = "bg" -> Unrecorded([doc EXCEPT !.bg.at = place], ui, FALSE)
         [] OTHER -> FALSE
    /\ hand' = IF hand.kind = "drag" THEN [hand EXCEPT !.moved = TRUE] ELSE hand
    /\ UNCHANGED born

\* A mutant of onSvgPointerUp: what was dragged is not recorded.
DropDrag ==
    /\ hand.kind # "none" /\ hand' = NoHand
    /\ IF hand.kind = "marquee"
       THEN \E hit \in SUBSET Live(doc) :
              Shows([ui EXCEPT !.sel = IF hand.append THEN @ \cup hit ELSE hit], TRUE, FALSE)
       ELSE /\ UNCHANGED <<layout, doc, scale, dirty, ui, hist, loading, born, edits, kit>>
            /\ Renders(FALSE, FALSE)

onSvgPointerUp ==
    /\ hand.kind # "none" /\ hand' = NoHand
    /\ IF hand.kind = "marquee"
       THEN \E hit \in SUBSET Live(doc) :
              Shows([ui EXCEPT !.sel = IF hand.append THEN @ \cup hit ELSE hit], TRUE, FALSE)
       ELSE /\ hist' = IF hand.kind = "drag" /\ hand.moved THEN push(hist, hand.start) ELSE hist
            /\ UNCHANGED <<layout, doc, scale, dirty, ui, loading, born, edits, kit>>
            /\ Renders(FALSE, FALSE)

ToggleDesksLock ==
    /\ Uses("desks") /\ Shows([ui EXCEPT !.desksLocked = ~@], FALSE, FALSE) /\ UNCHANGED hand

-----------------------------------------------------------------------------
(***************************************************************************)
(* History, loads and saves                                                *)
(***************************************************************************)

\* The tool, the points of a drawing and a gesture go on.
onRestore(state) ==
    /\ edits < MaxEdits /\ edits' = edits + 1
    /\ doc' = state /\ dirty' = TRUE
    /\ ui' = [ui EXCEPT !.sel = {}, !.struct = Gone]
    /\ Renders(TRUE, FALSE)
    /\ UNCHANGED <<layout, scale, hand, loading, born, kit>>

Undo(seen) == canUndo(hist) /\ hist' = undo(hist, seen.doc) /\ onRestore(Top(hist.undo))
Redo(seen) == canRedo(hist) /\ hist' = redo(hist, seen.doc) /\ onRestore(Top(hist.redo))

\* A mutant of LoadLayout: the stacks are not cleared.
LoadKeepsHistory ==
    /\ layout.of < MaxLoads
    /\ layout' = NewDoc(layout.of + 1)
    /\ doc' = layout' /\ scale' = 1 /\ dirty' = FALSE
    /\ ui' = cancelDraw([ui EXCEPT !.sel = {}, !.struct = Gone])
    /\ Renders(TRUE, TRUE)
    /\ UNCHANGED <<hist, hand, loading, born, edits, kit>>

\* The layout prop changed: another floor, another version, a discarded draft.
\* Only the history is cleared: a gesture and an image being read go on.
LoadLayout ==
    /\ layout.of < MaxLoads
    /\ layout' = NewDoc(layout.of + 1)
    /\ doc' = layout' /\ scale' = 1 /\ dirty' = FALSE
    /\ ui' = cancelDraw([ui EXCEPT !.sel = {}, !.struct = Gone])
    /\ hist' = NoHistory
    /\ Renders(TRUE, TRUE)
    /\ UNCHANGED <<hand, loading, born, edits, kit>>

\* Back to what was loaded, but for the layers of lines and the scale.
resetChanges ==
    /\ dirty
    /\ doc' = [layout EXCEPT !.infra = doc.infra]
    /\ dirty' = FALSE
    /\ ui' = cancelDraw([ui EXCEPT !.sel = {}])
    /\ hist' = NoHistory
    /\ Renders(TRUE, TRUE)
    /\ UNCHANGED <<layout, scale, hand, loading, born, edits, kit>>

\* Another canvas size or number of pixels per metre.
ChangeScale ==
    /\ Uses("scale") /\ edits < MaxEdits /\ edits' = edits + 1
    /\ scale' = Other(scale)
    /\ dirty' = TRUE
    /\ UNCHANGED <<layout, doc, ui, hist, hand, loading, born, kit>>
    /\ Renders(FALSE, FALSE)

\* A save has been answered; the layout prop stays what was loaded.
Save ==
    /\ dirty /\ dirty' = FALSE
    /\ UNCHANGED <<layout, doc, scale, ui, hist, hand, loading, born, edits, kit>>
    /\ Renders(FALSE, FALSE)

Next ==
    \/ \E seen \in Seen :
          \/ MoveSelected(seen) \/ deleteSelected(seen) \/ duplicateSelected(seen)
          \/ groupSelected(seen) \/ ungroupSelected(seen) \/ deleteZone(seen)
          \/ deleteSelectedStruct(seen) \/ DeleteInfraItem(seen)
          \/ Undo(seen) \/ Redo(seen)
    \/ UpdateDesk \/ \E place \in Places : BulkUpdate(place)
    \/ Copy \/ Paste \/ addDeskAt \/ insertObjects \/ CatalogueResizes \/ ToggleDesksLock
    \/ deleteGroup \/ selectGroup \/ updateZone
    \/ PatchStruct \/ splitStructureSegment \/ toggleStructureLock
    \/ addInfraLayer \/ removeInfraLayer \/ toggleInfraLayerVisibility
    \/ ChooseInfraLayer \/ SelectInfraItem
    \/ fitBackgroundToCanvas \/ commitBackgroundTransform \/ toggleBackgroundLock
    \/ ToggleBackground \/ RemoveBackground \/ AdjustBackground
    \/ onBgFileChange \/ applyLoadedBackground
    \/ \E t \in Tools : PickTool(t) \/ KeyTool(t)
    \/ SpaceDown \/ SpaceUp \/ EnterKey \/ DoubleClickDraw \/ DrawPoint \/ EscapeKey
    \/ \E d \in Desks, shift \in BOOLEAN : PressDesk(d, shift)
    \/ \E w \in Walls : PressWall(w)
    \/ PressZone \/ \E shift \in BOOLEAN : PressEmpty(shift)
    \/ \E what \in {"desk", "vertex", "bg"} : Grip(what)
    \/ \E place \in Places : onSvgPointerMove(place)
    \/ onSvgPointerUp
    \/ LoadLayout \/ resetChanges \/ ChangeScale \/ Save

Spec == Init /\ [][Next]_vars

-----------------------------------------------------------------------------
(***************************************************************************)
(* Properties                                                              *)
(***************************************************************************)

\* The steps that replace the document as a whole.
Restores == (\E seen \in Seen : Undo(seen) \/ Redo(seen)) \/ LoadLayout \/ resetChanges

\* What the stacks hold.
Entries(h) == {h.undo[i] : i \in DOMAIN h.undo} \cup {h.redo[i] : i \in DOMAIN h.redo}

\* However edits, undos and redos follow each other, the two stacks together
\* never hold more than the depth (useUndoRedo.js cuts only the undo stack,
\* and only in push).
HistoryBounded == Len(hist.undo) + Len(hist.redo) <= maxDepth

\* The step pushes this document, and there is nothing to redo any more.
Pushed(state) == hist'.redo = << >> /\ hist'.undo # << >> /\ Top(hist'.undo) = state

\* The operations that the code records nowhere.
Unrecordable ==
    \/ PatchStruct \/ AdjustBackground \/ addInfraLayer \/ toggleInfraLayerVisibility
    \/ CatalogueResizes

\* An edit pushes the document it changes.  An older one is pushed by three: a
\* key, whose handler knows the desks, the zone and the lock as they are but not
\* always the walls, groups, lines and background; a double click, which knows
\* the lock; and an image that was read while the user went on.
EditPushed ==
    \/ Pushed(doc)
    \/ /\ Pushed(keys.doc)
       /\ <<keys.doc.desks, keys.doc.zone, keys.doc.locked>> = <<doc.desks, doc.zone, doc.locked>>
    \/ /\ splitStructureSegment \/ DoubleClickDraw
       /\ Pushed(dbl.doc) /\ dbl.doc.locked = doc.locked
    \/ applyLoadedBackground /\ Pushed(loading.seen)

\* A handle pushes the document when it is taken.  A drag of desks keeps the
\* document it began with, and once it has moved them pushes that when it ends;
\* but Escape drops the drag with what it moved recorded nowhere.
GesturePushed ==
    /\ hand'.kind \in {"desk", "vertex", "bg"} => hand' = hand \/ Pushed(doc)
    /\ hand'.kind = "drag" => hand.kind = "drag" \/ hand'.start = doc
    /\ hand.kind = "drag" /\ hand.moved =>
          \/ hand' = hand
          \/ hand' = NoHand /\ (Pushed(hand.start) \/ EscapeKey)

\* A move of the pointer that is part of such a gesture.
MovesInHand ==
    /\ \E place \in Places : onSvgPointerMove(place)
    /\ \/ hand.kind \in {"desk", "vertex", "bg"}
       \/ hand.kind = "drag" /\ hand' = [hand EXCEPT !.moved = TRUE]

\* No change of the document goes unrecorded: a step that changes it pushes the
\* entry that undoes it, or is a move of a gesture that did so when it began or
\* does so when it ends, or is one of the operations recorded nowhere.
EditsUndoable ==
    [][/\ doc' # doc /\ ~Restores => EditPushed \/ MovesInHand \/ Unrecordable
       /\ GesturePushed]_vars

\* What is selected exists: no step leaves the id of a desk that is gone in the
\* selection, which delete, nudge and copy would then be applied to in vain.
\* Only choosing a group whose desk was deleted selects one.
SelectionLive ==
    [][\A d \in ui'.sel \ Live(doc') : d \in ui.sel \ Live(doc) \/ selectGroup]_vars

\* While structures are locked no step changes a wall, but for undo, redo, a
\* reset or load, and two that began before an undo brought the lock back: the
\* end of a drawing and the drag of a vertex.
LockedStays ==
    [][doc.locked /\ doc'.locked /\ doc'.walls # doc.walls =>
          \/ Restores
          \/ ui.points >= 2 /\ ui'.points = 0
          \/ hand.kind = "vertex"]_vars

\* The stacks hold states of the layout that is loaded.  The way round it is a
\* gesture or an image begun before a load and ended after it: it pushes the
\* document of the old layout, and only what undoing that brings back may follow.
HistoryOfLayout ==
    [][\A e \in Entries(hist') :
          \/ e.of = layout'.of
          \/ layout' = layout /\ e \in Entries(hist) \cup {doc, keys.doc, dbl.doc}
          \/ hand.kind = "drag" /\ e = hand.start
          \/ loading.on /\ e = loading.seen]_vars

\* "undo() restores the previous snapshot; redo() re-applies a previously undone
\* snapshot" (useUndoRedo.js:4-6): what undo puts on the redo stack is the
\* document it leaves.
UndoneIsRedone ==
    [][Len(hist'.redo) > Len(hist.redo) => Top(hist'.redo) = doc]_vars

-----------------------------------------------------------------------------
(***************************************************************************)
(* The types, for the proofs                                               *)
(***************************************************************************)

Doc == [of: Nat, desks: [Desks -> Places \cup {Gone}], walls: [Walls -> Places \cup {Gone}],
        locked: BOOLEAN, group: SUBSET Desks, zone: Places \cup {Gone},
        infra: [layer: {"none", "shown", "hidden"}, lines: Nat],
        bg: [image: {0, 1}, at: Places, locked: BOOLEAN, look: Places]]

Ui == [tool: Tools, points: 0..3, sel: SUBSET Desks, struct: Walls \cup {Gone}, zone: BOOLEAN,
       line: BOOLEAN, active: BOOLEAN, desksLocked: BOOLEAN, clip: BOOLEAN]

Hand == {NoHand, [kind |-> "bg"]}
        \cup [kind: {"drag"}, ids: SUBSET Desks, moved: BOOLEAN, start: Doc]
        \cup [kind: {"desk"}, ids: SUBSET Desks]
        \cup [kind: {"vertex"}, wall: Walls]
        \cup [kind: {"marquee"}, append: BOOLEAN]

CanvasView == [doc: Doc, active: BOOLEAN]
Image == {NotLoading} \cup [on: {TRUE}, seen: Doc]
Born == [desk: 0..MaxDesk, wall: Walls]

CanvasTypeOK ==
    /\ layout \in Doc /\ doc \in Doc /\ scale \in Places /\ dirty \in BOOLEAN
    /\ ui \in Ui /\ hist \in Histories(Doc) /\ hand \in Hand
    /\ keys \in CanvasView /\ dbl \in CanvasView
    /\ loading \in Image /\ born \in Born
    /\ edits \in Nat /\ kit \in Kits
=============================================================================
