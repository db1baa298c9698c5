-------------------------- MODULE ComponentEditor --------------------------
(***************************************************************************)
(* The drawing and code editor of a library component                      *)
(* (ComponentEditor.jsx).  One axis stands for both: a box has a side a    *)
(* and a width b, a line the ends a and b.  The fill, the stroke and the   *)
(* corner radius are the style; the width of a stroke goes as its colour.  *)
(* The mouse is never captured (its events have no pointerId), so that a   *)
(* gesture may lose its mouse-up and go on until the next one.             *)
(*                                                                         *)
(* Lengths are counted in hundredths: the mouse is read to a tenth, a      *)
(* number that is typed may be finer, and markup is written to a tenth;    *)
(* the half of one that the corner of an odd width has left is dropped.    *)
(***************************************************************************)
EXTENDS Integers, Sequences, FiniteSets

CONSTANTS Places,     \* where the mouse is pressed, moved and released
          Colours,    \* of fills and strokes
          Numbers,    \* typed into the panels
          Radii,      \* of corners
          Markups,    \* the codes a user types, sequences of elements
          MaxShapes,  \* bound on the shapes drawn
          MaxTouches  \* bound on the steps in the editor, for checking

ASSUME ComponentAssumption ==
    /\ Places \cup Numbers \subseteq Int /\ Radii \subseteq Nat
    /\ "none" \notin Colours /\ Colours # {}
    /\ {MaxShapes, MaxTouches} \subseteq Nat

VARIABLES ed,      \* the editor on the screen
          touches  \* steps so far, for checking

Tenth == 10
Px == 100
MIN_DRAG == 3 * Px
MinSize == 4 * Px
Reach == 6 * Px
Pad == 4 * Px
NoBox == [x |-> 0, w |-> 100 * Px]

Shape == [id : Nat, kind : {"rect", "ellipse", "line"}, a : Int, b : Int,
          fill : Colours \cup {"none"}, stroke : Colours, rx : Int]

Smaller(m, n) == IF m < n THEN m ELSE n
Larger(m, n) == IF m < n THEN n ELSE m

NoDrag == [kind |-> "none"]
NoRx == -1   \* a shape read or drawn without the field

-----------------------------------------------------------------------------
(***************************************************************************)
(* Markup.  An element is a shape without an id, an ellipse by its centre  *)
(* a and its radius b; of what the editor does not draw (path, g, text,    *)
(* and unsafe elements) only the kind matters.                             *)
(***************************************************************************)

Drawable(e) == e.kind \in {"rect", "ellipse", "line"}

\* A width or a second end of 0 is read as its default, 50; a radius as 25.
FieldRead(n) == IF n = 0 THEN 50 * Px ELSE n
RadiusRead(n) == IF n = 0 THEN 25 * Px ELSE n

\* The k-th of some places, from the first on.
Nth(places, k) == CHOOSE i \in places : Cardinality({j \in places : j <= i}) = k

\* An element read as the shape with this id.
ShapeRead(element, id) ==
    LET round == element.kind = "ellipse" IN
    [id |-> id, kind |-> element.kind,
     a |-> IF round THEN element.a - RadiusRead(element.b) ELSE element.a,
     b |-> IF round THEN 2 * RadiusRead(element.b) ELSE FieldRead(element.b),
     fill |-> IF element.kind = "line" THEN "none" ELSE element.fill, stroke |-> element.stroke,
     rx |-> IF element.kind = "rect" THEN element.rx ELSE NoRx]

markupToShapes(markup) ==
    LET drawn == {i \in DOMAIN markup : Drawable(markup[i])} IN
    [k \in 1..Cardinality(drawn) |-> ShapeRead(markup[Nth(drawn, k)], k)]

\* To a tenth, a half upwards; svgHalf is svgNum(n / 2).  The halves that lie
\* between two tenths may go either way in the browser, whose numbers are binary.
svgNum(n) == Tenth * ((n + 5) \div Tenth)
svgHalf(n) == Tenth * ((n + Tenth) \div (2 * Tenth))

\* A mutant of Written: an ellipse is placed by its side.
WrittenBySide(s) ==
    [kind |-> s.kind, a |-> svgNum(s.a),
     b |-> IF s.kind = "ellipse" THEN svgHalf(s.b) ELSE svgNum(s.b),
     fill |-> s.fill, stroke |-> s.stroke, rx |-> IF s.kind = "rect" THEN svgNum(s.rx) ELSE NoRx]

\* A shape as an element: an ellipse by its centre and half of its width.
Written(s) ==
    [kind |-> s.kind,
     a |-> IF s.kind = "ellipse" THEN svgHalf(2 * s.a + s.b) ELSE svgNum(s.a),
     b |-> IF s.kind = "ellipse" THEN svgHalf(s.b) ELSE svgNum(s.b),
     fill |-> s.fill, stroke |-> s.stroke, rx |-> IF s.kind = "rect" THEN svgNum(s.rx) ELSE NoRx]

shapesToMarkup(shapes) == [i \in DOMAIN shapes |-> Written(shapes[i])]

LeftOf(s) == IF s.kind = "line" THEN Smaller(s.a, s.b) ELSE s.a
RightOf(s) == IF s.kind = "line" THEN Larger(s.a, s.b) ELSE s.a + s.b

boundsFromShapes(shapes) ==
    LET left == CHOOSE x \in {LeftOf(shapes[i]) : i \in DOMAIN shapes} :
                    \A i \in DOMAIN shapes : x <= LeftOf(shapes[i])
        right == CHOOSE x \in {RightOf(shapes[i]) : i \in DOMAIN shapes} :
                    \A i \in DOMAIN shapes : x >= RightOf(shapes[i])
    IN  IF shapes = << >> THEN NoBox
        ELSE [x |-> left - Pad, w |-> right - left + 2 * Pad]

isSafeSvgMarkup(markup) == \A i \in DOMAIN markup : markup[i].kind # "script"

-----------------------------------------------------------------------------
(***************************************************************************)
(* Opening, modes and tools                                                *)
(***************************************************************************)

\* A form is mounted: its markup is drawn, and the next id follows the ids read.
Opened(markup, box) ==
    LET shapes == markupToShapes(markup) IN
    [mode |-> "draw", tool |-> "select", shapes |-> shapes, next |-> Len(shapes) + 1,
     picked |-> 0, drag |-> NoDrag,
     style |-> [fill |-> CHOOSE c \in Colours : TRUE, stroke |-> CHOOSE c \in Colours : TRUE,
                rx |-> 2 * Px],
     code |-> markup, box |-> box, sized |-> FALSE]

\* The view and the default size, a whole number, follow the drawing until a
\* size is typed.
syncViewBoxFromShapes(e, shapes) ==
    LET b == boundsFromShapes(shapes) IN
    IF e.sized \/ shapes = << >> THEN e.box
    ELSE [x |-> svgNum(b.x), w |-> Px * ((b.w + 50) \div Px)]

selectTool(e, t) == [e EXCEPT !.tool = t, !.picked = 0]

\* A mutant of Drawn: ids are given as before the code was read.
DrawnOldIds(e) ==
    LET parsed == markupToShapes(e.code) IN
    IF parsed = << >> THEN [e EXCEPT !.mode = "draw", !.picked = 0]
    ELSE [e EXCEPT !.mode = "draw", !.picked = 0, !.shapes = parsed,
                   !.box = syncViewBoxFromShapes(e, parsed)]

\* From code to drawing; a code without a shape leaves the old drawing.
Drawn(e) ==
    LET parsed == markupToShapes(e.code) IN
    IF parsed = << >> THEN [e EXCEPT !.mode = "draw", !.picked = 0]
    ELSE [e EXCEPT !.mode = "draw", !.picked = 0, !.shapes = parsed,
                   !.next = Len(parsed) + 1, !.box = syncViewBoxFromShapes(e, parsed)]

switchMode(e) ==
    IF e.mode = "draw" THEN [e EXCEPT !.mode = "code", !.code = shapesToMarkup(e.shapes)]
    ELSE Drawn(e)

-----------------------------------------------------------------------------
(***************************************************************************)
(* The mouse                                                               *)
(***************************************************************************)

Covers(s, p) ==
    IF s.kind = "line" THEN LeftOf(s) - Reach < p /\ p < RightOf(s) + Reach
    ELSE s.a <= p /\ p <= s.a + s.b

\* What the browser says is under the cursor, a shape that is not filled letting
\* the one below it through; hitTestShapes takes the topmost.
Hits(shapes, p) == {i \in DOMAIN shapes : Covers(shapes[i], p)}

\* A mutant of loadSelectedToToolbar: the corner radius is left.
LoadColours(style, s) ==
    [style EXCEPT !.fill = IF s.fill = "none" THEN @ ELSE s.fill, !.stroke = s.stroke]

\* The toolbar takes over the style of what is picked; "none" is not a fill, and
\* what has no field leaves the toolbar's.
loadSelectedToToolbar(style, s) ==
    [fill |-> IF s.fill = "none" THEN style.fill ELSE s.fill, stroke |-> s.stroke,
     rx |-> IF s.rx = NoRx THEN style.rx ELSE s.rx]

createShape(e, p) ==
    LET from == e.drag.start
        kind == IF e.tool \in {"line", "ellipse"} THEN e.tool ELSE "rect"
        w == IF from < p THEN p - from ELSE from - p
    IN  [id |-> e.next, kind |-> kind,
         a |-> IF kind = "line" THEN from ELSE Smaller(from, p),
         b |-> IF kind = "line" THEN p ELSE w,
         fill |-> IF kind = "line" THEN "none" ELSE e.style.fill, stroke |-> e.style.stroke,
         rx |-> CASE kind = "line" -> NoRx
                  [] e.tool = "roundrect" -> Smaller(e.style.rx, w \div 2)
                  [] OTHER -> 0]

BigEnough(e, p) == p - e.drag.start >= MIN_DRAG \/ e.drag.start - p >= MIN_DRAG

resized(s, handle, p) ==
    IF s.kind = "line" THEN IF handle = "left" THEN [s EXCEPT !.a = p] ELSE [s EXCEPT !.b = p]
    ELSE IF handle = "right" THEN [s EXCEPT !.b = Larger(MinSize, p - s.a)]
    ELSE LET x == Smaller(p, s.a + s.b - MinSize) IN [s EXCEPT !.a = x, !.b = @ + s.a - x]

moved(s, p, offset) ==
    IF s.kind = "line" THEN [s EXCEPT !.a = p - offset, !.b = @ + p - offset - s.a]
    ELSE [s EXCEPT !.a = p - offset]

Reshape(e, s) == [e EXCEPT !.shapes[e.picked] = s]

-----------------------------------------------------------------------------
(***************************************************************************)
(* The steps of the editor                                                 *)
(***************************************************************************)

Touch(e) == touches < MaxTouches /\ touches' = touches + 1 /\ ed' = e

Drawing == ed.mode = "draw"
Picked == ed.shapes[ed.picked]

SwitchMode == Touch(switchMode(ed))
EditCode == ed.mode = "code" /\ \E text \in Markups : Touch([ed EXCEPT !.code = text])
SelectTool == Drawing /\ \E t \in {"select", "rect", "roundrect", "ellipse", "line"} :
                            Touch(selectTool(ed, t))

PressHandle ==
    /\ Drawing /\ ed.picked # 0
    /\ \E h \in {"left", "right"} : Touch([ed EXCEPT !.drag = [kind |-> "resize", handle |-> h]])

\* A press on nothing ends no gesture.
Pick ==
    /\ Drawing /\ ed.tool = "select"
    /\ \E p \in Places :
          \/ Hits(ed.shapes, p) = {} /\ Touch([ed EXCEPT !.picked = 0])
          \/ \E i \in Hits(ed.shapes, p) :
                Touch([ed EXCEPT !.picked = i,
                          !.style = loadSelectedToToolbar(@, ed.shapes[i]),
                          !.drag = [kind |-> "move", offset |-> p - ed.shapes[i].a]])

BeginShape ==
    /\ Drawing /\ ed.tool # "select" /\ Len(ed.shapes) < MaxShapes
    /\ \E p \in Places : Touch([ed EXCEPT !.drag = [kind |-> "draw", start |-> p], !.picked = 0])

\* The mouse moves what is picked now; of a shape being drawn it shows a preview.
MouseMove ==
    /\ Drawing /\ ed.picked # 0
    /\ \E p \in Places :
          \/ ed.drag.kind = "resize" /\ Touch(Reshape(ed, resized(Picked, ed.drag.handle, p)))
          \/ ed.drag.kind = "move" /\ Touch(Reshape(ed, moved(Picked, p, ed.drag.offset)))

\* The tool that is chosen now decides what was drawn: without one, a rectangle.
MouseUp ==
    /\ Drawing /\ ed.drag # NoDrag
    /\ IF ed.drag.kind = "draw"
       THEN \E p \in Places :
              IF BigEnough(ed, p)
              THEN LET shapes == Append(ed.shapes, createShape(ed, p)) IN
                   Touch([selectTool(ed, "select") EXCEPT
                             !.shapes = shapes, !.next = @ + 1, !.drag = NoDrag,
                             !.box = syncViewBoxFromShapes(ed, shapes)])
              ELSE Touch([ed EXCEPT !.drag = NoDrag])
       ELSE Touch([ed EXCEPT !.drag = NoDrag])

Without(s, i) == SubSeq(s, 1, i - 1) \o SubSeq(s, i + 1, Len(s))

deleteSelected ==
    /\ Drawing /\ ed.picked # 0
    /\ LET shapes == Without(ed.shapes, ed.picked) IN
       Touch([ed EXCEPT !.shapes = shapes, !.picked = 0, !.box = syncViewBoxFromShapes(ed, shapes)])

bringToFront ==
    /\ Drawing /\ ed.picked # 0 /\ ed.picked < Len(ed.shapes)
    /\ Touch([ed EXCEPT !.shapes = Append(Without(@, ed.picked), Picked), !.picked = Len(ed.shapes)])

sendToBack ==
    /\ Drawing /\ ed.picked > 1
    /\ Touch([ed EXCEPT !.shapes = <<Picked>> \o Without(@, ed.picked), !.picked = 1])

\* What is picked gets the whole style of the toolbar, not just what changed.
applyToolbarToSelected(s, style) ==
    [s EXCEPT !.fill = IF s.kind = "line" THEN @ ELSE style.fill, !.stroke = style.stroke,
              !.rx = IF s.kind = "rect" THEN style.rx ELSE @]

Restyle(style) ==
    /\ Drawing
    /\ Touch(IF ed.picked = 0 THEN [ed EXCEPT !.style = style]
             ELSE [Reshape(ed, applyToolbarToSelected(Picked, style)) EXCEPT !.style = style])

onFillChange == \E c \in Colours : Restyle([ed.style EXCEPT !.fill = c])
onStrokeChange == \E c \in Colours : Restyle([ed.style EXCEPT !.stroke = c])
onBorderRadiusChange == \E r \in Radii : Restyle([ed.style EXCEPT !.rx = r])

\* A number typed into the panel; a radius fits the box and reaches the toolbar.
applyShapePropsField ==
    /\ Drawing /\ ed.picked # 0
    /\ \/ \E n \in Numbers : \/ Touch(Reshape(ed, [Picked EXCEPT !.a = n]))
                             \/ Touch(Reshape(ed, [Picked EXCEPT !.b = n]))
       \/ Picked.kind = "rect" /\ \E n \in Radii :
             LET r == Larger(0, Smaller(n, Picked.b \div 2)) IN
             Touch([Reshape(ed, [Picked EXCEPT !.rx = r]) EXCEPT !.style.rx = r])

EscapePick == Drawing /\ ed.picked # 0 /\ Touch([ed EXCEPT !.picked = 0])

TypeSize == ~ed.sized /\ \E w \in Numbers : w > 0 /\ Touch([ed EXCEPT !.sized = TRUE, !.box.w = w])

EditStep ==
    \/ SwitchMode \/ EditCode \/ SelectTool
    \/ PressHandle \/ Pick \/ BeginShape \/ MouseMove \/ MouseUp
    \/ deleteSelected \/ bringToFront \/ sendToBack
    \/ onFillChange \/ onStrokeChange \/ onBorderRadiusChange
    \/ applyShapePropsField \/ EscapePick \/ TypeSize

\* What Save sends: the view is computed anew, the size is the form's.
MarkupNow(e) == IF e.mode = "draw" THEN shapesToMarkup(e.shapes) ELSE e.code
Savable(e) == MarkupNow(e) # << >> /\ isSafeSvgMarkup(MarkupNow(e))
boundsFromMarkup(markup) ==
    LET b == boundsFromShapes(markupToShapes(markup)) IN [x |-> svgNum(b.x), w |-> svgNum(b.w)]
Payload(e) == [markup |-> MarkupNow(e), box |-> boundsFromMarkup(MarkupNow(e)), w |-> e.box.w]

-----------------------------------------------------------------------------
(***************************************************************************)
(* Properties                                                              *)
(***************************************************************************)

Restyled(s, t) == {f \in {"fill", "stroke", "rx"} : t[f] # s[f]}

\* Every shape has an id of its own, whatever was drawn, typed and deleted: the
\* ids are React's keys, and the next one is above them.
ShapesKeyed ==
    /\ \A i, j \in DOMAIN ed.shapes : i # j => ed.shapes[i].id # ed.shapes[j].id
    /\ \A i \in DOMAIN ed.shapes : ed.shapes[i].id < ed.next

\* Picking a shape and changing one thing about its look leaves the others: the
\* code overwrites the whole style with the toolbar's, so the toolbar must have
\* kept up with every pick.  Only a shape without a fill is filled by it.
RestyleKeepsRest ==
    [][ed'.style # ed.style /\ ed.picked # 0 /\ ed'.picked = ed.picked =>
          LET s == Picked
              t == ed'.shapes[ed.picked]
          IN  \A f, g \in Restyled(s, t) \ (IF s.fill = "none" THEN {"fill"} ELSE {}) : f = g]_ed

Near(m, n) == m - n <= Tenth /\ n - m <= Tenth

\* What is written to a tenth as it is: of an ellipse the half has to be.
OnTenths(s) == s.a % Tenth = 0 /\ s.b % (IF s.kind = "ellipse" THEN 2 * Tenth ELSE Tenth) = 0

\* A width or a second end that is written as 0.
Vanishes(s) == Written(s).b = 0

\* The same picture but for rounding.
DrawnAlike(s, t) ==
    /\ s.kind = t.kind /\ s.fill = t.fill /\ s.stroke = t.stroke
    /\ s.kind = "rect" => Near(s.rx, t.rx)
    /\ ~Vanishes(t) => /\ Near(s.a, t.a) /\ Near(s.b, t.b)
                       /\ OnTenths(t) => s.a = t.a /\ s.b = t.b

\* What a save sends is drawn again, when the component is opened the next time,
\* as it was but for rounding: no number is off by more than a tenth, and none at
\* all where it is a tenth and, of an ellipse, its half is.  Saved again it stays
\* as it is, so that the rounding never adds up, and it lies inside the view that
\* is stored with it.  But what vanishes is drawn 50 wide or up to 50, and a width
\* below 0 ends left of its box.
SavedAsDrawn ==
    ed.mode = "draw" /\ Savable(ed) =>
        LET again == markupToShapes(Payload(ed).markup) IN
        /\ Len(again) = Len(ed.shapes)
        /\ \A i \in DOMAIN again :
              /\ DrawnAlike(again[i], ed.shapes[i])
              /\ ShapeRead(Written(again[i]), i) = again[i]
              /\ Payload(ed).box.x < LeftOf(again[i])
              /\ again[i].b > 0 => RightOf(again[i]) < Payload(ed).box.x + Payload(ed).box.w

-----------------------------------------------------------------------------
(***************************************************************************)
(* The types and the invariant of the editor, for the proofs               *)
(***************************************************************************)

\* What markup is made of: what is not drawn, boxes with corners, and the rest.
Elements ==
    [kind: {"path", "g", "text", "script"}]
    \cup [kind: {"rect"}, a: Int, b: Int, fill: Colours \cup {"none"}, stroke: Colours,
          rx: Int \ {NoRx}]
    \cup [kind: {"ellipse", "line"}, a: Int, b: Int, fill: Colours \cup {"none"}, stroke: Colours,
          rx: Int]

\* Any code may be typed that has its fields; the radius that stands for none is
\* not one of them.
ASSUME MarkupsAssumption == Markups \subseteq Seq(Elements)

DrawnShape == {s \in Shape : (s.kind = "line" => s.fill = "none") /\ (s.kind = "rect" => s.rx # NoRx)}
Styles == [fill: Colours, stroke: Colours, rx: Int \ {NoRx}]
Boxes == [x: Int, w: Int]
Drags == {NoDrag} \cup [kind: {"resize"}, handle: {"left", "right"}]
         \cup [kind: {"move"}, offset: Int] \cup [kind: {"draw"}, start: Int]

Editors == [mode: {"draw", "code"}, tool: {"select", "rect", "roundrect", "ellipse", "line"},
            shapes: Seq(DrawnShape), next: Nat, picked: Nat, drag: Drags, style: Styles,
            code: Seq(Elements), box: Boxes, sized: BOOLEAN]

\* The ids are distinct and below the next one.
Keyed(shapes, next) ==
    /\ \A i, j \in DOMAIN shapes : i # j => shapes[i].id # shapes[j].id
    /\ \A i \in DOMAIN shapes : shapes[i].id < next

\* The toolbar shows the style of a shape.
Matches(style, s) ==
    /\ s.fill # "none" => style.fill = s.fill
    /\ style.stroke = s.stroke
    /\ s.kind = "rect" => style.rx = s.rx

EditorOK(e) ==
    /\ e \in Editors
    /\ e.picked \in 0..Len(e.shapes)
    /\ Keyed(e.shapes, e.next)
    /\ e.picked # 0 => Matches(e.style, e.shapes[e.picked])
=============================================================================
