---------------------------- MODULE PlanArrange ----------------------------
(***************************************************************************)
(* How the canvas lines up selected desks and fits the traced background   *)
(* (the toolbar and the background handles of CanvasEditor.jsx), and which *)
(* part of the plan a view shows (useViewport.js).  A desk is [id, x, y,   *)
(* w, h, r], a background [x, y, w, h, rotation] with a rotation in        *)
(* degrees that is a multiple of 90.                                       *)
(***************************************************************************)
EXTENDS PlanGeometry

CONSTANTS CANVAS_MIN_SIZE, CANVAS_MAX_SIZE

-----------------------------------------------------------------------------
(***************************************************************************)
(* Desks                                                                   *)
(***************************************************************************)

\* The box around some desks, at least one.
boundingBoxOf(desks, ids) ==
    LET picked == {i \in DOMAIN desks : desks[i].id \in ids}
        x == Min({desks[i].x : i \in picked})
        y == Min({desks[i].y : i \in picked})
    IN  Box(x, y, Max({desks[i].x + desks[i].w : i \in picked}) - x,
                  Max({desks[i].y + desks[i].h : i \in picked}) - y)

\* A mutant of alignSelected: the right edge forgets the desk's own width.
AlignRightLoose(desks, ids, kind) ==
    LET bbox == boundingBoxOf(desks, ids)
        aligned(d) == IF kind = "right" THEN [d EXCEPT !.x = bbox.x + bbox.w - 1] ELSE d
    IN  [i \in DOMAIN desks |-> IF desks[i].id \in ids THEN aligned(desks[i]) ELSE desks[i]]

alignSelected(desks, ids, kind) ==
    LET bbox == boundingBoxOf(desks, ids)
        aligned(d) ==
            CASE kind = "left" -> [d EXCEPT !.x = bbox.x]
              [] kind = "hcenter" -> [d EXCEPT !.x = bbox.x + bbox.w \div 2 - d.w \div 2]
              [] kind = "right" -> [d EXCEPT !.x = bbox.x + bbox.w - d.w]
              [] kind = "top" -> [d EXCEPT !.y = bbox.y]
              [] kind = "vcenter" -> [d EXCEPT !.y = bbox.y + bbox.h \div 2 - d.h \div 2]
              [] kind = "bottom" -> [d EXCEPT !.y = bbox.y + bbox.h - d.h]
    IN  IF Cardinality(ids) < 2 THEN desks
        ELSE [i \in DOMAIN desks |-> IF desks[i].id \in ids THEN aligned(desks[i]) ELSE desks[i]]

\* Centres along one axis, doubled.
CentreOf(d, axis) == IF axis = "x" THEN 2 * d.x + d.w ELSE 2 * d.y + d.h
CentredAt(d, axis, centre) ==
    IF axis = "x" THEN [d EXCEPT !.x = (centre - d.w) \div 2]
    ELSE [d EXCEPT !.y = (centre - d.h) \div 2]

\* The selected desks, sorted by their centres (the sort is stable).
ByCentre(desks, ids, axis) ==
    LET picked == {i \in DOMAIN desks : desks[i].id \in ids}
        before(i, j) == \/ CentreOf(desks[i], axis) < CentreOf(desks[j], axis)
                        \/ CentreOf(desks[i], axis) = CentreOf(desks[j], axis) /\ i < j
    IN  InOrder(picked, before)

distributeSelected(desks, ids, axis) ==
    LET order == ByCentre(desks, ids, axis)
        start == CentreOf(desks[Head(order)], axis)
        end == CentreOf(desks[Last(order)], axis)
        centre(k) == start + ((end - start) * (k - 1)) \div (Len(order) - 1)
    IN  IF Cardinality(ids) < 3 THEN desks
        ELSE [i \in DOMAIN desks |->
                IF \E k \in DOMAIN order : order[k] = i
                THEN CentredAt(desks[i], axis, centre(CHOOSE k \in DOMAIN order : order[k] = i))
                ELSE desks[i]]

\* The remainder keeps the sign, as in JavaScript.
Rem360(n) == IF n < 0 THEN -((-n) % 360) ELSE n % 360

rotateSelectedBy(desks, ids, delta) ==
    [i \in DOMAIN desks |->
        IF desks[i].id \in ids THEN [desks[i] EXCEPT !.r = Rem360(@ + delta)] ELSE desks[i]]

-----------------------------------------------------------------------------
(***************************************************************************)
(* The background                                                          *)
(***************************************************************************)

AtLeastMin(n) == Max({MIN_BACKGROUND_SIZE, n})
backgroundCenter(t) == At(t.x + t.w \div 2, t.y + t.h \div 2)

defaultBackgroundTransform(w, h) ==
    [x |-> 0, y |-> 0, w |-> Max({1, w}), h |-> Max({1, h}), rotation |-> 0]

\* The image as large as the canvas holds and in its middle.
fitBackgroundTransform(image, canvas) ==
    LET wide == canvas.w * image.h <= canvas.h * image.w
        w == AtLeastMin(IF wide THEN canvas.w ELSE (image.w * canvas.h) \div image.h)
        h == AtLeastMin(IF wide THEN (image.h * canvas.w) \div image.w ELSE canvas.h)
    IN  IF image.w <= 0 \/ image.h <= 0 THEN defaultBackgroundTransform(canvas.w, canvas.h)
        ELSE [x |-> (canvas.w - w) \div 2, y |-> (canvas.h - h) \div 2,
              w |-> w, h |-> h, rotation |-> 0]

normalizeRotationDegrees(value) ==
    LET normalized == value % 360 IN IF normalized > 180 THEN normalized - 360 ELSE normalized

\* By a factor num / den, around the centre.
scaledBackgroundTransform(t, num, den) ==
    LET c == backgroundCenter(t)
        w == AtLeastMin((t.w * num) \div den)
        h == AtLeastMin((t.h * num) \div den)
    IN  [t EXCEPT !.x = c.x - w \div 2, !.y = c.y - h \div 2, !.w = w, !.h = h]

\* Turned by quarters around a centre.
rotatePoint(p, c, degrees) ==
    LET dx == p.x - c.x
        dy == p.y - c.y
    IN  CASE degrees % 360 = 0 -> p
          [] degrees % 360 = 90 -> At(c.x - dy, c.y + dx)
          [] degrees % 360 = 180 -> At(c.x - dx, c.y - dy)
          [] degrees % 360 = 270 -> At(c.x + dy, c.y - dx)

inverseRotatePoint(p, t) == rotatePoint(p, backgroundCenter(t), -t.rotation)

Corners == [nw |-> {"n", "w"}, ne |-> {"n", "e"}, sw |-> {"s", "w"}, se |-> {"s", "e"}]

\* A mutant of resizedBackgroundTransform: keeping the proportions always moves
\* the right and the lower side.
ResizeAnchoredLeft(orig, corner, p, free) ==
    LET q == inverseRotatePoint(p, orig)
        rawW == AtLeastMin(q.x - orig.x)
        rawH == AtLeastMin(q.y - orig.y)
        byW == rawW * orig.h >= rawH * orig.w
        w == IF byW THEN rawW ELSE (orig.w * rawH) \div orig.h
    IN  [orig EXCEPT !.w = AtLeastMin(w), !.h = AtLeastMin((AtLeastMin(w) * orig.h) \div orig.w)]

\* A corner is pulled to p; unless Shift frees them the sides keep their
\* proportion, the larger of the two scales winning.
resizedBackgroundTransform(orig, corner, p, free) ==
    LET q == inverseRotatePoint(p, orig)
        sides == Corners[corner]
        right == orig.x + orig.w
        bottom == orig.y + orig.h
        rawW == AtLeastMin(IF "w" \in sides THEN right - q.x ELSE q.x - orig.x)
        rawH == AtLeastMin(IF "n" \in sides THEN bottom - q.y ELSE q.y - orig.y)
        byW == rawW * orig.h >= rawH * orig.w
        keptW == AtLeastMin(IF byW THEN rawW ELSE (orig.w * rawH) \div orig.h)
        w == IF free THEN rawW ELSE keptW
        h == IF free THEN rawH ELSE AtLeastMin((keptW * orig.h) \div orig.w)
    IN  [orig EXCEPT !.x = IF "w" \in sides THEN right - w ELSE @,
                     !.y = IF "n" \in sides THEN bottom - h ELSE @,
                     !.w = w, !.h = h]

-----------------------------------------------------------------------------
(***************************************************************************)
(* What the view shows                                                     *)
(***************************************************************************)

\* A mutant of zoomToFit: the width always decides.
FitWidth(box, padding, screen) ==
    LET w == box.w + 2 * padding
        viewH == (w * screen.h) \div screen.w
    IN  Box(2 * box.x + box.w - w, 2 * box.y + box.h - viewH, 2 * w, 2 * viewH)

\* The view that holds a box with some padding in the proportions of the
\* screen, with the box in its middle; coordinates doubled.
zoomToFit(box, padding, screen) ==
    LET w == box.w + 2 * padding
        h == box.h + 2 * padding
        wide == box.w * screen.h > screen.w * box.h
        viewW == IF wide THEN w ELSE (h * screen.w) \div screen.h
        viewH == IF wide THEN (w * screen.h) \div screen.w ELSE h
    IN  Box(2 * box.x + box.w - viewW, 2 * box.y + box.h - viewH, 2 * viewW, 2 * viewH)

\* The canvas is cut to the sizes allowed, the place size to its own.
resizeCanvas(size) == Max({CANVAS_MIN_SIZE, Min({CANVAS_MAX_SIZE, size})})
=============================================================================
