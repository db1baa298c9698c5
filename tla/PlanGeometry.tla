---------------------------- MODULE PlanGeometry ----------------------------
(***************************************************************************)
(* The geometry of the plan: what a click hits, where a point or an object *)
(* snaps to, which outlines are accepted, how selected objects are lined   *)
(* up and how the traced background is fitted (hitTest.js, useGrid.js and  *)
(* the helpers of CanvasEditor.jsx).                                       *)
(*                                                                         *)
(* Coordinates are integers.  A distance is kept as its square, a fraction *)
(* [n, d], as the code only compares distances; a background is turned by  *)
(* multiples of a right angle, for which sine and cosine are integers.     *)
(***************************************************************************)
EXTENDS Integers, Sequences, SequencesExt

CONSTANTS MIN_BOUNDARY_AREA,    \* of an outline or zone
          MIN_BACKGROUND_SIZE,  \* of either side of the background
          MARQUEE_MIN_WORLD     \* of a side of a rubber band, or it is a click

ASSUME GeometryAssumption ==
    /\ MIN_BOUNDARY_AREA \in Nat
    /\ MIN_BACKGROUND_SIZE \in Nat \ {0}
    /\ MARQUEE_MIN_WORLD \in Nat

Magnitude(n) == IF n < 0 THEN -n ELSE n
At(x, y) == [x |-> x, y |-> y]
Box(x, y, w, h) == [x |-> x, y |-> y, w |-> w, h |-> h]

\* Math.round(v / step) * step: halves are rounded up.
RoundTo(v, step) == ((2 * v + step) \div (2 * step)) * step

\* The members of S, each after those before it.
InOrder(S, before(_, _)) ==
    [k \in 1..Cardinality(S) |->
        CHOOSE i \in S : Cardinality({j \in S : before(j, i)}) = k - 1]

-----------------------------------------------------------------------------
(***************************************************************************)
(* Lines and outlines                                                      *)
(***************************************************************************)

orientation(a, b, c) == (b.y - a.y) * (c.x - b.x) - (b.x - a.x) * (c.y - b.y)

\* b is on the line through a and c: is it between them?
onSegment(a, b, c) ==
    /\ Min({a.x, c.x}) <= b.x /\ b.x <= Max({a.x, c.x})
    /\ Min({a.y, c.y}) <= b.y /\ b.y <= Max({a.y, c.y})

segmentsIntersect(a, b, c, d) ==
    LET o1 == orientation(a, b, c)
        o2 == orientation(a, b, d)
        o3 == orientation(c, d, a)
        o4 == orientation(c, d, b)
    IN  \/ (o1 > 0) # (o2 > 0) /\ (o3 > 0) # (o4 > 0)
        \/ o1 = 0 /\ onSegment(a, c, b)
        \/ o2 = 0 /\ onSegment(a, d, b)
        \/ o3 = 0 /\ onSegment(c, a, d)
        \/ o4 = 0 /\ onSegment(c, b, d)

segmentsFromPoints(points, closed) ==
    IF Len(points) < 2 THEN << >>
    ELSE [i \in 1..(IF closed THEN Len(points) ELSE Len(points) - 1) |->
             [a |-> points[i], b |-> points[(i % Len(points)) + 1]]]

\* A mutant of hasSelfIntersection: the closing side is not looked at.
SelfIntersectionOpen(points, closed) ==
    LET sides == segmentsFromPoints(points, FALSE) IN
    \E i, j \in DOMAIN sides :
        /\ i + 1 < j
        /\ segmentsIntersect(sides[i].a, sides[i].b, sides[j].a, sides[j].b)

hasSelfIntersection(points, closed) ==
    LET sides == segmentsFromPoints(points, closed) IN
    \E i, j \in DOMAIN sides :
        /\ i + 1 < j
        /\ ~(closed /\ i = 1 /\ j = Len(sides))
        /\ segmentsIntersect(sides[i].a, sides[i].b, sides[j].a, sides[j].b)

\* Twice the area.
polygonArea(points) ==
    IF Len(points) < 3 THEN 0
    ELSE LET next(i) == points[(i % Len(points)) + 1] IN
         Magnitude(FoldLeftDomain(
             LAMBDA sum, i : sum + points[i].x * next(i).y - next(i).x * points[i].y,
             0, points))

drawValidationIssue(type, points) ==
    CASE type \notin {"boundary", "zone"} -> "none"
      [] type \in {"boundary", "zone"} /\ Len(points) < 3 -> "info"
      [] OTHER -> IF polygonArea(points) < 2 * MIN_BOUNDARY_AREA THEN "warning"
                  ELSE IF hasSelfIntersection(points, TRUE) THEN "error" ELSE "ok"

-----------------------------------------------------------------------------
(***************************************************************************)
(* Hits                                                                    *)
(***************************************************************************)

Whole(n) == [n |-> n, d |-> 1]
Nearer(f, g) == f.n * g.d < g.n * f.d
Between2(p, q) == (q.x - p.x) * (q.x - p.x) + (q.y - p.y) * (q.y - p.y)

\* The squares of the distances.
rectPointDistance(p, r) ==
    LET dx == Max({r.x - p.x, p.x - (r.x + r.w), 0})
        dy == Max({r.y - p.y, p.y - (r.y + r.h), 0})
    IN  Whole(dx * dx + dy * dy)

pointSegmentDistance(p, a, b) ==
    LET den == Between2(a, b)
        along == (p.x - a.x) * (b.x - a.x) + (p.y - a.y) * (b.y - a.y)
        across == orientation(a, b, p)
    IN  IF den = 0 \/ along <= 0 THEN Whole(Between2(p, a))
        ELSE IF along >= den THEN Whole(Between2(p, b))
        ELSE [n |-> across * across, d |-> den]

\* A structure is hit at its stroke, an outline's closing side included.
strokeDistance(p, pts, closed) ==
    LET sides == segmentsFromPoints(pts, closed)
        d(i) == pointSegmentDistance(p, sides[i].a, sides[i].b)
    IN  d(CHOOSE i \in DOMAIN sides :
              \A j \in DOMAIN sides : ~Nearer(d(j), d(i)))

objectDistance(p, object) ==
    IF object.type = "desk" THEN rectPointDistance(p, object.rect)
    ELSE strokeDistance(p, object.pts, object.closed)

\* What can be hit: desks, and the structures of visible layers unless they are
\* locked, in the order of the scan.
ScanOrder == [desk |-> 1, boundary |-> 2, wall |-> 3, partition |-> 4, door |-> 5]

buildLayoutForHitTest(objects, structureLocked, hidden) ==
    LET hittable == {i \in DOMAIN objects :
            \/ objects[i].type = "desk"
            \/ /\ ~(structureLocked \/ objects[i].type \in hidden)
               /\ Len(objects[i].pts) >= 2}
        before(i, j) == \/ ScanOrder[objects[i].type] < ScanOrder[objects[j].type]
                        \/ objects[i].type = objects[j].type /\ i < j
        order == InOrder(hittable, before)
    IN  [k \in DOMAIN order |-> objects[order[k]]]

NoHit == [id |-> "none", dist |-> Whole(0)]

\* A mutant of findObjectAtPoint: a later object replaces an equally near one.
LastAtPoint(p, objects, threshold) ==
    FoldLeft(LAMBDA best, object :
        LET dist == objectDistance(p, object) IN
        IF /\ ~Nearer(Whole(threshold * threshold), dist)
           /\ best = NoHit \/ ~Nearer(best.dist, dist)
        THEN [id |-> object.id, dist |-> dist] ELSE best, NoHit, objects)

findObjectAtPoint(p, objects, threshold) ==
    FoldLeft(LAMBDA best, object :
        LET dist == objectDistance(p, object) IN
        IF /\ ~Nearer(Whole(threshold * threshold), dist)
           /\ best = NoHit \/ Nearer(dist, best.dist)
        THEN [id |-> object.id, dist |-> dist] ELSE best, NoHit, objects)

\* The rubber band between two points.
marqueeRect(start, current) ==
    LET left == Min({start.x, current.x})
        top == Min({start.y, current.y})
    IN  Box(left, top, Max({start.x, current.x}) - left, Max({start.y, current.y}) - top)

\* A mutant of finishMarquee: only what lies wholly inside is taken.
MarqueeInside(selected, start, current, append, desks) ==
    LET band == marqueeRect(start, current)
        isClick == band.w < MARQUEE_MIN_WORLD /\ band.h < MARQUEE_MIN_WORLD
        hit == {i \in DOMAIN desks : /\ desks[i].x >= band.x
                                     /\ desks[i].x + desks[i].w <= band.x + band.w
                                     /\ desks[i].y >= band.y
                                     /\ desks[i].y + desks[i].h <= band.y + band.h}
    IN  (IF append THEN selected ELSE {}) \cup (IF isClick THEN {} ELSE {desks[i].id : i \in hit})

\* What a rubber band, or a click next to everything, leaves selected.
finishMarquee(selected, start, current, append, desks) ==
    LET band == marqueeRect(start, current)
        isClick == band.w < MARQUEE_MIN_WORLD /\ band.h < MARQUEE_MIN_WORLD
        hit == {i \in DOMAIN desks : ~( \/ desks[i].x > band.x + band.w
                                        \/ desks[i].x + desks[i].w < band.x
                                        \/ desks[i].y > band.y + band.h
                                        \/ desks[i].y + desks[i].h < band.y)}
    IN  (IF append THEN selected ELSE {}) \cup (IF isClick THEN {} ELSE {desks[i].id : i \in hit})

-----------------------------------------------------------------------------
(***************************************************************************)
(* Snaps                                                                   *)
(***************************************************************************)

\* Alt leaves a coordinate alone.
snap(v, grid, alt) == IF alt \/ ~grid.on THEN v ELSE RoundTo(v, grid.size)
snapPoint(p, grid, alt) == At(snap(p.x, grid, alt), snap(p.y, grid, alt))

orthogonalPoint(from, p) ==
    IF Magnitude(p.x - from.x) >= Magnitude(p.y - from.y)
    THEN At(p.x, from.y) ELSE At(from.x, p.y)

\* Exact for a segment along an axis, the only ones the samples hold.
closestPointOnSegment(p, a, b) ==
    LET along == (p.x - a.x) * (b.x - a.x) + (p.y - a.y) * (b.y - a.y)
        den == Between2(a, b)
        t == Max({0, Min({den, along})})
    IN  IF den = 0 THEN a
        ELSE At(a.x + ((b.x - a.x) * t) \div den, a.y + ((b.y - a.y) * t) \div den)

NearestTo(p, points) ==
    points[CHOOSE i \in DOMAIN points :
               /\ \A j \in DOMAIN points : Between2(p, points[i]) <= Between2(p, points[j])
               /\ \A j \in 1..(i - 1) : Between2(p, points[i]) < Between2(p, points[j])]

WithinReach(p, points, tolerance) ==
    \E i \in DOMAIN points : Between2(p, points[i]) <= tolerance * tolerance

\* A mutant of resolveDrawPoint: the lines are looked at before the corners.
LinesFirst(raw, drawn, corners, lines, grid, tolerance, shift, alt) ==
    LET own == SubSeq(drawn, 1, Len(drawn) - 1)
        onLines == [i \in DOMAIN lines |-> closestPointOnSegment(raw, lines[i].a, lines[i].b)]
        straight(p) == IF shift /\ drawn # << >> THEN orthogonalPoint(Last(drawn), p) ELSE p
    IN  IF WithinReach(raw, onLines, tolerance.line)
        THEN [point |-> straight(NearestTo(raw, onLines)), kind |-> "line"]
        ELSE IF WithinReach(raw, own \o corners, tolerance.vertex)
        THEN [point |-> NearestTo(raw, own \o corners), kind |-> "vertex"]
        ELSE [point |-> straight(snapPoint(raw, grid, alt)), kind |-> "none"]

\* The next point of a drawing: a corner in reach, else the nearest place on a
\* line in reach, else the grid; Shift keeps the last two straight.
resolveDrawPoint(raw, drawn, corners, lines, grid, tolerance, shift, alt) ==
    LET own == SubSeq(drawn, 1, Len(drawn) - 1)
        onLines == [i \in DOMAIN lines |-> closestPointOnSegment(raw, lines[i].a, lines[i].b)]
        straight(p) == IF shift /\ drawn # << >> THEN orthogonalPoint(Last(drawn), p) ELSE p
    IN  IF WithinReach(raw, own \o corners, tolerance.vertex)
        THEN [point |-> NearestTo(raw, own \o corners), kind |-> "vertex"]
        ELSE IF WithinReach(raw, onLines, tolerance.line)
        THEN [point |-> straight(NearestTo(raw, onLines)), kind |-> "line"]
        ELSE [point |-> straight(snapPoint(raw, grid, alt)), kind |-> "none"]

collectDeskSnapAxes(desks, excluded, corners) ==
    LET others == {i \in DOMAIN desks : desks[i].id \notin excluded}
    IN  [x |-> (UNION {{desks[i].x, desks[i].x + desks[i].w \div 2, desks[i].x + desks[i].w}
                       : i \in others}) \cup {corners[i].x : i \in DOMAIN corners},
         y |-> (UNION {{desks[i].y, desks[i].y + desks[i].h \div 2, desks[i].y + desks[i].h}
                       : i \in others}) \cup {corners[i].y : i \in DOMAIN corners}]

\* The moves that put a value on a target within the tolerance; of the smallest,
\* either direction may come first.
Snaps(values, targets, tolerance) ==
    {diff \in {t - v : t \in targets, v \in values} : Magnitude(diff) <= tolerance}

bestAxisSnap(values, targets, tolerance) ==
    LET diffs == Snaps(values, targets, tolerance) IN
    IF diffs = {} THEN {0}
    ELSE {diff \in diffs : \A other \in diffs : Magnitude(diff) <= Magnitude(other)}

\* The moves a drag by (dx, dy) of the box may end in.
resolveObjectSnapDelta(dx, dy, bbox, axes, tolerance, alt) ==
    IF alt THEN {[dx |-> dx, dy |-> dy]}
    ELSE [dx : {dx + sx : sx \in bestAxisSnap({bbox.x + dx, bbox.x + bbox.w \div 2 + dx,
                                               bbox.x + bbox.w + dx}, axes.x, tolerance)},
          dy : {dy + sy : sy \in bestAxisSnap({bbox.y + dy, bbox.y + bbox.h \div 2 + dy,
                                               bbox.y + bbox.h + dy}, axes.y, tolerance)}]
=============================================================================
