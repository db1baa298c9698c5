---------------------------- MODULE PlanSamples ----------------------------
(***************************************************************************)
(* The geometry of PlanGeometry and PlanArrange, held against definitions  *)
(* that say what the results should be.  A behaviour begins with a sample, *)
(* one question to the geometry, or with the view of Viewport and no       *)
(* sample; only the view moves on.                                         *)
(***************************************************************************)
EXTENDS Viewport, PlanArrange

CONSTANTS Side,        \* what can be clicked on lies in 0..Side
          Outlines,    \* sequences of points
          DeskRows,    \* sequences of desks
          Backgrounds  \* background transforms

ASSUME SamplesAssumption == Side \in Nat

\* The samples' numbers divide evenly wherever a property asks for equality, as
\* the code's do: the points a corner is pulled to are even, and an even width
\* has a whole height in the proportions of an upright background, and the other
\* way round.
ASSUME BackgroundsAssumption ==
    \A t \in Backgrounds :
        /\ t \in [x : Int, y : Int, w : Nat \ {0}, h : Nat \ {0}, rotation : Int]
        /\ t.x % 2 = 0 /\ t.y % 2 = 0 /\ t.w % 2 = 0 /\ t.h % 2 = 0
        /\ (2 * t.w) % t.h = 0 /\ (2 * t.h) % t.w = 0

\* A row has the desks 1, 2 and 3, and of two of them the middle between their
\* centres leaves a whole place for any third.
ASSUME RowsAssumption ==
    \A row \in DeskRows :
        /\ row \in [1..3 -> [id : 1..3, x : Int, y : Int, w : Nat, h : Nat, r : Int]]
        /\ \A i, j \in 1..3 :
              /\ row[i].id = i
              /\ \A axis \in {"x", "y"} :
                    (CentreOf(row[i], axis) - CentreOf(row[j], axis)) % 4 = 0

\* The corners of an outline are whole.
ASSUME OutlinesAssumption == \A pts \in Outlines : pts \in Seq([x : Int, y : Int])

VARIABLE sample
vars == <<sample, viewVars>>

NoSample == [kind |-> "none"]
Near == {At(x, y) : x, y \in -1..(Side + 1)}

\* What can be clicked on: a desk, an outline over its edge, a wall.
Scene == << [id |-> "wall", type |-> "wall", pts |-> <<At(0, Side), At(Side, 0)>>, closed |-> FALSE],
            [id |-> "desk", type |-> "desk", rect |-> Box(0, 0, 1, 1)],
            [id |-> "over", type |-> "desk", rect |-> Box(1, 0, 1, 2)],
            [id |-> "room", type |-> "boundary", closed |-> TRUE,
             pts |-> <<At(1, 1), At(Side, 1), At(Side, Side)>>] >>

\* Where a rubber band begins and ends, between and around the Neighbours.
BandEnds == {At(x, y) : x \in {-1, 0, 3, 4, 5, 9, 12}, y \in {-1, 0, 2, 3, 5, 8}}

Samples ==
    [kind : {"outline"}, pts : Outlines, type : {"boundary", "wall"}]
    \cup [kind : {"hit"}, p : Near, threshold : 0..1, locked : BOOLEAN,
          hidden : {{}, {"wall"}}]
    \cup [kind : {"marquee"}, start : BandEnds, current : BandEnds, append : BOOLEAN,
          selected : SUBSET {1, 2}]
    \cup [kind : {"draw"}, raw : {At(x, y) : x, y \in -2..(3 * Side)}, shift : BOOLEAN,
          alt : BOOLEAN, snapOn : BOOLEAN, drawn : {<< >>, <<At(2, 0)>>, <<At(5, 5), At(2, 0)>>}]
    \cup [kind : {"drag"}, dx : -3..3, dy : -3..3, w : {2, 4}, alt : BOOLEAN]
    \cup [kind : {"align"}, desks : DeskRows, ids : SUBSET {1, 2, 3},
          how : {"left", "hcenter", "right", "top", "vcenter", "bottom"}]
    \cup [kind : {"distribute"}, desks : DeskRows, ids : SUBSET {1, 2, 3}, how : {"x", "y"}]
    \cup [kind : {"resize"}, t : Backgrounds, corner : DOMAIN Corners,
          p : {At(2 * x, 2 * y) : x, y \in 0..6}, free : BOOLEAN]
    \cup [kind : {"scale"}, t : Backgrounds, num : {1, 2, 4}]
    \cup [kind : {"fit"}, box : {Box(1, 2, w, h) : w, h \in {2, 4, 8}}, padding : 0..2,
          screen : {[w |-> 2, h |-> 2], [w |-> 2, h |-> 4], [w |-> 4, h |-> 2]}]

Init ==
    \/ sample = NoSample /\ ViewInit
    \/ /\ sample \in Samples
       /\ content = Max(Contents) /\ vb = [x |-> 0, w |-> content]
       /\ zoom = Ratio(content) /\ pan = NoPan

Next == sample = NoSample /\ ViewNext /\ UNCHANGED sample
Spec == Init /\ [][Next]_vars
-----------------------------------------------------------------------------
(***************************************************************************)
(* References                                                              *)
(***************************************************************************)

Dot(d, p) == d.x * p.x + d.y * p.y
Less(p, q) == At(p.x - q.x, p.y - q.y)
Normal(d) == At(-d.y, d.x)

\* Two convex sets are apart when some direction separates them; for segments
\* the sides, their normals and the line between two ends are enough.
Apart(a, b, c, d) ==
    \E dir \in UNION {{v, Normal(v)} : v \in {Less(b, a), Less(d, c), Less(c, a)}} :
        \/ Max({Dot(dir, a), Dot(dir, b)}) < Min({Dot(dir, c), Dot(dir, d)})
        \/ Min({Dot(dir, a), Dot(dir, b)}) > Max({Dot(dir, c), Dot(dir, d)})

Turned(pts, k) == [i \in DOMAIN pts |-> pts[((i + k - 1) % Len(pts)) + 1]]

Clickable(locked, hidden) == buildLayoutForHitTest(Scene, locked, hidden)

DrawCorners == <<At(0, 0), At(4, 0)>>
DrawLines == <<[a |-> At(0, 0), b |-> At(4, 0)], [a |-> At(4, 0), b |-> At(4, 6)]>>
Tolerance == [vertex |-> 2, line |-> 1]
Drawn(s, shift) == resolveDrawPoint(s.raw, s.drawn, DrawCorners, DrawLines,
                                    [on |-> s.snapOn, size |-> 3], Tolerance, shift, s.alt).point
OnLine(p, line) == orientation(line.a, line.b, p) = 0 /\ onSegment(line.a, p, line.b)
OnLines == {p \in [x : -1..5, y : -1..7] : \E i \in DOMAIN DrawLines : OnLine(p, DrawLines[i])}
InReach(places, raw, tolerance) ==
    \E p \in places : Between2(raw, p) <= tolerance * tolerance
NearestPlace(places, raw, p) ==
    p \in places /\ \A q \in places : Between2(raw, p) <= Between2(raw, q)

\* Straight over or beside a point.
Straight(from, p) == {At(p.x, from.y), At(from.x, p.y)}

Neighbours == <<[id |-> 1, x |-> 0, y |-> 0, w |-> 4, h |-> 2, r |-> 0],
                [id |-> 2, x |-> 9, y |-> 5, w |-> 2, h |-> 2, r |-> 0]>>
DragAxes == collectDeskSnapAxes(Neighbours, {2}, <<At(7, 6)>>)
Dragged(s) == resolveObjectSnapDelta(s.dx, s.dy, Box(9, 5, s.w, 2), DragAxes, 2, s.alt)

\* How far a box is moved along an axis when asked for a distance: to where an edge
\* or its middle is on a target, the closest such distance that is at most 2 off.
Settles(from, size, targets, asked, moved) ==
    LET lined(d) == {from + d, from + d + size \div 2, from + d + size} \cap targets # {}
        near == {d \in (asked - 2)..(asked + 2) : lined(d)}
    IN  IF near = {} THEN moved = asked
        ELSE moved \in near /\ \A d \in near : Magnitude(moved - asked) <= Magnitude(d - asked)

Opposite == [nw |-> {"s", "e"}, ne |-> {"s", "w"}, sw |-> {"n", "e"}, se |-> {"n", "w"}]
CornerOf(t, sides) == At(IF "w" \in sides THEN t.x ELSE t.x + t.w,
                         IF "n" \in sides THEN t.y ELSE t.y + t.h)
-----------------------------------------------------------------------------
(***************************************************************************)
(* An outline is found to cross itself exactly when two sides that do not  *)
(* follow each other have a point in common, whatever way they lie:        *)
(* crossing, touching at an end, lying on one line, shrunk to a point      *)
(* (hasSelfIntersection); and the verdict on it does not depend on the     *)
(* corner it was begun at or the direction it was drawn in                 *)
(* (drawValidationIssue).                                                  *)
(***************************************************************************)
VerdictRight ==
    sample.kind = "outline" =>
        LET pts == sample.pts
            n == Len(pts)
            meet(i, j) == ~Apart(pts[i], pts[(i % n) + 1], pts[j], pts[(j % n) + 1])
        IN  /\ \A closed \in BOOLEAN :
                  hasSelfIntersection(pts, closed) <=>
                     \E i, j \in 1..(IF closed THEN n ELSE n - 1) :
                        /\ j - i >= 2 /\ (closed => j - i # n - 1)
                        /\ meet(i, j)
            /\ \A k \in DOMAIN pts :
                  LET same == Turned(pts, k) IN
                  /\ drawValidationIssue(sample.type, same) = drawValidationIssue(sample.type, pts)
                  /\ drawValidationIssue(sample.type, Reverse(same))
                       = drawValidationIssue(sample.type, pts)

(***************************************************************************)
(* A rubber band and a click agree on where a desk is: the band takes a    *)
(* desk exactly when some point inside it would hit that desk, keeps what  *)
(* was selected only with Shift, and takes nothing when it is so short     *)
(* both ways that it is a click (finishMarquee in useSelection.js against  *)
(* findObjectAtPoint in hitTest.js).                                       *)
(***************************************************************************)
BandTakesHit ==
    sample.kind = "marquee" =>
        LET s == sample
            after == finishMarquee(s.selected, s.start, s.current, s.append, Neighbours)
            band == marqueeRect(s.start, s.current)
            inside == {At(x, y) : x \in band.x..(band.x + band.w), y \in band.y..(band.y + band.h)}
            long == \/ Magnitude(s.start.x - s.current.x) >= MARQUEE_MIN_WORLD
                    \/ Magnitude(s.start.y - s.current.y) >= MARQUEE_MIN_WORLD
            under(p, d) == findObjectAtPoint(p, <<[id |-> "desk", type |-> "desk",
                                                   rect |-> Box(d.x, d.y, d.w, d.h)]>>, 0) # NoHit
        IN  \A i \in DOMAIN Neighbours :
                LET d == Neighbours[i] IN
                d.id \in after <=> \/ s.append /\ d.id \in s.selected
                                   \/ long /\ \E p \in inside : under(p, d)

(***************************************************************************)
(* A click picks the nearest of what can be clicked on, the first in the   *)
(* order of the scan among equals, and nothing exactly when nothing is     *)
(* within reach (findObjectAtPoint in hitTest.js).                         *)
(***************************************************************************)
NearestHit ==
    sample.kind = "hit" =>
        LET objects == Clickable(sample.locked, sample.hidden)
            hit == findObjectAtPoint(sample.p, objects, sample.threshold)
            dist(i) == objectDistance(sample.p, objects[i])
            reached == {i \in DOMAIN objects :
                           ~Nearer(Whole(sample.threshold * sample.threshold), dist(i))}
        IN  IF reached = {} THEN hit = NoHit
            ELSE \E i \in reached :
                    /\ hit.id = objects[i].id
                    /\ \A j \in reached : /\ ~Nearer(dist(j), dist(i))
                                          /\ j < i => Nearer(dist(i), dist(j))

(***************************************************************************)
(* "Priority: desks first (exact + threshold), then structures" (the       *)
(* comment of findObjectAtPoint, hitTest.js): a click with a desk in reach *)
(* picks a desk.                                                           *)
(***************************************************************************)
DesksFirst ==
    sample.kind = "hit" =>
        LET objects == Clickable(sample.locked, sample.hidden)
            desks == {i \in DOMAIN objects : objects[i].type = "desk"}
            reached == {i \in desks : ~Nearer(Whole(sample.threshold * sample.threshold),
                                              objectDistance(sample.p, objects[i]))}
        IN  reached # {} =>
                findObjectAtPoint(sample.p, objects, sample.threshold).id
                    \in {objects[i].id : i \in desks}

(***************************************************************************)
(* The next point of a drawing joins the nearest corner in reach, its own  *)
(* among them, whatever keys are held; else it lies on a line in reach, on *)
(* the point of the lines that is nearest; else on the grid, no further    *)
(* than half a cell away, or, without a grid or with Alt, where the        *)
(* pointer is.  Without a corner, Shift moves the place so found straight  *)
(* over or beside the last point, whichever is nearer.  A dragged box      *)
(* moves onto the closest of the lines of its neighbours in reach, never   *)
(* its own, along each axis, and follows the pointer when none is in reach *)
(* or Alt is held (resolveDrawPoint, resolveObjectSnapDelta).              *)
(***************************************************************************)
SnapNearest ==
    /\ sample.kind = "draw" =>
        LET raw == sample.raw
            point == Drawn(sample, sample.shift)
            corners == {DrawCorners[i] : i \in DOMAIN DrawCorners} \cup
                       {sample.drawn[i] : i \in 1..(Len(sample.drawn) - 1)}
            free == Drawn(sample, FALSE)
        IN  IF InReach(corners, raw, Tolerance.vertex) THEN NearestPlace(corners, raw, point)
            ELSE IF sample.shift /\ sample.drawn # << >>
            THEN NearestPlace(Straight(Last(sample.drawn), free), free, point)
            ELSE IF InReach(OnLines, raw, Tolerance.line) THEN NearestPlace(OnLines, raw, point)
            ELSE IF sample.snapOn /\ ~sample.alt
            THEN /\ point.x % 3 = 0 /\ point.y % 3 = 0
                 /\ Magnitude(point.x - raw.x) <= 1 /\ Magnitude(point.y - raw.y) <= 1
            ELSE point = raw
    /\ sample.kind = "drag" =>
        \A move \in Dragged(sample) :
            IF sample.alt THEN move.dx = sample.dx /\ move.dy = sample.dy
            ELSE /\ Settles(9, sample.w, {0, 2, 4, 7}, sample.dx, move.dx)
                 /\ Settles(5, 2, {0, 1, 2, 6}, sample.dy, move.dy)

(***************************************************************************)
(* Lining up keeps the selected desks inside the box they filled and moves *)
(* them along one axis only; distributing leaves the outermost two where   *)
(* they are, the rest in their order and evenly spaced; other desks stay   *)
(* (alignSelected, distributeSelected).                                    *)
(***************************************************************************)
Arranged ==
    /\ sample.kind = "align" =>
        LET after == alignSelected(sample.desks, sample.ids, sample.how)
            before == boundingBoxOf(sample.desks, sample.ids)
            box == boundingBoxOf(after, sample.ids)
        IN  /\ \A i \in DOMAIN after : sample.desks[i].id \notin sample.ids
                                          => after[i] = sample.desks[i]
            /\ sample.ids # {} =>
                 /\ box.x >= before.x /\ box.x + box.w <= before.x + before.w
                 /\ box.y >= before.y /\ box.y + box.h <= before.y + before.h
            /\ \A i \in DOMAIN after :
                 IF sample.how \in {"left", "hcenter", "right"}
                 THEN after[i].y = sample.desks[i].y ELSE after[i].x = sample.desks[i].x
    /\ sample.kind = "distribute" =>
        LET after == distributeSelected(sample.desks, sample.ids, sample.how)
            order == ByCentre(sample.desks, sample.ids, sample.how)
            at(i) == CentreOf(after[i], sample.how)
        IN  /\ \A i \in DOMAIN after :
                 i \notin {order[k] : k \in 2..(Len(order) - 1)} => after[i] = sample.desks[i]
            /\ Len(order) >= 3 =>
                 \A k \in 2..(Len(order) - 1) :
                    at(order[k + 1]) - at(order[k]) = at(order[k]) - at(order[k - 1])

(***************************************************************************)
(* Pulling a corner of an upright background leaves the opposite corner    *)
(* where it is, never makes a side shorter than the minimum and, unless    *)
(* Shift is held or the minimum stands in the way, keeps the proportions;  *)
(* scaling keeps the centre (resizedBackgroundTransform,                   *)
(* scaledBackgroundTransform).                                             *)
(***************************************************************************)
BackgroundAnchored ==
    /\ sample.kind = "resize" /\ sample.t.rotation = 0 =>
        LET after == resizedBackgroundTransform(sample.t, sample.corner, sample.p, sample.free) IN
        /\ CornerOf(after, Opposite[sample.corner]) = CornerOf(sample.t, Opposite[sample.corner])
        /\ after.w >= MIN_BACKGROUND_SIZE /\ after.h >= MIN_BACKGROUND_SIZE
        /\ sample.free \/ after.w * sample.t.h = after.h * sample.t.w
           \/ MIN_BACKGROUND_SIZE \in {after.w, after.h}
    /\ sample.kind = "scale" =>
        LET after == scaledBackgroundTransform(sample.t, sample.num, 2) IN
        /\ backgroundCenter(after) = backgroundCenter(sample.t)
        /\ after.w >= MIN_BACKGROUND_SIZE /\ after.h >= MIN_BACKGROUND_SIZE

(***************************************************************************)
(* To fit a box shows all of it, in the middle and in the proportions of   *)
(* the screen, with the padding along at least one axis (zoomToFit in      *)
(* useViewport.js).                                                        *)
(***************************************************************************)
FitShowsAll ==
    sample.kind = "fit" =>
        LET view == zoomToFit(sample.box, sample.padding, sample.screen)
            left == 2 * sample.box.x - view.x
            right == view.x + view.w - 2 * (sample.box.x + sample.box.w)
            above == 2 * sample.box.y - view.y
            below == view.y + view.h - 2 * (sample.box.y + sample.box.h)
        IN  /\ left = right /\ above = below /\ left >= 0 /\ above >= 0
            /\ 2 * sample.padding \in {left, above}
            /\ view.w * sample.screen.h = view.h * sample.screen.w
=============================================================================
