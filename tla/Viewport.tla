------------------------------ MODULE Viewport ------------------------------
(***************************************************************************)
(* The view of the canvas (useViewport.js): the part of the plan that the  *)
(* svg element shows, zoomed about the cursor and dragged by it.  One axis *)
(* stands for both.  Screen positions are 0..Screen; the factors of a zoom *)
(* step are 2 and 1/2, so that every coordinate is an integer.             *)
(***************************************************************************)
EXTENDS Integers

CONSTANTS Screen,      \* the width of the svg element, in pixels
          MAX_ZOOM,    \* how far the view may shrink below the content
          MIN_ZOOM,    \* how far it may grow beyond it (the code's 1 / 0.05)
          Contents,    \* the canvas widths that are used
          Boxes,       \* the views a zoom to fit may end in, [x, w]
          Reach        \* bound on the positions of the view, for checking

ASSUME ViewportAssumption ==
    /\ {Screen, MAX_ZOOM, MIN_ZOOM, Reach} \subseteq Nat \ {0}
    /\ Contents \subseteq Nat \ {0}
    /\ Boxes \subseteq [x : Int, w : Nat \ {0}]
    /\ \A size \in Contents \cup {box.w : box \in Boxes} : size % Screen = 0

VARIABLES vb,        \* the view, [x, w]
          zoom,      \* what the toolbar shows: content width over view width
          content,   \* the canvas width
          pan        \* the drag: the point of the plan it holds, the view then

viewVars == <<vb, zoom, content, pan>>

NoPan == [on |-> FALSE, startSvgPt |-> 0, startVb |-> [x |-> 0, w |-> 0]]
Pixels == 0..Screen
Ratio(w) == [content |-> content, view |-> w]

ViewInit ==
    /\ content \in Contents
    /\ vb = [x |-> 0, w |-> content]
    /\ zoom = Ratio(content)
    /\ pan = NoPan

\* The point of the plan under a pixel.
screenToSvg(view, pixel) == view.x + (pixel * view.w) \div Screen

worldUnitsForPx(px) == (px * vb.w) \div Screen

_applyVb(next) ==
    /\ next.x \in (-Reach)..Reach
    /\ vb' = next
    /\ zoom' = Ratio(next.w)

\* A step that would leave the limits is not taken at all.
WithinLimits(w) == /\ w * MAX_ZOOM >= content
                   /\ w <= content * MIN_ZOOM

\* A mutant of ZoomAbout: the view keeps its left edge.
ZoomFromEdge(p, nw) ==
    /\ WithinLimits(nw) /\ nw % Screen = 0
    /\ vb' = [vb EXCEPT !.w = nw]
    /\ zoom' = Ratio(nw)

\* The point p stays where it is on the screen.
ZoomAbout(p, nw) ==
    /\ WithinLimits(nw) /\ nw % Screen = 0
    /\ _applyVb([x |-> p - ((p - vb.x) * nw) \div vb.w, w |-> nw])

Steps == {2 * vb.w, vb.w \div 2}

\* The wheel zooms about the cursor, also in the middle of a drag; the buttons
\* of the toolbar about the centre.
zoomBy(pixel) ==
    /\ \E nw \in Steps : ZoomAbout(screenToSvg(vb, pixel), nw)
    /\ UNCHANGED <<content, pan>>

WheelPan(dx) ==
    /\ vb.x + (dx * vb.w) \div Screen \in (-Reach)..Reach
    /\ vb' = [vb EXCEPT !.x = @ + (dx * vb.w) \div Screen]
    /\ UNCHANGED <<zoom, content, pan>>

startPan(pixel) ==
    /\ pan = NoPan
    /\ pan' = [on |-> TRUE, startSvgPt |-> screenToSvg(vb, pixel), startVb |-> vb]
    /\ UNCHANGED <<vb, zoom, content>>

\* The cursor's place is computed in the view of now and added to the view of
\* then, whose width comes back too.
updatePan(pixel) ==
    /\ pan.on
    /\ LET dx == pan.startSvgPt - screenToSvg(vb, pixel) IN
       /\ pan.startVb.x + dx \in (-Reach)..Reach
       /\ vb' = [pan.startVb EXCEPT !.x = @ + dx]
    /\ UNCHANGED <<zoom, content, pan>>

endPan ==
    /\ pan.on
    /\ pan' = NoPan
    /\ UNCHANGED <<vb, zoom, content>>

\* To fit a box, or one pixel to a unit; the limits do not apply.
ZoomToFit(box) ==
    /\ _applyVb(box)
    /\ UNCHANGED <<content, pan>>

zoomTo100 == ZoomToFit([x |-> content \div 2 - Screen \div 2, w |-> Screen])

\* A click in the minimap.
panTo(x) ==
    /\ _applyVb([vb EXCEPT !.x = x - vb.w \div 2])
    /\ UNCHANGED <<content, pan>>

\* The canvas gets another size: the view and the label stay.
ContentResized ==
    /\ content' \in Contents \ {content}
    /\ UNCHANGED <<vb, zoom, pan>>

ViewNext ==
    \/ \E pixel \in Pixels : zoomBy(pixel) \/ startPan(pixel) \/ updatePan(pixel)
    \/ \E dx \in {-1, 1} : WheelPan(dx)
    \/ \E box \in Boxes : ZoomToFit(box)
    \/ \E x \in {0, content} : panTo(x)
    \/ endPan \/ zoomTo100 \/ ContentResized

ViewSpec == ViewInit /\ [][ViewNext]_viewVars
-----------------------------------------------------------------------------

(***************************************************************************)
(* A step of the wheel leaves the point under the cursor where it is,      *)
(* whatever pixel that is and however far the view was moved before        *)
(* (zoomBy and onWheel, useViewport.js).                                   *)
(***************************************************************************)
ZoomKeepsCursor ==
    [][\A pixel \in Pixels :
          zoomBy(pixel) => screenToSvg(vb', pixel) = screenToSvg(vb, pixel)]_viewVars

=============================================================================
