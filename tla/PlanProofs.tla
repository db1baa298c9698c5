----------------------------- MODULE PlanProofs -----------------------------
(***************************************************************************)
(* Proofs about the geometry of the plan and the view of the canvas, for   *)
(* every screen, every size of a canvas and every limit of the zoom, and   *)
(* for scenes, rows of desks and points of any kind.                       *)
(***************************************************************************)
EXTENDS PlanSamples, TLAPS, WellFoundedInduction, FiniteSetTheorems

-----------------------------------------------------------------------------
(***************************************************************************)
(* Whole numbers                                                           *)
(***************************************************************************)

\* A multiple of s, divided by s.
LEMMA DivExact ==
    ASSUME NEW a \in Int, NEW s \in Nat \ {0}
    PROVE  (a * s) \div s = a
<1>1. PICK q : q = (a * s) \div s
  OBVIOUS
<1>2. q \in Int
  BY <1>1
<1>3. PICK r : r = (a * s) % s
  OBVIOUS
<1>4. r \in Int /\ 0 <= r /\ r < s /\ a * s = s * q + r
  BY <1>1, <1>3
<1>5. PICK d \in Int : d = a - q
  BY <1>2
<1>6. r = d * s
  BY <1>2, <1>4, <1>5
<1>7. d <= 0
  <2>1. SUFFICES ASSUME d >= 1 PROVE FALSE
    BY <1>5
  <2>2. d * s >= s
    BY <2>1
  <2>. QED
    BY <1>4, <1>6, <2>2
<1>8. d >= 0
  <2>1. SUFFICES ASSUME d <= -1 PROVE FALSE
    BY <1>5
  <2>2. d * s <= -s
    BY <2>1
  <2>. QED
    BY <1>4, <1>6, <2>2
<1>. QED
  BY <1>1, <1>2, <1>5, <1>7, <1>8

\* A number is its quotient, times s, and its rest.
LEMMA DivMod ==
    ASSUME NEW n \in Int, NEW s \in Nat \ {0}
    PROVE  \E q, r \in Int : /\ q = n \div s /\ r = n % s
                             /\ n = q * s + r /\ 0 <= r /\ r < s
<1>1. PICK q : q = n \div s
  OBVIOUS
<1>2. PICK r : r = n % s
  OBVIOUS
<1>3. q \in Int /\ r \in Int /\ 0 <= r /\ r < s /\ n = s * q + r
  BY <1>1, <1>2
<1>4. n = q * s + r
  BY <1>3
<1>. QED
  BY <1>1, <1>2, <1>3, <1>4

\* What divides without a rest is a multiple.
LEMMA MultipleOf ==
    ASSUME NEW n \in Int, NEW s \in Nat \ {0}, n % s = 0
    PROVE  \E a \in Int : n = a * s
<1>1. PICK q, r \in Int : q = n \div s /\ r = n % s /\ n = q * s + r
  BY DivMod
<1>2. r = 0
  BY <1>1
<1>3. n = q * s
  BY <1>1, <1>2
<1>. QED
  BY <1>3

\* A multiple divides without a rest.
LEMMA MultipleMod ==
    ASSUME NEW a \in Int, NEW s \in Nat \ {0}
    PROVE  (a * s) % s = 0
<1>1. PICK m \in Int : m = a * s
  OBVIOUS
<1>2. PICK q, r \in Int : q = m \div s /\ r = m % s /\ m = q * s + r
  BY DivMod
<1>3. q = a
  BY <1>1, <1>2, DivExact
<1>4. r = 0
  BY <1>1, <1>2, <1>3
<1>. QED
  BY <1>1, <1>2, <1>4

-----------------------------------------------------------------------------
(***************************************************************************)
(* The view: it is so many pixels wide, each of so many units              *)
(***************************************************************************)

Views == [x : Int, w : Nat \ {0}]
WholePixels(w) == w \in Nat \ {0} /\ w % Screen = 0

ViewInvariant ==
    sample = NoSample =>
        /\ content \in Contents
        /\ vb \in Views /\ WholePixels(vb.w)
        /\ pan.on \in BOOLEAN
        /\ pan.on => pan.startVb \in Views /\ WholePixels(pan.startVb.w)
                     /\ pan.startSvgPt \in Int

\* The canvas and the views it is fitted to are so many pixels wide too.
LEMMA WidthsWhole ==
    ASSUME NEW size \in Contents \cup {box.w : box \in Boxes}
    PROVE  WholePixels(size)
<1>1. size \in Nat \ {0}
  BY ViewportAssumption
<1>2. size % Screen = 0
  BY ViewportAssumption
<1>. QED
  BY <1>1, <1>2 DEF WholePixels

\* A screen is so many pixels wide, one unit each.
LEMMA ScreenWhole == Screen \in Nat \ {0} /\ WholePixels(Screen)
<1>1. Screen \in Nat \ {0}
  BY ViewportAssumption
<1>2. (1 * Screen) % Screen = 0
  BY <1>1, MultipleMod
<1>3. 1 * Screen = Screen
  BY <1>1
<1>. QED
  BY <1>1, <1>2, <1>3 DEF WholePixels

\* The point of the plan under a pixel is a whole number of units from the edge.
LEMMA PixelAt ==
    ASSUME NEW view \in Views, WholePixels(view.w), NEW pixel \in Pixels
    PROVE  /\ screenToSvg(view, pixel) \in Int
           /\ \E a \in Int : view.w = a * Screen /\ screenToSvg(view, pixel) = view.x + pixel * a
<1>1. Screen \in Nat \ {0} /\ view.x \in Int /\ view.w \in Int /\ pixel \in Int
  BY ScreenWhole DEF Views, Pixels
<1>2. PICK a \in Int : view.w = a * Screen
  BY <1>1, MultipleOf DEF WholePixels
<1>3. pixel * view.w = (pixel * a) * Screen
  BY <1>1, <1>2
<1>4. (pixel * view.w) \div Screen = pixel * a
  <2>1. pixel * a \in Int
    BY <1>1
  <2>. QED
    BY <1>1, <1>3, <2>1, DivExact
<1>. QED
  BY <1>1, <1>2, <1>4 DEF screenToSvg

\* Zooming about the point under a pixel.
LEMMA ZoomAboutPixel ==
    ASSUME NEW pixel \in Pixels, NEW nw \in Int, vb \in Views, WholePixels(vb.w),
           ZoomAbout(screenToSvg(vb, pixel), nw)
    PROVE  /\ vb' \in [x : Int, w : Int] /\ vb'.w = nw
           /\ screenToSvg(vb', pixel) = screenToSvg(vb, pixel)
<1>1. Screen \in Nat \ {0} /\ vb.x \in Int /\ vb.w \in Nat \ {0} /\ pixel \in Int
  BY ScreenWhole DEF Views, Pixels
<1>2. PICK a \in Int : vb.w = a * Screen /\ screenToSvg(vb, pixel) = vb.x + pixel * a
  BY PixelAt
<1>3. PICK p \in Int : p = screenToSvg(vb, pixel)
  BY PixelAt
<1>4. nw % Screen = 0 /\ vb' = [x |-> p - ((p - vb.x) * nw) \div vb.w, w |-> nw]
  BY <1>3 DEF ZoomAbout, _applyVb
<1>5. PICK b \in Int : nw = b * Screen
  BY <1>1, <1>4, MultipleOf
<1>6. p - vb.x = pixel * a
  BY <1>1, <1>2, <1>3
<1>7. (p - vb.x) * nw = (pixel * b) * vb.w
  <2>1. (p - vb.x) * nw = (pixel * a) * (b * Screen)
    BY <1>5, <1>6
  <2>2. (pixel * a) * (b * Screen) = (pixel * b) * (a * Screen)
    BY <1>1
  <2>. QED
    BY <1>2, <2>1, <2>2
<1>8. ((p - vb.x) * nw) \div vb.w = pixel * b
  <2>1. pixel * b \in Int
    BY <1>1
  <2>. QED
    BY <1>1, <1>7, <2>1, DivExact
<1>9. vb' = [x |-> p - pixel * b, w |-> nw]
  BY <1>4, <1>8
<1>10. (pixel * nw) \div Screen = pixel * b
  <2>1. pixel * b \in Int /\ pixel * nw = (pixel * b) * Screen
    BY <1>1, <1>5
  <2>. QED
    BY <1>1, <2>1, DivExact
<1>11. screenToSvg(vb', pixel) = (p - pixel * b) + pixel * b
  BY <1>9, <1>10 DEF screenToSvg
<1>12. pixel * b \in Int /\ (p - pixel * b) + pixel * b = p
  BY <1>1
<1>. QED
  BY <1>3, <1>9, <1>11, <1>12

\* A zoom step leaves a view of whole pixels.
LEMMA ZoomWhole ==
    ASSUME NEW pixel \in Pixels, ViewInvariant, sample = NoSample, zoomBy(pixel)
    PROVE  /\ vb' \in Views /\ WholePixels(vb'.w)
           /\ screenToSvg(vb', pixel) = screenToSvg(vb, pixel)
<1>1. vb \in Views /\ WholePixels(vb.w) /\ content \in Contents
  BY DEF ViewInvariant
<1>2. PICK nw \in Steps : ZoomAbout(screenToSvg(vb, pixel), nw)
  BY DEF zoomBy
<1>3. nw \in Int
  BY <1>1, <1>2 DEF Steps, Views
<1>4. /\ vb' \in [x : Int, w : Int] /\ vb'.w = nw
      /\ screenToSvg(vb', pixel) = screenToSvg(vb, pixel)
  BY <1>1, <1>2, <1>3, ZoomAboutPixel
<1>5. nw * MAX_ZOOM >= content /\ nw % Screen = 0
  BY <1>2 DEF ZoomAbout, WithinLimits
<1>6. content \in Nat \ {0} /\ MAX_ZOOM \in Nat \ {0}
  BY <1>1, ViewportAssumption
<1>7. nw > 0
  <2>1. SUFFICES ASSUME nw <= 0 PROVE FALSE
    BY <1>3
  <2>2. nw * MAX_ZOOM <= 0
    BY <1>3, <1>6, <2>1
  <2>. QED
    BY <1>3, <1>5, <1>6, <2>2
<1>8. vb' \in Views
  BY <1>3, <1>4, <1>7 DEF Views
<1>9. WholePixels(vb'.w)
  BY <1>3, <1>4, <1>5, <1>7 DEF WholePixels
<1>. QED
  BY <1>4, <1>8, <1>9

\* The first view is that of a canvas.
LEMMA ViewStarts == Init => ViewInvariant
<1>1. SUFFICES ASSUME Init, sample = NoSample PROVE ViewInvariant
  BY DEF ViewInvariant
<1>2. \A s \in Samples : s.kind # "none"
  BY DEF Samples
<1>3. NoSample \notin Samples
  BY <1>2 DEF NoSample
<1>4. content \in Contents /\ vb = [x |-> 0, w |-> content] /\ pan = NoPan
  BY <1>1, <1>3 DEF Init, ViewInit
<1>5. WholePixels(content) /\ content \in Nat \ {0}
  BY <1>4, WidthsWhole DEF WholePixels
<1>6. vb \in Views /\ vb.w = content
  BY <1>4, <1>5 DEF Views
<1>7. pan.on = FALSE
  BY <1>4 DEF NoPan
<1>. QED
  BY <1>4, <1>5, <1>6, <1>7 DEF ViewInvariant

\* Every operation leaves a view of whole pixels.
LEMMA ViewStep == ViewInvariant /\ [Next]_vars => ViewInvariant'
<1>1. SUFFICES ASSUME ViewInvariant, [Next]_vars, sample' = NoSample PROVE ViewInvariant'
  BY DEF ViewInvariant
<1>2. CASE UNCHANGED vars
  BY <1>1, <1>2 DEF vars, viewVars, ViewInvariant, WholePixels
<1>3. CASE Next
  <2>1. /\ sample = NoSample /\ ViewNext
    BY <1>3 DEF Next
  <2>2. /\ content \in Contents /\ vb \in Views /\ WholePixels(vb.w) /\ pan.on \in BOOLEAN
        /\ pan.on => pan.startVb \in Views /\ WholePixels(pan.startVb.w) /\ pan.startSvgPt \in Int
    BY <1>1, <2>1 DEF ViewInvariant
  <2>3. content \in Nat \ {0} /\ Screen \in Nat \ {0} /\ vb.x \in Int /\ vb.w \in Nat \ {0}
    BY <2>2, ViewportAssumption DEF Views
  \* It is enough to look at the view, unless the drag or the canvas changes.
  <2>4. ASSUME vb' \in Views, WholePixels(vb'.w), UNCHANGED <<content, pan>>
        PROVE  ViewInvariant'
    BY <2>2, <2>4 DEF ViewInvariant, WholePixels
  <2>5. ASSUME NEW pixel \in Pixels, zoomBy(pixel) PROVE ViewInvariant'
    <3>1. vb' \in Views /\ WholePixels(vb'.w)
      BY <1>1, <2>1, <2>5, ZoomWhole
    <3>2. UNCHANGED <<content, pan>>
      BY <2>5 DEF zoomBy
    <3>. QED
      BY <2>4, <3>1, <3>2
  <2>6. ASSUME NEW pixel \in Pixels, startPan(pixel) PROVE ViewInvariant'
    <3>1. screenToSvg(vb, pixel) \in Int
      BY <2>2, PixelAt
    <3>2. /\ pan' = [on |-> TRUE, startSvgPt |-> screenToSvg(vb, pixel), startVb |-> vb]
          /\ vb' = vb /\ content' = content
      BY <2>6 DEF startPan
    <3>3. pan'.on = TRUE /\ pan'.startVb = vb /\ pan'.startSvgPt \in Int
      BY <3>1, <3>2
    <3>. QED
      BY <2>2, <3>2, <3>3 DEF ViewInvariant, WholePixels
  <2>7. ASSUME NEW pixel \in Pixels, updatePan(pixel) PROVE ViewInvariant'
    <3>1. pan.startVb \in Views /\ WholePixels(pan.startVb.w) /\ pan.startSvgPt \in Int
      BY <2>2, <2>7 DEF updatePan
    <3>2. screenToSvg(vb, pixel) \in Int
      BY <2>2, PixelAt
    <3>3. PICK dx \in Int : dx = pan.startSvgPt - screenToSvg(vb, pixel)
      BY <3>1, <3>2
    <3>4. vb' = [pan.startVb EXCEPT !.x = @ + dx] /\ UNCHANGED <<content, pan>>
      BY <2>7, <3>3 DEF updatePan
    <3>5. vb' \in Views /\ vb'.w = pan.startVb.w
      BY <3>1, <3>3, <3>4 DEF Views
    <3>. QED
      BY <2>4, <3>1, <3>4, <3>5
  <2>8. ASSUME NEW dx \in {-1, 1}, WheelPan(dx) PROVE ViewInvariant'
    <3>1. PICK step \in Int : step = (dx * vb.w) \div Screen
      BY <2>3
    <3>2. vb' = [vb EXCEPT !.x = @ + step] /\ UNCHANGED <<content, pan>>
      BY <2>8, <3>1 DEF WheelPan
    <3>3. vb' \in Views /\ vb'.w = vb.w
      BY <2>2, <3>1, <3>2 DEF Views
    <3>. QED
      BY <2>2, <2>4, <3>2, <3>3
  <2>9. ASSUME NEW box \in Views, WholePixels(box.w), ZoomToFit(box) PROVE ViewInvariant'
    BY <2>4, <2>9 DEF ZoomToFit, _applyVb
  <2>10. ASSUME NEW box \in Boxes, ZoomToFit(box) PROVE ViewInvariant'
    <3>1. box \in Views
      BY ViewportAssumption DEF Views
    <3>2. WholePixels(box.w)
      BY WidthsWhole
    <3>. QED
      BY <2>9, <2>10, <3>1, <3>2
  <2>11. ASSUME NEW x \in {0, content}, panTo(x) PROVE ViewInvariant'
    <3>1. PICK left \in Int : left = x - vb.w \div 2
      BY <2>3
    <3>2. vb' = [vb EXCEPT !.x = left] /\ UNCHANGED <<content, pan>>
      BY <2>11, <3>1 DEF panTo, _applyVb
    <3>3. vb' \in Views /\ vb'.w = vb.w
      BY <2>2, <3>1, <3>2 DEF Views
    <3>. QED
      BY <2>2, <2>4, <3>2, <3>3
  <2>12. CASE endPan
    <3>1. pan'.on = FALSE /\ vb' = vb /\ content' = content
      BY <2>12 DEF endPan, NoPan
    <3>. QED
      BY <2>2, <3>1 DEF ViewInvariant, WholePixels
  <2>13. CASE zoomTo100
    <3>1. PICK left \in Int : left = content \div 2 - Screen \div 2
      BY <2>3
    <3>2. ZoomToFit([x |-> left, w |-> Screen])
      BY <2>13, <3>1 DEF zoomTo100
    <3>3. [x |-> left, w |-> Screen] \in Views
      BY <2>3 DEF Views
    <3>. QED
      BY <2>9, <3>2, <3>3, ScreenWhole
  <2>14. CASE ContentResized
    BY <2>2, <2>14 DEF ContentResized, ViewInvariant, WholePixels
  <2>. QED
    BY <2>1, <2>5, <2>6, <2>7, <2>8, <2>10, <2>11, <2>12, <2>13, <2>14 DEF ViewNext
<1>. QED
  BY <1>1, <1>2, <1>3

\* The view is always so many whole pixels wide, also the one a drag began in
\* and brings back (useViewport.js).
THEOREM ViewsAlwaysWhole == Spec => []ViewInvariant
<1>. QED
  BY ViewStarts, ViewStep, PTL DEF Spec

\* A step of the wheel or of a zoom button keeps the point of the plan it zooms
\* about under its pixel, on a screen of any width and for any limits
\* (zoomBy and onWheel, useViewport.js).
THEOREM CursorAlwaysKept == Spec => ZoomKeepsCursor
<1>1. ASSUME ViewInvariant, [Next]_vars
      PROVE  [\A pixel \in Pixels :
                 zoomBy(pixel) => screenToSvg(vb', pixel) = screenToSvg(vb, pixel)]_viewVars
  <2>1. CASE UNCHANGED vars
    BY <2>1 DEF vars
  <2>2. CASE Next
    <3>1. sample = NoSample
      BY <2>2 DEF Next
    <3>2. ASSUME NEW pixel \in Pixels, zoomBy(pixel)
          PROVE  screenToSvg(vb', pixel) = screenToSvg(vb, pixel)
      BY <1>1, <3>1, <3>2, ZoomWhole
    <3>. QED
      BY <3>2
  <2>. QED
    BY <1>1, <2>1, <2>2
<1>. QED
  BY <1>1, ViewsAlwaysWhole, PTL DEF Spec, ZoomKeepsCursor

-----------------------------------------------------------------------------
(***************************************************************************)
(* Least and greatest                                                      *)
(***************************************************************************)

\* A number that is in the set and above the others is its greatest.
LEMMA MaxIs ==
    ASSUME NEW S \in SUBSET Int, NEW m \in S, \A n \in S : m >= n
    PROVE  Max(S) = m
<1>1. PICK k : k = Max(S)
  OBVIOUS
<1>2. k \in S /\ \A n \in S : k >= n
  BY <1>1 DEF Max
<1>. QED
  BY <1>1, <1>2

\* A number that is in the set and below the others is its least.
LEMMA MinIs ==
    ASSUME NEW S \in SUBSET Int, NEW m \in S, \A n \in S : m <= n
    PROVE  Min(S) = m
<1>1. PICK k : k = Min(S)
  OBVIOUS
<1>2. k \in S /\ \A n \in S : k <= n
  BY <1>1 DEF Min
<1>. QED
  BY <1>1, <1>2

\* The greater of two numbers.
LEMMA MaxOfTwo ==
    ASSUME NEW a \in Int, NEW b \in Int
    PROVE  Max({a, b}) = IF a >= b THEN a ELSE b
<1>1. CASE a >= b
  <2>1. a \in {a, b} /\ \A n \in {a, b} : a >= n
    BY <1>1
  <2>2. Max({a, b}) = a
    BY <2>1, MaxIs
  <2>. QED
    BY <1>1, <2>2
<1>2. CASE ~(a >= b)
  <2>1. b \in {a, b} /\ \A n \in {a, b} : b >= n
    BY <1>2
  <2>2. Max({a, b}) = b
    BY <2>1, MaxIs
  <2>. QED
    BY <1>2, <2>2
<1>. QED
  BY <1>1, <1>2

\* The lesser of two numbers.
LEMMA MinOfTwo ==
    ASSUME NEW a \in Int, NEW b \in Int
    PROVE  Min({a, b}) = IF a <= b THEN a ELSE b
<1>1. CASE a <= b
  <2>1. a \in {a, b} /\ \A n \in {a, b} : a <= n
    BY <1>1
  <2>2. Min({a, b}) = a
    BY <2>1, MinIs
  <2>. QED
    BY <1>1, <2>2
<1>2. CASE ~(a <= b)
  <2>1. b \in {a, b} /\ \A n \in {a, b} : b <= n
    BY <1>2
  <2>2. Min({a, b}) = b
    BY <2>1, MinIs
  <2>. QED
    BY <1>2, <2>2
<1>. QED
  BY <1>1, <1>2

\* The greatest of two numbers and nothing.
LEMMA MaxOrNone ==
    ASSUME NEW a \in Int, NEW b \in Int
    PROVE  /\ Max({a, b, 0}) \in Nat
           /\ Max({a, b, 0}) = 0 <=> a <= 0 /\ b <= 0
<1>. DEFINE S == {a, b, 0}
<1>1. \E m \in S : \A n \in S : m >= n
  <2>1. CASE a >= b /\ a >= 0
    BY <2>1
  <2>2. CASE b >= a /\ b >= 0
    BY <2>2
  <2>3. CASE a <= 0 /\ b <= 0
    BY <2>3
  <2>. QED
    BY <2>1, <2>2, <2>3
<1>2. PICK m \in S : \A n \in S : m >= n
  BY <1>1
<1>3. S \in SUBSET Int /\ m \in Int /\ m >= 0 /\ m >= a /\ m >= b /\ m \in {a, b, 0}
  BY <1>2
<1>4. Max(S) = m
  BY <1>2, <1>3, MaxIs
<1>. QED
  BY <1>3, <1>4

\* No square is negative.
LEMMA SquareNat ==
    ASSUME NEW n \in Int
    PROVE  n * n \in Nat /\ (n * n = 0 <=> n = 0)
<1>1. CASE n > 0
  BY <1>1
<1>2. CASE n = 0
  BY <1>2
<1>3. CASE n < 0
  BY <1>3
<1>. QED
  BY <1>1, <1>2, <1>3

-----------------------------------------------------------------------------
(***************************************************************************)
(* Distances: fractions, compared across                                   *)
(***************************************************************************)

Points == [x : Int, y : Int]
Fractions == [n : Nat, d : Nat \ {0}]

\* A product keeps the order.
LEMMA TimesKeeps ==
    ASSUME NEW a \in Int, NEW b \in Int, NEW c \in Nat, a <= b
    PROVE  a * c <= b * c
<1>1. PICK e \in Nat : e = b - a
  OBVIOUS
<1>2. e * c >= 0
  OBVIOUS
<1>3. b * c = a * c + e * c
  BY <1>1
<1>4. a * c \in Int /\ e * c \in Int
  OBVIOUS
<1>. QED
  BY <1>2, <1>3, <1>4

\* What is in order after a product was in order before.
LEMMA TimesCancels ==
    ASSUME NEW a \in Int, NEW b \in Int, NEW c \in Nat \ {0}, a * c <= b * c
    PROVE  a <= b
<1>1. SUFFICES ASSUME b + 1 <= a PROVE FALSE
  OBVIOUS
<1>2. (b + 1) * c <= a * c
  BY <1>1, TimesKeeps
<1>3. (b + 1) * c = b * c + c
  OBVIOUS
<1>4. b * c \in Int /\ a * c \in Int
  OBVIOUS
<1>. QED
  BY <1>2, <1>3, <1>4

\* Not further is transitive.
LEMMA NotNearerTrans ==
    ASSUME NEW f \in Fractions, NEW g \in Fractions, NEW h \in Fractions,
           ~Nearer(g, f), ~Nearer(h, g)
    PROVE  ~Nearer(h, f)
<1>1. PICK a \in Nat, b \in Nat \ {0} : a = f.n /\ b = f.d
  BY DEF Fractions
<1>2. PICK c \in Nat, d \in Nat \ {0} : c = g.n /\ d = g.d
  BY DEF Fractions
<1>3. PICK m \in Nat, k \in Nat \ {0} : m = h.n /\ k = h.d
  BY DEF Fractions
<1>4. a * d <= c * b /\ c * k <= m * d
  BY <1>1, <1>2, <1>3 DEF Nearer
<1>5. (a * d) * k <= (c * b) * k
  <2>1. a * d \in Int /\ c * b \in Int
    OBVIOUS
  <2>. QED
    BY <1>4, <2>1, TimesKeeps
<1>6. (c * k) * b <= (m * d) * b
  <2>1. c * k \in Int /\ m * d \in Int
    OBVIOUS
  <2>. QED
    BY <1>4, <2>1, TimesKeeps
<1>7. (c * b) * k = (c * k) * b /\ (a * d) * k = (a * k) * d /\ (m * d) * b = (m * b) * d
  OBVIOUS
<1>8. (a * k) * d <= (m * b) * d
  <2>1. (a * k) * d \in Int /\ (c * k) * b \in Int /\ (m * b) * d \in Int
    OBVIOUS
  <2>. QED
    BY <1>5, <1>6, <1>7, <2>1
<1>9. a * k <= m * b
  <2>1. a * k \in Int /\ m * b \in Int
    OBVIOUS
  <2>. QED
    BY <1>8, <2>1, TimesCancels
<1>. QED
  BY <1>1, <1>3, <1>9 DEF Nearer

\* Of two fractions not both are nearer.
LEMMA NearerOneWay ==
    ASSUME NEW f \in Fractions, NEW g \in Fractions, Nearer(f, g)
    PROVE  ~Nearer(g, f)
<1>1. PICK a \in Nat, b \in Nat \ {0} : a = f.n /\ b = f.d
  BY DEF Fractions
<1>2. PICK c \in Nat, d \in Nat \ {0} : c = g.n /\ d = g.d
  BY DEF Fractions
<1>3. a * d < c * b /\ a * d \in Int /\ c * b \in Int
  BY <1>1, <1>2 DEF Nearer
<1>. QED
  BY <1>1, <1>2, <1>3 DEF Nearer

\* Nearer than the nearest is nearer than all.
LEMMA NearerThanAll ==
    ASSUME NEW f \in Fractions, NEW g \in Fractions, NEW h \in Fractions,
           Nearer(f, g), ~Nearer(h, g)
    PROVE  Nearer(f, h)
<1>1. SUFFICES ASSUME ~Nearer(f, h) PROVE FALSE
  OBVIOUS
<1>2. ~Nearer(f, g)
  BY <1>1, NotNearerTrans
<1>. QED
  BY <1>2

-----------------------------------------------------------------------------
(***************************************************************************)
(* The scan of what can be hit                                             *)
(***************************************************************************)

\* What the scan does with the next object.
BetterOf(best, object, p, threshold) ==
    LET dist == objectDistance(p, object) IN
    IF /\ ~Nearer(Whole(threshold * threshold), dist)
       /\ best = NoHit \/ Nearer(dist, best.dist)
    THEN [id |-> object.id, dist |-> dist] ELSE best

Scans(f, p, objects, threshold, S) ==
    f = [s \in SUBSET S |->
            IF s = {} THEN NoHit
            ELSE BetterOf(f[s \ {Max(s)}], objects[Max(s)], p, threshold)]

\* The scan is a fold over the numbers of the objects.
LEMMA ScanFolds ==
    ASSUME NEW p, NEW objects, NEW threshold
    PROVE  findObjectAtPoint(p, objects, threshold)
             = (CHOOSE f : Scans(f, p, objects, threshold, DOMAIN objects))[DOMAIN objects]
BY DEF findObjectAtPoint, FoldLeft, MapThenFoldSet, Scans, BetterOf

\* A set of numbers has a least one.
LEMMA LeastNumber ==
    ASSUME NEW T \in SUBSET Nat, T # {}
    PROVE  \E m \in T : \A n \in T : m <= n
<1>. DEFINE R == OpToRel(<, Nat)
<1>1. IsWellFoundedOn(R, Nat)
  BY NatLessThanWellFounded
<1>2. \A x, y \in Nat : y < x => <<y, x>> \in R
  BY DEF OpToRel
<1>. HIDE DEF R
<1>3. PICK m \in T : \A y \in T : ~ (<<y, m>> \in R)
  BY <1>1, WFMin
<1>4. \A n \in T : n \in Nat /\ m \in Nat /\ ~(n < m)
  BY <1>2, <1>3
<1>5. \A n \in T : m <= n
  BY <1>4
<1>. QED
  BY <1>5

Scannable(p, objects, threshold, n) == \E f : Scans(f, p, objects, threshold, 1..n)

\* A scan of one more.
LEMMA OneMoreScanned ==
    ASSUME NEW p, NEW objects, NEW threshold, NEW n \in Nat,
           Scannable(p, objects, threshold, n)
    PROVE  Scannable(p, objects, threshold, n + 1)
<1>1. PICK f : Scans(f, p, objects, threshold, 1..n)
  BY DEF Scannable
<1>2. PICK N : N = n + 1
  OBVIOUS
<1>3. N \in Int /\ N \notin 1..n /\ 1..N = (1..n) \cup {N} /\ \A i \in 1..n : i < N
  BY <1>2
<1>4. PICK g : g = [s \in SUBSET (1..N) |->
                       IF N \in s THEN BetterOf(f[s \ {N}], objects[N], p, threshold) ELSE f[s]]
  OBVIOUS
<1>5. ASSUME NEW s \in SUBSET (1..N)
      PROVE  g[s] = IF s = {} THEN NoHit
                    ELSE BetterOf(g[s \ {Max(s)}], objects[Max(s)], p, threshold)
  <2>1. CASE N \in s
    <3>1. Max(s) = N
      <4>1. s \in SUBSET Int /\ \A m \in s : N >= m
        BY <1>2, <1>3
      <4>. QED
        BY <2>1, <4>1, MaxIs
    <3>2. s \ {N} \in SUBSET (1..N) /\ N \notin s \ {N}
      OBVIOUS
    <3>3. g[s \ {N}] = f[s \ {N}]
      BY <1>4, <3>2
    <3>4. g[s] = BetterOf(f[s \ {N}], objects[N], p, threshold)
      BY <1>4, <2>1
    <3>. QED
      BY <2>1, <3>1, <3>3, <3>4
  <2>2. CASE N \notin s
    <3>1. s \in SUBSET (1..n)
      BY <1>3, <2>2
    <3>2. g[s] = f[s]
      BY <1>4, <2>2
    <3>3. f[s] = IF s = {} THEN NoHit
                 ELSE BetterOf(f[s \ {Max(s)}], objects[Max(s)], p, threshold)
      BY <1>1, <3>1 DEF Scans
    <3>4. PICK m : m = Max(s)
      OBVIOUS
    <3>5. g[s \ {m}] = f[s \ {m}]
      <4>1. s \ {m} \in SUBSET (1..N) /\ N \notin s \ {m}
        BY <2>2
      <4>. QED
        BY <1>4, <4>1
    <3>. QED
      BY <3>2, <3>3, <3>4, <3>5
  <2>. QED
    BY <2>1, <2>2
<1>6. Scans(g, p, objects, threshold, 1..N)
  <2>1. DOMAIN g = SUBSET (1..N) /\ g = [s \in DOMAIN g |-> g[s]]
    BY <1>4
  <2>. QED
    BY <1>5, <2>1 DEF Scans
<1>. QED
  BY <1>2, <1>6 DEF Scannable

\* So many objects can be scanned: there is no least number that cannot.
LEMMA AllScanned ==
    ASSUME NEW p, NEW objects, NEW threshold, NEW n \in Nat
    PROVE  Scannable(p, objects, threshold, n)
<1>. DEFINE T == {k \in Nat : ~Scannable(p, objects, threshold, k)}
<1>1. SUFFICES ASSUME T # {} PROVE FALSE
  OBVIOUS
<1>2. PICK m \in T : \A k \in T : m <= k
  <2>1. T \in SUBSET Nat
    OBVIOUS
  <2>. HIDE DEF T
  <2>. QED
    BY <1>1, <2>1, LeastNumber
<1>3. m # 0
  <2>1. PICK f : f = [s \in SUBSET (1..0) |-> NoHit]
    OBVIOUS
  <2>2. 1..0 = {}
    OBVIOUS
  <2>3. f = [s \in SUBSET {} |->
                IF s = {} THEN NoHit
                ELSE BetterOf(f[s \ {Max(s)}], objects[Max(s)], p, threshold)]
    BY <2>1, <2>2
  <2>4. Scans(f, p, objects, threshold, 1..0)
    BY <2>2, <2>3 DEF Scans
  <2>. QED
    BY <1>2, <2>4 DEF Scannable
<1>4. m - 1 \in Nat /\ (m - 1) + 1 = m /\ ~(m <= m - 1)
  BY <1>2, <1>3
<1>5. Scannable(p, objects, threshold, m - 1)
  BY <1>2, <1>4
<1>6. Scannable(p, objects, threshold, m)
  BY <1>4, <1>5, OneMoreScanned
<1>. QED
  BY <1>2, <1>6

Reached(p, objects, threshold, k) ==
    {i \in 1..k : ~Nearer(Whole(threshold * threshold), objectDistance(p, objects[i]))}

\* The nearest, the first among equals, and nothing if nothing is in reach.
NearestOf(best, p, objects, threshold, k) ==
    LET reached == Reached(p, objects, threshold, k)
        dist(i) == objectDistance(p, objects[i])
    IN  IF reached = {} THEN best = NoHit
        ELSE \E i \in reached :
                /\ best = [id |-> objects[i].id, dist |-> dist(i)]
                /\ \A j \in reached : /\ ~Nearer(dist(j), dist(i))
                                      /\ j < i => Nearer(dist(i), dist(j))

\* One more object makes the nearest of them all.
LEMMA NearestOfOneMore ==
    ASSUME NEW p, NEW objects, NEW threshold, NEW k \in Nat, NEW best,
           NearestOf(best, p, objects, threshold, k),
           \A i \in 1..(k + 1) : objectDistance(p, objects[i]) \in Fractions /\ objects[i].id # "none"
    PROVE  NearestOf(BetterOf(best, objects[k + 1], p, threshold), p, objects, threshold, k + 1)
<1>1. PICK K : K = k + 1
  OBVIOUS
<1>2. K \in Nat /\ 1..K = (1..k) \cup {K} /\ K \notin 1..k /\ \A i \in 1..k : i < K /\ ~(K < i)
  BY <1>1
<1>3. PICK D : D = [i \in 1..K |-> objectDistance(p, objects[i])]
  OBVIOUS
<1>4. PICK t : t = Whole(threshold * threshold)
  OBVIOUS
<1>5. /\ \A i \in 1..K : D[i] \in Fractions /\ objects[i].id # "none"
      /\ \A i \in 1..K : D[i] = objectDistance(p, objects[i])
  BY <1>1, <1>3
<1>6. PICK R : R = {i \in 1..k : ~Nearer(t, D[i])}
  OBVIOUS
<1>7. Reached(p, objects, threshold, k) = R
  BY <1>2, <1>4, <1>5, <1>6 DEF Reached
<1>8. Reached(p, objects, threshold, K) = IF Nearer(t, D[K]) THEN R ELSE R \cup {K}
  <2>1. Reached(p, objects, threshold, K) = {i \in 1..K : ~Nearer(t, D[i])}
    BY <1>4, <1>5 DEF Reached
  <2>. QED
    BY <1>2, <1>6, <2>1
<1>9. IF R = {} THEN best = NoHit
      ELSE \E i \in R : /\ best = [id |-> objects[i].id, dist |-> D[i]]
                        /\ \A j \in R : ~Nearer(D[j], D[i]) /\ (j < i => Nearer(D[i], D[j]))
  BY <1>2, <1>5, <1>6, <1>7 DEF NearestOf
<1>10. PICK now : now = BetterOf(best, objects[K], p, threshold)
  OBVIOUS
<1>11. now = IF ~Nearer(t, D[K]) /\ (best = NoHit \/ Nearer(D[K], best.dist))
             THEN [id |-> objects[K].id, dist |-> D[K]] ELSE best
  BY <1>2, <1>4, <1>5, <1>10 DEF BetterOf
<1>12. ASSUME NEW Q, Q = Reached(p, objects, threshold, K),
              IF Q = {} THEN now = NoHit
              ELSE \E i \in Q : /\ now = [id |-> objects[i].id, dist |-> D[i]]
                                /\ \A j \in Q : ~Nearer(D[j], D[i]) /\ (j < i => Nearer(D[i], D[j]))
       PROVE  NearestOf(now, p, objects, threshold, K)
  <2>1. Q \subseteq 1..K
    BY <1>12 DEF Reached
  <2>. QED
    BY <1>5, <1>12, <2>1 DEF NearestOf
<1>13. CASE Nearer(t, D[K])
  BY <1>1, <1>8, <1>9, <1>10, <1>11, <1>12, <1>13
<1>14. CASE ~Nearer(t, D[K]) /\ R = {}
  <2>1. now = [id |-> objects[K].id, dist |-> D[K]]
    BY <1>9, <1>11, <1>14
  <2>2. Reached(p, objects, threshold, K) = {K} /\ ~(K < K)
    BY <1>2, <1>8, <1>14
  <2>3. ~Nearer(D[K], D[K])
    BY <1>2, <1>5, NearerOneWay
  <2>4. /\ K \in {K} /\ {K} # {}
        /\ \A j \in {K} : ~Nearer(D[j], D[K]) /\ (j < K => Nearer(D[K], D[j]))
    BY <2>2, <2>3
  <2>5. NearestOf(now, p, objects, threshold, K)
    BY <1>12, <2>1, <2>2, <2>4
  <2>. QED
    BY <1>1, <1>10, <2>5
<1>15. CASE ~Nearer(t, D[K]) /\ R # {}
  <2>1. PICK i \in R : /\ best = [id |-> objects[i].id, dist |-> D[i]]
                       /\ \A j \in R : ~Nearer(D[j], D[i]) /\ (j < i => Nearer(D[i], D[j]))
    BY <1>9, <1>15
  <2>2. best # NoHit /\ best.dist = D[i] /\ i \in 1..k
    <3>1. i \in 1..K /\ i \in 1..k
      BY <1>2, <1>6, <2>1
    <3>2. objects[i].id # "none"
      BY <1>5, <3>1
    <3>3. best.id = objects[i].id /\ NoHit.id = "none" /\ best.dist = D[i]
      BY <2>1 DEF NoHit
    <3>. QED
      BY <3>1, <3>2, <3>3
  <2>3. PICK Q : Q = R \cup {K}
    OBVIOUS
  <2>4. Q = Reached(p, objects, threshold, K) /\ Q # {} /\ Q \subseteq 1..K
    BY <1>2, <1>6, <1>8, <1>15, <2>3
  <2>5. CASE Nearer(D[K], D[i])
    <3>1. now = [id |-> objects[K].id, dist |-> D[K]]
      BY <1>11, <1>15, <2>2, <2>5
    <3>2. ASSUME NEW j \in Q
          PROVE  ~Nearer(D[j], D[K]) /\ (j < K => Nearer(D[K], D[j]))
      <4>1. CASE j = K
        BY <1>2, <1>5, <4>1, NearerOneWay
      <4>2. CASE j \in R
        <5>1. j \in 1..K /\ i \in 1..K /\ K \in 1..K
          BY <1>2, <1>6, <2>2, <4>2
        <5>2. ~Nearer(D[j], D[i])
          BY <2>1, <4>2
        <5>3. D[j] \in Fractions /\ D[i] \in Fractions /\ D[K] \in Fractions
          BY <1>5, <5>1
        <5>4. Nearer(D[K], D[j])
          BY <2>5, <5>2, <5>3, NearerThanAll
        <5>5. ~Nearer(D[j], D[K])
          BY <5>3, <5>4, NearerOneWay
        <5>. QED
          BY <5>4, <5>5
      <4>. QED
        BY <2>3, <4>1, <4>2
    <3>3. K \in Q
      BY <2>3
    <3>4. NearestOf(now, p, objects, threshold, K)
      BY <1>12, <2>4, <3>1, <3>2, <3>3
    <3>. QED
      BY <1>1, <1>10, <3>4
  <2>6. CASE ~Nearer(D[K], D[i])
    <3>1. now = [id |-> objects[i].id, dist |-> D[i]]
      BY <1>11, <2>1, <2>2, <2>6
    <3>2. ASSUME NEW j \in Q
          PROVE  ~Nearer(D[j], D[i]) /\ (j < i => Nearer(D[i], D[j]))
      <4>1. CASE j = K
        BY <1>2, <2>2, <2>6, <4>1
      <4>2. CASE j \in R
        BY <2>1, <4>2
      <4>. QED
        BY <2>3, <4>1, <4>2
    <3>3. i \in Q
      BY <2>1, <2>3
    <3>4. NearestOf(now, p, objects, threshold, K)
      BY <1>12, <2>4, <3>1, <3>2, <3>3
    <3>. QED
      BY <1>1, <1>10, <3>4
  <2>. QED
    BY <2>5, <2>6
<1>. QED
  BY <1>13, <1>14, <1>15

\* The scan ends with the nearest.
LEMMA ScanNearest ==
    ASSUME NEW p, NEW objects, NEW threshold, NEW n \in Nat, DOMAIN objects = 1..n,
           \A i \in 1..n : objectDistance(p, objects[i]) \in Fractions /\ objects[i].id # "none"
    PROVE  NearestOf(findObjectAtPoint(p, objects, threshold), p, objects, threshold, n)
<1>1. PICK f : /\ Scans(f, p, objects, threshold, 1..n)
               /\ findObjectAtPoint(p, objects, threshold) = f[1..n]
  <2>1. \E f : Scans(f, p, objects, threshold, 1..n)
    BY AllScanned DEF Scannable
  <2>2. PICK f : f = (CHOOSE g : Scans(g, p, objects, threshold, 1..n))
    OBVIOUS
  <2>3. Scans(f, p, objects, threshold, 1..n)
    BY <2>1, <2>2
  <2>4. findObjectAtPoint(p, objects, threshold) = f[1..n]
    BY <2>2, ScanFolds
  <2>. QED
    BY <2>3, <2>4
<1>2. \A s \in SUBSET (1..n) :
         f[s] = IF s = {} THEN NoHit
                ELSE BetterOf(f[s \ {Max(s)}], objects[Max(s)], p, threshold)
  BY <1>1 DEF Scans
<1>3. f[1..0] = NoHit
  <2>1. 1..0 = {} /\ {} \in SUBSET (1..n)
    OBVIOUS
  <2>. QED
    BY <1>2, <2>1
<1>4. ASSUME NEW k \in Nat, k + 1 <= n
      PROVE  f[1..(k + 1)] = BetterOf(f[1..k], objects[k + 1], p, threshold)
  <2>1. PICK K : K = k + 1
    OBVIOUS
  <2>2. /\ 1..K \in SUBSET (1..n) /\ 1..K # {} /\ (1..K) \ {K} = 1..k
        /\ K \in 1..K /\ 1..K \in SUBSET Int /\ \A i \in 1..K : K >= i
    BY <1>4, <2>1
  <2>3. Max(1..K) = K
    BY <2>2, MaxIs
  <2>. QED
    BY <1>2, <2>1, <2>2, <2>3
<1>. DEFINE T == {k \in Nat : k <= n /\ ~NearestOf(f[1..k], p, objects, threshold, k)}
<1>5. T = {}
  <2>1. SUFFICES ASSUME T # {} PROVE FALSE
    OBVIOUS
  <2>2. PICK m \in T : \A k \in T : m <= k
    <3>1. T \in SUBSET Nat
      OBVIOUS
    <3>. HIDE DEF T
    <3>. QED
      BY <2>1, <3>1, LeastNumber
  <2>3. m # 0
    <3>1. Reached(p, objects, threshold, 0) = {}
      BY DEF Reached
    <3>2. NearestOf(f[1..0], p, objects, threshold, 0)
      BY <1>3, <3>1 DEF NearestOf
    <3>. QED
      BY <2>2, <3>2
  <2>4. PICK k : k = m - 1
    OBVIOUS
  <2>5. k \in Nat /\ k + 1 = m /\ ~(m <= k) /\ k <= n /\ k + 1 <= n
    BY <2>2, <2>3, <2>4
  <2>6. NearestOf(f[1..k], p, objects, threshold, k)
    BY <2>2, <2>5
  <2>7. \A i \in 1..(k + 1) : i \in 1..n
    BY <2>5
  <2>8. \A i \in 1..(k + 1) : objectDistance(p, objects[i]) \in Fractions /\ objects[i].id # "none"
    BY <2>7
  <2>9. PICK b : b = f[1..k]
    OBVIOUS
  <2>10. NearestOf(BetterOf(b, objects[k + 1], p, threshold), p, objects, threshold, k + 1)
    BY <2>5, <2>6, <2>8, <2>9, NearestOfOneMore
  <2>11. f[1..(k + 1)] = BetterOf(b, objects[k + 1], p, threshold)
    BY <1>4, <2>5, <2>9
  <2>12. NearestOf(f[1..m], p, objects, threshold, m)
    BY <2>5, <2>10, <2>11
  <2>. QED
    BY <2>2, <2>12
<1>6. NearestOf(f[1..n], p, objects, threshold, n)
  BY <1>5
<1>. QED
  BY <1>1, <1>6

-----------------------------------------------------------------------------
(***************************************************************************)
(* What can be hit, and where                                              *)
(***************************************************************************)

Frames == [x : Int, y : Int, w : Int, h : Int]

\* An object with a rectangle, or with corners, two at least.
Hittable(object) ==
    /\ object.id # "none"
    /\ IF object.type = "desk" THEN object.rect \in Frames
       ELSE object.pts \in Seq(Points) /\ Len(object.pts) >= 2 /\ object.closed \in BOOLEAN

\* A distance to a rectangle is nothing exactly inside it.
LEMMA RectDistance ==
    ASSUME NEW p \in Points, NEW r \in Frames
    PROVE  /\ rectPointDistance(p, r) \in Fractions
           /\ rectPointDistance(p, r).d = 1
           /\ rectPointDistance(p, r).n = 0
                <=> p.x >= r.x /\ p.x <= r.x + r.w /\ p.y >= r.y /\ p.y <= r.y + r.h
<1>1. /\ r.x - p.x \in Int /\ p.x - (r.x + r.w) \in Int
      /\ r.y - p.y \in Int /\ p.y - (r.y + r.h) \in Int
  BY DEF Points, Frames
<1>2. PICK dx : dx = Max({r.x - p.x, p.x - (r.x + r.w), 0})
  OBVIOUS
<1>3. PICK dy : dy = Max({r.y - p.y, p.y - (r.y + r.h), 0})
  OBVIOUS
<1>4. dx \in Nat /\ (dx = 0 <=> r.x - p.x <= 0 /\ p.x - (r.x + r.w) <= 0)
  BY <1>1, <1>2, MaxOrNone
<1>5. dy \in Nat /\ (dy = 0 <=> r.y - p.y <= 0 /\ p.y - (r.y + r.h) <= 0)
  BY <1>1, <1>3, MaxOrNone
<1>6. rectPointDistance(p, r) = [n |-> dx * dx + dy * dy, d |-> 1]
  BY <1>2, <1>3 DEF rectPointDistance, Whole
<1>7. /\ dx * dx \in Nat /\ (dx * dx = 0 <=> dx = 0)
      /\ dy * dy \in Nat /\ (dy * dy = 0 <=> dy = 0)
  BY <1>4, <1>5, SquareNat
<1>8. PICK a \in Nat, b \in Nat : a = dx * dx /\ b = dy * dy
  BY <1>7
<1>9. a + b \in Nat /\ (a + b = 0 <=> dx = 0 /\ dy = 0)
  BY <1>7, <1>8
<1>10. rectPointDistance(p, r) = [n |-> a + b, d |-> 1]
  BY <1>6, <1>8
<1>11. /\ r.x - p.x <= 0 <=> p.x >= r.x
       /\ p.x - (r.x + r.w) <= 0 <=> p.x <= r.x + r.w
       /\ r.y - p.y <= 0 <=> p.y >= r.y
       /\ p.y - (r.y + r.h) <= 0 <=> p.y <= r.y + r.h
  BY DEF Points, Frames
<1>. QED
  BY <1>4, <1>5, <1>9, <1>10, <1>11 DEF Fractions

\* The square of a distance between two points.
LEMMA BetweenNat ==
    ASSUME NEW p \in Points, NEW q \in Points
    PROVE  Between2(p, q) \in Nat
<1>1. PICK a \in Int, b \in Int : a = q.x - p.x /\ b = q.y - p.y
  BY DEF Points
<1>2. a * a \in Nat /\ b * b \in Nat
  BY SquareNat
<1>3. Between2(p, q) = a * a + b * b
  BY <1>1 DEF Between2
<1>. QED
  BY <1>2, <1>3

\* A distance to a segment.
LEMMA SegmentDistance ==
    ASSUME NEW p \in Points, NEW a \in Points, NEW b \in Points
    PROVE  pointSegmentDistance(p, a, b) \in Fractions
<1>1. PICK den \in Nat : den = Between2(a, b)
  BY BetweenNat
<1>2. PICK along : along = (p.x - a.x) * (b.x - a.x) + (p.y - a.y) * (b.y - a.y)
  OBVIOUS
<1>3. PICK across \in Int : across = orientation(a, b, p)
  <2>1. orientation(a, b, p) \in Int
    BY DEF orientation, Points
  <2>. QED
    BY <2>1
<1>4. pointSegmentDistance(p, a, b)
        = IF den = 0 \/ along <= 0 THEN [n |-> Between2(p, a), d |-> 1]
          ELSE IF along >= den THEN [n |-> Between2(p, b), d |-> 1]
          ELSE [n |-> across * across, d |-> den]
  BY <1>1, <1>2, <1>3 DEF pointSegmentDistance, Whole
<1>5. PICK u \in Nat, v \in Nat, w \in Nat :
          u = Between2(p, a) /\ v = Between2(p, b) /\ w = across * across
  BY BetweenNat, SquareNat
<1>6. pointSegmentDistance(p, a, b) \in
        {[n |-> u, d |-> 1], [n |-> v, d |-> 1]} \cup (IF den = 0 THEN {} ELSE {[n |-> w, d |-> den]})
  BY <1>4, <1>5
<1>. QED
  BY <1>1, <1>5, <1>6 DEF Fractions

\* The sides of an outline join its corners.
LEMMA SidesOf ==
    ASSUME NEW pts \in Seq(Points), Len(pts) >= 2, NEW closed \in BOOLEAN
    PROVE  \E n \in Nat \ {0} :
              /\ DOMAIN segmentsFromPoints(pts, closed) = 1..n
              /\ \A i \in 1..n : /\ segmentsFromPoints(pts, closed)[i].a \in Points
                                 /\ segmentsFromPoints(pts, closed)[i].b \in Points
<1>1. PICK m \in Nat \ {0, 1} : m = Len(pts)
  <2>1. Len(pts) \in Nat
    OBVIOUS
  <2>. QED
    BY <2>1
<1>2. PICK n \in Nat \ {0} : n = IF closed THEN m ELSE m - 1
  BY <1>1
<1>3. segmentsFromPoints(pts, closed) = [i \in 1..n |-> [a |-> pts[i], b |-> pts[(i % m) + 1]]]
  BY <1>1, <1>2 DEF segmentsFromPoints
<1>4. ASSUME NEW i \in 1..n PROVE pts[i] \in Points /\ pts[(i % m) + 1] \in Points
  <2>1. PICK r \in Int : r = i % m /\ 0 <= r /\ r < m
    <3>1. i \in Int /\ m \in Nat \ {0}
      OBVIOUS
    <3>2. PICK q, r \in Int : r = i % m /\ 0 <= r /\ r < m
      BY <3>1, DivMod
    <3>. QED
      BY <3>2
  <2>2. i \in 1..m /\ r + 1 \in 1..m
    BY <1>2, <2>1
  <2>. QED
    BY <1>1, <2>1, <2>2
<1>5. PICK sides : sides = segmentsFromPoints(pts, closed)
  OBVIOUS
<1>6. DOMAIN sides = 1..n /\ \A i \in 1..n : sides[i].a = pts[i] /\ sides[i].b = pts[(i % m) + 1]
  BY <1>3, <1>5
<1>7. DOMAIN sides = 1..n /\ \A i \in 1..n : sides[i].a \in Points /\ sides[i].b \in Points
  BY <1>4, <1>6
<1>. QED
  BY <1>5, <1>7

\* Of so many distances one is the nearest.
HasNearest(n) ==
    \A f \in [1..n -> Fractions] : \E m \in 1..n : \A i \in 1..n : ~Nearer(f[i], f[m])

\* One more is the nearest, or the nearest was.
LEMMA NearestWithOneMore ==
    ASSUME NEW n \in Nat \ {0}, HasNearest(n)
    PROVE  HasNearest(n + 1)
<1>1. PICK N : N = n + 1
  OBVIOUS
<1>2. N \in Int /\ 1..N = (1..n) \cup {N}
  BY <1>1
<1>3. SUFFICES ASSUME NEW f \in [1..N -> Fractions]
               PROVE  \E m \in 1..N : \A i \in 1..N : ~Nearer(f[i], f[m])
  BY <1>1 DEF HasNearest
<1>4. PICK g : g = [i \in 1..n |-> f[i]]
  OBVIOUS
<1>5. g \in [1..n -> Fractions]
  BY <1>2, <1>4
<1>6. PICK m \in 1..n : \A i \in 1..n : ~Nearer(g[i], g[m])
  BY <1>5 DEF HasNearest
<1>7. \A i \in 1..n : ~Nearer(f[i], f[m])
  BY <1>4, <1>6
<1>8. f[m] \in Fractions /\ f[N] \in Fractions /\ m \in 1..N /\ N \in 1..N
      /\ \A i \in 1..n : f[i] \in Fractions
  BY <1>2
<1>9. CASE Nearer(f[N], f[m])
  <2>1. \A i \in 1..n : ~Nearer(f[i], f[N])
    <3>1. SUFFICES ASSUME NEW i \in 1..n PROVE ~Nearer(f[i], f[N])
      OBVIOUS
    <3>2. Nearer(f[N], f[i])
      BY <1>7, <1>8, <1>9, NearerThanAll
    <3>. QED
      BY <1>8, <3>2, NearerOneWay
  <2>2. ~Nearer(f[N], f[N])
    BY <1>8, NearerOneWay
  <2>. QED
    BY <1>2, <1>8, <2>1, <2>2
<1>10. CASE ~Nearer(f[N], f[m])
  BY <1>2, <1>7, <1>8, <1>10
<1>. QED
  BY <1>9, <1>10

\* There is no least number of distances without a nearest.
LEMMA AlwaysNearest ==
    ASSUME NEW n \in Nat \ {0}
    PROVE  HasNearest(n)
<1>. DEFINE T == {k \in Nat \ {0} : ~HasNearest(k)}
<1>1. SUFFICES ASSUME T # {} PROVE FALSE
  OBVIOUS
<1>2. PICK m \in T : \A k \in T : m <= k
  <2>1. T \in SUBSET Nat
    OBVIOUS
  <2>. HIDE DEF T
  <2>. QED
    BY <1>1, <2>1, LeastNumber
<1>3. m # 1
  <2>1. HasNearest(1)
    <3>1. SUFFICES ASSUME NEW f \in [1..1 -> Fractions]
                   PROVE  \E j \in 1..1 : \A i \in 1..1 : ~Nearer(f[i], f[j])
      BY DEF HasNearest
    <3>2. f[1] \in Fractions /\ 1..1 = {1}
      OBVIOUS
    <3>3. ~Nearer(f[1], f[1])
      BY <3>2, NearerOneWay
    <3>. QED
      BY <3>2, <3>3
  <2>. QED
    BY <1>2, <2>1
<1>4. m - 1 \in Nat \ {0} /\ (m - 1) + 1 = m /\ ~(m <= m - 1)
  BY <1>2, <1>3
<1>5. HasNearest(m - 1)
  BY <1>2, <1>4
<1>6. HasNearest(m)
  BY <1>4, <1>5, NearestWithOneMore
<1>. QED
  BY <1>2, <1>6

\* A distance to an outline or a line is the one to its nearest side.
LEMMA StrokeDistance ==
    ASSUME NEW p \in Points, NEW pts \in Seq(Points), Len(pts) >= 2, NEW closed \in BOOLEAN
    PROVE  strokeDistance(p, pts, closed) \in Fractions
<1>1. PICK sides : sides = segmentsFromPoints(pts, closed)
  OBVIOUS
<1>2. PICK n \in Nat \ {0} : /\ DOMAIN sides = 1..n
                             /\ \A i \in 1..n : sides[i].a \in Points /\ sides[i].b \in Points
  BY <1>1, SidesOf
<1>3. PICK D : D = [i \in 1..n |-> pointSegmentDistance(p, sides[i].a, sides[i].b)]
  OBVIOUS
<1>4. D \in [1..n -> Fractions]
  BY <1>2, <1>3, SegmentDistance
<1>5. \E m \in 1..n : \A j \in 1..n : ~Nearer(D[j], D[m])
  BY <1>4, AlwaysNearest DEF HasNearest
<1>6. PICK m : m = CHOOSE i \in DOMAIN sides :
                        \A j \in DOMAIN sides :
                            ~Nearer(pointSegmentDistance(p, sides[j].a, sides[j].b),
                                    pointSegmentDistance(p, sides[i].a, sides[i].b))
  OBVIOUS
<1>7. \A j \in 1..n : D[j] = pointSegmentDistance(p, sides[j].a, sides[j].b)
  BY <1>3
<1>8. \E i \in DOMAIN sides :
         \A j \in DOMAIN sides :
             ~Nearer(pointSegmentDistance(p, sides[j].a, sides[j].b),
                     pointSegmentDistance(p, sides[i].a, sides[i].b))
  BY <1>2, <1>5, <1>7
<1>9. m \in 1..n
  BY <1>2, <1>6, <1>8
<1>10. strokeDistance(p, pts, closed) = pointSegmentDistance(p, sides[m].a, sides[m].b)
  BY <1>1, <1>6 DEF strokeDistance
<1>. QED
  BY <1>2, <1>9, <1>10, SegmentDistance

\* Whatever can be hit is at some distance.
LEMMA ObjectAt ==
    ASSUME NEW p \in Points, NEW object, Hittable(object)
    PROVE  objectDistance(p, object) \in Fractions
<1>1. CASE object.type = "desk"
  BY <1>1, RectDistance DEF objectDistance, Hittable
<1>2. CASE object.type # "desk"
  BY <1>2, StrokeDistance DEF objectDistance, Hittable
<1>. QED
  BY <1>1, <1>2

\* A click hits the nearest of what can be hit, the first in the order of the
\* scan among equals, and nothing exactly when nothing is in reach: on any
\* plan, of any number of desks and lines (findObjectAtPoint, hitTest.js).
THEOREM ClickHitsNearest ==
    ASSUME NEW p \in Points, NEW threshold \in Nat, NEW n \in Nat,
           NEW objects, DOMAIN objects = 1..n, \A i \in 1..n : Hittable(objects[i])
    PROVE  LET hit == findObjectAtPoint(p, objects, threshold)
               dist(i) == objectDistance(p, objects[i])
               reached == {i \in DOMAIN objects : ~Nearer(Whole(threshold * threshold), dist(i))}
           IN  IF reached = {} THEN hit = NoHit
               ELSE \E i \in reached :
                       /\ hit.id = objects[i].id
                       /\ \A j \in reached : /\ ~Nearer(dist(j), dist(i))
                                             /\ j < i => Nearer(dist(i), dist(j))
<1>1. \A i \in 1..n : objectDistance(p, objects[i]) \in Fractions /\ objects[i].id # "none"
  BY ObjectAt DEF Hittable
<1>2. NearestOf(findObjectAtPoint(p, objects, threshold), p, objects, threshold, n)
  BY <1>1, ScanNearest
<1>3. PICK hit : hit = findObjectAtPoint(p, objects, threshold)
  OBVIOUS
<1>4. PICK reached : reached = Reached(p, objects, threshold, n)
  OBVIOUS
<1>5. reached = {i \in DOMAIN objects :
                    ~Nearer(Whole(threshold * threshold), objectDistance(p, objects[i]))}
  BY <1>4 DEF Reached
<1>6. IF reached = {} THEN hit = NoHit
      ELSE \E i \in reached :
              /\ hit = [id |-> objects[i].id, dist |-> objectDistance(p, objects[i])]
              /\ \A j \in reached :
                    /\ ~Nearer(objectDistance(p, objects[j]), objectDistance(p, objects[i]))
                    /\ j < i => Nearer(objectDistance(p, objects[i]), objectDistance(p, objects[j]))
  BY <1>2, <1>3, <1>4 DEF NearestOf
<1>7. CASE reached = {}
  BY <1>3, <1>5, <1>6, <1>7
<1>8. CASE reached # {}
  <2>1. PICK i \in reached :
              /\ hit = [id |-> objects[i].id, dist |-> objectDistance(p, objects[i])]
              /\ \A j \in reached :
                    /\ ~Nearer(objectDistance(p, objects[j]), objectDistance(p, objects[i]))
                    /\ j < i => Nearer(objectDistance(p, objects[i]), objectDistance(p, objects[j]))
    BY <1>6, <1>8
  <2>2. hit.id = objects[i].id
    BY <2>1
  <2>. QED
    BY <1>3, <1>5, <1>8, <2>1, <2>2
<1>. QED
  BY <1>7, <1>8

-----------------------------------------------------------------------------
(***************************************************************************)
(* Rubber bands                                                            *)
(***************************************************************************)

\* The band between two points, corner and sides.
LEMMA BandIs ==
    ASSUME NEW start \in Points, NEW current \in Points
    PROVE  /\ marqueeRect(start, current) \in [x : Int, y : Int, w : Nat, h : Nat]
           /\ marqueeRect(start, current).w = Magnitude(start.x - current.x)
           /\ marqueeRect(start, current).h = Magnitude(start.y - current.y)
<1>1. PICK a \in Int, b \in Int : a = start.x /\ b = current.x
  BY DEF Points
<1>2. PICK c \in Int, d \in Int : c = start.y /\ d = current.y
  BY DEF Points
<1>3. /\ Min({a, b}) = (IF a <= b THEN a ELSE b) /\ Max({a, b}) = (IF a >= b THEN a ELSE b)
      /\ Min({c, d}) = (IF c <= d THEN c ELSE d) /\ Max({c, d}) = (IF c >= d THEN c ELSE d)
  BY MinOfTwo, MaxOfTwo
<1>4. PICK left \in Int, wide \in Nat :
          left = Min({a, b}) /\ wide = Max({a, b}) - left /\ wide = Magnitude(a - b)
  <2>1. CASE a <= b
    <3>1. Min({a, b}) = a /\ Max({a, b}) = b
      BY <1>3, <2>1
    <3>2. b - a \in Nat /\ Magnitude(a - b) = b - a
      BY <2>1 DEF Magnitude
    <3>. QED
      BY <3>1, <3>2
  <2>2. CASE ~(a <= b)
    <3>1. Min({a, b}) = b /\ Max({a, b}) = a
      BY <1>3, <2>2
    <3>2. a - b \in Nat /\ Magnitude(a - b) = a - b
      BY <2>2 DEF Magnitude
    <3>. QED
      BY <3>1, <3>2
  <2>. QED
    BY <2>1, <2>2
<1>5. PICK top \in Int, high \in Nat :
          top = Min({c, d}) /\ high = Max({c, d}) - top /\ high = Magnitude(c - d)
  <2>1. CASE c <= d
    <3>1. Min({c, d}) = c /\ Max({c, d}) = d
      BY <1>3, <2>1
    <3>2. d - c \in Nat /\ Magnitude(c - d) = d - c
      BY <2>1 DEF Magnitude
    <3>. QED
      BY <3>1, <3>2
  <2>2. CASE ~(c <= d)
    <3>1. Min({c, d}) = d /\ Max({c, d}) = c
      BY <1>3, <2>2
    <3>2. c - d \in Nat /\ Magnitude(c - d) = c - d
      BY <2>2 DEF Magnitude
    <3>. QED
      BY <3>1, <3>2
  <2>. QED
    BY <2>1, <2>2
<1>6. marqueeRect(start, current) = [x |-> left, y |-> top, w |-> wide, h |-> high]
  BY <1>1, <1>2, <1>4, <1>5 DEF marqueeRect, Box
<1>. QED
  BY <1>1, <1>2, <1>4, <1>5, <1>6

\* A click beside nothing but one desk hits it exactly when it is on it.
LEMMA ClickOnDesk ==
    ASSUME NEW p \in Points, NEW r \in Frames
    PROVE  findObjectAtPoint(p, <<[id |-> "desk", type |-> "desk", rect |-> r]>>, 0) # NoHit
             <=> p.x >= r.x /\ p.x <= r.x + r.w /\ p.y >= r.y /\ p.y <= r.y + r.h
<1>1. PICK object : object = [id |-> "desk", type |-> "desk", rect |-> r]
  OBVIOUS
<1>2. PICK objects : objects = <<object>>
  OBVIOUS
<1>3. DOMAIN objects = 1..1 /\ objects[1] = object /\ 1..1 = {1}
  BY <1>2
<1>4. object.id = "desk" /\ object.type = "desk" /\ object.rect = r
  BY <1>1
<1>5. objectDistance(p, object) = rectPointDistance(p, r)
  BY <1>4 DEF objectDistance
<1>6. PICK D : D = rectPointDistance(p, r)
  OBVIOUS
<1>7. D \in Fractions /\ D.d = 1
  BY <1>6, RectDistance
<1>8. \A i \in 1..1 : objectDistance(p, objects[i]) \in Fractions /\ objects[i].id # "none"
  BY <1>3, <1>4, <1>5, <1>6, <1>7
<1>9. NearestOf(findObjectAtPoint(p, objects, 0), p, objects, 0, 1)
  BY <1>3, <1>8, ScanNearest
<1>10. PICK hit : hit = findObjectAtPoint(p, objects, 0)
  OBVIOUS
<1>11. Nearer(Whole(0 * 0), D) <=> D.n # 0
  <2>1. Whole(0 * 0) = [n |-> 0, d |-> 1]
    BY DEF Whole
  <2>2. D.n \in Nat /\ D.d = 1
    BY <1>7 DEF Fractions
  <2>. QED
    BY <2>1, <2>2 DEF Nearer
<1>12. Reached(p, objects, 0, 1) = IF D.n = 0 THEN {1} ELSE {}
  BY <1>3, <1>5, <1>6, <1>11 DEF Reached
<1>13. CASE D.n = 0
  <2>1. \E i \in {1} : hit = [id |-> objects[i].id, dist |-> objectDistance(p, objects[i])]
    BY <1>9, <1>10, <1>12, <1>13 DEF NearestOf
  <2>2. hit.id = "desk"
    BY <1>3, <1>4, <2>1
  <2>3. hit # NoHit
    BY <2>2 DEF NoHit
  <2>. QED
    BY <1>1, <1>2, <1>6, <1>10, <1>13, <2>3, RectDistance
<1>14. CASE D.n # 0
  <2>1. hit = NoHit
    BY <1>9, <1>10, <1>12, <1>14 DEF NearestOf
  <2>. QED
    BY <1>1, <1>2, <1>6, <1>10, <1>14, <2>1, RectDistance
<1>. QED
  BY <1>13, <1>14

\* Two intervals meet exactly when some number is in both.
LEMMA IntervalsMeet ==
    ASSUME NEW a \in Int, NEW m \in Nat, NEW b \in Int, NEW n \in Nat
    PROVE  ~(b > a + m) /\ ~(b + n < a) <=> \E x \in a..(a + m) : x >= b /\ x <= b + n
<1>1. ASSUME ~(b > a + m), ~(b + n < a)
      PROVE  \E x \in a..(a + m) : x >= b /\ x <= b + n
  <2>1. CASE a >= b
    <3>1. a \in a..(a + m) /\ a >= b /\ a <= b + n
      BY <1>1, <2>1
    <3>. QED
      BY <3>1
  <2>2. CASE ~(a >= b)
    <3>1. b \in a..(a + m) /\ b >= b /\ b <= b + n
      BY <1>1, <2>2
    <3>. QED
      BY <3>1
  <2>. QED
    BY <2>1, <2>2
<1>2. ASSUME NEW x \in a..(a + m), x >= b, x <= b + n
      PROVE  ~(b > a + m) /\ ~(b + n < a)
  BY <1>2
<1>. QED
  BY <1>1, <1>2

\* A desk as the canvas has it: the place and size of its box.
Placed(d) == d.x \in Int /\ d.y \in Int /\ d.w \in Nat /\ d.h \in Nat

\* A band touches a desk exactly when a click somewhere in it would hit the desk.
LEMMA BandTouches ==
    ASSUME NEW band \in [x : Int, y : Int, w : Nat, h : Nat], NEW d, Placed(d)
    PROVE  LET inside == {At(x, y) : x \in band.x..(band.x + band.w),
                                     y \in band.y..(band.y + band.h)}
           IN  ~( \/ d.x > band.x + band.w \/ d.x + d.w < band.x
                  \/ d.y > band.y + band.h \/ d.y + d.h < band.y)
                 <=> \E p \in inside :
                        findObjectAtPoint(p, <<[id |-> "desk", type |-> "desk",
                                                rect |-> Box(d.x, d.y, d.w, d.h)]>>, 0) # NoHit
<1>1. PICK r : r = Box(d.x, d.y, d.w, d.h)
  OBVIOUS
<1>2. r \in Frames /\ r.x = d.x /\ r.y = d.y /\ r.w = d.w /\ r.h = d.h
  BY <1>1 DEF Box, Frames, Placed
<1>. DEFINE inside == {At(x, y) : x \in band.x..(band.x + band.w),
                                  y \in band.y..(band.y + band.h)}
<1>3. /\ \A p \in inside : \E x \in band.x..(band.x + band.w),
                                y \in band.y..(band.y + band.h) : p = At(x, y)
      /\ \A x \in band.x..(band.x + band.w), y \in band.y..(band.y + band.h) : At(x, y) \in inside
  OBVIOUS
<1>. HIDE DEF inside
<1>4. /\ band.x \in Int /\ band.y \in Int /\ band.w \in Nat /\ band.h \in Nat
      /\ d.x \in Int /\ d.y \in Int /\ d.w \in Nat /\ d.h \in Nat
  BY DEF Placed
<1>5. (\E p \in inside :
          findObjectAtPoint(p, <<[id |-> "desk", type |-> "desk", rect |-> r]>>, 0) # NoHit)
        <=> \E p \in inside : p.x >= d.x /\ p.x <= d.x + d.w /\ p.y >= d.y /\ p.y <= d.y + d.h
  <2>1. ASSUME NEW p \in inside PROVE p \in Points
    <3>1. PICK x \in band.x..(band.x + band.w), y \in band.y..(band.y + band.h) : p = At(x, y)
      BY <1>3
    <3>2. x \in Int /\ y \in Int
      BY <1>4
    <3>. QED
      BY <3>1, <3>2 DEF At, Points
  <2>2. \A p \in inside :
           findObjectAtPoint(p, <<[id |-> "desk", type |-> "desk", rect |-> r]>>, 0) # NoHit
             <=> p.x >= r.x /\ p.x <= r.x + r.w /\ p.y >= r.y /\ p.y <= r.y + r.h
    BY <1>2, <2>1, ClickOnDesk
  <2>. QED
    BY <1>2, <2>2
<1>6. (\E p \in inside : p.x >= d.x /\ p.x <= d.x + d.w /\ p.y >= d.y /\ p.y <= d.y + d.h)
        <=> /\ \E x \in band.x..(band.x + band.w) : x >= d.x /\ x <= d.x + d.w
            /\ \E y \in band.y..(band.y + band.h) : y >= d.y /\ y <= d.y + d.h
  <2>1. ASSUME NEW p \in inside,
               p.x >= d.x /\ p.x <= d.x + d.w /\ p.y >= d.y /\ p.y <= d.y + d.h
        PROVE  /\ \E x \in band.x..(band.x + band.w) : x >= d.x /\ x <= d.x + d.w
               /\ \E y \in band.y..(band.y + band.h) : y >= d.y /\ y <= d.y + d.h
    <3>1. PICK x \in band.x..(band.x + band.w), y \in band.y..(band.y + band.h) : p = At(x, y)
      BY <1>3
    <3>2. p.x = x /\ p.y = y
      BY <3>1 DEF At
    <3>. QED
      BY <2>1, <3>2
  <2>2. ASSUME NEW x \in band.x..(band.x + band.w), x >= d.x, x <= d.x + d.w,
               NEW y \in band.y..(band.y + band.h), y >= d.y, y <= d.y + d.h
        PROVE  \E p \in inside : p.x >= d.x /\ p.x <= d.x + d.w /\ p.y >= d.y /\ p.y <= d.y + d.h
    <3>1. PICK p : p = At(x, y)
      OBVIOUS
    <3>2. p \in inside /\ p.x = x /\ p.y = y
      BY <1>3, <3>1 DEF At
    <3>. QED
      BY <2>2, <3>2
  <2>. QED
    BY <2>1, <2>2
<1>7. /\ ~(d.x > band.x + band.w) /\ ~(d.x + d.w < band.x)
           <=> \E x \in band.x..(band.x + band.w) : x >= d.x /\ x <= d.x + d.w
      /\ ~(d.y > band.y + band.h) /\ ~(d.y + d.h < band.y)
           <=> \E y \in band.y..(band.y + band.h) : y >= d.y /\ y <= d.y + d.h
  BY <1>4, IntervalsMeet
<1>8. ~( \/ d.x > band.x + band.w \/ d.x + d.w < band.x
         \/ d.y > band.y + band.h \/ d.y + d.h < band.y)
        <=> \E p \in inside :
               findObjectAtPoint(p, <<[id |-> "desk", type |-> "desk", rect |-> r]>>, 0) # NoHit
  BY <1>5, <1>6, <1>7
<1>. QED
  BY <1>1, <1>8 DEF inside

\* A rubber band takes exactly the desks of which a click at some point in it
\* would hit one, keeps what was selected only with Shift, and takes nothing if
\* it is so short both ways that it is a click: for any desks, each with an id of
\* its own (finishMarquee, useSelection.js; findObjectAtPoint, hitTest.js).
THEOREM BandTakesTouched ==
    ASSUME NEW start \in Points, NEW current \in Points, NEW append \in BOOLEAN, NEW selected,
           NEW desks, \A j \in DOMAIN desks : Placed(desks[j]),
           \A j, k \in DOMAIN desks : desks[j].id = desks[k].id => j = k,
           NEW i \in DOMAIN desks
    PROVE  LET d == desks[i]
               band == marqueeRect(start, current)
               inside == {At(x, y) : x \in band.x..(band.x + band.w),
                                     y \in band.y..(band.y + band.h)}
               long == \/ Magnitude(start.x - current.x) >= MARQUEE_MIN_WORLD
                       \/ Magnitude(start.y - current.y) >= MARQUEE_MIN_WORLD
           IN  d.id \in finishMarquee(selected, start, current, append, desks)
                 <=> \/ append /\ d.id \in selected
                     \/ /\ long
                        /\ \E p \in inside :
                              findObjectAtPoint(p, <<[id |-> "desk", type |-> "desk",
                                                      rect |-> Box(d.x, d.y, d.w, d.h)]>>, 0) # NoHit
<1>1. PICK band : band = marqueeRect(start, current)
  OBVIOUS
<1>2. /\ band \in [x : Int, y : Int, w : Nat, h : Nat]
      /\ band.w = Magnitude(start.x - current.x) /\ band.h = Magnitude(start.y - current.y)
  BY <1>1, BandIs
<1>3. PICK hit : hit = {j \in DOMAIN desks : ~( \/ desks[j].x > band.x + band.w
                                                \/ desks[j].x + desks[j].w < band.x
                                                \/ desks[j].y > band.y + band.h
                                                \/ desks[j].y + desks[j].h < band.y)}
  OBVIOUS
<1>4. finishMarquee(selected, start, current, append, desks)
        = (IF append THEN selected ELSE {})
          \cup (IF band.w < MARQUEE_MIN_WORLD /\ band.h < MARQUEE_MIN_WORLD THEN {}
                ELSE {desks[j].id : j \in hit})
  BY <1>1, <1>3 DEF finishMarquee
<1>5. PICK d : d = desks[i]
  OBVIOUS
<1>6. Placed(d)
  BY <1>5
<1>7. d.id \in {desks[j].id : j \in hit} <=> i \in hit
  BY <1>3, <1>5
<1>8. i \in hit <=> ~( \/ d.x > band.x + band.w \/ d.x + d.w < band.x
                      \/ d.y > band.y + band.h \/ d.y + d.h < band.y)
  BY <1>3, <1>5
<1>. DEFINE touched == \E p \in {At(x, y) : x \in band.x..(band.x + band.w),
                                           y \in band.y..(band.y + band.h)} :
                         findObjectAtPoint(p, <<[id |-> "desk", type |-> "desk",
                                                 rect |-> Box(d.x, d.y, d.w, d.h)]>>, 0) # NoHit
<1>9. touched \in BOOLEAN
  OBVIOUS
<1>10. i \in hit <=> touched
  BY <1>2, <1>6, <1>8, BandTouches
<1>. HIDE DEF touched
<1>11. PICK long \in BOOLEAN : long <=> ~(band.w < MARQUEE_MIN_WORLD /\ band.h < MARQUEE_MIN_WORLD)
  OBVIOUS
<1>12. long <=> \/ Magnitude(start.x - current.x) >= MARQUEE_MIN_WORLD
                \/ Magnitude(start.y - current.y) >= MARQUEE_MIN_WORLD
  <2>1. MARQUEE_MIN_WORLD \in Int /\ band.w \in Int /\ band.h \in Int
    BY <1>2, GeometryAssumption
  <2>. QED
    BY <1>2, <1>11, <2>1
<1>13. d.id \in finishMarquee(selected, start, current, append, desks)
         <=> (append /\ d.id \in selected) \/ (long /\ touched)
  BY <1>4, <1>7, <1>10, <1>11
<1>. QED
  BY <1>1, <1>5, <1>12, <1>13 DEF touched

-----------------------------------------------------------------------------
(***************************************************************************)
(* What holds of the samples holds always: a sample is never changed       *)
(***************************************************************************)

\* A sample stays what it was.
LEMMA SampleStays == Spec => [](sample \in Samples \cup {NoSample})
<1>1. Init => sample \in Samples \cup {NoSample}
  BY DEF Init
<1>2. sample \in Samples \cup {NoSample} /\ [Next]_vars => (sample \in Samples \cup {NoSample})'
  BY DEF Next, vars
<1>. QED
  BY <1>1, <1>2, PTL DEF Spec

\* A question to the rubber band.
LEMMA MarqueeSample ==
    ASSUME NEW s \in Samples \cup {NoSample}, s.kind = "marquee"
    PROVE  /\ s.start \in Points /\ s.current \in Points
           /\ s.append \in BOOLEAN /\ s.selected \in SUBSET {1, 2}
<1>1. s \in [kind : {"marquee"}, start : BandEnds, current : BandEnds, append : BOOLEAN,
             selected : SUBSET {1, 2}]
  BY DEF Samples, NoSample
<1>2. BandEnds \subseteq Points
  BY DEF BandEnds, At, Points
<1>. QED
  BY <1>1, <1>2

\* In every state the rubber band takes what a click would hit, whatever the
\* length below which it is a click (finishMarquee, useSelection.js).
THEOREM BandAlwaysTakesHit == Spec => []BandTakesHit
<1>1. ASSUME sample \in Samples \cup {NoSample} PROVE BandTakesHit
  <2>1. SUFFICES ASSUME sample.kind = "marquee" PROVE BandTakesHit
    BY DEF BandTakesHit
  <2>2. /\ sample.start \in Points /\ sample.current \in Points
        /\ sample.append \in BOOLEAN
    BY <1>1, <2>1, MarqueeSample
  <2>3. /\ DOMAIN Neighbours = {1, 2}
        /\ \A j \in DOMAIN Neighbours : Placed(Neighbours[j])
        /\ \A j, k \in DOMAIN Neighbours : Neighbours[j].id = Neighbours[k].id => j = k
    BY DEF Neighbours, Placed
  <2>4. PICK desks : desks = Neighbours
    OBVIOUS
  <2>. QED
    BY <2>2, <2>3, BandTakesTouched DEF BandTakesHit
<1>. QED
  BY <1>1, SampleStays, PTL

-----------------------------------------------------------------------------
(***************************************************************************)
(* Zoom to fit                                                             *)
(***************************************************************************)

\* One side of the view is the box with its padding; the other, in the screen's
\* proportions, is no shorter than the box.
LEMMA FitSide ==
    ASSUME NEW a \in Nat, NEW b \in Nat, NEW padding \in Nat,
           NEW m \in Nat \ {0}, NEW k \in Nat \ {0},
           a * m <= k * b, ((b + 2 * padding) * k) % m = 0
    PROVE  /\ ((b + 2 * padding) * k) \div m \in Int
           /\ (((b + 2 * padding) * k) \div m) * m = (b + 2 * padding) * k
           /\ ((b + 2 * padding) * k) \div m >= a
<1>1. PICK n \in Nat : n = (b + 2 * padding) * k
  OBVIOUS
<1>2. PICK q, r \in Int : q = n \div m /\ r = n % m /\ n = q * m + r
  BY DivMod
<1>3. r = 0 /\ n = q * m
  BY <1>1, <1>2
<1>4. b * k <= n
  <2>1. n = b * k + (2 * padding) * k
    BY <1>1
  <2>2. (2 * padding) * k >= 0 /\ (2 * padding) * k \in Int /\ b * k \in Int
    OBVIOUS
  <2>. QED
    BY <2>1, <2>2
<1>5. a * m <= q * m
  <2>1. k * b = b * k /\ a * m \in Int /\ b * k \in Int /\ q * m \in Int
    OBVIOUS
  <2>. QED
    BY <1>3, <1>4, <2>1
<1>6. a <= q
  BY <1>5, TimesCancels
<1>. QED
  BY <1>1, <1>2, <1>3, <1>6

\* To fit a box shows all of it, in the middle and in the proportions of the
\* screen, with the padding along one axis at least: any box and screen whose
\* sides divide evenly (zoomToFit, useViewport.js).
THEOREM FitShowsBox ==
    ASSUME NEW box \in [x : Int, y : Int, w : Nat, h : Nat], NEW padding \in Nat,
           NEW screen \in [w : Nat \ {0}, h : Nat \ {0}],
           ((box.h + 2 * padding) * screen.w) % screen.h = 0,
           ((box.w + 2 * padding) * screen.h) % screen.w = 0
    PROVE  LET view == zoomToFit(box, padding, screen)
               left == 2 * box.x - view.x
               right == view.x + view.w - 2 * (box.x + box.w)
               above == 2 * box.y - view.y
               below == view.y + view.h - 2 * (box.y + box.h)
           IN  /\ left = right /\ above = below /\ left >= 0 /\ above >= 0
               /\ 2 * padding \in {left, above}
               /\ view.w * screen.h = view.h * screen.w
<1>1. PICK x \in Int, y \in Int, a \in Nat, b \in Nat :
          x = box.x /\ y = box.y /\ a = box.w /\ b = box.h
  OBVIOUS
<1>2. PICK m \in Nat \ {0}, k \in Nat \ {0} : m = screen.w /\ k = screen.h
  OBVIOUS
<1>3. PICK w \in Nat, h \in Nat : w = a + 2 * padding /\ h = b + 2 * padding
  OBVIOUS
\* The view is wide and high enough, and in proportion.
<1>4. ASSUME NEW v \in Int, NEW u \in Int, v >= a, u >= b, v * k = u * m,
             v = w \/ u = h,
             zoomToFit(box, padding, screen) = Box(2 * x + a - v, 2 * y + b - u, 2 * v, 2 * u)
      PROVE  LET view == zoomToFit(box, padding, screen)
                 left == 2 * box.x - view.x
                 right == view.x + view.w - 2 * (box.x + box.w)
                 above == 2 * box.y - view.y
                 below == view.y + view.h - 2 * (box.y + box.h)
             IN  /\ left = right /\ above = below /\ left >= 0 /\ above >= 0
                 /\ 2 * padding \in {left, above}
                 /\ view.w * screen.h = view.h * screen.w
  <2>1. PICK view : view = zoomToFit(box, padding, screen)
    OBVIOUS
  <2>2. view.x = 2 * x + a - v /\ view.y = 2 * y + b - u /\ view.w = 2 * v /\ view.h = 2 * u
    BY <1>4, <2>1 DEF Box
  <2>3. (2 * v) * k = (2 * u) * m
    <3>1. (2 * v) * k = 2 * (v * k) /\ (2 * u) * m = 2 * (u * m)
      OBVIOUS
    <3>. QED
      BY <1>4, <3>1
  <2>4. view.w * screen.h = view.h * screen.w
    BY <1>2, <2>2, <2>3
  <2>5. /\ 2 * x - view.x = v - a
        /\ view.x + view.w - 2 * (x + a) = v - a
        /\ 2 * y - view.y = u - b
        /\ view.y + view.h - 2 * (y + b) = u - b
    BY <2>2
  <2>6. v - a >= 0 /\ u - b >= 0 /\ (2 * padding = v - a \/ 2 * padding = u - b)
    BY <1>3, <1>4
  <2>. QED
    BY <1>1, <2>1, <2>4, <2>5, <2>6
<1>5. CASE a * k > m * b
  <2>1. b * m <= k * a
    <3>1. a * k = k * a /\ m * b = b * m /\ k * a \in Int /\ b * m \in Int
      OBVIOUS
    <3>. QED
      BY <1>5, <3>1
  <2>2. PICK u \in Int : u = (w * k) \div m /\ u * m = w * k /\ u >= b
    <3>1. ((a + 2 * padding) * k) % m = 0
      BY <1>1, <1>2
    <3>2. /\ ((a + 2 * padding) * k) \div m \in Int
          /\ (((a + 2 * padding) * k) \div m) * m = (a + 2 * padding) * k
          /\ ((a + 2 * padding) * k) \div m >= b
      BY <2>1, <3>1, FitSide
    <3>. QED
      BY <1>3, <3>2
  <2>3. zoomToFit(box, padding, screen) = Box(2 * x + a - w, 2 * y + b - u, 2 * w, 2 * u)
    BY <1>1, <1>2, <1>3, <1>5, <2>2 DEF zoomToFit
  <2>4. w >= a /\ w \in Int
    BY <1>3
  <2>. QED
    BY <1>4, <2>2, <2>3, <2>4
<1>6. CASE ~(a * k > m * b)
  <2>1. a * k <= m * b
    <3>1. a * k \in Int /\ m * b \in Int
      OBVIOUS
    <3>. QED
      BY <1>6, <3>1
  <2>2. PICK v \in Int : v = (h * m) \div k /\ v * k = h * m /\ v >= a
    <3>1. ((b + 2 * padding) * m) % k = 0
      BY <1>1, <1>2
    <3>2. /\ ((b + 2 * padding) * m) \div k \in Int
          /\ (((b + 2 * padding) * m) \div k) * k = (b + 2 * padding) * m
          /\ ((b + 2 * padding) * m) \div k >= a
      BY <2>1, <3>1, FitSide
    <3>. QED
      BY <1>3, <3>2
  <2>3. zoomToFit(box, padding, screen) = Box(2 * x + a - v, 2 * y + b - h, 2 * v, 2 * h)
    BY <1>1, <1>2, <1>3, <1>6, <2>2 DEF zoomToFit
  <2>4. h >= b /\ h \in Int
    BY <1>3
  <2>. QED
    BY <1>4, <2>2, <2>3, <2>4
<1>. QED
  BY <1>5, <1>6

\* A question to zoom to fit.
LEMMA FitSample ==
    ASSUME NEW s \in Samples \cup {NoSample}, s.kind = "fit"
    PROVE  /\ s.box \in [x : Int, y : Int, w : {2, 4, 8}, h : {2, 4, 8}] /\ s.padding \in 0..2
           /\ s.screen \in {[w |-> 2, h |-> 2], [w |-> 2, h |-> 4], [w |-> 4, h |-> 2]}
<1>1. s \in [kind : {"fit"}, box : {Box(1, 2, w, h) : w, h \in {2, 4, 8}}, padding : 0..2,
             screen : {[w |-> 2, h |-> 2], [w |-> 2, h |-> 4], [w |-> 4, h |-> 2]}]
  BY DEF Samples, NoSample
<1>2. {Box(1, 2, w, h) : w, h \in {2, 4, 8}} \subseteq
        [x : Int, y : Int, w : {2, 4, 8}, h : {2, 4, 8}]
  BY DEF Box
<1>. QED
  BY <1>1, <1>2

\* In every state what is fitted is seen whole (zoomToFit, useViewport.js).
THEOREM FitAlwaysShowsAll == Spec => []FitShowsAll
<1>1. ASSUME sample \in Samples \cup {NoSample}, sample.kind = "fit" PROVE FitShowsAll
  <2>1. /\ sample.box \in [x : Int, y : Int, w : {2, 4, 8}, h : {2, 4, 8}]
        /\ sample.padding \in 0..2
        /\ sample.screen \in {[w |-> 2, h |-> 2], [w |-> 2, h |-> 4], [w |-> 4, h |-> 2]}
    BY <1>1, FitSample
  <2>2. PICK a \in {2, 4, 8}, b \in {2, 4, 8}, n \in 0..2 :
            a = sample.box.w /\ b = sample.box.h /\ n = sample.padding
    BY <2>1
  <2>3. \E m \in Nat \ {0}, k \in Nat \ {0} :
            /\ m = sample.screen.w /\ k = sample.screen.h
            /\ ((b + 2 * n) * m) % k = 0 /\ ((a + 2 * n) * k) % m = 0
    <3>1. CASE sample.screen = [w |-> 2, h |-> 2]
      BY <3>1
    <3>2. CASE sample.screen = [w |-> 2, h |-> 4]
      BY <3>2
    <3>3. CASE sample.screen = [w |-> 4, h |-> 2]
      BY <3>3
    <3>. QED
      BY <2>1, <3>1, <3>2, <3>3
  <2>4. sample.box \in [x : Int, y : Int, w : Nat, h : Nat] /\ n \in Nat
    BY <2>1
  <2>5. sample.screen \in [w : Nat \ {0}, h : Nat \ {0}]
    BY <2>1
  <2>6. /\ ((sample.box.h + 2 * sample.padding) * sample.screen.w) % sample.screen.h = 0
        /\ ((sample.box.w + 2 * sample.padding) * sample.screen.h) % sample.screen.w = 0
    BY <2>2, <2>3
  <2>7. PICK box, padding, screen :
            box = sample.box /\ padding = sample.padding /\ screen = sample.screen
    OBVIOUS
  <2>8. /\ box \in [x : Int, y : Int, w : Nat, h : Nat] /\ padding \in Nat
        /\ screen \in [w : Nat \ {0}, h : Nat \ {0}]
        /\ ((box.h + 2 * padding) * screen.w) % screen.h = 0
        /\ ((box.w + 2 * padding) * screen.h) % screen.w = 0
    BY <2>2, <2>4, <2>5, <2>6, <2>7
  <2>9. LET view == zoomToFit(box, padding, screen)
            left == 2 * box.x - view.x
            right == view.x + view.w - 2 * (box.x + box.w)
            above == 2 * box.y - view.y
            below == view.y + view.h - 2 * (box.y + box.h)
        IN  /\ left = right /\ above = below /\ left >= 0 /\ above >= 0
            /\ 2 * padding \in {left, above}
            /\ view.w * screen.h = view.h * screen.w
    BY <2>8, FitShowsBox
  <2>. QED
    BY <2>7, <2>9 DEF FitShowsAll
<1>2. ASSUME sample \in Samples \cup {NoSample} PROVE FitShowsAll
  BY <1>1, <1>2 DEF FitShowsAll
<1>. QED
  BY <1>2, SampleStays, PTL

-----------------------------------------------------------------------------
(***************************************************************************)
(* Snapping the point of a drawing                                         *)
(***************************************************************************)

\* The nearest of some points, one at least.
LEMMA NearestPoint ==
    ASSUME NEW p \in Points, NEW n \in Nat \ {0}, NEW points, DOMAIN points = 1..n,
           \A i \in 1..n : points[i] \in Points
    PROVE  \E i \in 1..n : /\ NearestTo(p, points) = points[i]
                           /\ \A j \in 1..n : Between2(p, points[i]) <= Between2(p, points[j])
<1>1. PICK B : B = [i \in 1..n |-> Between2(p, points[i])]
  OBVIOUS
<1>2. B \in [1..n -> Nat] /\ \A i \in 1..n : B[i] = Between2(p, points[i])
  BY <1>1, BetweenNat
<1>3. \E m \in 1..n : \A j \in 1..n : B[m] <= B[j]
  <2>1. PICK D : D = [i \in 1..n |-> [n |-> B[i], d |-> 1]]
    OBVIOUS
  <2>2. D \in [1..n -> Fractions] /\ \A i \in 1..n : D[i].n = B[i] /\ D[i].d = 1
    BY <1>2, <2>1 DEF Fractions
  <2>3. PICK m \in 1..n : \A j \in 1..n : ~Nearer(D[j], D[m])
    BY <2>2, AlwaysNearest DEF HasNearest
  <2>4. \A j \in 1..n : B[m] <= B[j]
    BY <1>2, <2>2, <2>3 DEF Nearer
  <2>. QED
    BY <2>4
<1>. DEFINE T == {i \in 1..n : \A j \in 1..n : B[i] <= B[j]}
<1>4. PICK m \in T : \A i \in T : m <= i
  <2>1. T \in SUBSET Nat /\ T # {}
    BY <1>3
  <2>. HIDE DEF T
  <2>. QED
    BY <2>1, LeastNumber
<1>5. ASSUME NEW j \in 1..(m - 1) PROVE B[m] < B[j]
  <2>1. j \in 1..n /\ ~(m <= j) /\ m \in 1..n
    BY <1>4
  <2>2. j \notin T
    BY <1>4, <2>1
  <2>3. PICK k \in 1..n : ~(B[j] <= B[k])
    BY <2>1, <2>2
  <2>4. B[m] <= B[k] /\ B[m] \in Nat /\ B[k] \in Nat /\ B[j] \in Nat
    BY <1>2, <1>4, <2>1
  <2>. QED
    BY <2>3, <2>4
<1>6. m \in DOMAIN points /\ m \in 1..n
  BY <1>4
<1>7. \A i \in 1..(m - 1) : i \in 1..n
  BY <1>6
<1>8. /\ \A j \in DOMAIN points : Between2(p, points[m]) <= Between2(p, points[j])
      /\ \A j \in 1..(m - 1) : Between2(p, points[m]) < Between2(p, points[j])
  BY <1>2, <1>4, <1>5, <1>6, <1>7
<1>9. PICK l : l = CHOOSE i \in DOMAIN points :
                      /\ \A j \in DOMAIN points : Between2(p, points[i]) <= Between2(p, points[j])
                      /\ \A j \in 1..(i - 1) : Between2(p, points[i]) < Between2(p, points[j])
  OBVIOUS
<1>10. l \in 1..n /\ \A j \in 1..n : Between2(p, points[l]) <= Between2(p, points[j])
  BY <1>6, <1>8, <1>9
<1>11. NearestTo(p, points) = points[l]
  BY <1>9 DEF NearestTo
<1>. QED
  BY <1>10, <1>11

\* The lesser magnitude has the lesser square.
LEMMA SquareOrder ==
    ASSUME NEW m \in Int, NEW n \in Int, Magnitude(m) <= Magnitude(n)
    PROVE  m * m <= n * n
<1>1. PICK a \in Nat, b \in Nat : a = Magnitude(m) /\ b = Magnitude(n)
  BY DEF Magnitude
<1>2. a * a <= b * a /\ a * b <= b * b
  BY <1>1, TimesKeeps
<1>3. m * m = a * a
  <2>1. CASE m < 0
    BY <1>1, <2>1 DEF Magnitude
  <2>2. CASE m >= 0
    BY <1>1, <2>2 DEF Magnitude
  <2>. QED
    BY <2>1, <2>2
<1>4. n * n = b * b
  <2>1. CASE n < 0
    BY <1>1, <2>1 DEF Magnitude
  <2>2. CASE n >= 0
    BY <1>1, <2>2 DEF Magnitude
  <2>. QED
    BY <2>1, <2>2
<1>5. a * a \in Int /\ b * a \in Int /\ b * b \in Int /\ a * b = b * a
  OBVIOUS
<1>. QED
  BY <1>2, <1>3, <1>4, <1>5

\* The numbers from 0 to d, whichever is less.
Within(n, d) == (0 <= n /\ n <= d) \/ (d <= n /\ n <= 0)

\* c is, of the numbers from 0 to d, the nearest to e.
Clamped(c, e, d) ==
    /\ c \in Int /\ Within(c, d)
    /\ \A n \in Int : Within(n, d) => Magnitude(c - e) <= Magnitude(n - e)

\* The way along a side of length d, cut off at its ends.
LEMMA ClampedPlace ==
    ASSUME NEW d \in Int, d # 0, NEW e \in Int
    PROVE  Clamped((d * Max({0, Min({d * d, e * d})})) \div (d * d), e, d)
<1>1. PICK s \in Nat \ {0} : s = d * d
  <2>1. d * d \in Nat /\ d * d # 0
    BY SquareNat
  <2>. QED
    BY <2>1
<1>2. PICK p \in Int : p = e * d
  OBVIOUS
<1>3. PICK t : t = Max({0, Min({s, p})})
  OBVIOUS
<1>4. t = IF p <= 0 THEN 0 ELSE IF p >= s THEN s ELSE p
  <2>1. PICK m \in Int : m = Min({s, p}) /\ m = IF s <= p THEN s ELSE p
    BY MinOfTwo
  <2>2. Max({0, m}) = IF 0 >= m THEN 0 ELSE m
    BY <2>1, MaxOfTwo
  <2>. QED
    BY <1>3, <2>1, <2>2
<1>5. PICK c : c = (d * t) \div s
  OBVIOUS
<1>6. \A a \in Int : (a * s) \div s = a
  BY DivExact
\* e is before the side.
<1>7. CASE p <= 0
  <2>1. d * t = 0 * s
    BY <1>4, <1>7
  <2>2. c = 0
    BY <1>5, <1>6, <2>1
  <2>3. (d > 0 /\ e <= 0) \/ (d < 0 /\ e >= 0)
    <3>1. CASE d > 0
      <4>1. e * d <= 0 * d
        BY <1>2, <1>7
      <4>2. d \in Nat \ {0}
        BY <3>1
      <4>. QED
        BY <3>1, <4>1, <4>2, TimesCancels
    <3>2. CASE d < 0
      <4>1. PICK k \in Nat \ {0} : k = -d
        BY <3>2
      <4>2. 0 * k <= e * k
        <5>1. e * k = -p
          BY <1>2, <4>1
        <5>. QED
          BY <1>7, <5>1
      <4>3. 0 <= e
        BY <4>2, TimesCancels
      <4>. QED
        BY <3>2, <4>3
    <3>. QED
      BY <3>1, <3>2
  <2>4. c \in Int /\ Within(c, d)
    BY <2>2, <2>3 DEF Within
  <2>5. \A n \in Int : Within(n, d) => Magnitude(c - e) <= Magnitude(n - e)
    BY <2>2, <2>3 DEF Within, Magnitude
  <2>6. Clamped(c, e, d)
    BY <2>4, <2>5 DEF Clamped
  <2>. QED
    BY <1>1, <1>2, <1>3, <1>5, <2>6
\* e is past the side.
<1>8. CASE ~(p <= 0) /\ p >= s
  <2>1. d * t = d * s
    BY <1>4, <1>8
  <2>2. c = d
    BY <1>5, <1>6, <2>1
  <2>3. (d > 0 /\ e >= d) \/ (d < 0 /\ e <= d)
    <3>1. CASE d > 0
      <4>1. d * d <= e * d /\ d \in Nat \ {0}
        BY <1>1, <1>2, <1>8, <3>1
      <4>. QED
        BY <3>1, <4>1, TimesCancels
    <3>2. CASE d < 0
      <4>1. PICK k \in Nat \ {0} : k = -d
        BY <3>2
      <4>2. e * k <= d * k
        <5>1. e * k = -p /\ d * k = -s
          BY <1>1, <1>2, <4>1
        <5>. QED
          BY <1>8, <5>1
      <4>3. e <= d
        BY <4>2, TimesCancels
      <4>. QED
        BY <3>2, <4>3
    <3>. QED
      BY <3>1, <3>2
  <2>4. c \in Int /\ Within(c, d)
    BY <2>2, <2>3 DEF Within
  <2>5. \A n \in Int : Within(n, d) => Magnitude(c - e) <= Magnitude(n - e)
    BY <2>2, <2>3 DEF Within, Magnitude
  <2>6. Clamped(c, e, d)
    BY <2>4, <2>5 DEF Clamped
  <2>. QED
    BY <1>1, <1>2, <1>3, <1>5, <2>6
\* e is on the side.
<1>9. CASE ~(p <= 0) /\ ~(p >= s)
  <2>1. d * t = e * s
    <3>1. d * t = d * (e * d)
      BY <1>2, <1>4, <1>9
    <3>2. d * (e * d) = e * (d * d)
      OBVIOUS
    <3>. QED
      BY <1>1, <3>1, <3>2
  <2>2. c = e
    BY <1>5, <1>6, <2>1
  <2>3. (d > 0 /\ 0 <= e /\ e <= d) \/ (d < 0 /\ e <= 0 /\ d <= e)
    <3>1. CASE d > 0
      <4>1. e * d <= d * d /\ 0 * d <= e * d /\ d \in Nat \ {0}
        BY <1>1, <1>2, <1>9, <3>1
      <4>2. e <= d
        BY <4>1, TimesCancels
      <4>3. 0 <= e
        BY <4>1, TimesCancels
      <4>. QED
        BY <3>1, <4>2, <4>3
    <3>2. CASE d < 0
      <4>1. PICK k \in Nat \ {0} : k = -d
        BY <3>2
      <4>2. d * k <= e * k /\ e * k <= 0 * k
        <5>1. e * k = -p /\ d * k = -s
          BY <1>1, <1>2, <4>1
        <5>. QED
          BY <1>9, <5>1
      <4>3. d <= e
        BY <4>2, TimesCancels
      <4>4. e <= 0
        BY <4>2, TimesCancels
      <4>. QED
        BY <3>2, <4>3, <4>4
    <3>. QED
      BY <3>1, <3>2
  <2>4. c \in Int /\ Within(c, d)
    BY <2>2, <2>3 DEF Within
  <2>5. \A n \in Int : Within(n, d) => Magnitude(c - e) <= Magnitude(n - e)
    BY <2>2, <2>3 DEF Within, Magnitude
  <2>6. Clamped(c, e, d)
    BY <2>4, <2>5 DEF Clamped
  <2>. QED
    BY <1>1, <1>2, <1>3, <1>5, <2>6
<1>. QED
  BY <1>7, <1>8, <1>9

\* A line lies along an axis.
Upright(line) ==
    /\ line.a \in Points /\ line.b \in Points
    /\ line.a.x = line.b.x \/ line.a.y = line.b.y

\* The points on a line along an axis.
LEMMA OnUpright ==
    ASSUME NEW line, Upright(line), NEW q \in Points
    PROVE  OnLine(q, line) <=>
             IF line.a.y = line.b.y
             THEN q.y = line.a.y /\ Within(q.x - line.a.x, line.b.x - line.a.x)
             ELSE q.x = line.a.x /\ Within(q.y - line.a.y, line.b.y - line.a.y)
<1>1. PICK ax \in Int, ay \in Int, bx \in Int, by \in Int, x \in Int, y \in Int :
          /\ ax = line.a.x /\ ay = line.a.y /\ bx = line.b.x /\ by = line.b.y
          /\ x = q.x /\ y = q.y
  BY DEF Upright, Points
<1>2. onSegment(line.a, q, line.b) <=> /\ (ax <= x /\ x <= bx) \/ (bx <= x /\ x <= ax)
                                       /\ (ay <= y /\ y <= by) \/ (by <= y /\ y <= ay)
  <2>1. /\ Min({ax, bx}) = (IF ax <= bx THEN ax ELSE bx)
        /\ Max({ax, bx}) = (IF ax >= bx THEN ax ELSE bx)
    BY MinOfTwo, MaxOfTwo
  <2>2. /\ Min({ay, by}) = (IF ay <= by THEN ay ELSE by)
        /\ Max({ay, by}) = (IF ay >= by THEN ay ELSE by)
    BY MinOfTwo, MaxOfTwo
  <2>3. onSegment(line.a, q, line.b) <=>
          /\ Min({ax, bx}) <= x /\ x <= Max({ax, bx})
          /\ Min({ay, by}) <= y /\ y <= Max({ay, by})
    BY <1>1 DEF onSegment
  <2>. QED
    BY <2>1, <2>2, <2>3
<1>3. orientation(line.a, line.b, q) = (by - ay) * (x - bx) - (bx - ax) * (y - by)
  BY <1>1 DEF orientation
<1>4. ax = bx \/ ay = by
  BY <1>1 DEF Upright
<1>5. CASE ay = by
  <2>1. orientation(line.a, line.b, q) = 0 - (bx - ax) * (y - by)
    BY <1>3, <1>5
  <2>2. y = by => orientation(line.a, line.b, q) = 0
    BY <2>1
  <2>. QED
    BY <1>1, <1>2, <1>5, <2>2 DEF OnLine, Within
<1>6. CASE ay # by
  <2>1. ax = bx
    BY <1>4, <1>6
  <2>2. orientation(line.a, line.b, q) = (by - ay) * (x - bx)
    BY <1>3, <2>1
  <2>3. x = bx => orientation(line.a, line.b, q) = 0
    BY <2>2
  <2>. QED
    BY <1>1, <1>2, <1>6, <2>1, <2>3 DEF OnLine, Within
<1>. QED
  BY <1>5, <1>6

\* The place on a line along an axis that the pointer is drawn to is the nearest of
\* its points.
LEMMA ClosestOnLine ==
    ASSUME NEW p \in Points, NEW line, Upright(line)
    PROVE  /\ closestPointOnSegment(p, line.a, line.b) \in Points
           /\ OnLine(closestPointOnSegment(p, line.a, line.b), line)
           /\ \A q \in Points : OnLine(q, line) =>
                Between2(p, closestPointOnSegment(p, line.a, line.b)) <= Between2(p, q)
<1>1. PICK ax \in Int, ay \in Int, bx \in Int, by \in Int, x \in Int, y \in Int :
          /\ ax = line.a.x /\ ay = line.a.y /\ bx = line.b.x /\ by = line.b.y
          /\ x = p.x /\ y = p.y
  BY DEF Upright, Points
<1>2. PICK c : c = closestPointOnSegment(p, line.a, line.b)
  OBVIOUS
<1>3. PICK den, along, t : /\ den = (bx - ax) * (bx - ax) + (by - ay) * (by - ay)
                           /\ along = (x - ax) * (bx - ax) + (y - ay) * (by - ay)
                           /\ t = Max({0, Min({den, along})})
  OBVIOUS
<1>4. c = IF den = 0 THEN line.a
          ELSE [x |-> ax + ((bx - ax) * t) \div den, y |-> ay + ((by - ay) * t) \div den]
  BY <1>1, <1>2, <1>3 DEF closestPointOnSegment, Between2, At
<1>5. ax = bx \/ ay = by
  BY <1>1 DEF Upright
\* It suffices to give its place along the axis.
<1>6. ASSUME ay = by, NEW u \in Int, c = [x |-> ax + u, y |-> ay], Clamped(u, x - ax, bx - ax)
      PROVE  c \in Points /\ OnLine(c, line) /\ \A q \in Points : OnLine(q, line) => Between2(p, c) <= Between2(p, q)
  <2>1. c \in Points /\ c.x - ax = u /\ c.x = ax + u /\ c.y = ay
    BY <1>6 DEF Points
  <2>2. OnLine(c, line)
    BY <1>1, <1>6, <2>1, OnUpright DEF Clamped
  <2>3. ASSUME NEW q \in Points, OnLine(q, line) PROVE Between2(p, c) <= Between2(p, q)
    <3>1. PICK v \in Int : v = q.x - ax /\ q.x = ax + v /\ q.y = ay
      <4>1. q.x \in Int /\ q.y = ay
        BY <1>1, <1>6, <2>3, OnUpright DEF Points
      <4>. QED
        BY <4>1
    <3>2. Within(v, bx - ax)
      BY <1>1, <1>6, <2>3, <3>1, OnUpright
    <3>3. PICK e \in Int : e = x - ax
      OBVIOUS
    <3>4. Magnitude(u - e) <= Magnitude(v - e)
      BY <1>6, <3>2, <3>3 DEF Clamped
    <3>5. PICK m \in Int, n \in Int, w \in Int : m = u - e /\ n = v - e /\ w = ay - y
      OBVIOUS
    <3>6. m * m <= n * n
      BY <3>4, <3>5, SquareOrder
    <3>7. (ax + u) - x = m /\ (ax + v) - x = n
      BY <3>3, <3>5
    <3>8. Between2(p, c) = m * m + w * w /\ Between2(p, q) = n * n + w * w
      BY <1>1, <2>1, <3>1, <3>5, <3>7 DEF Between2
    <3>9. m * m \in Int /\ n * n \in Int /\ w * w \in Int
      OBVIOUS
    <3>. QED
      BY <3>6, <3>8, <3>9
  <2>. QED
    BY <2>1, <2>2, <2>3
<1>7. ASSUME ay # by, NEW u \in Int, c = [x |-> ax, y |-> ay + u], Clamped(u, y - ay, by - ay)
      PROVE  c \in Points /\ OnLine(c, line) /\ \A q \in Points : OnLine(q, line) => Between2(p, c) <= Between2(p, q)
  <2>1. c \in Points /\ c.y - ay = u /\ c.y = ay + u /\ c.x = ax
    BY <1>7 DEF Points
  <2>2. OnLine(c, line)
    BY <1>1, <1>7, <2>1, OnUpright DEF Clamped
  <2>3. ASSUME NEW q \in Points, OnLine(q, line) PROVE Between2(p, c) <= Between2(p, q)
    <3>1. PICK v \in Int : v = q.y - ay /\ q.y = ay + v /\ q.x = ax
      <4>1. q.y \in Int /\ q.x = ax
        BY <1>1, <1>7, <2>3, OnUpright DEF Points
      <4>. QED
        BY <4>1
    <3>2. Within(v, by - ay)
      BY <1>1, <1>7, <2>3, <3>1, OnUpright
    <3>3. PICK e \in Int : e = y - ay
      OBVIOUS
    <3>4. Magnitude(u - e) <= Magnitude(v - e)
      BY <1>7, <3>2, <3>3 DEF Clamped
    <3>5. PICK m \in Int, n \in Int, w \in Int : m = u - e /\ n = v - e /\ w = ax - x
      OBVIOUS
    <3>6. m * m <= n * n
      BY <3>4, <3>5, SquareOrder
    <3>7. (ay + u) - y = m /\ (ay + v) - y = n
      BY <3>3, <3>5
    <3>8. Between2(p, c) = w * w + m * m /\ Between2(p, q) = w * w + n * n
      BY <1>1, <2>1, <3>1, <3>5, <3>7 DEF Between2
    <3>9. m * m \in Int /\ n * n \in Int /\ w * w \in Int
      OBVIOUS
    <3>. QED
      BY <3>6, <3>8, <3>9
  <2>. QED
    BY <2>1, <2>2, <2>3
\* A line of one point.
<1>8. CASE ay = by /\ ax = bx
  <2>1. den = 0
    BY <1>3, <1>8
  <2>2. c = line.a
    BY <1>4, <2>1
  <2>3. c = [x |-> ax + 0, y |-> ay]
    BY <1>1, <2>2 DEF Upright, Points
  <2>4. Clamped(0, x - ax, bx - ax)
    <3>1. bx - ax = 0 /\ x - ax \in Int
      BY <1>8
    <3>2. Within(0, bx - ax) /\ \A n \in Int : Within(n, bx - ax) => n = 0
      BY <3>1 DEF Within
    <3>. QED
      BY <3>1, <3>2 DEF Clamped, Magnitude
  <2>. QED
    BY <1>2, <1>6, <1>8, <2>3, <2>4
\* A line along either axis.
<1>9. CASE ay = by /\ ax # bx
  <2>1. PICK d \in Int, e \in Int : d = bx - ax /\ e = x - ax /\ d # 0
    BY <1>9
  <2>2. den = d * d /\ along = e * d /\ den # 0
    <3>1. den = d * d + 0 * 0 /\ along = e * d + (y - ay) * 0
      BY <1>3, <1>9, <2>1
    <3>2. d * d # 0 /\ d * d \in Int /\ e * d \in Int
      BY <2>1, SquareNat
    <3>. QED
      BY <3>1, <3>2
  <2>3. PICK u : u = (d * Max({0, Min({d * d, e * d})})) \div (d * d)
    OBVIOUS
  <2>4. u \in Int /\ Clamped(u, e, d)
    BY <2>1, <2>3, ClampedPlace DEF Clamped
  <2>5. c = [x |-> ax + (d * t) \div den, y |-> ay + ((by - ay) * t) \div den]
    BY <1>4, <2>1, <2>2
  <2>6. ((by - ay) * t) \div den = 0
    <3>1. den \in Nat \ {0} /\ t \in Int
      <4>1. den \in Nat /\ along \in Int
        BY <2>2, SquareNat
      <4>2. PICK m \in Int : m = Min({den, along})
        BY <4>1, MinOfTwo
      <4>3. Max({0, m}) \in Int
        BY <4>2, MaxOfTwo
      <4>. QED
        BY <1>3, <2>2, <4>1, <4>2, <4>3
    <3>2. (by - ay) * t = 0 * den
      BY <1>9, <3>1
    <3>. QED
      BY <3>1, <3>2, DivExact
  <2>7. c = [x |-> ax + u, y |-> ay]
    <3>1. (d * t) \div den = u
      BY <1>3, <2>2, <2>3
    <3>2. ay + 0 = ay
      OBVIOUS
    <3>. QED
      BY <2>5, <2>6, <3>1, <3>2
  <2>. QED
    BY <1>2, <1>6, <1>9, <2>1, <2>4, <2>7
<1>10. CASE ay # by
  <2>1. PICK d \in Int, e \in Int : d = by - ay /\ e = y - ay /\ d # 0
    BY <1>10
  <2>2. den = d * d /\ along = e * d /\ den # 0
    <3>1. den = 0 * 0 + d * d /\ along = (x - ax) * 0 + e * d
      BY <1>3, <1>5, <1>10, <2>1
    <3>2. d * d # 0 /\ d * d \in Int /\ e * d \in Int
      BY <2>1, SquareNat
    <3>. QED
      BY <3>1, <3>2
  <2>3. PICK u : u = (d * Max({0, Min({d * d, e * d})})) \div (d * d)
    OBVIOUS
  <2>4. u \in Int /\ Clamped(u, e, d)
    BY <2>1, <2>3, ClampedPlace DEF Clamped
  <2>5. c = [x |-> ax + ((bx - ax) * t) \div den, y |-> ay + (d * t) \div den]
    BY <1>4, <2>1, <2>2
  <2>6. ((bx - ax) * t) \div den = 0
    <3>1. den \in Nat \ {0} /\ t \in Int
      <4>1. den \in Nat /\ along \in Int
        BY <2>2, SquareNat
      <4>2. PICK m \in Int : m = Min({den, along})
        BY <4>1, MinOfTwo
      <4>3. Max({0, m}) \in Int
        BY <4>2, MaxOfTwo
      <4>. QED
        BY <1>3, <2>2, <4>1, <4>2, <4>3
    <3>2. (bx - ax) * t = 0 * den
      BY <1>5, <1>10, <3>1
    <3>. QED
      BY <3>1, <3>2, DivExact
  <2>7. c = [x |-> ax, y |-> ay + u]
    <3>1. (d * t) \div den = u
      BY <1>3, <2>2, <2>3
    <3>2. ax + 0 = ax
      OBVIOUS
    <3>. QED
      BY <2>5, <2>6, <3>1, <3>2
  <2>. QED
    BY <1>2, <1>7, <1>10, <2>1, <2>4, <2>7
<1>. QED
  BY <1>8, <1>9, <1>10

\* Rounding ends on the grid, half a step away at most.
LEMMA RoundNearest ==
    ASSUME NEW v \in Int, NEW step \in Nat \ {0}
    PROVE  /\ RoundTo(v, step) \in Int /\ RoundTo(v, step) % step = 0
           /\ 2 * Magnitude(RoundTo(v, step) - v) <= step
<1>1. PICK q \in Int, r \in Int : /\ q = (2 * v + step) \div (2 * step)
                                  /\ 2 * v + step = q * (2 * step) + r
                                  /\ 0 <= r /\ r < 2 * step
  <2>1. 2 * v + step \in Int /\ 2 * step \in Nat \ {0}
    OBVIOUS
  <2>. QED
    BY <2>1, DivMod
<1>2. PICK e \in Int : e = q * step
  OBVIOUS
<1>3. RoundTo(v, step) = e
  BY <1>1, <1>2 DEF RoundTo
<1>4. e % step = 0
  BY <1>2, MultipleMod
<1>5. q * (2 * step) = 2 * e
  BY <1>2
<1>6. 2 * (v - e) = r - step
  BY <1>1, <1>5
<1>7. 2 * Magnitude(e - v) <= step
  <2>1. e - v \in Int /\ 2 * (e - v) = step - r
    BY <1>6
  <2>. QED
    BY <1>1, <2>1 DEF Magnitude
<1>. QED
  BY <1>3, <1>4, <1>7

\* The corners that a drawing may join: its own but the last, and others.
LEMMA JoinsAre ==
    ASSUME NEW drawn \in Seq(Points), NEW corners \in Seq(Points)
    PROVE  LET all == SubSeq(drawn, 1, Len(drawn) - 1) \o corners
           IN  /\ \E n \in Nat : DOMAIN all = 1..n
               /\ \A i \in DOMAIN all : all[i] \in Points
               /\ {all[i] : i \in DOMAIN all}
                    = {corners[i] : i \in DOMAIN corners} \cup {drawn[i] : i \in 1..(Len(drawn) - 1)}
<1>1. PICK n \in Nat, m \in Nat : n = Len(drawn) /\ m = Len(corners)
  <2>1. Len(drawn) \in Nat /\ Len(corners) \in Nat
    OBVIOUS
  <2>. QED
    BY <2>1
<1>2. PICK k \in Nat : (n = 0 => k = 0) /\ (n # 0 => k = n - 1)
  <2>1. CASE n = 0
    BY <2>1
  <2>2. CASE n # 0
    <3>1. n - 1 \in Nat
      BY <2>2
    <3>. QED
      BY <2>2, <3>1
  <2>. QED
    BY <2>1, <2>2
<1>3. PICK own : own = SubSeq(drawn, 1, Len(drawn) - 1)
  OBVIOUS
<1>4. \A i \in 1..k : i \in 1..n /\ drawn[i] \in Points
  BY <1>1, <1>2
<1>5. own \in Seq(Points) /\ Len(own) = k /\ \A i \in 1..k : own[i] = drawn[i]
  <2>1. CASE n = 0
    BY <1>1, <1>2, <1>3, <2>1
  <2>2. CASE n # 0
    <3>1. k = n - 1 /\ own = SubSeq(drawn, 1, k)
      BY <1>1, <1>2, <1>3, <2>2
    <3>. QED
      BY <1>1, <1>2, <1>4, <3>1
  <2>. QED
    BY <2>1, <2>2
<1>6. PICK all : all = own \o corners
  OBVIOUS
<1>7. all \in Seq(Points) /\ Len(all) = k + m
  <2>1. \A a, b \in Seq(Points) : a \o b \in Seq(Points) /\ Len(a \o b) = Len(a) + Len(b)
    OBVIOUS
  <2>. QED
    BY <1>1, <1>5, <1>6, <2>1
<1>8. \A i \in 1..(k + m) : all[i] = IF i <= k THEN own[i] ELSE corners[i - k]
  <2>. SUFFICES ASSUME NEW a \in Seq(Points), NEW b \in Seq(Points), NEW j \in 1..(Len(a) + Len(b))
                PROVE  (a \o b)[j] = IF j <= Len(a) THEN a[j] ELSE b[j - Len(a)]
    BY <1>1, <1>5, <1>6
  <2>. QED
    OBVIOUS
<1>9. DOMAIN all = 1..(k + m) /\ k + m \in Nat /\ DOMAIN corners = 1..m
  BY <1>1, <1>7
<1>10. \A i \in DOMAIN all : all[i] \in Points
  BY <1>7
<1>11. 1..(Len(drawn) - 1) = 1..k
  BY <1>1, <1>2
<1>12. ASSUME NEW i \in DOMAIN all
       PROVE  all[i] \in {corners[j] : j \in DOMAIN corners} \cup {drawn[j] : j \in 1..k}
  <2>1. CASE i <= k
    BY <1>5, <1>8, <1>9, <2>1
  <2>2. CASE ~(i <= k)
    <3>1. i - k \in 1..m
      BY <1>9, <2>2
    <3>2. all[i] = corners[i - k]
      BY <1>8, <1>9, <2>2
    <3>. QED
      BY <1>9, <3>1, <3>2
  <2>. QED
    BY <2>1, <2>2
<1>13. ASSUME NEW j \in DOMAIN corners PROVE corners[j] \in {all[i] : i \in DOMAIN all}
  <2>1. j + k \in 1..(k + m) /\ ~(j + k <= k) /\ (j + k) - k = j
    BY <1>9
  <2>2. all[j + k] = corners[j]
    BY <1>8, <2>1
  <2>. QED
    BY <1>9, <2>1, <2>2
<1>14. ASSUME NEW j \in 1..k PROVE drawn[j] \in {all[i] : i \in DOMAIN all}
  <2>1. j \in 1..(k + m) /\ j <= k
    OBVIOUS
  <2>2. all[j] = drawn[j]
    BY <1>5, <1>8, <2>1
  <2>. QED
    BY <1>9, <2>1, <2>2
<1>15. {all[i] : i \in DOMAIN all} = {corners[i] : i \in DOMAIN corners} \cup {drawn[i] : i \in 1..k}
  BY <1>12, <1>13, <1>14
<1>16. \E i \in Nat : DOMAIN all = 1..i
  BY <1>9
<1>. QED
  BY <1>3, <1>6, <1>10, <1>11, <1>15, <1>16

\* The corners a drawing may join, and the points it may take on a line.
Joins(drawn, corners) ==
    {corners[i] : i \in DOMAIN corners} \cup {drawn[i] : i \in 1..(Len(drawn) - 1)}
PointsOn(lines) == {q \in Points : \E i \in DOMAIN lines : OnLine(q, lines[i])}

\* Where a drawing goes without Shift: to the nearest corner, if one is in reach;
\* else to the nearest point of the lines, if one is; else onto the grid, no further
\* than half a cell along each axis, or, without it, where the pointer is.
SnapsTo(point, raw, joined, onLines, grid, tolerance, alt) ==
    IF InReach(joined, raw, tolerance.vertex) THEN NearestPlace(joined, raw, point)
    ELSE IF InReach(onLines, raw, tolerance.line) THEN NearestPlace(onLines, raw, point)
    ELSE IF grid.on /\ ~alt
    THEN /\ point \in Points
         /\ point.x % grid.size = 0 /\ point.y % grid.size = 0
         /\ 2 * Magnitude(point.x - raw.x) <= grid.size
         /\ 2 * Magnitude(point.y - raw.y) <= grid.size
    ELSE point = raw

\* Where it goes with Shift: to the same corner, or straight over or beside the last
\* point, whichever is nearer to where it went without.
KeptStraight(point, free, raw, drawn, joined, tolerance) ==
    IF drawn = << >> \/ InReach(joined, raw, tolerance.vertex) THEN point = free
    ELSE NearestPlace(Straight(Last(drawn), free), free, point)

\* What a drawing is made with: lines along the axes, a grid of steps, two tolerances.
LinesUpright(m, lines) == DOMAIN lines = 1..m /\ \A i \in 1..m : Upright(lines[i])
GridGiven(grid) == grid.on \in BOOLEAN /\ grid.size \in Nat \ {0}
Tolerant(tolerance) == tolerance.vertex \in Nat /\ tolerance.line \in Nat

\* The point drawn next is one SnapsTo allows, and with Shift one KeptStraight does.
SnapsRight(raw, drawn, corners, lines, grid, tolerance, alt) ==
    LET free == resolveDrawPoint(raw, drawn, corners, lines, grid, tolerance, FALSE, alt).point
        kept == resolveDrawPoint(raw, drawn, corners, lines, grid, tolerance, TRUE, alt).point
    IN /\ SnapsTo(free, raw, Joins(drawn, corners), PointsOn(lines), grid, tolerance, alt)
       /\ KeptStraight(kept, free, raw, drawn, Joins(drawn, corners), tolerance)

\* The straight place the code takes is the nearer of the two.
LEMMA StraightNearest ==
    ASSUME NEW from \in Points, NEW p \in Points
    PROVE  NearestPlace(Straight(from, p), p, orthogonalPoint(from, p))
<1>1. PICK u \in Int, v \in Int : u = p.x - from.x /\ v = p.y - from.y
  BY DEF Points
<1>2. /\ Between2(p, At(p.x, from.y)) = v * v
      /\ Between2(p, At(from.x, p.y)) = u * u
  <2>1. /\ p.x - p.x = 0 /\ p.y - p.y = 0
        /\ (from.y - p.y) * (from.y - p.y) = v * v /\ (from.x - p.x) * (from.x - p.x) = u * u
    <3>1. p.x \in Int /\ p.y \in Int /\ from.x \in Int /\ from.y \in Int
      BY DEF Points
    <3>2. from.y - p.y = -v /\ from.x - p.x = -u
      BY <1>1, <3>1
    <3>3. (-v) * (-v) = v * v /\ (-u) * (-u) = u * u
      OBVIOUS
    <3>. QED
      BY <3>1, <3>2, <3>3
  <2>2. Between2(p, At(p.x, from.y))
          = (p.x - p.x) * (p.x - p.x) + (from.y - p.y) * (from.y - p.y)
    BY DEF Between2, At
  <2>3. Between2(p, At(from.x, p.y))
          = (from.x - p.x) * (from.x - p.x) + (p.y - p.y) * (p.y - p.y)
    BY DEF Between2, At
  <2>4. u * u \in Int /\ v * v \in Int
    OBVIOUS
  <2>. QED
    BY <2>1, <2>2, <2>3, <2>4
<1>3. CASE Magnitude(u) >= Magnitude(v)
  <2>1. orthogonalPoint(from, p) = At(p.x, from.y)
    BY <1>1, <1>3 DEF orthogonalPoint
  <2>2. v * v <= u * u
    <3>1. Magnitude(v) <= Magnitude(u)
      BY <1>3 DEF Magnitude
    <3>. QED
      BY <3>1, SquareOrder
  <2>. QED
    BY <1>2, <2>1, <2>2 DEF NearestPlace, Straight
<1>4. CASE ~(Magnitude(u) >= Magnitude(v))
  <2>1. orthogonalPoint(from, p) = At(from.x, p.y)
    BY <1>1, <1>4 DEF orthogonalPoint
  <2>2. u * u <= v * v
    <3>1. Magnitude(u) <= Magnitude(v)
      BY <1>4 DEF Magnitude
    <3>. QED
      BY <3>1, SquareOrder
  <2>. QED
    BY <1>2, <2>1, <2>2 DEF NearestPlace, Straight
<1>. QED
  BY <1>3, <1>4

\* The next point of a drawing joins the nearest corner in reach, its own among
\* them; else it lies on a line in reach, at its nearest point; else on the grid,
\* half a step away at most, or where the pointer is.  With Shift it is the same
\* corner, or the place straight over or beside the last point that is nearer to
\* the one without: for any drawing, corners, grid and tolerances, and any lines
\* along the axes (resolveDrawPoint, CanvasEditor.jsx).
THEOREM DrawingSnaps ==
    ASSUME NEW raw \in Points, NEW drawn \in Seq(Points), NEW corners \in Seq(Points),
           NEW m \in Nat, NEW lines, LinesUpright(m, lines), NEW grid, GridGiven(grid),
           NEW tolerance, Tolerant(tolerance), NEW alt \in BOOLEAN
    PROVE  SnapsRight(raw, drawn, corners, lines, grid, tolerance, alt)
<1>. USE DEF LinesUpright, GridGiven, Tolerant
<1>. DEFINE all == SubSeq(drawn, 1, Len(drawn) - 1) \o corners
<1>1. all = SubSeq(drawn, 1, Len(drawn) - 1) \o corners
  OBVIOUS
<1>2. PICK joined : joined = Joins(drawn, corners)
  OBVIOUS
<1>3. /\ \E n \in Nat : DOMAIN all = 1..n
      /\ \A i \in DOMAIN all : all[i] \in Points
      /\ {all[i] : i \in DOMAIN all} = joined
  BY <1>2, JoinsAre DEF Joins
<1>. HIDE DEF all
<1>4. PICK n \in Nat : DOMAIN all = 1..n
  BY <1>3
<1>5. PICK on : on = [i \in 1..m |-> closestPointOnSegment(raw, lines[i].a, lines[i].b)]
  OBVIOUS
<1>6. DOMAIN on = 1..m /\ \A i \in 1..m : on[i] \in Points /\ OnLine(on[i], lines[i])
  BY <1>5, ClosestOnLine
<1>7. \A i \in 1..m : \A q \in Points : OnLine(q, lines[i]) => Between2(raw, on[i]) <= Between2(raw, q)
  BY <1>5, ClosestOnLine
<1>8. PICK places : places = PointsOn(lines)
  OBVIOUS
<1>9. /\ \A i \in 1..m : on[i] \in places
      /\ \A q \in places : q \in Points /\ \E i \in 1..m : Between2(raw, on[i]) <= Between2(raw, q)
  <2>1. \A q : q \in places <=> q \in Points /\ \E i \in 1..m : OnLine(q, lines[i])
    BY <1>8 DEF PointsOn
  <2>. QED
    BY <1>6, <1>7, <2>1
<1>10. WithinReach(raw, all, tolerance.vertex) <=> InReach(joined, raw, tolerance.vertex)
  BY <1>3 DEF WithinReach, InReach
<1>11. WithinReach(raw, on, tolerance.line) <=> InReach(places, raw, tolerance.line)
  <2>1. ASSUME WithinReach(raw, on, tolerance.line) PROVE InReach(places, raw, tolerance.line)
    BY <1>6, <1>9, <2>1 DEF WithinReach, InReach
  <2>2. ASSUME InReach(places, raw, tolerance.line) PROVE WithinReach(raw, on, tolerance.line)
    <3>1. PICK l \in Nat : l = tolerance.line * tolerance.line
      BY SquareNat
    <3>2. PICK q \in places : Between2(raw, q) <= l
      BY <2>2, <3>1 DEF InReach
    <3>3. PICK i \in 1..m : Between2(raw, on[i]) <= Between2(raw, q)
      BY <1>9
    <3>4. Between2(raw, q) \in Nat /\ Between2(raw, on[i]) \in Nat
      BY <1>6, <1>9, BetweenNat
    <3>5. Between2(raw, on[i]) <= l
      BY <3>2, <3>3, <3>4
    <3>. QED
      BY <1>6, <3>1, <3>5 DEF WithinReach
  <2>. QED
    BY <2>1, <2>2
<1>12. PICK free, kept : /\ free = resolveDrawPoint(raw, drawn, corners, lines, grid, tolerance, FALSE, alt).point
                         /\ kept = resolveDrawPoint(raw, drawn, corners, lines, grid, tolerance, TRUE, alt).point
  OBVIOUS
<1>13. free = IF InReach(joined, raw, tolerance.vertex) THEN NearestTo(raw, all)
              ELSE IF InReach(places, raw, tolerance.line) THEN NearestTo(raw, on)
              ELSE snapPoint(raw, grid, alt)
  <2>1. CASE InReach(joined, raw, tolerance.vertex)
    BY <1>1, <1>5, <1>10, <1>12, <2>1 DEF resolveDrawPoint
  <2>2. CASE ~InReach(joined, raw, tolerance.vertex) /\ InReach(places, raw, tolerance.line)
    BY <1>1, <1>5, <1>10, <1>11, <1>12, <2>2 DEF resolveDrawPoint
  <2>3. CASE ~InReach(joined, raw, tolerance.vertex) /\ ~InReach(places, raw, tolerance.line)
    BY <1>1, <1>5, <1>10, <1>11, <1>12, <2>3 DEF resolveDrawPoint
  <2>. QED
    BY <2>1, <2>2, <2>3
<1>14. kept = IF InReach(joined, raw, tolerance.vertex) \/ drawn = << >> THEN free
              ELSE orthogonalPoint(Last(drawn), free)
  <2>1. CASE InReach(joined, raw, tolerance.vertex)
    BY <1>1, <1>5, <1>10, <1>12, <1>13, <2>1 DEF resolveDrawPoint
  <2>2. CASE ~InReach(joined, raw, tolerance.vertex) /\ InReach(places, raw, tolerance.line)
    BY <1>1, <1>5, <1>10, <1>11, <1>12, <1>13, <2>2 DEF resolveDrawPoint
  <2>3. CASE ~InReach(joined, raw, tolerance.vertex) /\ ~InReach(places, raw, tolerance.line)
    BY <1>1, <1>5, <1>10, <1>11, <1>12, <1>13, <2>3 DEF resolveDrawPoint
  <2>. QED
    BY <2>1, <2>2, <2>3
\* A corner is in reach.
<1>15. ASSUME InReach(joined, raw, tolerance.vertex)
       PROVE  NearestPlace(joined, raw, free) /\ free \in Points
  <2>1. n \in Nat \ {0}
    <3>1. joined # {}
      BY <1>15 DEF InReach
    <3>. QED
      BY <1>3, <1>4, <3>1
  <2>2. PICK i \in 1..n : /\ NearestTo(raw, all) = all[i]
                          /\ \A j \in 1..n : Between2(raw, all[i]) <= Between2(raw, all[j])
    BY <1>3, <1>4, <2>1, NearestPoint
  <2>3. all[i] \in joined /\ \A p \in joined : \E j \in 1..n : p = all[j]
    BY <1>3, <1>4
  <2>. QED
    BY <1>3, <1>4, <1>13, <1>15, <2>2, <2>3 DEF NearestPlace
\* A line is in reach.
<1>16. ASSUME ~InReach(joined, raw, tolerance.vertex), InReach(places, raw, tolerance.line)
       PROVE  NearestPlace(places, raw, free) /\ free \in Points
  <2>1. m \in Nat \ {0}
    <3>1. \E i \in 1..m : TRUE
      BY <1>6, <1>11, <1>16 DEF WithinReach
    <3>. QED
      BY <3>1
  <2>2. PICK i \in 1..m : /\ NearestTo(raw, on) = on[i]
                          /\ \A j \in 1..m : Between2(raw, on[i]) <= Between2(raw, on[j])
    BY <1>6, <2>1, NearestPoint
  <2>3. free = on[i]
    BY <1>13, <1>16, <2>2
  <2>4. ASSUME NEW q \in places PROVE Between2(raw, on[i]) <= Between2(raw, q)
    <3>1. PICK j \in 1..m : Between2(raw, on[j]) <= Between2(raw, q)
      BY <1>9
    <3>2. /\ Between2(raw, q) \in Nat /\ Between2(raw, on[j]) \in Nat
          /\ Between2(raw, on[i]) \in Nat /\ Between2(raw, on[i]) <= Between2(raw, on[j])
      BY <1>6, <1>9, <2>2, BetweenNat
    <3>. QED
      BY <3>1, <3>2
  <2>. QED
    BY <1>6, <1>9, <2>3, <2>4 DEF NearestPlace
\* Nothing is in reach.
<1>17. ASSUME ~InReach(joined, raw, tolerance.vertex), ~InReach(places, raw, tolerance.line)
       PROVE  /\ free \in Points
              /\ IF grid.on /\ ~alt
                 THEN /\ free.x % grid.size = 0 /\ free.y % grid.size = 0
                      /\ 2 * Magnitude(free.x - raw.x) <= grid.size
                      /\ 2 * Magnitude(free.y - raw.y) <= grid.size
                 ELSE free = raw
  <2>1. free = snapPoint(raw, grid, alt)
    BY <1>13, <1>17
  <2>2. raw.x \in Int /\ raw.y \in Int /\ raw = [x |-> raw.x, y |-> raw.y]
    BY DEF Points
  <2>3. CASE grid.on /\ ~alt
    <3>1. PICK u \in Int, w \in Int : u = RoundTo(raw.x, grid.size) /\ w = RoundTo(raw.y, grid.size)
      BY <2>2, RoundNearest
    <3>2. /\ u % grid.size = 0 /\ w % grid.size = 0
          /\ 2 * Magnitude(u - raw.x) <= grid.size /\ 2 * Magnitude(w - raw.y) <= grid.size
      BY <2>2, <3>1, RoundNearest
    <3>3. free = [x |-> u, y |-> w]
      BY <2>1, <2>3, <3>1 DEF snapPoint, snap, At
    <3>4. free \in Points /\ free.x = u /\ free.y = w
      BY <3>3 DEF Points
    <3>. QED
      BY <2>3, <3>2, <3>4
  <2>4. CASE ~(grid.on /\ ~alt)
    <3>1. free = [x |-> raw.x, y |-> raw.y]
      BY <2>1, <2>4 DEF snapPoint, snap, At
    <3>. QED
      BY <2>2, <2>4, <3>1
  <2>. QED
    BY <2>3, <2>4
<1>18. SnapsTo(free, raw, joined, places, grid, tolerance, alt)
  BY <1>15, <1>16, <1>17 DEF SnapsTo
<1>19. KeptStraight(kept, free, raw, drawn, joined, tolerance)
  <2>1. CASE drawn = << >> \/ InReach(joined, raw, tolerance.vertex)
    BY <1>14, <2>1 DEF KeptStraight
  <2>2. CASE ~(drawn = << >> \/ InReach(joined, raw, tolerance.vertex))
    <3>1. PICK last \in Points : last = Last(drawn)
      <4>1. Len(drawn) \in 1..Len(drawn)
        BY <2>2
      <4>2. drawn[Len(drawn)] \in Points
        BY <4>1
      <4>. QED
        BY <4>2 DEF Last
    <3>2. free \in Points
      BY <1>16, <1>17, <2>2
    <3>3. kept = orthogonalPoint(last, free)
      BY <1>14, <2>2, <3>1
    <3>. QED
      BY <2>2, <3>1, <3>2, <3>3, StraightNearest DEF KeptStraight
  <2>. QED
    BY <2>1, <2>2
<1>. QED
  BY <1>2, <1>8, <1>12, <1>18, <1>19 DEF SnapsRight

-----------------------------------------------------------------------------
(***************************************************************************)
(* Snapping what is dragged                                                *)
(***************************************************************************)

\* A best move is within the tolerance and puts a value on a target, as no shorter
\* one does, if any in reach does; if none does, it is none.
MovesLeast(best, values, targets, tolerance) ==
    LET lined == {diff \in Int : Magnitude(diff) <= tolerance /\ \E v \in values : v + diff \in targets}
    IN  IF lined = {} THEN best = 0
        ELSE best \in lined /\ \A diff \in lined : Magnitude(best) <= Magnitude(diff)

\* A best move is of the least length.
LEMMA BestSnap ==
    ASSUME NEW values \in SUBSET Int, NEW targets \in SUBSET Int, NEW tolerance \in Nat,
           NEW best \in bestAxisSnap(values, targets, tolerance)
    PROVE  MovesLeast(best, values, targets, tolerance)
<1>1. PICK diffs : diffs = Snaps(values, targets, tolerance)
  OBVIOUS
<1>2. \A diff \in diffs :
         /\ diff \in Int /\ Magnitude(diff) <= tolerance
         /\ \E v \in values : v + diff \in targets
  <2>1. SUFFICES ASSUME NEW diff \in diffs
                 PROVE  /\ diff \in Int /\ Magnitude(diff) <= tolerance
                        /\ \E v \in values : v + diff \in targets
    OBVIOUS
  <2>2. PICK t \in targets, v \in values : diff = t - v /\ Magnitude(diff) <= tolerance
    BY <1>1, <2>1 DEF Snaps
  <2>3. diff \in Int /\ v + diff = t
    BY <2>2
  <2>. QED
    BY <2>2, <2>3
<1>3. ASSUME NEW diff \in Int, Magnitude(diff) <= tolerance, NEW v \in values, v + diff \in targets
      PROVE  diff \in diffs
  <2>1. diff = (v + diff) - v
    OBVIOUS
  <2>. QED
    BY <1>1, <1>3, <2>1 DEF Snaps
<1>4. diffs = {diff \in Int : Magnitude(diff) <= tolerance /\ \E v \in values : v + diff \in targets}
  BY <1>2, <1>3
<1>5. IF diffs = {} THEN best = 0
      ELSE best \in diffs /\ \A other \in diffs : Magnitude(best) <= Magnitude(other)
  BY <1>1 DEF bestAxisSnap
<1>. QED
  BY <1>4, <1>5 DEF MovesLeast

\* Along one axis, a box moved as asked goes on to where one of its edges or its
\* middle is on a target, the closest such place in reach, or stays.
SettlesClosest(moved, asked, edges, targets, tolerance) ==
    LET lined == {d \in Int : Magnitude(d - asked) <= tolerance /\ \E v \in edges : v + d \in targets}
    IN  IF lined = {} THEN moved = asked
        ELSE moved \in lined /\ \A d \in lined : Magnitude(moved - asked) <= Magnitude(d - asked)

\* A best move of the edges where they were asked to.
LEMMA AxisSettles ==
    ASSUME NEW a \in Int, NEW b \in Int, NEW c \in Int, NEW asked \in Int,
           NEW targets \in SUBSET Int, NEW tolerance \in Nat,
           NEW s \in bestAxisSnap({a + asked, b + asked, c + asked}, targets, tolerance)
    PROVE  SettlesClosest(asked + s, asked, {a, b, c}, targets, tolerance)
<1>. DEFINE values == {a + asked, b + asked, c + asked}
            short == {diff \in Int : Magnitude(diff) <= tolerance /\ \E v \in values : v + diff \in targets}
            lined == {d \in Int : Magnitude(d - asked) <= tolerance /\ \E v \in {a, b, c} : v + d \in targets}
<1>1. MovesLeast(s, values, targets, tolerance)
  <2>1. values \in SUBSET Int
    OBVIOUS
  <2>2. s \in bestAxisSnap(values, targets, tolerance)
    OBVIOUS
  <2>. HIDE DEF values
  <2>. QED
    BY <2>1, <2>2, BestSnap
<1>2. IF short = {} THEN s = 0
      ELSE s \in short /\ \A diff \in short : Magnitude(s) <= Magnitude(diff)
  BY <1>1 DEF MovesLeast
<1>3. \A diff \in Int : diff \in short <=> asked + diff \in lined
  <2>1. ASSUME NEW diff \in Int
        PROVE  /\ (asked + diff) - asked = diff /\ asked + diff \in Int
               /\ \A v \in Int : (v + asked) + diff = v + (asked + diff)
    OBVIOUS
  <2>. QED
    BY <2>1
<1>4. \A d \in Int : d - asked \in Int /\ asked + (d - asked) = d
  OBVIOUS
<1>. HIDE DEF values, short
<1>5. CASE short = {}
  <2>1. lined = {}
    BY <1>3, <1>4, <1>5
  <2>2. asked + s = asked
    BY <1>2, <1>5
  <2>. QED
    BY <2>1, <2>2 DEF SettlesClosest
<1>6. CASE short # {}
  <2>1. s \in short /\ s \in Int
    BY <1>2, <1>6 DEF short
  <2>2. asked + s \in lined
    BY <1>3, <2>1
  <2>3. ASSUME NEW d \in lined PROVE Magnitude((asked + s) - asked) <= Magnitude(d - asked)
    <3>1. d - asked \in short
      BY <1>3, <1>4
    <3>2. Magnitude(s) <= Magnitude(d - asked)
      BY <1>2, <1>6, <3>1
    <3>3. (asked + s) - asked = s
      BY <2>1
    <3>. QED
      BY <3>2, <3>3
  <2>4. lined # {}
    BY <2>2
  <2>. QED
    BY <2>2, <2>3, <2>4 DEF SettlesClosest
<1>. QED
  BY <1>5, <1>6

\* Both axes of a drag; with Alt it follows the pointer.
SnapsClosest(move, dx, dy, bbox, axes, tolerance, alt) ==
    IF alt THEN move.dx = dx /\ move.dy = dy
    ELSE /\ SettlesClosest(move.dx, dx, {bbox.x, bbox.x + bbox.w \div 2, bbox.x + bbox.w},
                           axes.x, tolerance)
         /\ SettlesClosest(move.dy, dy, {bbox.y, bbox.y + bbox.h \div 2, bbox.y + bbox.h},
                           axes.y, tolerance)

\* A dragged box moves from the pointer, along each axis, onto the closest line of
\* its neighbours in reach, with its nearer edge, its middle or its further edge,
\* and stays with the pointer when none is in reach or Alt is held: for any box,
\* lines and tolerance (resolveObjectSnapDelta, CanvasEditor.jsx).
THEOREM DragSnapsClosest ==
    ASSUME NEW dx \in Int, NEW dy \in Int, NEW bbox \in Frames,
           NEW axes, axes.x \in SUBSET Int, axes.y \in SUBSET Int,
           NEW tolerance \in Nat, NEW alt \in BOOLEAN,
           NEW move \in resolveObjectSnapDelta(dx, dy, bbox, axes, tolerance, alt)
    PROVE  SnapsClosest(move, dx, dy, bbox, axes, tolerance, alt)
<1>1. CASE alt
  <2>1. move = [dx |-> dx, dy |-> dy]
    BY <1>1 DEF resolveObjectSnapDelta
  <2>. QED
    BY <1>1, <2>1 DEF SnapsClosest
<1>2. CASE ~alt
  <2>. DEFINE a == bbox.x
              b == bbox.x + bbox.w \div 2
              c == bbox.x + bbox.w
              e == bbox.y
              f == bbox.y + bbox.h \div 2
              g == bbox.y + bbox.h
  <2>1. a \in Int /\ b \in Int /\ c \in Int /\ e \in Int /\ f \in Int /\ g \in Int
    BY DEF Frames
  <2>. DEFINE alongX == bestAxisSnap({a + dx, b + dx, c + dx}, axes.x, tolerance)
              alongY == bestAxisSnap({e + dy, f + dy, g + dy}, axes.y, tolerance)
  <2>2. move \in [dx : {dx + sx : sx \in alongX}, dy : {dy + sy : sy \in alongY}]
    BY <1>2 DEF resolveObjectSnapDelta
  <2>. HIDE DEF alongX, alongY
  <2>3. PICK sx \in alongX, sy \in alongY : move.dx = dx + sx /\ move.dy = dy + sy
    BY <2>2
  <2>. HIDE DEF a, b, c, e, f, g
  <2>4. SettlesClosest(dx + sx, dx, {a, b, c}, axes.x, tolerance)
    BY <2>1, <2>3, AxisSettles DEF alongX
  <2>5. SettlesClosest(dy + sy, dy, {e, f, g}, axes.y, tolerance)
    BY <2>1, <2>3, AxisSettles DEF alongY
  <2>6. /\ SettlesClosest(move.dx, dx, {a, b, c}, axes.x, tolerance)
        /\ SettlesClosest(move.dy, dy, {e, f, g}, axes.y, tolerance)
    BY <2>3, <2>4, <2>5
  <2>. QED
    BY <1>2, <2>6 DEF SnapsClosest, a, b, c, e, f, g
<1>. QED
  BY <1>1, <1>2

\* A question to a drawing.
LEMMA DrawSample ==
    ASSUME NEW s \in Samples \cup {NoSample}, s.kind = "draw"
    PROVE  /\ s.raw \in Points /\ s.drawn \in Seq(Points)
           /\ s.shift \in BOOLEAN /\ s.alt \in BOOLEAN /\ s.snapOn \in BOOLEAN
<1>1. s \in [kind : {"draw"}, raw : {At(x, y) : x, y \in -2..(3 * Side)}, shift : BOOLEAN,
             alt : BOOLEAN, snapOn : BOOLEAN, drawn : {<< >>, <<At(2, 0)>>, <<At(5, 5), At(2, 0)>>}]
  BY DEF Samples, NoSample
<1>2. {At(x, y) : x, y \in -2..(3 * Side)} \subseteq Points
  <2>1. ASSUME NEW x \in -2..(3 * Side), NEW y \in -2..(3 * Side) PROVE At(x, y) \in Points
    <3>1. x \in Int /\ y \in Int
      BY SamplesAssumption
    <3>. QED
      BY <3>1 DEF At, Points
  <2>. QED
    BY <2>1
<1>3. {<< >>, <<At(2, 0)>>, <<At(5, 5), At(2, 0)>>} \subseteq Seq(Points)
  <2>1. PICK p \in Points, q \in Points : p = At(2, 0) /\ q = At(5, 5)
    <3>1. At(2, 0) \in Points /\ At(5, 5) \in Points
      BY DEF At, Points
    <3>. QED
      BY <3>1
  <2>2. << >> \in Seq(Points) /\ <<p>> \in Seq(Points) /\ <<q, p>> \in Seq(Points)
    OBVIOUS
  <2>. QED
    BY <2>1, <2>2
<1>. DEFINE raws == {At(x, y) : x, y \in -2..(3 * Side)}
            drawns == {<< >>, <<At(2, 0)>>, <<At(5, 5), At(2, 0)>>}
<1>4. s \in [kind : {"draw"}, raw : raws, shift : BOOLEAN, alt : BOOLEAN, snapOn : BOOLEAN,
             drawn : drawns]
  BY <1>1
<1>6. raws \subseteq Points /\ drawns \subseteq Seq(Points)
  BY <1>2, <1>3
<1>. HIDE DEF raws, drawns
<1>5. s.raw \in raws /\ s.drawn \in drawns
      /\ s.shift \in BOOLEAN /\ s.alt \in BOOLEAN /\ s.snapOn \in BOOLEAN
  BY <1>4
<1>. QED
  BY <1>5, <1>6

\* A question to a drag.
LEMMA DragSample ==
    ASSUME NEW s \in Samples \cup {NoSample}, s.kind = "drag"
    PROVE  s.dx \in -3..3 /\ s.dy \in -3..3 /\ s.w \in {2, 4} /\ s.alt \in BOOLEAN
<1>1. s \in [kind : {"drag"}, dx : -3..3, dy : -3..3, w : {2, 4}, alt : BOOLEAN]
  BY DEF Samples, NoSample
<1>. QED
  BY <1>1

\* The lines of the samples, and the points on them.
LEMMA SampleLines ==
    /\ DOMAIN DrawLines = 1..2 /\ \A i \in 1..2 : Upright(DrawLines[i])
    /\ OnLines = PointsOn(DrawLines)
<1>1. PICK a \in Points, b \in Points, c \in Points :
          /\ a = At(0, 0) /\ b = At(4, 0) /\ c = At(4, 6)
          /\ a.x = 0 /\ a.y = 0 /\ b.x = 4 /\ b.y = 0 /\ c.x = 4 /\ c.y = 6
  <2>1. /\ At(0, 0) \in Points /\ At(0, 0).x = 0 /\ At(0, 0).y = 0
        /\ At(4, 0) \in Points /\ At(4, 0).x = 4 /\ At(4, 0).y = 0
        /\ At(4, 6) \in Points /\ At(4, 6).x = 4 /\ At(4, 6).y = 6
    BY DEF At, Points
  <2>. QED
    BY <2>1
<1>2. PICK l, k : l = DrawLines[1] /\ k = DrawLines[2]
  OBVIOUS
<1>3. /\ DOMAIN DrawLines = 1..2
      /\ l.a = a /\ l.b = b /\ k.a = b /\ k.b = c
  BY <1>1, <1>2 DEF DrawLines
<1>4. Upright(l) /\ Upright(k)
  BY <1>1, <1>3 DEF Upright
<1>5. ASSUME NEW q \in Points, OnLine(q, l) PROVE q \in [x : -1..5, y : -1..7]
  <2>1. q.y = 0 /\ Within(q.x - 0, 4 - 0)
    BY <1>1, <1>3, <1>4, <1>5, OnUpright
  <2>2. q.x \in Int
    BY DEF Points
  <2>3. q.x \in -1..5 /\ q.y \in -1..7
    BY <2>1, <2>2 DEF Within
  <2>. QED
    BY <2>3 DEF Points
<1>6. ASSUME NEW q \in Points, OnLine(q, k) PROVE q \in [x : -1..5, y : -1..7]
  <2>1. q.x = 4 /\ Within(q.y - 0, 6 - 0)
    BY <1>1, <1>3, <1>4, <1>6, OnUpright
  <2>2. q.y \in Int
    BY DEF Points
  <2>3. q.x \in -1..5 /\ q.y \in -1..7
    BY <2>1, <2>2 DEF Within
  <2>. QED
    BY <2>3 DEF Points
<1>7. [x : -1..5, y : -1..7] \subseteq Points
  BY DEF Points
<1>8. \A i \in 1..2 : DrawLines[i] = l \/ DrawLines[i] = k
  BY <1>2
<1>9. \A q \in Points : (\E i \in DOMAIN DrawLines : OnLine(q, DrawLines[i]))
                          => q \in [x : -1..5, y : -1..7]
  BY <1>3, <1>5, <1>6, <1>8
<1>10. OnLines = PointsOn(DrawLines)
  BY <1>7, <1>9 DEF OnLines, PointsOn
<1>. QED
  BY <1>3, <1>4, <1>8, <1>10

\* A move that goes to the closest target in reach does so of the places the samples
\* look at.
LEMMA SettlesHere ==
    ASSUME NEW from \in Int, NEW size \in Nat, NEW targets \in SUBSET Int, NEW asked \in Int,
           NEW moved,
           SettlesClosest(moved, asked, {from, from + size \div 2, from + size}, targets, 2)
    PROVE  Settles(from, size, targets, asked, moved)
<1>1. PICK h \in Int : h = size \div 2
  OBVIOUS
<1>. DEFINE edges == {from, from + size \div 2, from + size}
            lined == {d \in Int : Magnitude(d - asked) <= 2 /\ \E v \in edges : v + d \in targets}
            near == {d \in (asked - 2)..(asked + 2) :
                       {from + d, from + d + size \div 2, from + d + size} \cap targets # {}}
<1>2. ASSUME NEW d \in Int
      PROVE  /\ Magnitude(d - asked) <= 2 <=> d \in (asked - 2)..(asked + 2)
             /\ (from + h) + d = from + d + h /\ (from + size) + d = from + d + size
  BY DEF Magnitude
<1>3. ASSUME NEW d \in Int
      PROVE  (\E v \in edges : v + d \in targets)
               <=> {from + d, from + d + size \div 2, from + d + size} \cap targets # {}
  BY <1>1, <1>2
<1>4. near = lined
  <2>1. \A d : d \in near => d \in Int
    OBVIOUS
  <2>. QED
    BY <1>2, <1>3, <2>1
<1>5. IF lined = {} THEN moved = asked
      ELSE moved \in lined /\ \A d \in lined : Magnitude(moved - asked) <= Magnitude(d - asked)
  BY DEF SettlesClosest
<1>6. IF near = {} THEN moved = asked
      ELSE moved \in near /\ \A d \in near : Magnitude(moved - asked) <= Magnitude(d - asked)
  BY <1>4, <1>5
<1>. QED
  BY <1>6 DEF Settles

\* In every state a drawing joins the nearest corner in reach, else the nearest
\* point of the lines in reach, else the grid or the pointer, straight with Shift,
\* and what is dragged snaps onto the closest line along both axes
\* (resolveDrawPoint, resolveObjectSnapDelta).
THEOREM SnapAlwaysNearest == Spec => []SnapNearest
<1>1. ASSUME sample \in Samples \cup {NoSample}, sample.kind = "draw" PROVE SnapNearest
  <2>1. /\ sample.raw \in Points /\ sample.drawn \in Seq(Points)
        /\ sample.shift \in BOOLEAN /\ sample.alt \in BOOLEAN /\ sample.snapOn \in BOOLEAN
    BY <1>1, DrawSample
  <2>2. DrawCorners \in Seq(Points)
    BY DEF DrawCorners, At, Points
  <2>3. Tolerance.vertex \in Nat /\ Tolerance.line \in Nat
    BY DEF Tolerance
  <2>4. PICK grid : grid = [on |-> sample.snapOn, size |-> 3]
    OBVIOUS
  <2>5. grid.on = sample.snapOn /\ grid.size = 3 /\ grid.on \in BOOLEAN
    BY <2>1, <2>4
  <2>6. PICK raw \in Points, drawn \in Seq(Points), shift \in BOOLEAN, alt \in BOOLEAN :
            raw = sample.raw /\ drawn = sample.drawn /\ shift = sample.shift /\ alt = sample.alt
    BY <2>1
  <2>7. PICK corners, lines, tolerance, m :
            /\ corners = DrawCorners /\ corners \in Seq(Points)
            /\ lines = DrawLines /\ tolerance = Tolerance /\ m = 2
    BY <2>2
  <2>8. PICK free, kept :
            /\ free = resolveDrawPoint(raw, drawn, corners, lines, grid, tolerance, FALSE, alt).point
            /\ kept = resolveDrawPoint(raw, drawn, corners, lines, grid, tolerance, TRUE, alt).point
    OBVIOUS
  <2>9. PICK joined, places : joined = Joins(drawn, corners) /\ places = PointsOn(lines)
    OBVIOUS
  <2>10. /\ SnapsTo(free, raw, joined, places, grid, tolerance, alt)
         /\ KeptStraight(kept, free, raw, drawn, joined, tolerance)
    <3>1. GridGiven(grid)
      BY <2>5 DEF GridGiven
    <3>2. Tolerant(tolerance)
      BY <2>3, <2>7 DEF Tolerant
    <3>3. m \in Nat
      BY <2>7
    <3>4. LinesUpright(m, lines)
      BY <2>7, SampleLines DEF LinesUpright
    <3>5. corners \in Seq(Points)
      BY <2>7
    <3>6. SnapsRight(raw, drawn, corners, lines, grid, tolerance, alt)
      BY <3>1, <3>2, <3>3, <3>4, <3>5, DrawingSnaps
    <3>. QED
      BY <2>8, <2>9, <3>6 DEF SnapsRight
  <2>11. places = OnLines
    BY <2>7, <2>9, SampleLines
  <2>12. PICK point : point = Drawn(sample, sample.shift)
    OBVIOUS
  <2>13. Drawn(sample, FALSE) = free /\ point = IF shift THEN kept ELSE free
    BY <2>4, <2>6, <2>7, <2>8, <2>12 DEF Drawn
  <2>14. IF InReach(joined, raw, tolerance.vertex) THEN NearestPlace(joined, raw, free)
         ELSE IF InReach(places, raw, tolerance.line) THEN NearestPlace(places, raw, free)
         ELSE IF grid.on /\ ~alt
         THEN /\ free.x % 3 = 0 /\ free.y % 3 = 0
              /\ Magnitude(free.x - raw.x) <= 1 /\ Magnitude(free.y - raw.y) <= 1
         ELSE free = raw
    <3>1. ASSUME free \in Points,
                 2 * Magnitude(free.x - raw.x) <= 3, 2 * Magnitude(free.y - raw.y) <= 3
          PROVE  Magnitude(free.x - raw.x) <= 1 /\ Magnitude(free.y - raw.y) <= 1
      <4>1. free.x - raw.x \in Int /\ free.y - raw.y \in Int
        BY <3>1 DEF Points
      <4>2. \A n \in Int : 2 * Magnitude(n) <= 3 => Magnitude(n) <= 1
        BY DEF Magnitude
      <4>. QED
        BY <3>1, <4>1, <4>2
    <3>. QED
      BY <2>5, <2>10, <3>1 DEF SnapsTo
  <2>15. IF InReach(joined, raw, tolerance.vertex) THEN NearestPlace(joined, raw, point)
         ELSE IF shift /\ drawn # << >> THEN NearestPlace(Straight(Last(drawn), free), free, point)
         ELSE IF InReach(places, raw, tolerance.line) THEN NearestPlace(places, raw, point)
         ELSE IF grid.on /\ ~alt
         THEN /\ point.x % 3 = 0 /\ point.y % 3 = 0
              /\ Magnitude(point.x - raw.x) <= 1 /\ Magnitude(point.y - raw.y) <= 1
         ELSE point = raw
    <3>1. CASE shift /\ ~(drawn = << >> \/ InReach(joined, raw, tolerance.vertex))
      BY <2>10, <2>13, <3>1 DEF KeptStraight
    <3>2. CASE ~(shift /\ ~(drawn = << >> \/ InReach(joined, raw, tolerance.vertex)))
      <4>1. point = free
        BY <2>10, <2>13, <3>2 DEF KeptStraight
      <4>. QED
        BY <2>14, <3>2, <4>1
    <3>. QED
      BY <3>1, <3>2
  <2>16. sample.kind # "drag"
    BY <1>1
  <2>. QED
    BY <2>5, <2>6, <2>7, <2>9, <2>11, <2>12, <2>13, <2>15, <2>16 DEF SnapNearest, Joins
<1>2. ASSUME sample \in Samples \cup {NoSample}, sample.kind = "drag" PROVE SnapNearest
  <2>1. sample.dx \in -3..3 /\ sample.dy \in -3..3 /\ sample.w \in {2, 4} /\ sample.alt \in BOOLEAN
    BY <1>2, DragSample
  <2>2. PICK dx \in Int, dy \in Int, w \in {2, 4}, alt \in BOOLEAN :
            dx = sample.dx /\ dy = sample.dy /\ w = sample.w /\ alt = sample.alt
    BY <2>1
  <2>3. DragAxes.x = {0, 2, 4, 7} /\ DragAxes.y = {0, 1, 2, 6}
    <3>1. Neighbours[1].id = 1 /\ Neighbours[2].id = 2 /\ DOMAIN Neighbours = {1, 2}
      BY DEF Neighbours
    <3>. DEFINE others == {i \in DOMAIN Neighbours : Neighbours[i].id \notin {2}}
                corners == <<At(7, 6)>>
                spansX == {{Neighbours[i].x, Neighbours[i].x + Neighbours[i].w \div 2,
                            Neighbours[i].x + Neighbours[i].w} : i \in others}
                spansY == {{Neighbours[i].y, Neighbours[i].y + Neighbours[i].h \div 2,
                            Neighbours[i].y + Neighbours[i].h} : i \in others}
                pointsX == {corners[i].x : i \in DOMAIN corners}
                pointsY == {corners[i].y : i \in DOMAIN corners}
    <3>2. DragAxes.x = (UNION spansX) \cup pointsX /\ DragAxes.y = (UNION spansY) \cup pointsY
      BY DEF DragAxes, collectDeskSnapAxes
    <3>3. others = {1}
      BY <3>1
    <3>4. DOMAIN corners = {1} /\ corners[1].x = 7 /\ corners[1].y = 6
      BY DEF At
    <3>. HIDE DEF others, corners
    <3>5. /\ Neighbours[1].x = 0 /\ Neighbours[1].w = 4
          /\ Neighbours[1].y = 0 /\ Neighbours[1].h = 2
      BY DEF Neighbours
    <3>6. pointsX = {7} /\ pointsY = {6}
      BY <3>4
    <3>7. spansX = {{0, 2, 4}} /\ spansY = {{0, 1, 2}}
      <4>1. spansX = {{Neighbours[1].x, Neighbours[1].x + Neighbours[1].w \div 2,
                       Neighbours[1].x + Neighbours[1].w}}
        BY <3>3
      <4>2. spansY = {{Neighbours[1].y, Neighbours[1].y + Neighbours[1].h \div 2,
                       Neighbours[1].y + Neighbours[1].h}}
        BY <3>3
      <4>3. 0 + 4 \div 2 = 2 /\ 0 + 4 = 4 /\ 0 + 2 \div 2 = 1 /\ 0 + 2 = 2
        OBVIOUS
      <4>. QED
        BY <3>5, <4>1, <4>2, <4>3
    <3>. HIDE DEF spansX, spansY, pointsX, pointsY
    <3>8. UNION spansX = {0, 2, 4} /\ UNION spansY = {0, 1, 2}
      <4>1. \A S : UNION {S} = S
        OBVIOUS
      <4>. QED
        BY <3>7, <4>1
    <3>9. DragAxes.x = {0, 2, 4} \cup {7} /\ DragAxes.y = {0, 1, 2} \cup {6}
      BY <3>2, <3>6, <3>8
    <3>. QED
      BY <3>9
  <2>4. PICK axes, targetsX, targetsY :
            /\ axes = DragAxes /\ targetsX = {0, 2, 4, 7} /\ targetsY = {0, 1, 2, 6}
            /\ axes.x = targetsX /\ axes.y = targetsY
            /\ targetsX \in SUBSET Int /\ targetsY \in SUBSET Int
    BY <2>3
  <2>5. PICK box \in Frames : box = Box(9, 5, w, 2) /\ box.x = 9 /\ box.w = w /\ box.y = 5 /\ box.h = 2
    <3>1. /\ Box(9, 5, w, 2) \in Frames
          /\ Box(9, 5, w, 2).x = 9 /\ Box(9, 5, w, 2).w = w
          /\ Box(9, 5, w, 2).y = 5 /\ Box(9, 5, w, 2).h = 2
      BY DEF Box, Frames
    <3>. QED
      BY <3>1
  <2>6. SUFFICES ASSUME NEW move \in Dragged(sample)
                 PROVE  IF alt THEN move.dx = dx /\ move.dy = dy
                        ELSE /\ Settles(9, w, targetsX, dx, move.dx)
                             /\ Settles(5, 2, targetsY, dy, move.dy)
    BY <1>2, <2>2, <2>4 DEF SnapNearest
  <2>7. move \in resolveObjectSnapDelta(dx, dy, box, axes, 2, alt)
    BY <2>2, <2>4, <2>5, <2>6 DEF Dragged
  <2>8. SnapsClosest(move, dx, dy, box, axes, 2, alt)
    <3>1. PICK tolerance \in Nat : tolerance = 2
      OBVIOUS
    <3>2. axes.x \in SUBSET Int /\ axes.y \in SUBSET Int
      BY <2>4
    <3>3. move \in resolveObjectSnapDelta(dx, dy, box, axes, tolerance, alt)
      BY <2>7, <3>1
    <3>4. SnapsClosest(move, dx, dy, box, axes, tolerance, alt)
      BY <3>2, <3>3, DragSnapsClosest
    <3>. QED
      BY <3>1, <3>4
  <2>9. CASE alt
    BY <2>8, <2>9 DEF SnapsClosest
  <2>10. CASE ~alt
    <3>1. /\ SettlesClosest(move.dx, dx, {9, 9 + w \div 2, 9 + w}, targetsX, 2)
          /\ SettlesClosest(move.dy, dy, {5, 5 + 2 \div 2, 5 + 2}, targetsY, 2)
      BY <2>4, <2>5, <2>8, <2>10 DEF SnapsClosest
    <3>2. PICK nine \in Int, five \in Int, two \in Nat, size \in Nat :
              nine = 9 /\ five = 5 /\ two = 2 /\ size = w
      OBVIOUS
    <3>3. /\ SettlesClosest(move.dx, dx, {nine, nine + size \div 2, nine + size}, targetsX, 2)
          /\ SettlesClosest(move.dy, dy, {five, five + two \div 2, five + two}, targetsY, 2)
      BY <3>1, <3>2
    <3>4. Settles(nine, size, targetsX, dx, move.dx)
      BY <2>4, <3>3, SettlesHere
    <3>5. Settles(five, two, targetsY, dy, move.dy)
      BY <2>4, <3>3, SettlesHere
    <3>. QED
      BY <2>10, <3>2, <3>4, <3>5
  <2>. QED
    BY <2>9, <2>10
<1>3. ASSUME sample \in Samples \cup {NoSample} PROVE SnapNearest
  BY <1>1, <1>2, <1>3 DEF SnapNearest
<1>. QED
  BY <1>3, SampleStays, PTL

-----------------------------------------------------------------------------
(***************************************************************************)
(* The background                                                          *)
(***************************************************************************)

Transforms == [x : Int, y : Int, w : Nat \ {0}, h : Nat \ {0}, rotation : Int]

\* A side is at least the minimum, and no longer than it must be.
LEMMA AtLeast ==
    ASSUME NEW n \in Int
    PROVE  /\ AtLeastMin(n) \in Nat \ {0}
           /\ AtLeastMin(n) = IF n >= MIN_BACKGROUND_SIZE THEN n ELSE MIN_BACKGROUND_SIZE
<1>1. MIN_BACKGROUND_SIZE \in Nat \ {0}
  BY GeometryAssumption
<1>2. AtLeastMin(n) = IF MIN_BACKGROUND_SIZE >= n THEN MIN_BACKGROUND_SIZE ELSE n
  BY <1>1, MaxOfTwo DEF AtLeastMin
<1>. QED
  BY <1>1, <1>2

\* A side is the minimum, or whole in the proportions w : h.
WholeOrLeast(side, w, h) == side = MIN_BACKGROUND_SIZE \/ (side * h) % w = 0

\* Two sides are in the proportions w : h, unless one is the minimum.
KeptOrLeast(kept, height, w, h) ==
    kept * h = height * w \/ MIN_BACKGROUND_SIZE \in {kept, height}

\* The width of the larger of the scales that give two sides.
KeptWidth(w, h, rawW, rawH) ==
    AtLeastMin(IF rawW * h >= rawH * w THEN rawW ELSE (w * rawH) \div h)

\* Of two sides that are whole in the proportions, or the minimum, the larger
\* scale gives sides in the proportions, or the minimum.
LEMMA ProportionsKept ==
    ASSUME NEW w \in Nat \ {0}, NEW h \in Nat \ {0}, NEW rawW \in Int, NEW rawH \in Int,
           rawW >= MIN_BACKGROUND_SIZE, rawH >= MIN_BACKGROUND_SIZE,
           WholeOrLeast(rawW, w, h), WholeOrLeast(rawH, h, w),
           NEW kept \in Int, kept = KeptWidth(w, h, rawW, rawH),
           NEW height \in Int, height = AtLeastMin((kept * h) \div w)
    PROVE  KeptOrLeast(kept, height, w, h)
<1>1. PICK min \in Nat \ {0} : min = MIN_BACKGROUND_SIZE
  BY GeometryAssumption
<1>2. SUFFICES ASSUME kept # min, height # min PROVE kept * h = height * w
  BY <1>1 DEF KeptOrLeast
<1>7. kept = AtLeastMin(IF rawW * h >= rawH * w THEN rawW ELSE (w * rawH) \div h)
  BY DEF KeptWidth
<1>8. (rawW = min \/ (rawW * h) % w = 0) /\ (rawH = min \/ (w * rawH) % h = 0)
  <2>1. rawH * w = w * rawH
    OBVIOUS
  <2>. QED
    BY <1>1, <2>1 DEF WholeOrLeast
<1>3. PICK s, r \in Int : s = (kept * h) \div w /\ kept * h = s * w + r /\ 0 <= r /\ r < w
  <2>1. PICK n \in Int : n = kept * h
    OBVIOUS
  <2>. QED
    BY <2>1, DivMod
<1>4. height = s /\ s > min
  BY <1>1, <1>2, <1>3, AtLeast
<1>5. CASE rawW * h >= rawH * w
  <2>1. kept = rawW
    BY <1>1, <1>5, <1>7, AtLeast
  <2>2. PICK n \in Int : n = kept * h
    OBVIOUS
  <2>3. n % w = 0
    BY <1>1, <1>2, <1>8, <2>1, <2>2
  <2>4. PICK a \in Int : n = a * w
    BY <2>3, MultipleOf
  <2>5. s = a
    BY <1>3, <2>2, <2>4, DivExact
  <2>. QED
    BY <1>4, <2>2, <2>4, <2>5
<1>6. CASE ~(rawW * h >= rawH * w)
  <2>1. PICK n \in Int : n = w * rawH
    OBVIOUS
  <2>2. PICK q, u \in Int : q = n \div h /\ u = n % h /\ n = q * h + u /\ 0 <= u /\ u < h
    BY DivMod
  <2>3. kept = q
    <3>1. kept = AtLeastMin(q)
      BY <1>6, <1>7, <2>1, <2>2
    <3>. QED
      BY <1>1, <1>2, <3>1, AtLeast
  <2>4. CASE rawH = min
    <3>1. s * w <= min * w
      <4>1. PICK a \in Int, b \in Int, c \in Int : a = s * w /\ b = q * h /\ c = min * w
        BY <1>3
      <4>2. b = a + r
        BY <1>3, <2>3, <4>1
      <4>3. n = c
        <5>1. w * rawH = min * w
          BY <2>4
        <5>. QED
          BY <2>1, <4>1, <5>1
      <4>. QED
        BY <1>3, <2>2, <4>1, <4>2, <4>3
    <3>2. (min + 1) * w <= s * w
      BY <1>3, <1>4, TimesKeeps
    <3>3. (min + 1) * w = min * w + w /\ min * w \in Int /\ s * w \in Int
      BY <1>3
    <3>. QED
      BY <3>1, <3>2, <3>3
  <2>5. CASE rawH # min
    <3>1. u = 0
      BY <1>1, <1>8, <2>1, <2>2, <2>5
    <3>2. kept * h = rawH * w
      BY <2>1, <2>2, <2>3, <3>1
    <3>3. s = rawH
      BY <1>3, <3>2, DivExact
    <3>. QED
      BY <1>4, <3>2, <3>3
  <2>. QED
    BY <2>4, <2>5
<1>. QED
  BY <1>5, <1>6

\* The opposite corner stays and no side is shorter than the minimum.
StaysAnchored(after, orig, corner) ==
    /\ CornerOf(after, Opposite[corner]) = CornerOf(orig, Opposite[corner])
    /\ after.w \in Nat \ {0} /\ after.w >= MIN_BACKGROUND_SIZE
    /\ after.h \in Nat \ {0} /\ after.h >= MIN_BACKGROUND_SIZE

\* The sides are in the proportions of the background, to the whole number the
\* height is cut to.
InProportion(after, orig) ==
    /\ 0 <= after.w * orig.h - after.h * orig.w
    /\ after.w * orig.h - after.h * orig.w < orig.w

\* Pulling a corner of an upright background, wherever to, leaves the opposite
\* corner where it is and no side shorter than the minimum; unless Shift is held
\* or the height is the minimum, the sides are in proportion as nearly as whole
\* numbers allow, and exactly if both pulled sides are whole in the proportions
\* (resizedBackgroundTransform, CanvasEditor.jsx).
THEOREM ResizeAnchors ==
    ASSUME NEW orig \in Transforms, orig.rotation = 0, NEW corner \in DOMAIN Corners,
           NEW p \in Points, NEW free \in BOOLEAN,
           NEW after, after = resizedBackgroundTransform(orig, corner, p, free)
    PROVE  /\ StaysAnchored(after, orig, corner)
           /\ free \/ after.h = MIN_BACKGROUND_SIZE \/ InProportion(after, orig)
           /\ orig.x % 2 = 0 /\ orig.y % 2 = 0 /\ orig.w % 2 = 0 /\ orig.h % 2 = 0
                /\ p.x % 2 = 0 /\ p.y % 2 = 0
                /\ (2 * orig.w) % orig.h = 0 /\ (2 * orig.h) % orig.w = 0
                => free \/ after.w * orig.h = after.h * orig.w
                   \/ MIN_BACKGROUND_SIZE \in {after.w, after.h}
<1>. DEFINE min == MIN_BACKGROUND_SIZE
            sides == Corners[corner]
<1>1. min \in Nat \ {0}
  BY GeometryAssumption
<1>2. PICK x \in Int, y \in Int, w \in Nat \ {0}, h \in Nat \ {0} :
          x = orig.x /\ y = orig.y /\ w = orig.w /\ h = orig.h
  BY DEF Transforms
<1>3. p.x \in Int /\ p.y \in Int
  BY DEF Points
<1>4. inverseRotatePoint(p, orig) = p
  BY DEF inverseRotatePoint, rotatePoint
<1>5. PICK dx \in Int, dy \in Int :
          /\ dx = IF "w" \in sides THEN (x + w) - p.x ELSE p.x - x
          /\ dy = IF "n" \in sides THEN (y + h) - p.y ELSE p.y - y
  BY <1>3
<1>6. PICK rawW \in Nat \ {0}, rawH \in Nat \ {0} : rawW = AtLeastMin(dx) /\ rawH = AtLeastMin(dy)
  BY <1>5, AtLeast
<1>7. PICK kept \in Nat \ {0} :
          kept = AtLeastMin(IF rawW * h >= rawH * w THEN rawW ELSE (w * rawH) \div h)
  <2>1. rawW \in Int /\ (w * rawH) \div h \in Int
    <3>1. w * rawH \in Int
      BY <1>2, <1>6
    <3>2. PICK q \in Int : q = (w * rawH) \div h
      BY <3>1, DivMod
    <3>. QED
      BY <3>2
  <2>. QED
    BY <2>1, AtLeast
<1>8. PICK s, r \in Int : s = (kept * h) \div w /\ kept * h = s * w + r /\ 0 <= r /\ r < w
  <2>1. PICK n \in Int : n = kept * h
    BY <1>2, <1>7
  <2>. QED
    BY <1>2, <2>1, DivMod
<1>9. PICK height \in Nat \ {0} : height = AtLeastMin(s)
  BY <1>8, AtLeast
<1>10. PICK nw \in Nat \ {0}, nh \in Nat \ {0} :
           nw = (IF free THEN rawW ELSE kept) /\ nh = (IF free THEN rawH ELSE height)
  BY <1>6, <1>7, <1>9
<1>11. after = [orig EXCEPT !.x = IF "w" \in sides THEN (x + w) - nw ELSE @,
                            !.y = IF "n" \in sides THEN (y + h) - nh ELSE @,
                            !.w = nw, !.h = nh]
  BY <1>2, <1>4, <1>5, <1>6, <1>7, <1>8, <1>9, <1>10 DEF resizedBackgroundTransform
<1>12. /\ after.x = IF "w" \in sides THEN (x + w) - nw ELSE x
       /\ after.y = IF "n" \in sides THEN (y + h) - nh ELSE y
       /\ after.w = nw /\ after.h = nh
  BY <1>2, <1>11 DEF Transforms
<1>13. nw >= min /\ nh >= min
  BY <1>1, <1>5, <1>6, <1>7, <1>8, <1>9, <1>10, AtLeast
<1>14. StaysAnchored(after, orig, corner)
  <2>1. CornerOf(after, Opposite[corner]) = CornerOf(orig, Opposite[corner])
    <3>1. /\ "w" \in Opposite[corner] <=> ~("w" \in sides)
          /\ "n" \in Opposite[corner] <=> ~("n" \in sides)
      BY DEF Opposite, Corners
    <3>2. /\ "w" \in sides => after.x + after.w = orig.x + orig.w
          /\ ~("w" \in sides) => after.x = orig.x
          /\ "n" \in sides => after.y + after.h = orig.y + orig.h
          /\ ~("n" \in sides) => after.y = orig.y
      BY <1>2, <1>10, <1>12
    <3>. QED
      BY <3>1, <3>2 DEF CornerOf
  <2>. QED
    BY <1>10, <1>12, <1>13, <2>1 DEF StaysAnchored
<1>15. free \/ after.h = min \/ InProportion(after, orig)
  <2>1. SUFFICES ASSUME ~free, nh # min PROVE InProportion(after, orig)
    BY <1>12
  <2>2. nw = kept /\ nh = height /\ height = s
    BY <1>8, <1>9, <1>10, <2>1, AtLeast
  <2>3. after.w * orig.h = kept * h /\ after.h * orig.w = s * w
    BY <1>2, <1>12, <2>2
  <2>4. kept * h \in Int /\ s * w \in Int
    BY <1>2, <1>7, <1>8
  <2>. QED
    BY <1>2, <1>8, <2>3, <2>4 DEF InProportion
<1>16. ASSUME x % 2 = 0, y % 2 = 0, w % 2 = 0, h % 2 = 0, p.x % 2 = 0, p.y % 2 = 0,
              (2 * w) % h = 0, (2 * h) % w = 0, ~free
       PROVE  nw * h = nh * w \/ min \in {nw, nh}
  <2>1. PICK m \in Int, n \in Int : dx = 2 * m /\ dy = 2 * n
    <3>1. \A i \in Int : i % 2 = 0 => \E k \in Int : i = k * 2
      BY MultipleOf
    <3>2. PICK px \in Int, py \in Int : px = p.x /\ py = p.y /\ px % 2 = 0 /\ py % 2 = 0
      BY <1>3, <1>16
    <3>3. PICK a \in Int : x = a * 2
      BY <1>16, <3>1
    <3>6. PICK b \in Int : y = b * 2
      BY <1>16, <3>1
    <3>7. PICK c \in Int : w = c * 2
      BY <1>16, <3>1
    <3>8. PICK d \in Int : h = d * 2
      BY <1>16, <3>1
    <3>9. PICK e \in Int : p.x = e * 2
      BY <3>1, <3>2
    <3>10. PICK f \in Int : p.y = f * 2
      BY <3>1, <3>2
    <3>4. \E m \in Int : dx = 2 * m
      <4>1. CASE "w" \in sides
        <5>1. dx = 2 * ((a + c) - e)
          BY <1>5, <3>3, <3>7, <3>9, <4>1
        <5>. QED
          BY <5>1
      <4>2. CASE ~("w" \in sides)
        <5>1. dx = 2 * (e - a) /\ e - a \in Int
          BY <1>5, <3>3, <3>9, <4>2
        <5>. QED
          BY <5>1
      <4>. QED
        BY <4>1, <4>2
    <3>5. \E n \in Int : dy = 2 * n
      <4>1. CASE "n" \in sides
        <5>1. dy = 2 * ((b + d) - f)
          BY <1>5, <3>6, <3>8, <3>10, <4>1
        <5>. QED
          BY <5>1
      <4>2. CASE ~("n" \in sides)
        <5>1. dy = 2 * (f - b) /\ f - b \in Int
          BY <1>5, <3>6, <3>10, <4>2
        <5>. QED
          BY <5>1
      <4>. QED
        BY <4>1, <4>2
    <3>. QED
      BY <3>4, <3>5
  <2>2. (dx * h) % w = 0
    <3>1. PICK k \in Int : 2 * h = k * w
      <4>1. PICK i \in Int : i = 2 * h
        BY <1>2
      <4>. QED
        BY <1>2, <1>16, <4>1, MultipleOf
    <3>2. dx * h = m * (2 * h)
      BY <1>2, <2>1
    <3>3. dx * h = (m * k) * w /\ m * k \in Int
      BY <1>2, <2>1, <3>1, <3>2
    <3>. QED
      BY <1>2, <3>3, MultipleMod
  <2>3. (w * dy) % h = 0
    <3>1. PICK k \in Int : 2 * w = k * h
      <4>1. PICK i \in Int : i = 2 * w
        BY <1>2
      <4>. QED
        BY <1>2, <1>16, <4>1, MultipleOf
    <3>2. w * dy = n * (2 * w)
      BY <1>2, <2>1
    <3>3. w * dy = (n * k) * h /\ n * k \in Int
      BY <1>2, <2>1, <3>1, <3>2
    <3>. QED
      BY <1>2, <3>3, MultipleMod
  <2>4. rawW >= MIN_BACKGROUND_SIZE /\ rawH >= MIN_BACKGROUND_SIZE
    BY <1>1, <1>5, <1>6, AtLeast
  <2>5. WholeOrLeast(rawW, w, h) /\ WholeOrLeast(rawH, h, w)
    <3>1. (rawW = MIN_BACKGROUND_SIZE \/ rawW = dx) /\ (rawH = MIN_BACKGROUND_SIZE \/ rawH = dy)
      BY <1>1, <1>5, <1>6, AtLeast
    <3>2. dy * h \in Int /\ w * dy = dy * w
      BY <1>2, <1>5
    <3>. QED
      BY <2>2, <2>3, <3>1, <3>2 DEF WholeOrLeast
  <2>6. kept = KeptWidth(w, h, rawW, rawH) /\ height = AtLeastMin((kept * h) \div w)
    BY <1>7, <1>8, <1>9 DEF KeptWidth
  <2>7. kept \in Int /\ height \in Int /\ rawW \in Int /\ rawH \in Int
    OBVIOUS
  <2>8. KeptOrLeast(kept, height, w, h)
    BY <2>4, <2>5, <2>6, <2>7, ProportionsKept
  <2>. QED
    BY <1>10, <1>16, <2>8 DEF KeptOrLeast
<1>. QED
  BY <1>2, <1>12, <1>14, <1>15, <1>16

\* Scaling the background, by any factor, keeps its centre and no side shorter
\* than the minimum (scaledBackgroundTransform, CanvasEditor.jsx).
THEOREM ScaleKeepsCentre ==
    ASSUME NEW orig \in Transforms, NEW num \in Nat, NEW den \in Nat \ {0},
           NEW after, after = scaledBackgroundTransform(orig, num, den)
    PROVE  /\ backgroundCenter(after) = backgroundCenter(orig)
           /\ after.w \in Nat \ {0} /\ after.w >= MIN_BACKGROUND_SIZE
           /\ after.h \in Nat \ {0} /\ after.h >= MIN_BACKGROUND_SIZE
<1>1. PICK cx \in Int, cy \in Int : backgroundCenter(orig) = [x |-> cx, y |-> cy]
  <2>1. orig.x + orig.w \div 2 \in Int /\ orig.y + orig.h \div 2 \in Int
    BY DEF Transforms
  <2>. QED
    BY <2>1 DEF backgroundCenter, At
<1>2. PICK a \in Int, b \in Int : a = (orig.w * num) \div den /\ b = (orig.h * num) \div den
  <2>1. orig.w * num \in Int /\ orig.h * num \in Int
    BY DEF Transforms
  <2>2. \A n \in Int : n \div den \in Int
    OBVIOUS
  <2>. QED
    BY <2>1, <2>2
<1>3. PICK w \in Nat \ {0}, h \in Nat \ {0} : w = AtLeastMin(a) /\ h = AtLeastMin(b)
  BY <1>2, AtLeast
<1>4. after = [orig EXCEPT !.x = cx - w \div 2, !.y = cy - h \div 2, !.w = w, !.h = h]
  <2>1. /\ backgroundCenter(orig).x = cx /\ backgroundCenter(orig).y = cy
    BY <1>1
  <2>. QED
    BY <1>2, <1>3, <2>1 DEF scaledBackgroundTransform
<1>5. after.x = cx - w \div 2 /\ after.y = cy - h \div 2 /\ after.w = w /\ after.h = h
  BY <1>4 DEF Transforms
<1>6. w >= MIN_BACKGROUND_SIZE /\ h >= MIN_BACKGROUND_SIZE
  BY <1>2, <1>3, AtLeast, GeometryAssumption
<1>7. backgroundCenter(after) = [x |-> cx, y |-> cy]
  <2>1. (cx - w \div 2) + w \div 2 = cx /\ (cy - h \div 2) + h \div 2 = cy
    BY <1>3
  <2>. QED
    BY <1>5, <2>1 DEF backgroundCenter, At
<1>. QED
  BY <1>1, <1>3, <1>5, <1>6, <1>7

\* A question about the background.
LEMMA BackgroundSample ==
    ASSUME NEW s \in Samples \cup {NoSample}
    PROVE  /\ s.kind = "resize" => /\ s.t \in Backgrounds /\ s.corner \in DOMAIN Corners
                                   /\ s.p \in Points /\ s.p.x % 2 = 0 /\ s.p.y % 2 = 0
                                   /\ s.free \in BOOLEAN
           /\ s.kind = "scale" => s.t \in Backgrounds /\ s.num \in {1, 2, 4}
<1>1. ASSUME s.kind = "scale" PROVE s.t \in Backgrounds /\ s.num \in {1, 2, 4}
  <2>1. s \in [kind : {"scale"}, t : Backgrounds, num : {1, 2, 4}]
    BY <1>1 DEF Samples, NoSample
  <2>. QED
    BY <2>1
<1>2. ASSUME s.kind = "resize"
      PROVE  /\ s.t \in Backgrounds /\ s.corner \in DOMAIN Corners
             /\ s.p \in Points /\ s.p.x % 2 = 0 /\ s.p.y % 2 = 0 /\ s.free \in BOOLEAN
  <2>. DEFINE pulled == {At(2 * x, 2 * y) : x, y \in 0..6}
  <2>1. s \in [kind : {"resize"}, t : Backgrounds, corner : DOMAIN Corners, p : pulled, free : BOOLEAN]
    BY <1>2 DEF Samples, NoSample
  <2>2. ASSUME NEW q \in pulled PROVE q \in Points /\ q.x % 2 = 0 /\ q.y % 2 = 0
    <3>1. PICK x \in 0..6, y \in 0..6 : q = At(2 * x, 2 * y)
      OBVIOUS
    <3>. QED
      BY <3>1 DEF At, Points
  <2>. HIDE DEF pulled
  <2>3. s.p \in pulled /\ s.t \in Backgrounds /\ s.corner \in DOMAIN Corners /\ s.free \in BOOLEAN
    BY <2>1
  <2>. QED
    BY <2>2, <2>3
<1>. QED
  BY <1>1, <1>2

\* In every state a pulled corner leaves the opposite one and keeps the
\* proportions, and scaling keeps the centre (resizedBackgroundTransform,
\* scaledBackgroundTransform).
THEOREM BackgroundAlwaysAnchored == Spec => []BackgroundAnchored
<1>1. Backgrounds \subseteq Transforms
  BY BackgroundsAssumption DEF Transforms
<1>2. ASSUME sample \in Samples \cup {NoSample}, sample.kind = "resize", sample.t.rotation = 0
      PROVE  LET after == resizedBackgroundTransform(sample.t, sample.corner, sample.p, sample.free)
             IN  /\ StaysAnchored(after, sample.t, sample.corner)
                 /\ sample.free \/ after.w * sample.t.h = after.h * sample.t.w
                    \/ MIN_BACKGROUND_SIZE \in {after.w, after.h}
  <2>1. PICK t \in Backgrounds, corner \in DOMAIN Corners, p \in Points, free \in BOOLEAN :
            /\ t = sample.t /\ corner = sample.corner /\ p = sample.p /\ free = sample.free
            /\ p.x % 2 = 0 /\ p.y % 2 = 0
    BY <1>2, BackgroundSample
  <2>2. /\ t \in Transforms /\ t.rotation = 0
        /\ t.x % 2 = 0 /\ t.y % 2 = 0 /\ t.w % 2 = 0 /\ t.h % 2 = 0
        /\ (2 * t.w) % t.h = 0 /\ (2 * t.h) % t.w = 0
    BY <1>1, <1>2, <2>1, BackgroundsAssumption
  <2>3. PICK after : after = resizedBackgroundTransform(t, corner, p, free)
    OBVIOUS
  <2>4. /\ StaysAnchored(after, t, corner)
        /\ free \/ after.w * t.h = after.h * t.w \/ MIN_BACKGROUND_SIZE \in {after.w, after.h}
    BY <2>1, <2>2, <2>3, ResizeAnchors
  <2>. QED
    BY <2>1, <2>3, <2>4
<1>3. ASSUME sample \in Samples \cup {NoSample}, sample.kind = "scale"
      PROVE  LET after == scaledBackgroundTransform(sample.t, sample.num, 2) IN
             /\ backgroundCenter(after) = backgroundCenter(sample.t)
             /\ after.w >= MIN_BACKGROUND_SIZE /\ after.h >= MIN_BACKGROUND_SIZE
  <2>1. PICK t \in Transforms, num \in Nat : t = sample.t /\ num = sample.num
    BY <1>1, <1>3, BackgroundSample
  <2>2. PICK den \in Nat \ {0} : den = 2
    OBVIOUS
  <2>3. PICK after : after = scaledBackgroundTransform(t, num, den)
    OBVIOUS
  <2>4. /\ backgroundCenter(after) = backgroundCenter(t)
        /\ after.w >= MIN_BACKGROUND_SIZE /\ after.h >= MIN_BACKGROUND_SIZE
    BY <2>3, ScaleKeepsCentre
  <2>. QED
    BY <2>1, <2>2, <2>3, <2>4
<1>4. ASSUME sample \in Samples \cup {NoSample} PROVE BackgroundAnchored
  BY <1>2, <1>3, <1>4 DEF BackgroundAnchored, StaysAnchored
<1>. QED
  BY <1>4, SampleStays, PTL

-----------------------------------------------------------------------------
(***************************************************************************)
(* A finite set in order                                                   *)
(***************************************************************************)

\* R[j] are the members of S before j.
StrictOrder(R, S) ==
    /\ \A i \in S : R[i] \in SUBSET S
    /\ \A i, j, k \in S : i \in R[j] /\ j \in R[k] => i \in R[k]
    /\ \A i \in S : i \notin R[i]
    /\ \A i, j \in S : i = j \/ i \in R[j] \/ j \in R[i]

Position(R, i) == Cardinality(R[i])

\* Members of an ordered finite set have positions of their own, ordered as they
\* are, and every position up to their number is taken.
LEMMA Ranking ==
    ASSUME NEW S, IsFiniteSet(S), NEW R, StrictOrder(R, S), NEW n, n = Cardinality(S)
    PROVE  /\ n \in Nat
           /\ \A i \in S : Position(R, i) \in 0..(n - 1)
           /\ \A i, j \in S : i \in R[j] <=> Position(R, i) < Position(R, j)
           /\ \A k \in 1..n : \E i \in S : Position(R, i) = k - 1
<1>1. n \in Nat
  BY FS_CardinalityType
<1>2. ASSUME NEW i \in S
      PROVE  /\ IsFiniteSet(R[i]) /\ Position(R, i) \in 0..(n - 1)
             /\ i \notin R[i]
  <2>1. R[i] \in SUBSET S /\ i \notin R[i]
    BY DEF StrictOrder
  <2>2. R[i] # S
    BY <2>1
  <2>3. /\ IsFiniteSet(R[i])
        /\ Cardinality(R[i]) <= n
        /\ n # Cardinality(R[i])
    BY <2>1, <2>2, FS_Subset
  <2>4. Cardinality(R[i]) \in Nat
    BY <2>3, FS_CardinalityType
  <2>. QED
    BY <1>1, <2>1, <2>3, <2>4 DEF Position
<1>3. ASSUME NEW i \in S, NEW j \in S, i \in R[j]
      PROVE  Position(R, i) < Position(R, j)
  <2>1. R[i] \cup {i} \in SUBSET R[j]
    BY <1>3 DEF StrictOrder
  <2>2. Cardinality(R[i] \cup {i}) = Position(R, i) + 1
    BY <1>2, FS_AddElement DEF Position
  <2>3. Cardinality(R[i] \cup {i}) <= Position(R, j)
    BY <1>2, <2>1, FS_Subset DEF Position
  <2>4. Position(R, i) \in Int /\ Position(R, j) \in Int
    BY <1>2
  <2>. QED
    BY <2>2, <2>3, <2>4
<1>4. ASSUME NEW i \in S, NEW j \in S, Position(R, i) < Position(R, j)
      PROVE  i \in R[j]
  <2>1. Position(R, i) \in Int /\ Position(R, j) \in Int
    BY <1>2
  <2>2. i # j /\ j \notin R[i]
    BY <1>3, <1>4, <2>1
  <2>. QED
    BY <2>2 DEF StrictOrder
<1>5. \A k \in 1..n : \E i \in S : Position(R, i) = k - 1
  <2>. DEFINE f == [i \in S |-> Position(R, i)]
  <2>1. f \in [S -> 0..(n - 1)]
    BY <1>2
  <2>2. ASSUME NEW i \in S, NEW j \in S, f[i] = f[j] PROVE i = j
    <3>1. Position(R, i) = Position(R, j) /\ Position(R, i) \in Int
      BY <1>2, <2>2
    <3>2. i \notin R[j] /\ j \notin R[i]
      BY <1>3, <3>1
    <3>. QED
      BY <3>2 DEF StrictOrder
  <2>. HIDE DEF f
  <2>3. f \in Injection(S, 0..(n - 1))
    BY <2>1, <2>2 DEF Injection, IsInjective
  <2>4. IsFiniteSet(0..(n - 1)) /\ Cardinality(0..(n - 1)) = n
    <3>1. 0 \in Int /\ n - 1 \in Int
      BY <1>1
    <3>2. /\ IsFiniteSet(0..(n - 1))
          /\ Cardinality(0..(n - 1)) = IF 0 > n - 1 THEN 0 ELSE (n - 1) - 0 + 1
      BY <3>1, FS_Interval
    <3>. QED
      BY <1>1, <3>2
  <2>5. f \in Surjection(S, 0..(n - 1))
    BY <2>3, <2>4, FS_Injection
  <2>6. \A k \in 0..(n - 1) : \E i \in S : f[i] = k
    BY <2>5 DEF Surjection
  <2>7. ASSUME NEW k \in 1..n PROVE \E i \in S : Position(R, i) = k - 1
    <3>1. k - 1 \in 0..(n - 1)
      BY <1>1
    <3>2. PICK i \in S : f[i] = k - 1
      BY <2>6, <3>1
    <3>. QED
      BY <3>2 DEF f
  <2>. QED
    BY <2>7
<1>. QED
  BY <1>1, <1>2, <1>3, <1>4, <1>5

\* A sequence holds the members of S, each once, in the order of R.
Ordered(order, n, S, R) ==
    /\ n \in Nat /\ DOMAIN order = 1..n
    /\ \A k \in 1..n : order[k] \in S
    /\ \A i \in S : \E k \in 1..n : order[k] = i
    /\ \A k, l \in 1..n : k < l <=> order[k] \in R[order[l]]

\* An ordered finite set can be put in order.
LEMMA PutInOrder ==
    ASSUME NEW S, IsFiniteSet(S), NEW R, StrictOrder(R, S), NEW n, n = Cardinality(S),
           NEW order, DOMAIN order = 1..n,
           \A k \in 1..n : (\E i \in S : Position(R, i) = k - 1)
                             => order[k] \in S /\ Position(R, order[k]) = k - 1
    PROVE  Ordered(order, n, S, R)
<1>1. /\ n \in Nat
      /\ \A i \in S : Position(R, i) \in 0..(n - 1)
      /\ \A i, j \in S : i \in R[j] <=> Position(R, i) < Position(R, j)
      /\ \A k \in 1..n : \E i \in S : Position(R, i) = k - 1
  BY Ranking
<1>2. ASSUME NEW k \in 1..n
      PROVE  order[k] \in S /\ Position(R, order[k]) = k - 1
  <2>1. \E i \in S : Position(R, i) = k - 1
    BY <1>1
  <2>. QED
    BY <2>1
<1>3. ASSUME NEW i \in S PROVE \E k \in 1..n : order[k] = i
  <2>1. PICK k \in 1..n : Position(R, i) = k - 1
    <3>1. Position(R, i) + 1 \in 1..n
      BY <1>1
    <3>2. Position(R, i) = (Position(R, i) + 1) - 1
      BY <1>1
    <3>. QED
      BY <3>1, <3>2
  <2>2. order[k] \in S /\ Position(R, order[k]) = Position(R, i)
    BY <1>2, <2>1
  <2>3. Position(R, i) \in Int
    BY <1>1
  <2>4. order[k] \notin R[i] /\ i \notin R[order[k]]
    BY <1>1, <2>2, <2>3
  <2>5. order[k] = i
    BY <2>2, <2>4 DEF StrictOrder
  <2>. QED
    BY <2>5
<1>4. ASSUME NEW k \in 1..n, NEW l \in 1..n
      PROVE  k < l <=> order[k] \in R[order[l]]
  <2>1. order[k] \in R[order[l]] <=> k - 1 < l - 1
    BY <1>1, <1>2
  <2>. QED
    BY <1>1, <2>1
<1>. QED
  BY <1>1, <1>2, <1>3, <1>4 DEF Ordered

-----------------------------------------------------------------------------
(***************************************************************************)
(* The order of the scan                                                   *)
(***************************************************************************)

\* Which objects may be hit: desks, and the lines of visible and unlocked layers.
MayBeHit(objects, structureLocked, hidden) ==
    {i \in DOMAIN objects :
        \/ objects[i].type = "desk"
        \/ /\ ~(structureLocked \/ objects[i].type \in hidden)
           /\ Len(objects[i].pts) >= 2}

\* By kind and, within a kind, as they lie in the layout.
ScannedBefore(objects, S) ==
    [j \in S |-> {i \in S :
        \/ ScanOrder[objects[i].type] < ScanOrder[objects[j].type]
        \/ objects[i].type = objects[j].type /\ i < j}]

\* Some objects are scanned, n of them, each once and in the order R.
ScannedAs(scan, objects, n, S, R) ==
    \E order : /\ Ordered(order, n, S, R)
               /\ DOMAIN scan = 1..n /\ \A k \in 1..n : scan[k] = objects[order[k]]

\* Kinds have turns of their own.
LEMMA Turns ==
    /\ \A t \in DOMAIN ScanOrder : ScanOrder[t] \in Nat
    /\ \A t, u \in DOMAIN ScanOrder : ScanOrder[t] = ScanOrder[u] => t = u
<1>1. DOMAIN ScanOrder = {"desk", "boundary", "wall", "partition", "door"}
  BY DEF ScanOrder
<1>2. /\ ScanOrder["desk"] = 1 /\ ScanOrder["boundary"] = 2 /\ ScanOrder["wall"] = 3
      /\ ScanOrder["partition"] = 4 /\ ScanOrder["door"] = 5
  BY DEF ScanOrder
<1>. QED
  BY <1>1, <1>2

\* Everything that may be hit, and nothing else, is scanned, once, kind by kind and
\* as it lies in the layout, whatever the layout holds
\* (buildLayoutForHitTest in CanvasEditor.jsx, findObjectAtPoint in hitTest.js).
THEOREM ScannedInOrder ==
    ASSUME NEW m \in Nat, NEW objects, DOMAIN objects = 1..m,
           \A i \in 1..m : objects[i].type \in DOMAIN ScanOrder,
           NEW structureLocked, NEW hidden,
           NEW S, S = MayBeHit(objects, structureLocked, hidden),
           NEW scan, scan = buildLayoutForHitTest(objects, structureLocked, hidden)
    PROVE  \E n \in Nat : ScannedAs(scan, objects, n, S, ScannedBefore(objects, S))
<1>1. S \in SUBSET (1..m)
  BY DEF MayBeHit
<1>2. IsFiniteSet(S)
  <2>1. IsFiniteSet(1..m)
    BY FS_Interval
  <2>. QED
    BY <1>1, <2>1, FS_Subset
<1>3. PICK R : R = ScannedBefore(objects, S)
  OBVIOUS
<1>. DEFINE turn(i) == ScanOrder[objects[i].type]
            before(i, j) == \/ turn(i) < turn(j)
                            \/ objects[i].type = objects[j].type /\ i < j
<1>4. \A j \in S : R[j] = {i \in S : before(i, j)}
  BY <1>3 DEF ScannedBefore
<1>5. \A i, j \in S : /\ i \in Nat /\ turn(i) \in Nat
                      /\ turn(i) = turn(j) <=> objects[i].type = objects[j].type
  BY <1>1, Turns
<1>. HIDE DEF turn
<1>6. StrictOrder(R, S)
  <2>1. \A i \in S : ~before(i, i)
    BY <1>5
  <2>2. ASSUME NEW i \in S, NEW j \in S PROVE i = j \/ before(i, j) \/ before(j, i)
    <3>1. i \in Nat /\ j \in Nat /\ turn(i) \in Nat /\ turn(j) \in Nat
      BY <1>5
    <3>2. turn(i) = turn(j) => objects[i].type = objects[j].type
      BY <1>5
    <3>3. objects[i].type = objects[j].type => objects[j].type = objects[i].type
      OBVIOUS
    <3>. QED
      BY <3>1, <3>2, <3>3
  <2>3. \A i, j, k \in S : before(i, j) /\ before(j, k) => before(i, k)
    BY <1>5
  <2>. QED
    BY <1>4, <2>1, <2>2, <2>3 DEF StrictOrder
<1>7. PICK n : n = Cardinality(S)
  OBVIOUS
<1>8. PICK order :
          order = [k \in 1..Cardinality(S) |->
                      CHOOSE i \in S : Cardinality({j \in S : before(j, i)}) = k - 1]
  OBVIOUS
<1>9. order = [k \in 1..n |-> CHOOSE i \in S : Cardinality({j \in S : before(j, i)}) = k - 1]
  BY <1>7, <1>8
<1>10. \A i \in S : Cardinality({j \in S : before(j, i)}) = Position(R, i)
  BY <1>4 DEF Position
<1>11. Ordered(order, n, S, R)
  <2>1. DOMAIN order = 1..n
    BY <1>9
  <2>2. ASSUME NEW k \in 1..n, NEW i \in S, Position(R, i) = k - 1
        PROVE  order[k] \in S /\ Position(R, order[k]) = k - 1
    <3>1. \E e \in S : Cardinality({j \in S : before(j, e)}) = k - 1
      BY <1>10, <2>2
    <3>2. order[k] = CHOOSE e \in S : Cardinality({j \in S : before(j, e)}) = k - 1
      BY <1>9
    <3>3. order[k] \in S /\ Cardinality({j \in S : before(j, order[k])}) = k - 1
      BY <3>1, <3>2
    <3>. QED
      BY <1>10, <3>3
  <2>. QED
    BY <1>2, <1>6, <1>7, <2>1, <2>2, PutInOrder
<1>12. scan = [k \in DOMAIN order |-> objects[order[k]]]
  BY <1>8 DEF buildLayoutForHitTest, MayBeHit, InOrder, turn
<1>13. n \in Nat /\ DOMAIN order = 1..n
  BY <1>11 DEF Ordered
<1>. QED
  BY <1>3, <1>11, <1>12, <1>13 DEF ScannedAs

\* A question to a click.
LEMMA HitSample ==
    ASSUME NEW s \in Samples \cup {NoSample}, s.kind = "hit"
    PROVE  s.p \in Points /\ s.threshold \in Nat /\ s.locked \in BOOLEAN
<1>. DEFINE hiddens == {{}, {"wall"}}
<1>1. s \in [kind : {"hit"}, p : Near, threshold : 0..1, locked : BOOLEAN, hidden : hiddens]
  BY DEF Samples, NoSample
<1>. HIDE DEF hiddens
<1>2. s.p \in Near /\ s.threshold \in 0..1 /\ s.locked \in BOOLEAN
  BY <1>1
<1>3. Near \subseteq Points
  <2>1. ASSUME NEW x \in -1..(Side + 1), NEW y \in -1..(Side + 1) PROVE At(x, y) \in Points
    <3>1. x \in Int /\ y \in Int
      BY SamplesAssumption
    <3>. QED
      BY <3>1 DEF At, Points
  <2>. QED
    BY <2>1 DEF Near
<1>. QED
  BY <1>2, <1>3

\* Everything in the scene is of some kind and can be hit.
LEMMA SceneHittable ==
    /\ DOMAIN Scene = 1..4
    /\ \A i \in 1..4 : Scene[i].type \in DOMAIN ScanOrder /\ Hittable(Scene[i])
<1>1. DOMAIN Scene = 1..4
  BY DEF Scene
<1>2. Side \in Int
  BY SamplesAssumption
<1>3. PICK a \in Points, b \in Points, c \in Points, d \in Points, e \in Points :
          /\ a = At(0, Side) /\ b = At(Side, 0)
          /\ c = At(1, 1) /\ d = At(Side, 1) /\ e = At(Side, Side)
  <2>1. \A x, y \in Int : At(x, y) \in Points
    BY DEF At, Points
  <2>. QED
    BY <1>2, <2>1
<1>4. <<a, b>> \in Seq(Points) /\ Len(<<a, b>>) >= 2
  OBVIOUS
<1>5. <<c, d, e>> \in Seq(Points) /\ Len(<<c, d, e>>) >= 2
  OBVIOUS
<1>6. DOMAIN ScanOrder = {"desk", "boundary", "wall", "partition", "door"}
  BY DEF ScanOrder
<1>7. /\ Scene[1].id = "wall" /\ Scene[1].type = "wall" /\ Scene[1].pts = <<a, b>>
      /\ Scene[1].closed = FALSE
  BY <1>3 DEF Scene
<1>8. /\ Scene[2].id = "desk" /\ Scene[2].type = "desk" /\ Scene[2].rect \in Frames
  BY DEF Scene, Box, Frames
<1>9. /\ Scene[3].id = "over" /\ Scene[3].type = "desk" /\ Scene[3].rect \in Frames
  BY DEF Scene, Box, Frames
<1>10. /\ Scene[4].id = "room" /\ Scene[4].type = "boundary" /\ Scene[4].pts = <<c, d, e>>
       /\ Scene[4].closed = TRUE
  BY <1>3 DEF Scene
<1>11. Hittable(Scene[1]) /\ Scene[1].type \in DOMAIN ScanOrder
  BY <1>4, <1>6, <1>7 DEF Hittable
<1>12. Hittable(Scene[2]) /\ Scene[2].type \in DOMAIN ScanOrder
  BY <1>6, <1>8 DEF Hittable
<1>13. Hittable(Scene[3]) /\ Scene[3].type \in DOMAIN ScanOrder
  BY <1>6, <1>9 DEF Hittable
<1>14. Hittable(Scene[4]) /\ Scene[4].type \in DOMAIN ScanOrder
  BY <1>5, <1>6, <1>10 DEF Hittable
<1>15. \A i \in 1..4 : i = 1 \/ i = 2 \/ i = 3 \/ i = 4
  OBVIOUS
<1>. QED
  BY <1>1, <1>11, <1>12, <1>13, <1>14, <1>15

\* What may be clicked on in the scene can be hit.
LEMMA ClickableHittable ==
    ASSUME NEW structureLocked, NEW hidden, NEW scan, scan = Clickable(structureLocked, hidden)
    PROVE  \E n \in Nat : DOMAIN scan = 1..n /\ \A k \in 1..n : Hittable(scan[k])
<1>1. scan = buildLayoutForHitTest(Scene, structureLocked, hidden)
  BY DEF Clickable
<1>2. PICK objects, m : objects = Scene /\ m \in Nat /\ m = 4
  OBVIOUS
<1>3. PICK S : S = MayBeHit(objects, structureLocked, hidden)
  OBVIOUS
<1>4. S \in SUBSET (1..m)
  BY <1>2, <1>3, SceneHittable DEF MayBeHit
<1>5. /\ DOMAIN objects = 1..m
      /\ \A i \in 1..m : objects[i].type \in DOMAIN ScanOrder /\ Hittable(objects[i])
  BY <1>2, SceneHittable
<1>6. scan = buildLayoutForHitTest(objects, structureLocked, hidden) /\ m \in Nat
  BY <1>1, <1>2
<1>7. \A i \in 1..m : objects[i].type \in DOMAIN ScanOrder
  BY <1>5
<1>8. DOMAIN objects = 1..m
  BY <1>5
<1>9. PICK n \in Nat : ScannedAs(scan, objects, n, S, ScannedBefore(objects, S))
  BY <1>3, <1>6, <1>7, <1>8, ScannedInOrder
<1>10. PICK order : /\ Ordered(order, n, S, ScannedBefore(objects, S))
                    /\ DOMAIN scan = 1..n /\ \A k \in 1..n : scan[k] = objects[order[k]]
  BY <1>9 DEF ScannedAs
<1>11. \A k \in 1..n : order[k] \in 1..m
  BY <1>4, <1>10 DEF Ordered
<1>. QED
  BY <1>5, <1>10, <1>11

\* In every state a click hits the nearest of what can be clicked on, the first in
\* the order of the scan among equals (findObjectAtPoint in hitTest.js).
THEOREM NearestAlwaysHit == Spec => []NearestHit
<1>1. ASSUME sample \in Samples \cup {NoSample}, sample.kind = "hit" PROVE NearestHit
  <2>1. PICK p \in Points, threshold \in Nat : p = sample.p /\ threshold = sample.threshold
    BY <1>1, HitSample
  <2>2. PICK objects : objects = Clickable(sample.locked, sample.hidden)
    OBVIOUS
  <2>3. PICK n \in Nat : DOMAIN objects = 1..n /\ \A k \in 1..n : Hittable(objects[k])
    BY <2>2, ClickableHittable
  <2>4. LET hit == findObjectAtPoint(p, objects, threshold)
            dist(i) == objectDistance(p, objects[i])
            reached == {i \in DOMAIN objects : ~Nearer(Whole(threshold * threshold), dist(i))}
        IN  IF reached = {} THEN hit = NoHit
            ELSE \E i \in reached :
                    /\ hit.id = objects[i].id
                    /\ \A j \in reached : /\ ~Nearer(dist(j), dist(i))
                                          /\ j < i => Nearer(dist(i), dist(j))
    BY <2>3, ClickHitsNearest
  <2>. QED
    BY <2>1, <2>2, <2>4 DEF NearestHit
<1>2. ASSUME sample \in Samples \cup {NoSample} PROVE NearestHit
  BY <1>1, <1>2 DEF NearestHit
<1>. QED
  BY <1>2, SampleStays, PTL

-----------------------------------------------------------------------------
(***************************************************************************)
(* Lining up                                                               *)
(***************************************************************************)

\* A finite set of numbers, not empty, has a least and a greatest.
LEMMA Extremes ==
    ASSUME NEW S \in SUBSET Int, IsFiniteSet(S), S # {}
    PROVE  /\ Min(S) \in S /\ \A n \in S : Min(S) <= n
           /\ Max(S) \in S /\ \A n \in S : n <= Max(S)
<1>0. PICK R : R = [j \in S |-> {i \in S : i < j}]
  OBVIOUS
<1>1. StrictOrder(R, S)
  BY <1>0 DEF StrictOrder
<1>2. \A i, j \in S : i \in R[j] <=> i < j
  BY <1>0
<1>3. PICK n : n = Cardinality(S)
  OBVIOUS
<1>4. /\ n \in Nat
      /\ \A i \in S : Position(R, i) \in 0..(n - 1)
      /\ \A i, j \in S : i \in R[j] <=> Position(R, i) < Position(R, j)
      /\ \A k \in 1..n : \E i \in S : Position(R, i) = k - 1
  BY <1>1, <1>3, Ranking
<1>5. n # 0
  BY <1>3, FS_EmptySet
<1>6. PICK low \in S : Position(R, low) = 0
  <2>1. 1 \in 1..n /\ 1 - 1 = 0
    BY <1>4, <1>5
  <2>. QED
    BY <1>4, <2>1
<1>7. PICK high \in S : Position(R, high) = n - 1
  <2>1. n \in 1..n
    BY <1>4, <1>5
  <2>. QED
    BY <1>4, <2>1
<1>8. \A i \in S : low <= i /\ i <= high
  <2>1. SUFFICES ASSUME NEW i \in S PROVE low <= i /\ i <= high
    OBVIOUS
  <2>2. i \notin R[low] /\ high \notin R[i]
    <3>1. PICK a \in Int : a = Position(R, i) /\ 0 <= a /\ a <= n - 1
      BY <1>4
    <3>2. ~(a < 0) /\ ~(n - 1 < a)
      BY <1>4, <3>1
    <3>. QED
      BY <1>4, <1>6, <1>7, <3>1, <3>2
  <2>3. ~(i < low) /\ ~(high < i)
    BY <1>2, <2>2
  <2>. QED
    BY <2>3
<1>9. Min(S) = low
  BY <1>8, MinIs
<1>10. Max(S) = high
  <2>1. \A i \in S : high >= i
    BY <1>8
  <2>. QED
    BY <2>1, MaxIs
<1>. QED
  BY <1>8, <1>9, <1>10

\* The values of a function on a finite set are finitely many.
LEMMA ValuesFinite ==
    ASSUME NEW S, IsFiniteSet(S), NEW f, DOMAIN f = S
    PROVE  IsFiniteSet({f[i] : i \in S})
<1>. DEFINE T == {f[i] : i \in S}
            g == [i \in S |-> f[i]]
<1>1. g \in Surjection(S, T)
  BY DEF Surjection
<1>. HIDE DEF T, g
<1>2. IsFiniteSet(T)
  BY <1>1, FS_Surjection
<1>. QED
  BY <1>2 DEF T

DesksOf(Ids) == [id : Ids, x : Int, y : Int, w : Nat, h : Nat, r : Int]
Picked(desks, ids) == {i \in DOMAIN desks : desks[i].id \in ids}

\* A box holds some desks, and one of them touches each of its sides.
BoxAround(box, desks, picked) ==
    /\ box.x \in Int /\ box.w \in Int /\ box.y \in Int /\ box.h \in Int
    /\ \A i \in picked : /\ box.x <= desks[i].x /\ desks[i].x + desks[i].w <= box.x + box.w
                         /\ box.y <= desks[i].y /\ desks[i].y + desks[i].h <= box.y + box.h
    /\ \E i \in picked : box.x = desks[i].x
    /\ \E i \in picked : box.x + box.w = desks[i].x + desks[i].w
    /\ \E i \in picked : box.y = desks[i].y
    /\ \E i \in picked : box.y + box.h = desks[i].y + desks[i].h

\* Picked desks are finitely many.
LEMMA PickedFinite ==
    ASSUME NEW m \in Nat, NEW desks, DOMAIN desks = 1..m, NEW ids
    PROVE  Picked(desks, ids) \in SUBSET (1..m) /\ IsFiniteSet(Picked(desks, ids))
<1>1. Picked(desks, ids) \in SUBSET (1..m)
  BY DEF Picked
<1>2. IsFiniteSet(1..m)
  BY FS_Interval
<1>. QED
  BY <1>1, <1>2, FS_Subset

\* The bounding box of some desks is a box around them.
LEMMA BoundingBox ==
    ASSUME NEW m \in Nat, NEW Ids, NEW desks \in [1..m -> DesksOf(Ids)], NEW ids,
           Picked(desks, ids) # {}
    PROVE  BoxAround(boundingBoxOf(desks, ids), desks, Picked(desks, ids))
<1>. DEFINE picked == Picked(desks, ids)
            left == [i \in picked |-> desks[i].x]
            right == [i \in picked |-> desks[i].x + desks[i].w]
            top == [i \in picked |-> desks[i].y]
            bottom == [i \in picked |-> desks[i].y + desks[i].h]
<1>1. picked \in SUBSET (1..m) /\ IsFiniteSet(picked) /\ picked # {}
  BY PickedFinite
<1>2. \A i \in picked : /\ left[i] = desks[i].x /\ right[i] = desks[i].x + desks[i].w
                        /\ top[i] = desks[i].y /\ bottom[i] = desks[i].y + desks[i].h
  OBVIOUS
<1>3. \A i \in picked : /\ desks[i].x \in Int /\ desks[i].y \in Int
                        /\ desks[i].w \in Nat /\ desks[i].h \in Nat
  BY <1>1 DEF DesksOf
<1>4. \A i \in picked : left[i] \in Int /\ right[i] \in Int /\ top[i] \in Int /\ bottom[i] \in Int
  BY <1>3
<1>5. /\ DOMAIN left = picked /\ DOMAIN right = picked
      /\ DOMAIN top = picked /\ DOMAIN bottom = picked
  OBVIOUS
<1>6. /\ {desks[i].x : i \in picked} = {left[i] : i \in picked}
      /\ {desks[i].x + desks[i].w : i \in picked} = {right[i] : i \in picked}
      /\ {desks[i].y : i \in picked} = {top[i] : i \in picked}
      /\ {desks[i].y + desks[i].h : i \in picked} = {bottom[i] : i \in picked}
  OBVIOUS
<1>7. boundingBoxOf(desks, ids) =
        Box(Min({left[i] : i \in picked}), Min({top[i] : i \in picked}),
            Max({right[i] : i \in picked}) - Min({left[i] : i \in picked}),
            Max({bottom[i] : i \in picked}) - Min({top[i] : i \in picked}))
  BY <1>6 DEF boundingBoxOf, Picked
<1>. HIDE DEF picked, left, right, top, bottom
\* Values of a side reach a least and a greatest.
<1>8. ASSUME NEW f, DOMAIN f = picked, \A i \in picked : f[i] \in Int
      PROVE  /\ Min({f[i] : i \in picked}) \in Int /\ Max({f[i] : i \in picked}) \in Int
             /\ \A i \in picked : /\ Min({f[j] : j \in picked}) <= f[i]
                                  /\ f[i] <= Max({f[j] : j \in picked})
             /\ \E i \in picked : Min({f[j] : j \in picked}) = f[i]
             /\ \E i \in picked : Max({f[j] : j \in picked}) = f[i]
  <2>. DEFINE S == {f[i] : i \in picked}
  <2>1. IsFiniteSet(S)
    BY <1>1, <1>8, ValuesFinite
  <2>2. S \in SUBSET Int /\ S # {}
    BY <1>1, <1>8
  <2>3. \A i \in picked : f[i] \in S
    OBVIOUS
  <2>4. \A v \in S : \E i \in picked : v = f[i]
    OBVIOUS
  <2>. HIDE DEF S
  <2>5. /\ Min(S) \in S /\ \A n \in S : Min(S) <= n
        /\ Max(S) \in S /\ \A n \in S : n <= Max(S)
    BY <2>1, <2>2, Extremes
  <2>6. /\ Min(S) \in Int /\ Max(S) \in Int
        /\ \A i \in picked : Min(S) <= f[i] /\ f[i] <= Max(S)
        /\ \E i \in picked : Min(S) = f[i]
        /\ \E i \in picked : Max(S) = f[i]
    BY <2>2, <2>3, <2>4, <2>5
  <2>. QED
    BY <2>6 DEF S
<1>9. PICK x, y, xx, yy :
          /\ x = Min({left[i] : i \in picked}) /\ xx = Max({right[i] : i \in picked})
          /\ y = Min({top[i] : i \in picked}) /\ yy = Max({bottom[i] : i \in picked})
  OBVIOUS
<1>10. /\ x \in Int /\ \A i \in picked : x <= left[i]
       /\ \E i \in picked : x = left[i]
  BY <1>4, <1>5, <1>8, <1>9
<1>11. /\ xx \in Int /\ \A i \in picked : right[i] <= xx
       /\ \E i \in picked : xx = right[i]
  BY <1>4, <1>5, <1>8, <1>9
<1>12. /\ y \in Int /\ \A i \in picked : y <= top[i]
       /\ \E i \in picked : y = top[i]
  BY <1>4, <1>5, <1>8, <1>9
<1>13. /\ yy \in Int /\ \A i \in picked : bottom[i] <= yy
       /\ \E i \in picked : yy = bottom[i]
  BY <1>4, <1>5, <1>8, <1>9
<1>14. PICK box : box = boundingBoxOf(desks, ids)
  OBVIOUS
<1>15. box.x = x /\ box.y = y /\ box.w = xx - x /\ box.h = yy - y
  BY <1>7, <1>9, <1>14 DEF Box
<1>16. box.x + box.w = xx /\ box.y + box.h = yy
  BY <1>10, <1>11, <1>12, <1>13, <1>15
<1>17. box.w \in Int /\ box.h \in Int
  BY <1>10, <1>11, <1>12, <1>13, <1>15
<1>18. BoxAround(box, desks, picked)
  BY <1>2, <1>10, <1>11, <1>12, <1>13, <1>15, <1>16, <1>17 DEF BoxAround
<1>. QED
  BY <1>14, <1>18 DEF picked

Alignments == {"left", "hcenter", "right", "top", "vcenter", "bottom"}

\* A desk lined up in a box.
AlignedIn(bbox, d, how) ==
    CASE how = "left" -> [d EXCEPT !.x = bbox.x]
      [] how = "hcenter" -> [d EXCEPT !.x = bbox.x + bbox.w \div 2 - d.w \div 2]
      [] how = "right" -> [d EXCEPT !.x = bbox.x + bbox.w - d.w]
      [] how = "top" -> [d EXCEPT !.y = bbox.y]
      [] how = "vcenter" -> [d EXCEPT !.y = bbox.y + bbox.h \div 2 - d.h \div 2]
      [] how = "bottom" -> [d EXCEPT !.y = bbox.y + bbox.h - d.h]

\* A stretch centred in another that holds it.
LEMMA CentredInside ==
    ASSUME NEW x \in Int, NEW w \in Nat, NEW X \in Int, NEW W \in Int, X <= x, x + w <= X + W,
           NEW c, c = X + W \div 2 - w \div 2
    PROVE  c \in Int /\ X <= c /\ c + w <= X + W
<1>1. W \in Nat /\ w <= W
  OBVIOUS
<1>2. PICK a, b \in Int : a = W \div 2 /\ W = a * 2 + b /\ 0 <= b /\ b < 2
  <2>1. 2 \in Nat \ {0}
    OBVIOUS
  <2>. QED
    BY <2>1, DivMod
<1>3. PICK e, f \in Int : e = w \div 2 /\ w = e * 2 + f /\ 0 <= f /\ f < 2
  <2>1. 2 \in Nat \ {0}
    OBVIOUS
  <2>. QED
    BY <2>1, DivMod
<1>4. c = X + a - e
  BY <1>2, <1>3
<1>. QED
  BY <1>1, <1>2, <1>3, <1>4

\* A desk of the box stays a desk of the box, and moves along one axis.
LEMMA AlignedStays ==
    ASSUME NEW Ids, NEW d \in DesksOf(Ids), NEW bbox, NEW how \in Alignments,
           bbox.x \in Int, bbox.y \in Int, bbox.w \in Int, bbox.h \in Int,
           bbox.x <= d.x, d.x + d.w <= bbox.x + bbox.w,
           bbox.y <= d.y, d.y + d.h <= bbox.y + bbox.h,
           NEW e, e = AlignedIn(bbox, d, how)
    PROVE  /\ e \in DesksOf(Ids) /\ e.id = d.id
           /\ bbox.x <= e.x /\ e.x + e.w <= bbox.x + bbox.w
           /\ bbox.y <= e.y /\ e.y + e.h <= bbox.y + bbox.h
           /\ IF how \in {"left", "hcenter", "right"} THEN e.y = d.y ELSE e.x = d.x
<1>1. d.x \in Int /\ d.y \in Int /\ d.w \in Nat /\ d.h \in Nat /\ d.id \in Ids
  BY DEF DesksOf
<1>2. ASSUME NEW v \in Int, e = [d EXCEPT !.x = v], bbox.x <= v, v + d.w <= bbox.x + bbox.w,
             how \in {"left", "hcenter", "right"}
      PROVE  /\ e \in DesksOf(Ids) /\ e.id = d.id
             /\ bbox.x <= e.x /\ e.x + e.w <= bbox.x + bbox.w
             /\ bbox.y <= e.y /\ e.y + e.h <= bbox.y + bbox.h
             /\ IF how \in {"left", "hcenter", "right"} THEN e.y = d.y ELSE e.x = d.x
  <2>1. e \in DesksOf(Ids) /\ e.id = d.id /\ e.x = v /\ e.w = d.w /\ e.y = d.y /\ e.h = d.h
    BY <1>2 DEF DesksOf
  <2>. QED
    BY <1>2, <2>1
<1>3. ASSUME NEW v \in Int, e = [d EXCEPT !.y = v], bbox.y <= v, v + d.h <= bbox.y + bbox.h,
             how \notin {"left", "hcenter", "right"}
      PROVE  /\ e \in DesksOf(Ids) /\ e.id = d.id
             /\ bbox.x <= e.x /\ e.x + e.w <= bbox.x + bbox.w
             /\ bbox.y <= e.y /\ e.y + e.h <= bbox.y + bbox.h
             /\ IF how \in {"left", "hcenter", "right"} THEN e.y = d.y ELSE e.x = d.x
  <2>1. e \in DesksOf(Ids) /\ e.id = d.id /\ e.y = v /\ e.h = d.h /\ e.x = d.x /\ e.w = d.w
    BY <1>3 DEF DesksOf
  <2>. QED
    BY <1>3, <2>1
<1>4. CASE how = "left"
  <2>1. e = [d EXCEPT !.x = bbox.x]
    BY <1>4 DEF AlignedIn
  <2>2. bbox.x + d.w <= bbox.x + bbox.w
    BY <1>1
  <2>. QED
    BY <1>1, <1>2, <1>4, <2>1, <2>2
<1>5. CASE how = "hcenter"
  <2>1. PICK v : v = bbox.x + bbox.w \div 2 - d.w \div 2
    OBVIOUS
  <2>2. e = [d EXCEPT !.x = v]
    BY <1>5, <2>1 DEF AlignedIn
  <2>3. v \in Int /\ bbox.x <= v /\ v + d.w <= bbox.x + bbox.w
    BY <1>1, <2>1, CentredInside
  <2>. QED
    BY <1>2, <1>5, <2>2, <2>3
<1>6. CASE how = "right"
  <2>1. PICK v \in Int : v = bbox.x + bbox.w - d.w
    BY <1>1
  <2>2. e = [d EXCEPT !.x = v]
    BY <1>6, <2>1 DEF AlignedIn
  <2>3. bbox.x <= v /\ v + d.w <= bbox.x + bbox.w
    BY <1>1, <2>1
  <2>. QED
    BY <1>2, <1>6, <2>2, <2>3
<1>7. CASE how = "top"
  <2>1. e = [d EXCEPT !.y = bbox.y]
    BY <1>7 DEF AlignedIn
  <2>2. bbox.y + d.h <= bbox.y + bbox.h
    BY <1>1
  <2>. QED
    BY <1>1, <1>3, <1>7, <2>1, <2>2
<1>8. CASE how = "vcenter"
  <2>1. PICK v : v = bbox.y + bbox.h \div 2 - d.h \div 2
    OBVIOUS
  <2>2. e = [d EXCEPT !.y = v]
    BY <1>8, <2>1 DEF AlignedIn
  <2>3. v \in Int /\ bbox.y <= v /\ v + d.h <= bbox.y + bbox.h
    BY <1>1, <2>1, CentredInside
  <2>. QED
    BY <1>3, <1>8, <2>2, <2>3
<1>9. CASE how = "bottom"
  <2>1. PICK v \in Int : v = bbox.y + bbox.h - d.h
    BY <1>1
  <2>2. e = [d EXCEPT !.y = v]
    BY <1>9, <2>1 DEF AlignedIn
  <2>3. bbox.y <= v /\ v + d.h <= bbox.y + bbox.h
    BY <1>1, <2>1
  <2>. QED
    BY <1>3, <1>9, <2>2, <2>3
<1>. QED
  BY <1>4, <1>5, <1>6, <1>7, <1>8, <1>9 DEF Alignments

\* Desks that were not picked are where they were; the others moved along one axis,
\* inside the box they filled.
StaysInBox(after, desks, ids, how) ==
    LET before == boundingBoxOf(desks, ids)
        box == boundingBoxOf(after, ids)
    IN  /\ DOMAIN after = DOMAIN desks
        /\ \A i \in DOMAIN after : desks[i].id \notin ids => after[i] = desks[i]
        /\ Picked(desks, ids) # {} =>
             /\ box.x >= before.x /\ box.x + box.w <= before.x + before.w
             /\ box.y >= before.y /\ box.y + box.h <= before.y + before.h
        /\ \A i \in DOMAIN after :
             IF how \in {"left", "hcenter", "right"}
             THEN after[i].y = desks[i].y ELSE after[i].x = desks[i].x

\* Lining desks up, any number of them of any sizes, keeps them inside the box they
\* filled, moves them along one axis and moves no other desk
\* (alignSelected, CanvasEditor.jsx).
THEOREM AlignStaysInBox ==
    ASSUME NEW m \in Nat, NEW Ids, NEW desks \in [1..m -> DesksOf(Ids)], NEW ids,
           NEW how \in Alignments, NEW after, after = alignSelected(desks, ids, how)
    PROVE  StaysInBox(after, desks, ids, how)
<1>1. DOMAIN desks = 1..m /\ \A i \in 1..m : desks[i] \in DesksOf(Ids)
  OBVIOUS
<1>2. PICK picked : picked = Picked(desks, ids)
  OBVIOUS
<1>3. picked \in SUBSET (1..m) /\ \A i \in 1..m : i \in picked <=> desks[i].id \in ids
  BY <1>1, <1>2 DEF Picked
<1>4. PICK bbox : bbox = boundingBoxOf(desks, ids)
  OBVIOUS
<1>5. \/ after = desks
      \/ after = [i \in 1..m |-> IF desks[i].id \in ids THEN AlignedIn(bbox, desks[i], how)
                                 ELSE desks[i]]
  <2>1. CASE Cardinality(ids) < 2
    BY <2>1 DEF alignSelected
  <2>2. CASE ~(Cardinality(ids) < 2)
    <3>1. after = [i \in DOMAIN desks |->
                      IF desks[i].id \in ids
                      THEN AlignedIn(boundingBoxOf(desks, ids), desks[i], how) ELSE desks[i]]
      BY <2>2 DEF alignSelected, AlignedIn
    <3>. QED
      BY <1>1, <1>4, <3>1
  <2>. QED
    BY <2>1, <2>2
<1>6. CASE picked = {}
  <2>1. after = desks
    <3>1. ASSUME after = [i \in 1..m |-> IF desks[i].id \in ids
                                         THEN AlignedIn(bbox, desks[i], how) ELSE desks[i]]
          PROVE  after = desks
      <4>1. \A i \in 1..m : after[i] = desks[i]
        BY <1>3, <1>6, <3>1
      <4>. QED
        BY <1>1, <3>1, <4>1
    <3>. QED
      BY <1>5, <3>1
  <2>. QED
    BY <1>2, <1>6, <2>1 DEF StaysInBox
<1>7. CASE picked # {}
  <2>1. BoxAround(bbox, desks, picked)
    BY <1>2, <1>4, <1>7, BoundingBox
  <2>2. ASSUME NEW i \in picked
        PROVE  LET e == AlignedIn(bbox, desks[i], how) IN
               /\ e \in DesksOf(Ids) /\ e.id = desks[i].id
               /\ bbox.x <= e.x /\ e.x + e.w <= bbox.x + bbox.w
               /\ bbox.y <= e.y /\ e.y + e.h <= bbox.y + bbox.h
               /\ IF how \in {"left", "hcenter", "right"} THEN e.y = desks[i].y
                  ELSE e.x = desks[i].x
    <3>1. PICK d \in DesksOf(Ids) : d = desks[i]
      BY <1>1, <1>3
    <3>2. PICK e : e = AlignedIn(bbox, d, how)
      OBVIOUS
    <3>3. /\ bbox.x \in Int /\ bbox.y \in Int /\ bbox.w \in Int /\ bbox.h \in Int
          /\ bbox.x <= d.x /\ d.x + d.w <= bbox.x + bbox.w
          /\ bbox.y <= d.y /\ d.y + d.h <= bbox.y + bbox.h
      BY <2>1, <3>1 DEF BoxAround
    <3>4. /\ e \in DesksOf(Ids) /\ e.id = d.id
          /\ bbox.x <= e.x /\ e.x + e.w <= bbox.x + bbox.w
          /\ bbox.y <= e.y /\ e.y + e.h <= bbox.y + bbox.h
          /\ IF how \in {"left", "hcenter", "right"} THEN e.y = d.y ELSE e.x = d.x
      BY <3>2, <3>3, AlignedStays
    <3>. QED
      BY <3>1, <3>2, <3>4
  \* Each desk afterwards.
  <2>3. ASSUME NEW i \in 1..m
        PROVE  /\ after[i] \in DesksOf(Ids) /\ after[i].id = desks[i].id
               /\ i \notin picked => after[i] = desks[i]
               /\ i \in picked =>
                    /\ bbox.x <= after[i].x /\ after[i].x + after[i].w <= bbox.x + bbox.w
                    /\ bbox.y <= after[i].y /\ after[i].y + after[i].h <= bbox.y + bbox.h
               /\ IF how \in {"left", "hcenter", "right"} THEN after[i].y = desks[i].y
                  ELSE after[i].x = desks[i].x
    <3>1. CASE after[i] = desks[i]
      BY <1>1, <2>1, <3>1 DEF BoxAround
    <3>2. CASE after[i] # desks[i]
      <4>1. i \in picked /\ after[i] = AlignedIn(bbox, desks[i], how)
        BY <1>3, <1>5, <3>2
      <4>. QED
        BY <2>2, <4>1
    <3>. QED
      BY <3>1, <3>2
  <2>4. DOMAIN after = 1..m
    BY <1>1, <1>5
  <2>5. after \in [1..m -> DesksOf(Ids)]
    <3>1. after = [i \in 1..m |-> after[i]]
      BY <1>1, <1>5
    <3>. QED
      BY <2>3, <3>1
  <2>6. Picked(after, ids) = picked
    BY <1>1, <1>2, <2>3, <2>4 DEF Picked
  <2>7. PICK box : box = boundingBoxOf(after, ids)
    OBVIOUS
  <2>8. BoxAround(box, after, picked)
    BY <1>7, <2>5, <2>6, <2>7, BoundingBox
  <2>9. /\ bbox.x \in Int /\ bbox.y \in Int /\ bbox.w \in Int /\ bbox.h \in Int
        /\ box.x \in Int /\ box.y \in Int /\ box.w \in Int /\ box.h \in Int
    BY <2>1, <2>8 DEF BoxAround
  <2>10. box.x >= bbox.x /\ box.x + box.w <= bbox.x + bbox.w
    <3>1. PICK i \in picked : box.x = after[i].x
      BY <2>8 DEF BoxAround
    <3>2. PICK j \in picked : box.x + box.w = after[j].x + after[j].w
      BY <2>8 DEF BoxAround
    <3>3. bbox.x <= after[i].x /\ after[j].x + after[j].w <= bbox.x + bbox.w
      BY <1>3, <2>3
    <3>. QED
      BY <2>9, <3>1, <3>2, <3>3
  <2>11. box.y >= bbox.y /\ box.y + box.h <= bbox.y + bbox.h
    <3>1. PICK i \in picked : box.y = after[i].y
      BY <2>8 DEF BoxAround
    <3>2. PICK j \in picked : box.y + box.h = after[j].y + after[j].h
      BY <2>8 DEF BoxAround
    <3>3. bbox.y <= after[i].y /\ after[j].y + after[j].h <= bbox.y + bbox.h
      BY <1>3, <2>3
    <3>. QED
      BY <2>9, <3>1, <3>2, <3>3
  <2>. QED
    BY <1>1, <1>3, <1>4, <2>3, <2>4, <2>7, <2>10, <2>11 DEF StaysInBox
<1>. QED
  BY <1>6, <1>7

-----------------------------------------------------------------------------
(***************************************************************************)
(* Distributing                                                            *)
(***************************************************************************)

\* e is d with its centre moved to c along one axis, cut to a whole place.
CentreMovedTo(d, e, axis, c, Ids) ==
    /\ e \in DesksOf(Ids) /\ e.id = d.id
    /\ CentreOf(d, axis) \in Int /\ CentreOf(e, axis) \in {c, c - 1}
    /\ (CentreOf(d, axis) - c) % 2 = 0 => CentreOf(e, axis) = c
    /\ c = CentreOf(d, axis) => e = d
    /\ IF axis = "x" THEN e.y = d.y ELSE e.x = d.x

\* A desk moved to a centre ends there, or half a place before it if its size does
\* not fit; a desk moved to its own centre stays.
LEMMA CentreMoved ==
    ASSUME NEW Ids, NEW d \in DesksOf(Ids), NEW axis \in {"x", "y"}, NEW c \in Int,
           NEW e, e = CentredAt(d, axis, c)
    PROVE  CentreMovedTo(d, e, axis, c, Ids)
<1>1. d.x \in Int /\ d.y \in Int /\ d.w \in Nat /\ d.h \in Nat
  BY DEF DesksOf
<1>2. ASSUME NEW place \in Int, NEW size \in Int, NEW q, q = (c - size) \div 2
      PROVE  /\ q \in Int /\ 2 * q + size \in {c, c - 1}
             /\ ((2 * place + size) - c) % 2 = 0 => 2 * q + size = c
             /\ c = 2 * place + size => q = place
  <2>1. PICK n \in Int : n = c - size
    OBVIOUS
  <2>2. PICK a, r \in Int : a = n \div 2 /\ n = a * 2 + r /\ 0 <= r /\ r < 2
    <3>1. 2 \in Nat \ {0}
      OBVIOUS
    <3>. QED
      BY <3>1, DivMod
  <2>3. q = a
    BY <1>2, <2>1, <2>2
  <2>4. ASSUME ((2 * place + size) - c) % 2 = 0 PROVE r = 0
    <3>1. PICK k \in Int : k = (2 * place + size) - c
      OBVIOUS
    <3>2. k % 2 = 0
      BY <2>4, <3>1
    <3>3. PICK t \in Int : k = t * 2
      BY <3>2, MultipleOf
    <3>. QED
      BY <2>1, <2>2, <3>1, <3>3
  <2>. QED
    BY <2>1, <2>2, <2>3, <2>4
<1>3. CASE axis = "x"
  <2>1. PICK q : q = (c - d.w) \div 2
    OBVIOUS
  <2>2. /\ q \in Int /\ 2 * q + d.w \in {c, c - 1}
        /\ ((2 * d.x + d.w) - c) % 2 = 0 => 2 * q + d.w = c
        /\ c = 2 * d.x + d.w => q = d.x
    BY <1>1, <1>2, <2>1
  <2>3. e = [d EXCEPT !.x = q]
    BY <1>3, <2>1 DEF CentredAt
  <2>4. e \in DesksOf(Ids) /\ e.id = d.id /\ e.x = q /\ e.w = d.w /\ e.y = d.y
    BY <2>2, <2>3 DEF DesksOf
  <2>5. q = d.x => e = d
    BY <2>3 DEF DesksOf
  <2>6. CentreOf(d, axis) = 2 * d.x + d.w /\ CentreOf(e, axis) = 2 * q + d.w
    BY <1>3, <2>4 DEF CentreOf
  <2>. QED
    BY <1>1, <1>3, <2>2, <2>4, <2>5, <2>6 DEF CentreMovedTo
<1>4. CASE axis = "y"
  <2>1. PICK q : q = (c - d.h) \div 2
    OBVIOUS
  <2>2. /\ q \in Int /\ 2 * q + d.h \in {c, c - 1}
        /\ ((2 * d.y + d.h) - c) % 2 = 0 => 2 * q + d.h = c
        /\ c = 2 * d.y + d.h => q = d.y
    BY <1>1, <1>2, <2>1
  <2>3. e = [d EXCEPT !.y = q]
    BY <1>4, <2>1 DEF CentredAt
  <2>4. e \in DesksOf(Ids) /\ e.id = d.id /\ e.y = q /\ e.h = d.h /\ e.x = d.x
    BY <2>2, <2>3 DEF DesksOf
  <2>5. q = d.y => e = d
    BY <2>3 DEF DesksOf
  <2>6. CentreOf(d, axis) = 2 * d.y + d.h /\ CentreOf(e, axis) = 2 * q + d.h
    BY <1>4, <2>4 DEF CentreOf
  <2>. QED
    BY <1>1, <1>4, <2>2, <2>4, <2>5, <2>6 DEF CentreMovedTo
<1>. QED
  BY <1>3, <1>4

\* The centre of a desk, doubled, is whole.
LEMMA CentreInt ==
    ASSUME NEW Ids, NEW d \in DesksOf(Ids), NEW axis \in {"x", "y"}
    PROVE  CentreOf(d, axis) \in Int
<1>1. d.x \in Int /\ d.y \in Int /\ d.w \in Nat /\ d.h \in Nat
  BY DEF DesksOf
<1>2. CASE axis = "x"
  <2>1. CentreOf(d, axis) = 2 * d.x + d.w
    BY <1>2 DEF CentreOf
  <2>. QED
    BY <1>1, <2>1
<1>3. CASE axis = "y"
  <2>1. CentreOf(d, axis) = 2 * d.y + d.h
    BY <1>3 DEF CentreOf
  <2>. QED
    BY <1>1, <2>1
<1>. QED
  BY <1>2, <1>3

\* By their centres and, of desks with one centre, as they lie in the layout.
CentredBefore(desks, S, axis) ==
    [j \in S |-> {i \in S :
        \/ CentreOf(desks[i], axis) < CentreOf(desks[j], axis)
        \/ CentreOf(desks[i], axis) = CentreOf(desks[j], axis) /\ i < j}]

\* The picked desks, put in the order of their centres.
LEMMA CentresInOrder ==
    ASSUME NEW m \in Nat, NEW Ids, NEW desks \in [1..m -> DesksOf(Ids)], NEW ids,
           NEW axis \in {"x", "y"}, NEW picked, picked = Picked(desks, ids),
           NEW n, n = Cardinality(picked), NEW order, order = ByCentre(desks, ids, axis)
    PROVE  /\ Ordered(order, n, picked, CentredBefore(desks, picked, axis))
           /\ order \in Seq(1..m) /\ Len(order) = n
<1>1. picked \in SUBSET (1..m) /\ IsFiniteSet(picked)
  BY PickedFinite
<1>2. PICK R : R = CentredBefore(desks, picked, axis)
  OBVIOUS
<1>. DEFINE at(i) == CentreOf(desks[i], axis)
            before(i, j) == at(i) < at(j) \/ (at(i) = at(j) /\ i < j)
<1>3. \A j \in picked : R[j] = {i \in picked : before(i, j)}
  BY <1>2 DEF CentredBefore
<1>4. \A i \in picked : i \in Int /\ at(i) \in Int
  <2>1. SUFFICES ASSUME NEW i \in picked PROVE i \in Int /\ CentreOf(desks[i], axis) \in Int
    OBVIOUS
  <2>2. i \in 1..m /\ desks[i] \in DesksOf(Ids)
    BY <1>1
  <2>. QED
    BY <2>2, CentreInt
<1>. HIDE DEF at
<1>5. StrictOrder(R, picked)
  <2>1. \A i \in picked : ~before(i, i)
    BY <1>4
  <2>2. \A i, j \in picked : i = j \/ before(i, j) \/ before(j, i)
    BY <1>4
  <2>3. \A i, j, k \in picked : before(i, j) /\ before(j, k) => before(i, k)
    BY <1>4
  <2>. QED
    BY <1>3, <2>1, <2>2, <2>3 DEF StrictOrder
<1>6. order = [k \in 1..n |->
                  CHOOSE i \in picked : Cardinality({j \in picked : before(j, i)}) = k - 1]
  BY DEF ByCentre, InOrder, Picked, at
<1>7. \A i \in picked : Cardinality({j \in picked : before(j, i)}) = Position(R, i)
  BY <1>3 DEF Position
<1>8. Ordered(order, n, picked, R)
  <2>1. DOMAIN order = 1..n
    BY <1>6
  <2>2. ASSUME NEW k \in 1..n, NEW i \in picked, Position(R, i) = k - 1
        PROVE  order[k] \in picked /\ Position(R, order[k]) = k - 1
    <3>1. \E e \in picked : Cardinality({j \in picked : before(j, e)}) = k - 1
      BY <1>7, <2>2
    <3>2. order[k] = CHOOSE e \in picked : Cardinality({j \in picked : before(j, e)}) = k - 1
      BY <1>6
    <3>3. order[k] \in picked /\ Cardinality({j \in picked : before(j, order[k])}) = k - 1
      BY <3>1, <3>2
    <3>. QED
      BY <1>7, <3>3
  <2>. QED
    BY <1>1, <1>5, <2>1, <2>2, PutInOrder
<1>9. n \in Nat /\ DOMAIN order = 1..n /\ \A k \in 1..n : order[k] \in 1..m
  BY <1>1, <1>8 DEF Ordered
<1>10. order \in [1..n -> 1..m]
  <2>1. order = [k \in 1..n |-> order[k]]
    BY <1>6
  <2>. QED
    BY <1>9, <2>1
<1>11. order \in Seq(1..m) /\ Len(order) = n
  BY <1>9, <1>10
<1>. QED
  BY <1>2, <1>8, <1>11

\* Of n picked desks the outermost two stay, the others come to stand evenly
\* between them, to the whole number a place is cut to, and move along one axis;
\* no other desk moves.
SpacedOut(after, desks, order, n, axis) ==
    LET start == CentreOf(desks[order[1]], axis)
        end == CentreOf(desks[order[n]], axis)
        short(k) == ((n - 1) * start + (end - start) * (k - 1))
                       - (n - 1) * CentreOf(after[order[k]], axis)
    IN  /\ DOMAIN after = DOMAIN desks
        /\ \A i \in DOMAIN after : i \notin {order[k] : k \in 2..(n - 1)} => after[i] = desks[i]
        /\ \A k \in 1..n : 0 <= short(k) /\ short(k) < 2 * (n - 1)
        /\ \A i \in DOMAIN after : IF axis = "x" THEN after[i].y = desks[i].y
                                   ELSE after[i].x = desks[i].x

\* The distance of the outermost two divides evenly, into places that fit all sizes.
DividesEvenly(desks, order, n, axis) ==
    LET centre(k) == CentreOf(desks[order[k]], axis)
    IN  /\ (centre(n) - centre(1)) % (2 * (n - 1)) = 0
        /\ \A k \in 1..n : (centre(k) - centre(1)) % 2 = 0

EvenlySpaced(after, desks, order, n, axis) ==
    \E step \in Int : \A k \in 1..n :
        CentreOf(after[order[k]], axis) = CentreOf(desks[order[1]], axis) + step * (k - 1)

\* Distributing desks, any number of them of any sizes, leaves the outermost two and
\* puts the others evenly between them, and exactly so if their distance divides
\* (distributeSelected, CanvasEditor.jsx).
THEOREM DistributeSpacesOut ==
    ASSUME NEW m \in Nat, NEW Ids, NEW desks \in [1..m -> DesksOf(Ids)],
           NEW ids, ~(Cardinality(ids) < 3),
           NEW axis \in {"x", "y"}, NEW n, n = Cardinality(Picked(desks, ids)), n >= 2,
           NEW order, order = ByCentre(desks, ids, axis),
           NEW after, after = distributeSelected(desks, ids, axis)
    PROVE  /\ SpacedOut(after, desks, order, n, axis)
           /\ DividesEvenly(desks, order, n, axis) => EvenlySpaced(after, desks, order, n, axis)
<1>1. PICK picked : picked = Picked(desks, ids)
  OBVIOUS
<1>2. PICK R : R = CentredBefore(desks, picked, axis)
  OBVIOUS
<1>3. Ordered(order, n, picked, R) /\ order \in Seq(1..m) /\ Len(order) = n
  BY <1>1, <1>2, CentresInOrder
<1>4. /\ n \in Nat /\ DOMAIN order = 1..n
      /\ \A k \in 1..n : order[k] \in 1..m
      /\ \A k, l \in 1..n : k < l <=> order[k] \in R[order[l]]
  BY <1>3 DEF Ordered
<1>5. \A k, l \in 1..n : order[k] = order[l] => k = l
  <2>1. SUFFICES ASSUME NEW k \in 1..n, NEW l \in 1..n, order[k] = order[l], k < l PROVE FALSE
    BY <1>4
  <2>2. order[k] \in R[order[k]]
    BY <1>4, <2>1
  <2>3. k < k
    BY <1>4, <2>2
  <2>. QED
    BY <1>4, <2>3
<1>6. \A i \in 1..m : desks[i] \in DesksOf(Ids)
  OBVIOUS
<1>7. \A i \in 1..m : CentreOf(desks[i], axis) \in Int
  BY <1>6, CentreInt
<1>8. PICK start, end : start = CentreOf(desks[order[1]], axis) /\ end = CentreOf(desks[order[n]], axis)
  OBVIOUS
<1>9. start \in Int /\ end \in Int
  <2>1. 1 \in 1..n /\ n \in 1..n
    BY <1>4
  <2>. QED
    BY <1>4, <1>7, <1>8, <2>1
<1>10. PICK s \in Nat \ {0} : s = n - 1 /\ n = s + 1
  <2>1. n - 1 \in Nat \ {0} /\ n = (n - 1) + 1
    BY <1>4
  <2>. QED
    BY <2>1
<1>. DEFINE centre(k) == start + ((end - start) * (k - 1)) \div s
<1>11. after = [i \in 1..m |->
                  IF \E k \in 1..n : order[k] = i
                  THEN CentredAt(desks[i], axis, centre(CHOOSE k \in 1..n : order[k] = i))
                  ELSE desks[i]]
  <2>1. Head(order) = order[1] /\ Last(order) = order[n]
    BY <1>3, <1>4 DEF Last
  <2>2. DOMAIN desks = 1..m
    OBVIOUS
  <2>. QED
    BY <1>3, <1>4, <1>8, <1>10, <2>1, <2>2 DEF distributeSelected
<1>12. \A k \in 1..n : after[order[k]] = CentredAt(desks[order[k]], axis, centre(k))
  <2>1. SUFFICES ASSUME NEW k \in 1..n
                 PROVE  after[order[k]] = CentredAt(desks[order[k]], axis, centre(k))
    OBVIOUS
  <2>2. PICK l : l = CHOOSE e \in 1..n : order[e] = order[k]
    OBVIOUS
  <2>3. l = k
    BY <1>5, <2>2
  <2>4. order[k] \in 1..m
    BY <1>4
  <2>5. after[order[k]] = CentredAt(desks[order[k]], axis, centre(l))
    BY <1>11, <2>2, <2>4
  <2>. QED
    BY <2>3, <2>5
\* The centre meant for the k-th desk, and the rest of its division.
<1>13. ASSUME NEW k \in 1..n
       PROVE  /\ centre(k) \in Int
              /\ 0 <= (s * start + (end - start) * (k - 1)) - s * centre(k)
              /\ (s * start + (end - start) * (k - 1)) - s * centre(k) < s
  <2>1. k - 1 \in Int
    BY <1>4
  <2>2. PICK a \in Int : a = (end - start) * (k - 1)
    BY <1>9, <2>1
  <2>3. PICK q, u \in Int : q = a \div s /\ a = q * s + u /\ 0 <= u /\ u < s
    BY <1>10, <2>2, DivMod
  <2>4. PICK c \in Int : c = centre(k) /\ c = start + q
    <3>1. centre(k) = start + q
      BY <2>2, <2>3
    <3>2. start + q \in Int
      BY <1>9, <2>3
    <3>. QED
      BY <3>1, <3>2
  <2>5. s * c = s * start + q * s
    <3>1. s * (start + q) = s * start + q * s
      BY <1>9, <1>10, <2>3
    <3>. QED
      BY <2>4, <3>1
  <2>6. PICK f \in Int, g \in Int : f = s * start /\ g = q * s
    <3>1. \A e \in Int : s * e \in Int /\ e * s \in Int
      BY <1>10
    <3>2. start \in Int /\ q \in Int
      BY <1>9
    <3>3. s * start \in Int /\ q * s \in Int
      BY <3>1, <3>2
    <3>. QED
      BY <3>3
  <2>7. 0 <= (s * start + a) - s * c /\ (s * start + a) - s * c < s
    <3>1. a = g + u
      BY <2>3, <2>6
    <3>2. (f + a) - (f + g) = u
      BY <3>1
    <3>3. 0 <= (f + a) - (f + g) /\ (f + a) - (f + g) < s
      BY <2>3, <3>2
    <3>. QED
      BY <2>5, <2>6, <3>3
  <2>. QED
    BY <2>2, <2>4, <2>7
<1>14. centre(1) = start /\ centre(n) = end
  <2>1. (end - start) * (1 - 1) = 0 * s /\ (end - start) * (n - 1) = (end - start) * s
    <3>1. (end - start) * (1 - 1) = 0 * s
      BY <1>9, <1>10
    <3>2. (end - start) * (n - 1) = (end - start) * s
      <4>1. n - 1 = s
        BY <1>10
      <4>. QED
        BY <4>1
    <3>. QED
      BY <3>1, <3>2
  <2>2. (0 * s) \div s = 0 /\ ((end - start) * s) \div s = end - start
    BY <1>9, <1>10, DivExact
  <2>3. start + 0 = start /\ start + (end - start) = end
    BY <1>9
  <2>. QED
    BY <2>1, <2>2, <2>3
<1>. HIDE DEF centre
<1>15. ASSUME NEW k \in 1..n
       PROVE  /\ CentreOf(after[order[k]], axis) \in {centre(k), centre(k) - 1}
              /\ (CentreOf(desks[order[k]], axis) - centre(k)) % 2 = 0
                   => CentreOf(after[order[k]], axis) = centre(k)
              /\ centre(k) = CentreOf(desks[order[k]], axis) => after[order[k]] = desks[order[k]]
              /\ IF axis = "x" THEN after[order[k]].y = desks[order[k]].y
                 ELSE after[order[k]].x = desks[order[k]].x
  <2>1. PICK d \in DesksOf(Ids), c \in Int : d = desks[order[k]] /\ c = centre(k)
    BY <1>4, <1>6, <1>13
  <2>4. PICK e : e = CentredAt(d, axis, c)
    OBVIOUS
  <2>2. e = after[order[k]]
    BY <1>12, <2>1, <2>4
  <2>5. CentreMovedTo(d, e, axis, c, Ids)
    BY <2>4, CentreMoved
  <2>3. /\ CentreOf(e, axis) \in {c, c - 1}
        /\ (CentreOf(d, axis) - c) % 2 = 0 => CentreOf(e, axis) = c
        /\ c = CentreOf(d, axis) => e = d
        /\ IF axis = "x" THEN e.y = d.y ELSE e.x = d.x
    BY <2>5 DEF CentreMovedTo
  <2>. QED
    BY <2>1, <2>2, <2>3
<1>16. SpacedOut(after, desks, order, n, axis)
  <2>1. DOMAIN after = 1..m /\ DOMAIN desks = 1..m
    BY <1>11
  <2>2. ASSUME NEW i \in 1..m, ~(\E k \in 1..n : order[k] = i) PROVE after[i] = desks[i]
    BY <1>11, <2>2
  <2>3. after[order[1]] = desks[order[1]] /\ after[order[n]] = desks[order[n]]
    <3>1. 1 \in 1..n /\ n \in 1..n
      BY <1>4
    <3>. QED
      BY <1>8, <1>14, <1>15, <3>1
  <2>4. ASSUME NEW i \in 1..m, i \notin {order[k] : k \in 2..(n - 1)} PROVE after[i] = desks[i]
    <3>1. CASE \E k \in 1..n : order[k] = i
      <4>1. PICK k \in 1..n : order[k] = i
        BY <3>1
      <4>2. k \notin 2..(n - 1)
        BY <2>4, <4>1
      <4>3. k = 1 \/ k = n
        BY <1>4, <4>2
      <4>. QED
        BY <2>3, <4>1, <4>3
    <3>. QED
      BY <2>2, <3>1
  <2>5. ASSUME NEW i \in 1..m
        PROVE  IF axis = "x" THEN after[i].y = desks[i].y ELSE after[i].x = desks[i].x
    BY <1>15, <2>2
  <2>6. ASSUME NEW k \in 1..n
        PROVE  LET short == ((n - 1) * start + (end - start) * (k - 1))
                               - (n - 1) * CentreOf(after[order[k]], axis)
               IN  0 <= short /\ short < 2 * (n - 1)
    <3>1. PICK t \in Int : t = s * start + (end - start) * (k - 1)
      <4>1. s * start \in Int /\ (end - start) * (k - 1) \in Int
        BY <1>4, <1>9, <1>10
      <4>. QED
        BY <4>1
    <3>2. PICK c \in Int : c = centre(k) /\ 0 <= t - s * c /\ t - s * c < s
      BY <1>13, <3>1
    <3>3. PICK sc \in Int : sc = s * c /\ s * (c - 1) = sc - s
      <4>1. s \in Int /\ c \in Int
        BY <1>10
      <4>2. s * c \in Int /\ s * (c - 1) = s * c - s
        BY <4>1
      <4>. QED
        BY <4>2
    <3>4. 0 <= t - sc /\ t - sc < s
      BY <3>2, <3>3
    <3>5. \A e \in {c, c - 1} : 0 <= t - s * e /\ t - s * e < 2 * s
      <4>1. 0 <= t - sc /\ t - sc < 2 * s /\ 0 <= t - (sc - s) /\ t - (sc - s) < 2 * s
        <5>1. \A f \in Int : 0 <= f /\ f < s =>
                 0 <= f /\ f < 2 * s /\ 0 <= f + s /\ f + s < 2 * s
          BY <1>10
        <5>2. t - sc \in Int /\ t - (sc - s) = (t - sc) + s
          BY <1>10
        <5>. QED
          BY <3>4, <5>1, <5>2
      <4>. QED
        BY <3>3, <4>1
    <3>6. PICK e : e = CentreOf(after[order[k]], axis)
      OBVIOUS
    <3>7. e \in {c, c - 1}
      BY <1>15, <3>2, <3>6
    <3>8. 0 <= t - s * e /\ t - s * e < 2 * s
      BY <3>5, <3>7
    <3>9. n - 1 = s
      BY <1>10
    <3>. QED
      BY <3>1, <3>6, <3>8, <3>9
  <2>. QED
    BY <1>8, <2>1, <2>4, <2>5, <2>6 DEF SpacedOut
<1>17. ASSUME DividesEvenly(desks, order, n, axis)
       PROVE  \E step \in Int : \A k \in 1..n :
                 CentreOf(after[order[k]], axis) = start + step * (k - 1)
  <2>1. PICK h \in Int : end - start = h * (2 * s)
    <3>1. (end - start) % (2 * s) = 0
      <4>1. (end - start) % (2 * (n - 1)) = 0
        BY <1>8, <1>17 DEF DividesEvenly
      <4>2. n - 1 = s
        BY <1>10
      <4>. QED
        BY <4>1, <4>2
    <3>2. 2 * s \in Nat \ {0} /\ end - start \in Int
      BY <1>9, <1>10
    <3>. QED
      BY <3>1, <3>2, MultipleOf
  <2>2. ASSUME NEW k \in 1..n
        PROVE  CentreOf(after[order[k]], axis) = start + (2 * h) * (k - 1)
    <3>1. PICK j \in Int : j = k - 1
      BY <1>4
    <3>2. (end - start) * j = ((2 * h) * j) * s
      <4>1. (h * (2 * s)) * j = ((2 * h) * j) * s
        BY <1>10
      <4>. QED
        BY <2>1, <4>1
    <3>3. ((end - start) * j) \div s = (2 * h) * j
      <4>1. PICK a \in Int : a = (2 * h) * j
        OBVIOUS
      <4>. QED
        BY <1>10, <3>2, <4>1, DivExact
    <3>4. centre(k) = start + (2 * h) * j
      BY <3>1, <3>3 DEF centre
    <3>5. PICK c \in Int : c = CentreOf(desks[order[k]], axis)
      BY <1>4, <1>7
    <3>6. (c - start) % 2 = 0
      BY <1>8, <1>17, <3>5 DEF DividesEvenly
    <3>7. (c - centre(k)) % 2 = 0
      <4>1. PICK a \in Int : c - start = a * 2
        <5>1. c - start \in Int /\ 2 \in Nat \ {0}
          BY <1>9
        <5>. QED
          BY <3>6, <5>1, MultipleOf
      <4>2. PICK b \in Int : b = h * j
        OBVIOUS
      <4>3. (2 * h) * j = 2 * b
        BY <4>2
      <4>4. c - centre(k) = (a - b) * 2
        BY <1>9, <3>4, <4>1, <4>3
      <4>5. a - b \in Int /\ 2 \in Nat \ {0}
        OBVIOUS
      <4>. QED
        BY <4>4, <4>5, MultipleMod
    <3>8. CentreOf(after[order[k]], axis) = centre(k)
      BY <1>15, <3>5, <3>7
    <3>9. PICK e : e = CentreOf(after[order[k]], axis)
      OBVIOUS
    <3>10. e = start + (2 * h) * j
      BY <3>4, <3>8, <3>9
    <3>11. \A i : i = j => start + (2 * h) * j = start + (2 * h) * i
      OBVIOUS
    <3>12. start + (2 * h) * j = start + (2 * h) * (k - 1)
      BY <3>1, <3>11
    <3>. QED
      BY <3>9, <3>10, <3>12
  <2>3. PICK step \in Int : step = 2 * h
    OBVIOUS
  <2>4. \A k \in 1..n : CentreOf(after[order[k]], axis) = start + step * (k - 1)
    BY <2>2, <2>3
  <2>. QED
    BY <2>4
<1>. QED
  BY <1>8, <1>16, <1>17 DEF EvenlySpaced

\* The sampled rows, and what they are lined up or distributed by.
LEMMA ArrangeSample ==
    ASSUME NEW s \in Samples \cup {NoSample}
    PROVE  /\ s.kind = "align" => /\ s.desks \in DeskRows /\ s.ids \in SUBSET {1, 2, 3}
                                  /\ s.how \in Alignments
           /\ s.kind = "distribute" => /\ s.desks \in DeskRows /\ s.ids \in SUBSET {1, 2, 3}
                                       /\ s.how \in {"x", "y"}
<1>1. ASSUME s.kind = "align"
      PROVE  s.desks \in DeskRows /\ s.ids \in SUBSET {1, 2, 3} /\ s.how \in Alignments
  <2>1. s \in [kind : {"align"}, desks : DeskRows, ids : SUBSET {1, 2, 3}, how : Alignments]
    BY <1>1 DEF Samples, NoSample, Alignments
  <2>. QED
    BY <2>1
<1>2. ASSUME s.kind = "distribute"
      PROVE  s.desks \in DeskRows /\ s.ids \in SUBSET {1, 2, 3} /\ s.how \in {"x", "y"}
  <2>1. s \in [kind : {"distribute"}, desks : DeskRows, ids : SUBSET {1, 2, 3}, how : {"x", "y"}]
    BY <1>2 DEF Samples, NoSample
  <2>. QED
    BY <2>1
<1>. QED
  BY <1>1, <1>2

\* A sampled row has three desks, and the places of the picked ones are their ids.
LEMMA RowPicked ==
    ASSUME NEW row \in DeskRows, NEW ids \in SUBSET {1, 2, 3}
    PROVE  /\ row \in [1..3 -> DesksOf(1..3)] /\ DOMAIN row = 1..3
           /\ Picked(row, ids) = ids /\ IsFiniteSet(ids)
           /\ Cardinality(ids) \in 0..3 /\ (~(Cardinality(ids) < 3) => Cardinality(ids) = 3)
<1>1. row \in [1..3 -> DesksOf(1..3)] /\ \A i \in 1..3 : row[i].id = i
  BY RowsAssumption DEF DesksOf
<1>2. DOMAIN row = 1..3 /\ 1..3 = {1, 2, 3}
  BY <1>1
<1>3. Picked(row, ids) = ids
  BY <1>1, <1>2 DEF Picked
<1>4. IsFiniteSet(1..3) /\ Cardinality(1..3) = 3
  <2>1. PICK b \in Int, c \in Int : b = 1 /\ c = 3
    OBVIOUS
  <2>2. IsFiniteSet(b..c) /\ Cardinality(b..c) = IF b > c THEN 0 ELSE c - b + 1
    BY FS_Interval
  <2>. QED
    BY <2>1, <2>2
<1>5. IsFiniteSet(ids) /\ Cardinality(ids) <= 3
  <2>1. PICK S : S = 1..3
    OBVIOUS
  <2>2. ids \in SUBSET S
    BY <1>2, <2>1
  <2>3. IsFiniteSet(ids) /\ Cardinality(ids) <= Cardinality(S)
    BY <1>4, <2>1, <2>2, FS_Subset
  <2>. QED
    BY <1>4, <2>1, <2>3
<1>6. Cardinality(ids) \in Nat
  BY <1>5, FS_CardinalityType
<1>. QED
  BY <1>1, <1>2, <1>3, <1>5, <1>6

\* Fewer than three picked desks are not moved, and three are, evenly.
LEMMA RowDistributed ==
    ASSUME NEW row \in DeskRows, NEW ids \in SUBSET {1, 2, 3}, NEW axis \in {"x", "y"},
           NEW after, after = distributeSelected(row, ids, axis),
           NEW order, order = ByCentre(row, ids, axis)
    PROVE  /\ DOMAIN after = 1..3
           /\ \A i \in 1..3 : i \notin {order[k] : k \in 2..(Len(order) - 1)} => after[i] = row[i]
           /\ Len(order) >= 3 => /\ Len(order) = 3 /\ order[1] \in 1..3
                                 /\ EvenlySpaced(after, row, order, 3, axis)
<1>1. /\ row \in [1..3 -> DesksOf(1..3)] /\ DOMAIN row = 1..3
      /\ Picked(row, ids) = ids /\ IsFiniteSet(ids)
      /\ Cardinality(ids) \in 0..3 /\ (~(Cardinality(ids) < 3) => Cardinality(ids) = 3)
  BY RowPicked
<1>2. PICK n \in 0..3 : n = Cardinality(ids)
  BY <1>1
<1>3. PICK R : R = CentredBefore(row, ids, axis)
  OBVIOUS
<1>4. Ordered(order, n, ids, R) /\ order \in Seq(1..3) /\ Len(order) = n
  <2>1. PICK m \in Nat : m = 3
    OBVIOUS
  <2>2. row \in [1..m -> DesksOf(1..3)] /\ n = Cardinality(ids) /\ ids = Picked(row, ids)
    BY <1>1, <1>2, <2>1
  <2>3. PICK picked : picked = Picked(row, ids) /\ n = Cardinality(picked)
    BY <2>2
  <2>4. /\ Ordered(order, n, picked, CentredBefore(row, picked, axis))
        /\ order \in Seq(1..m) /\ Len(order) = n
    BY <2>2, <2>3, CentresInOrder
  <2>. QED
    BY <1>1, <1>3, <2>1, <2>3, <2>4
<1>5. CASE n < 3
  <2>1. after = row
    BY <1>2, <1>5 DEF distributeSelected
  <2>. QED
    BY <1>1, <1>4, <1>5, <2>1
<1>6. CASE ~(n < 3)
  <2>1. n = 3
    BY <1>6
  <2>2. DividesEvenly(row, order, 3, axis)
    <3>1. order[1] \in 1..3 /\ order[2] \in 1..3 /\ order[3] \in 1..3
      BY <1>4, <2>1
    <3>2. \A i, j \in 1..3 : (CentreOf(row[i], axis) - CentreOf(row[j], axis)) % 4 = 0
      BY RowsAssumption
    <3>3. \A i \in 1..3 : CentreOf(row[i], axis) \in Int
      BY <1>1, CentreInt
    <3>4. PICK at : at = [i \in 1..3 |-> CentreOf(row[i], axis)]
      OBVIOUS
    <3>5. \A i, j \in 1..3 : at[i] \in Int /\ (at[i] - at[j]) % 4 = 0 /\ (at[i] - at[j]) % 2 = 0
      BY <3>2, <3>3, <3>4
    <3>6. (at[order[3]] - at[order[1]]) % 4 = 0
      BY <3>1, <3>5
    <3>7. \A k \in 1..3 : (at[order[k]] - at[order[1]]) % 2 = 0
      BY <3>1, <3>5
    <3>8. \A k \in 1..3 : CentreOf(row[order[k]], axis) = at[order[k]]
      BY <3>1, <3>4
    <3>9. 2 * (3 - 1) = 4
      OBVIOUS
    <3>. QED
      BY <3>6, <3>7, <3>8, <3>9 DEF DividesEvenly
  <2>3. SpacedOut(after, row, order, 3, axis) /\ EvenlySpaced(after, row, order, 3, axis)
    <3>1. PICK m \in Nat : m = 3
      OBVIOUS
    <3>2. /\ row \in [1..m -> DesksOf(1..3)] /\ ~(Cardinality(ids) < 3)
          /\ n = Cardinality(Picked(row, ids)) /\ n >= 2
      BY <1>1, <1>2, <1>6, <2>1, <3>1
    <3>3. /\ SpacedOut(after, row, order, n, axis)
          /\ DividesEvenly(row, order, n, axis) => EvenlySpaced(after, row, order, n, axis)
      BY <3>2, DistributeSpacesOut
    <3>. QED
      BY <2>1, <2>2, <3>3
  <2>4. /\ DOMAIN after = DOMAIN row
        /\ \A i \in DOMAIN after : i \notin {order[k] : k \in 2..(3 - 1)} => after[i] = row[i]
    BY <2>3 DEF SpacedOut
  <2>. QED
    BY <1>1, <1>4, <2>1, <2>3, <2>4
<1>. QED
  BY <1>5, <1>6

\* In every state lining up keeps the picked desks in the box they filled and
\* distributing spaces them evenly between the outermost two, and no other desk
\* moves (alignSelected, distributeSelected).
THEOREM AlwaysArranged == Spec => []Arranged
<1>1. ASSUME sample \in Samples \cup {NoSample}, sample.kind = "align"
      PROVE  LET after == alignSelected(sample.desks, sample.ids, sample.how)
                 before == boundingBoxOf(sample.desks, sample.ids)
                 box == boundingBoxOf(after, sample.ids)
             IN  /\ \A i \in DOMAIN after : sample.desks[i].id \notin sample.ids
                                               => after[i] = sample.desks[i]
                 /\ sample.ids # {} =>
                      /\ box.x >= before.x /\ box.x + box.w <= before.x + before.w
                      /\ box.y >= before.y /\ box.y + box.h <= before.y + before.h
                 /\ \A i \in DOMAIN after :
                      IF sample.how \in {"left", "hcenter", "right"}
                      THEN after[i].y = sample.desks[i].y ELSE after[i].x = sample.desks[i].x
  <2>1. PICK row \in DeskRows, ids \in SUBSET {1, 2, 3}, how \in Alignments :
            row = sample.desks /\ ids = sample.ids /\ how = sample.how
    BY <1>1, ArrangeSample
  <2>2. row \in [1..3 -> DesksOf(1..3)] /\ Picked(row, ids) = ids
    BY RowPicked
  <2>3. PICK after : after = alignSelected(row, ids, how)
    OBVIOUS
  <2>4. StaysInBox(after, row, ids, how)
    <3>1. PICK m \in Nat : m = 3
      OBVIOUS
    <3>2. row \in [1..m -> DesksOf(1..3)]
      BY <2>2, <3>1
    <3>. QED
      BY <2>3, <3>2, AlignStaysInBox
  <2>. QED
    BY <2>1, <2>2, <2>3, <2>4 DEF StaysInBox
<1>2. ASSUME sample \in Samples \cup {NoSample}, sample.kind = "distribute"
      PROVE  LET after == distributeSelected(sample.desks, sample.ids, sample.how)
                 order == ByCentre(sample.desks, sample.ids, sample.how)
                 at(i) == CentreOf(after[i], sample.how)
             IN  /\ \A i \in DOMAIN after :
                      i \notin {order[k] : k \in 2..(Len(order) - 1)} => after[i] = sample.desks[i]
                 /\ Len(order) >= 3 =>
                      \A k \in 2..(Len(order) - 1) :
                         at(order[k + 1]) - at(order[k]) = at(order[k]) - at(order[k - 1])
  <2>1. PICK row \in DeskRows, ids \in SUBSET {1, 2, 3}, axis \in {"x", "y"} :
            row = sample.desks /\ ids = sample.ids /\ axis = sample.how
    BY <1>2, ArrangeSample
  <2>2. PICK after : after = distributeSelected(row, ids, axis)
    OBVIOUS
  <2>3. PICK order : order = ByCentre(row, ids, axis)
    OBVIOUS
  <2>4. /\ DOMAIN after = 1..3
        /\ \A i \in 1..3 : i \notin {order[k] : k \in 2..(Len(order) - 1)} => after[i] = row[i]
        /\ Len(order) >= 3 => /\ Len(order) = 3 /\ order[1] \in 1..3
                              /\ EvenlySpaced(after, row, order, 3, axis)
    BY <2>2, <2>3, RowDistributed
  <2>5. ASSUME Len(order) >= 3, NEW k \in 2..(Len(order) - 1)
        PROVE  CentreOf(after[order[k + 1]], axis) - CentreOf(after[order[k]], axis)
                 = CentreOf(after[order[k]], axis) - CentreOf(after[order[k - 1]], axis)
    <3>1. k = 2 /\ EvenlySpaced(after, row, order, 3, axis)
      <4>1. Len(order) = 3 /\ EvenlySpaced(after, row, order, 3, axis)
        BY <2>4, <2>5
      <4>2. k \in 2..2
        BY <4>1
      <4>. QED
        BY <4>1, <4>2
    <3>2. PICK start : start = CentreOf(row[order[1]], axis)
      OBVIOUS
    <3>3. start \in Int
      <4>1. row \in [1..3 -> DesksOf(1..3)] /\ DOMAIN row = 1..3
        BY RowPicked
      <4>2. order[1] \in 1..3
        BY <2>4, <2>5
      <4>. QED
        BY <3>2, <4>1, <4>2, CentreInt
    <3>4. PICK step \in Int :
              \A j \in 1..3 : CentreOf(after[order[j]], axis) = start + step * (j - 1)
      BY <3>1, <3>2 DEF EvenlySpaced
    <3>5. /\ CentreOf(after[order[1]], axis) = start
          /\ CentreOf(after[order[2]], axis) = start + step
          /\ CentreOf(after[order[3]], axis) = start + 2 * step
      BY <3>3, <3>4
    <3>6. (start + 2 * step) - (start + step) = (start + step) - start
      BY <3>3
    <3>. QED
      BY <3>1, <3>5, <3>6
  <2>. QED
    BY <2>1, <2>2, <2>3, <2>4, <2>5
<1>3. ASSUME sample \in Samples \cup {NoSample} PROVE Arranged
  BY <1>1, <1>2, <1>3 DEF Arranged
<1>. QED
  BY <1>3, SampleStays, PTL

-----------------------------------------------------------------------------
(***************************************************************************)
(* Sides that meet                                                         *)
(***************************************************************************)

\* z lies between s and t.
Amid(z, s, t) == (s <= z /\ z <= t) \/ (t <= z /\ z <= s)

Cross(u, v) == u.x * v.y - u.y * v.x

\* A direction in which two segments do not overlap.
Separates(n, a, b, c, d) ==
    \/ Max({Dot(n, a), Dot(n, b)}) < Min({Dot(n, c), Dot(n, d)})
    \/ Min({Dot(n, a), Dot(n, b)}) > Max({Dot(n, c), Dot(n, d)})

\* What lies between keeps doing so when all is scaled by one factor, a positive one
\* first.
LEMMA ScaledUp ==
    ASSUME NEW k \in Nat \ {0}, NEW z \in Int, NEW y \in Int,
           NEW m \in Int, NEW e \in Int, NEW f \in Int,
           k * z = m * e, k * y = m * f, Within(e, f)
    PROVE  Within(z, y)
<1>1. \A i, j \in Int : k * i <= k * j => i <= j
  <2>1. SUFFICES ASSUME NEW i \in Int, NEW j \in Int, ~(i <= j) PROVE ~(k * i <= k * j)
    OBVIOUS
  <2>2. PICK r \in Nat \ {0} : i = j + r
    <3>1. i - j \in Nat \ {0} /\ i = j + (i - j)
      BY <2>1
    <3>. QED
      BY <3>1
  <2>3. k * i = k * j + k * r
    BY <2>2
  <2>4. k * r > 0
    BY <2>2
  <2>5. PICK g \in Int, h \in Int : g = k * j /\ h = k * r
    BY <2>2
  <2>6. k * i = g + h /\ h > 0
    BY <2>3, <2>4, <2>5
  <2>. QED
    BY <2>5, <2>6
<1>2. \A i \in Int : (0 <= k * i => 0 <= i) /\ (k * i <= 0 => i <= 0)
  <2>1. k * 0 = 0
    OBVIOUS
  <2>. QED
    BY <1>1, <2>1
<1>3. \A i, j \in Int : i <= j => (m >= 0 => m * i <= m * j) /\ (m <= 0 => m * j <= m * i)
  <2>1. SUFFICES ASSUME NEW i \in Int, NEW j \in Int, i <= j
                 PROVE  (m >= 0 => m * i <= m * j) /\ (m <= 0 => m * j <= m * i)
    OBVIOUS
  <2>2. PICK r \in Nat : j = i + r
    <3>1. j - i \in Nat /\ j = i + (j - i)
      BY <2>1
    <3>. QED
      BY <3>1
  <2>3. m * j = m * i + m * r
    BY <2>2
  <2>4. (m >= 0 => m * r >= 0) /\ (m <= 0 => m * r <= 0)
    BY <2>2
  <2>5. PICK g \in Int, h \in Int : g = m * i /\ h = m * r
    BY <2>2
  <2>6. m * j = g + h /\ (m >= 0 => h >= 0) /\ (m <= 0 => h <= 0)
    BY <2>3, <2>4, <2>5
  <2>. QED
    BY <2>5, <2>6
<1>4. m * 0 = 0
  OBVIOUS
<1>5. (0 <= m * e /\ m * e <= m * f) \/ (m * f <= m * e /\ m * e <= 0)
  <2>1. CASE 0 <= e /\ e <= f
    BY <1>3, <1>4, <2>1
  <2>2. CASE f <= e /\ e <= 0
    BY <1>3, <1>4, <2>2
  <2>. QED
    BY <2>1, <2>2 DEF Within
<1>6. (0 <= k * z /\ k * z <= k * y) \/ (k * y <= k * z /\ k * z <= 0)
  BY <1>5
<1>. QED
  BY <1>1, <1>2, <1>6 DEF Within

\* The same for any factor but 0.
LEMMA Scaled ==
    ASSUME NEW k \in Int, k # 0, NEW z \in Int, NEW y \in Int,
           NEW m \in Int, NEW e \in Int, NEW f \in Int,
           k * z = m * e, k * y = m * f, Within(e, f)
    PROVE  Within(z, y)
<1>1. CASE k > 0
  <2>1. PICK h \in Nat \ {0} : h = k
    BY <1>1
  <2>2. h * z = m * e /\ h * y = m * f
    BY <2>1
  <2>. QED
    BY <2>2, ScaledUp
<1>2. CASE k < 0
  <2>1. PICK h \in Nat \ {0}, g \in Int : h = -k /\ g = -m
    BY <1>2
  <2>2. h * z = -(k * z) /\ h * y = -(k * y) /\ g * e = -(m * e) /\ g * f = -(m * f)
    BY <2>1
  <2>3. h * z = g * e /\ h * y = g * f
    BY <2>2
  <2>. QED
    BY <2>3, ScaledUp
<1>. QED
  BY <1>1, <1>2

\* The determinants of four points in terms of the sides and of the line between two
\* ends, and how far the points lie along a direction.
LEMMA Framed ==
    ASSUME NEW a \in Points, NEW b \in Points, NEW c \in Points, NEW d \in Points,
           NEW u, u = Less(b, a), NEW v, v = Less(d, c), NEW w, w = Less(c, a)
    PROVE  /\ u \in Points /\ v \in Points /\ w \in Points
           /\ Cross(u, v) \in Int /\ Cross(u, w) \in Int /\ Cross(v, w) \in Int
           /\ orientation(a, b, c) = -Cross(u, w)
           /\ orientation(a, b, d) = -Cross(u, w) - Cross(u, v)
           /\ orientation(c, d, a) = Cross(v, w)
           /\ orientation(c, d, b) = Cross(v, w) + Cross(u, v)
           /\ \A n \in Points :
                 /\ Dot(n, a) \in Int /\ Dot(n, u) \in Int /\ Dot(n, v) \in Int /\ Dot(n, w) \in Int
                 /\ Dot(n, b) = Dot(n, a) + Dot(n, u)
                 /\ Dot(n, c) = Dot(n, a) + Dot(n, w)
                 /\ Dot(n, d) = Dot(n, a) + Dot(n, w) + Dot(n, v)
<1>1. PICK ax \in Int, ay \in Int : ax = a.x /\ ay = a.y
  BY DEF Points
<1>2. PICK bx \in Int, by \in Int : bx = b.x /\ by = b.y
  BY DEF Points
<1>3. PICK cx \in Int, cy \in Int : cx = c.x /\ cy = c.y
  BY DEF Points
<1>4. PICK dx \in Int, dy \in Int : dx = d.x /\ dy = d.y
  BY DEF Points
<1>5. PICK ux \in Int, uy \in Int : ux = bx - ax /\ uy = by - ay
  OBVIOUS
<1>6. PICK vx \in Int, vy \in Int : vx = dx - cx /\ vy = dy - cy
  OBVIOUS
<1>7. PICK wx \in Int, wy \in Int : wx = cx - ax /\ wy = cy - ay
  OBVIOUS
<1>8. /\ u = [x |-> ux, y |-> uy] /\ v = [x |-> vx, y |-> vy] /\ w = [x |-> wx, y |-> wy]
  BY <1>1, <1>2, <1>3, <1>4, <1>5, <1>6, <1>7 DEF Less, At
<1>9. /\ Cross(u, v) = ux * vy - uy * vx /\ Cross(u, w) = ux * wy - uy * wx
      /\ Cross(v, w) = vx * wy - vy * wx
  BY <1>8 DEF Cross
<1>10. u \in Points /\ v \in Points /\ w \in Points
  BY <1>8 DEF Points
<1>11. /\ orientation(a, b, c) = -(ux * wy - uy * wx)
       /\ orientation(a, b, d) = -(ux * wy - uy * wx) - (ux * vy - uy * vx)
       /\ orientation(c, d, a) = vx * wy - vy * wx
       /\ orientation(c, d, b) = (vx * wy - vy * wx) + (ux * vy - uy * vx)
  <2>1. /\ bx = ax + ux /\ by = ay + uy /\ cx = ax + wx /\ cy = ay + wy
        /\ dx = ax + wx + vx /\ dy = ay + wy + vy
    BY <1>5, <1>6, <1>7
  <2>2. /\ orientation(a, b, c) = (by - ay) * (cx - bx) - (bx - ax) * (cy - by)
        /\ orientation(a, b, d) = (by - ay) * (dx - bx) - (bx - ax) * (dy - by)
        /\ orientation(c, d, a) = (dy - cy) * (ax - dx) - (dx - cx) * (ay - dy)
        /\ orientation(c, d, b) = (dy - cy) * (bx - dx) - (dx - cx) * (by - dy)
    BY <1>1, <1>2, <1>3, <1>4 DEF orientation
  <2>3. /\ cx - bx = wx - ux /\ cy - by = wy - uy /\ dx - bx = wx + vx - ux /\ dy - by = wy + vy - uy
        /\ ax - dx = -(wx + vx) /\ ay - dy = -(wy + vy)
        /\ bx - dx = ux - wx - vx /\ by - dy = uy - wy - vy
        /\ by - ay = uy /\ bx - ax = ux /\ dy - cy = vy /\ dx - cx = vx
    BY <2>1
  <2>4. /\ orientation(a, b, c) = uy * (wx - ux) - ux * (wy - uy)
        /\ orientation(a, b, d) = uy * (wx + vx - ux) - ux * (wy + vy - uy)
        /\ orientation(c, d, a) = vy * (-(wx + vx)) - vx * (-(wy + vy))
        /\ orientation(c, d, b) = vy * (ux - wx - vx) - vx * (uy - wy - vy)
    BY <2>2, <2>3
  <2>5. uy * (wx - ux) - ux * (wy - uy) = -(ux * wy - uy * wx)
    OBVIOUS
  <2>6. uy * (wx + vx - ux) - ux * (wy + vy - uy) = -(ux * wy - uy * wx) - (ux * vy - uy * vx)
    OBVIOUS
  <2>7. vy * (-(wx + vx)) - vx * (-(wy + vy)) = vx * wy - vy * wx
    OBVIOUS
  <2>8. vy * (ux - wx - vx) - vx * (uy - wy - vy) = (vx * wy - vy * wx) + (ux * vy - uy * vx)
    OBVIOUS
  <2>. QED
    BY <2>4, <2>5, <2>6, <2>7, <2>8
<1>12. ASSUME NEW n \in Points
       PROVE  /\ Dot(n, a) \in Int /\ Dot(n, u) \in Int /\ Dot(n, v) \in Int /\ Dot(n, w) \in Int
              /\ Dot(n, b) = Dot(n, a) + Dot(n, u)
              /\ Dot(n, c) = Dot(n, a) + Dot(n, w)
              /\ Dot(n, d) = Dot(n, a) + Dot(n, w) + Dot(n, v)
  <2>1. PICK nx \in Int, ny \in Int : nx = n.x /\ ny = n.y
    BY DEF Points
  <2>2. /\ bx = ax + ux /\ by = ay + uy /\ cx = ax + wx /\ cy = ay + wy
        /\ dx = ax + wx + vx /\ dy = ay + wy + vy
    BY <1>5, <1>6, <1>7
  <2>3. /\ Dot(n, a) = nx * ax + ny * ay /\ Dot(n, b) = nx * (ax + ux) + ny * (ay + uy)
        /\ Dot(n, c) = nx * (ax + wx) + ny * (ay + wy)
        /\ Dot(n, d) = nx * (ax + wx + vx) + ny * (ay + wy + vy)
    BY <1>1, <1>2, <1>3, <1>4, <2>1, <2>2 DEF Dot
  <2>4. /\ Dot(n, u) = nx * ux + ny * uy /\ Dot(n, v) = nx * vx + ny * vy
        /\ Dot(n, w) = nx * wx + ny * wy
    BY <1>8, <2>1 DEF Dot
  <2>5. /\ nx * ax + ny * ay \in Int /\ nx * ux + ny * uy \in Int
        /\ nx * vx + ny * vy \in Int /\ nx * wx + ny * wy \in Int
    OBVIOUS
  <2>6. /\ nx * (ax + ux) + ny * (ay + uy) = (nx * ax + ny * ay) + (nx * ux + ny * uy)
        /\ nx * (ax + wx) + ny * (ay + wy) = (nx * ax + ny * ay) + (nx * wx + ny * wy)
    OBVIOUS
  <2>7. nx * (ax + wx + vx) + ny * (ay + wy + vy)
          = (nx * ax + ny * ay) + (nx * wx + ny * wy) + (nx * vx + ny * vy)
    OBVIOUS
  <2>. QED
    BY <2>3, <2>4, <2>5, <2>6, <2>7
<1>13. /\ ux * vy - uy * vx \in Int /\ ux * wy - uy * wx \in Int /\ vx * wy - vy * wx \in Int
  OBVIOUS
<1>. QED
  BY <1>9, <1>10, <1>11, <1>12, <1>13

\* A point between two others, both ways, is on the segment's box.
LEMMA OnSegmentIs ==
    ASSUME NEW a \in Points, NEW b \in Points, NEW c \in Points
    PROVE  onSegment(a, b, c) <=> /\ Within(b.x - a.x, c.x - a.x)
                                  /\ Within(b.y - a.y, c.y - a.y)
<1>1. /\ a.x \in Int /\ a.y \in Int /\ b.x \in Int /\ b.y \in Int /\ c.x \in Int /\ c.y \in Int
  BY DEF Points
<1>2. /\ Min({a.x, c.x}) = (IF a.x <= c.x THEN a.x ELSE c.x)
      /\ Max({a.x, c.x}) = (IF a.x >= c.x THEN a.x ELSE c.x)
      /\ Min({a.y, c.y}) = (IF a.y <= c.y THEN a.y ELSE c.y)
      /\ Max({a.y, c.y}) = (IF a.y >= c.y THEN a.y ELSE c.y)
  BY <1>1, MaxOfTwo, MinOfTwo
<1>. QED
  BY <1>1, <1>2 DEF onSegment, Within

\* Segments overlap in a direction exactly when an end of one lies between the ends
\* of the other.
LEMMA SeparatesIs ==
    ASSUME NEW n, NEW a, NEW b, NEW c, NEW d,
           Dot(n, a) \in Int, Dot(n, b) \in Int, Dot(n, c) \in Int, Dot(n, d) \in Int
    PROVE  ~Separates(n, a, b, c, d) <=>
               \/ Amid(Dot(n, c), Dot(n, a), Dot(n, b)) \/ Amid(Dot(n, d), Dot(n, a), Dot(n, b))
               \/ Amid(Dot(n, a), Dot(n, c), Dot(n, d)) \/ Amid(Dot(n, b), Dot(n, c), Dot(n, d))
<1>1. PICK i \in Int, j \in Int, k \in Int, l \in Int :
          i = Dot(n, a) /\ j = Dot(n, b) /\ k = Dot(n, c) /\ l = Dot(n, d)
  OBVIOUS
<1>2. /\ Max({i, j}) = (IF i >= j THEN i ELSE j) /\ Min({i, j}) = (IF i <= j THEN i ELSE j)
      /\ Max({k, l}) = (IF k >= l THEN k ELSE l) /\ Min({k, l}) = (IF k <= l THEN k ELSE l)
  BY MaxOfTwo, MinOfTwo
<1>3. ~(Max({i, j}) < Min({k, l}) \/ Min({i, j}) > Max({k, l})) <=>
         Amid(k, i, j) \/ Amid(l, i, j) \/ Amid(i, k, l) \/ Amid(j, k, l)
  BY <1>2 DEF Amid
<1>. QED
  BY <1>1, <1>3 DEF Separates

\* A point of a segment's line inside its box lies between its ends in every
\* direction.
LEMMA OnSegmentAmid ==
    ASSUME NEW a \in Points, NEW b \in Points, NEW c \in Points, NEW n \in Points,
           orientation(a, b, c) = 0, onSegment(a, c, b)
    PROVE  Amid(Dot(n, c), Dot(n, a), Dot(n, b))
<1>1. PICK u \in Points, w \in Points : u = Less(b, a) /\ w = Less(c, a)
  BY Framed
<1>2. /\ Cross(u, w) = 0
      /\ Dot(n, a) \in Int /\ Dot(n, u) \in Int /\ Dot(n, w) \in Int
      /\ Dot(n, b) = Dot(n, a) + Dot(n, u) /\ Dot(n, c) = Dot(n, a) + Dot(n, w)
  <2>1. PICK v : v = Less(c, c)
    OBVIOUS
  <2>2. orientation(a, b, c) = -Cross(u, w) /\ Cross(u, w) \in Int
    BY <1>1, <2>1, Framed
  <2>3. /\ Dot(n, a) \in Int /\ Dot(n, u) \in Int /\ Dot(n, w) \in Int
        /\ Dot(n, b) = Dot(n, a) + Dot(n, u) /\ Dot(n, c) = Dot(n, a) + Dot(n, w)
    BY <1>1, <2>1, Framed
  <2>. QED
    BY <2>2, <2>3
<1>3. PICK ux \in Int, uy \in Int, wx \in Int, wy \in Int, nx \in Int, ny \in Int :
          ux = u.x /\ uy = u.y /\ wx = w.x /\ wy = w.y /\ nx = n.x /\ ny = n.y
  BY DEF Points
<1>4. Within(wx, ux) /\ Within(wy, uy)
  <2>1. wx = c.x - a.x /\ wy = c.y - a.y /\ ux = b.x - a.x /\ uy = b.y - a.y
    BY <1>1, <1>3 DEF Less, At
  <2>. QED
    BY <2>1, OnSegmentIs
<1>5. ux * wy = uy * wx
  <2>1. Cross(u, w) = ux * wy - uy * wx
    BY <1>3 DEF Cross
  <2>2. ux * wy \in Int /\ uy * wx \in Int
    OBVIOUS
  <2>. QED
    BY <1>2, <2>1, <2>2
<1>6. PICK U \in Int, W \in Int : /\ U = Dot(n, u) /\ W = Dot(n, w)
                                  /\ U = nx * ux + ny * uy /\ W = nx * wx + ny * wy
  BY <1>2, <1>3 DEF Dot
<1>7. Within(W, U)
  <2>1. CASE ux # 0
    <3>1. ux * W = U * wx
      <4>1. ux * (nx * wx + ny * wy) = nx * (ux * wx) + ny * (ux * wy)
        OBVIOUS
      <4>2. nx * (ux * wx) + ny * (uy * wx) = (nx * ux + ny * uy) * wx
        OBVIOUS
      <4>. QED
        BY <1>5, <1>6, <4>1, <4>2
    <3>2. ux * U = U * ux
      OBVIOUS
    <3>. QED
      BY <1>4, <2>1, <3>1, <3>2, Scaled
  <2>2. CASE uy # 0
    <3>1. uy * W = U * wy
      <4>1. uy * (nx * wx + ny * wy) = nx * (uy * wx) + ny * (uy * wy)
        OBVIOUS
      <4>2. nx * (ux * wy) + ny * (uy * wy) = (nx * ux + ny * uy) * wy
        OBVIOUS
      <4>. QED
        BY <1>5, <1>6, <4>1, <4>2
    <3>2. uy * U = U * uy
      OBVIOUS
    <3>. QED
      BY <1>4, <2>2, <3>1, <3>2, Scaled
  <2>3. CASE ux = 0 /\ uy = 0
    <3>1. wx = 0 /\ wy = 0
      BY <1>4, <2>3 DEF Within
    <3>2. U = 0 /\ W = 0
      BY <1>6, <2>3, <3>1
    <3>. QED
      BY <3>2 DEF Within
  <2>. QED
    BY <2>1, <2>2, <2>3
<1>. QED
  BY <1>2, <1>6, <1>7 DEF Within, Amid

\* Along the line on which three points lie, one between the other two is on their
\* segment.
LEMMA AmidOnSegment ==
    ASSUME NEW a \in Points, NEW b \in Points, NEW c \in Points, NEW n \in Points,
           n.x # 0 \/ n.y # 0, Cross(n, Less(b, a)) = 0, Cross(n, Less(c, a)) = 0,
           Amid(Dot(n, c), Dot(n, a), Dot(n, b))
    PROVE  onSegment(a, c, b)
<1>1. PICK u \in Points, w \in Points : u = Less(b, a) /\ w = Less(c, a)
  BY Framed
<1>2. /\ Dot(n, a) \in Int /\ Dot(n, u) \in Int /\ Dot(n, w) \in Int
      /\ Dot(n, b) = Dot(n, a) + Dot(n, u) /\ Dot(n, c) = Dot(n, a) + Dot(n, w)
  BY <1>1, Framed
<1>3. PICK nx \in Int, ny \in Int : nx = n.x /\ ny = n.y
  BY DEF Points
<1>4. PICK k \in Int : k = nx * nx + ny * ny
  OBVIOUS
<1>5. k # 0
  <2>1. /\ nx * nx >= 0 /\ ny * ny >= 0
        /\ (nx # 0 => nx * nx > 0) /\ (ny # 0 => ny * ny > 0)
    OBVIOUS
  <2>2. PICK i \in Int, j \in Int : i = nx * nx /\ j = ny * ny
    OBVIOUS
  <2>. QED
    BY <1>3, <1>4, <2>1, <2>2
<1>6. ASSUME NEW q \in Points, Cross(n, q) = 0
      PROVE  k * q.x = nx * Dot(n, q) /\ k * q.y = ny * Dot(n, q)
  <2>1. PICK qx \in Int, qy \in Int : qx = q.x /\ qy = q.y
    BY DEF Points
  <2>2. nx * qy = ny * qx
    <3>1. Cross(n, q) = nx * qy - ny * qx
      BY <1>3, <2>1 DEF Cross
    <3>2. nx * qy \in Int /\ ny * qx \in Int
      OBVIOUS
    <3>. QED
      BY <1>6, <3>1, <3>2
  <2>3. Dot(n, q) = nx * qx + ny * qy
    BY <1>3, <2>1 DEF Dot
  <2>4. (nx * nx + ny * ny) * qx = nx * (nx * qx) + ny * (ny * qx)
    OBVIOUS
  <2>5. nx * (nx * qx) + ny * (nx * qy) = nx * (nx * qx + ny * qy)
    OBVIOUS
  <2>6. (nx * nx + ny * ny) * qy = nx * (nx * qy) + ny * (ny * qy)
    OBVIOUS
  <2>7. nx * (ny * qx) + ny * (ny * qy) = ny * (nx * qx + ny * qy)
    OBVIOUS
  <2>8. k * qx = nx * (nx * qx + ny * qy) /\ k * qy = ny * (nx * qx + ny * qy)
    BY <1>4, <2>2, <2>4, <2>5, <2>6, <2>7
  <2>. QED
    BY <2>1, <2>3, <2>8
<1>7. PICK e \in Int, f \in Int : e = Dot(n, w) /\ f = Dot(n, u)
  BY <1>2
<1>8. Within(e, f)
  BY <1>2, <1>7 DEF Amid, Within
<1>9. PICK ux \in Int, uy \in Int, wx \in Int, wy \in Int :
          ux = u.x /\ uy = u.y /\ wx = w.x /\ wy = w.y
  BY DEF Points
<1>10. k * wx = nx * e /\ k * wy = ny * e
  BY <1>1, <1>6, <1>7, <1>9
<1>14. k * ux = nx * f /\ k * uy = ny * f
  BY <1>1, <1>6, <1>7, <1>9
<1>11. Within(wx, ux)
  <2>1. k * wx = nx * e /\ k * ux = nx * f
    BY <1>10, <1>14
  <2>. QED
    BY <1>5, <1>8, <2>1, Scaled
<1>12. Within(wy, uy)
  <2>1. k * wy = ny * e /\ k * uy = ny * f
    BY <1>10, <1>14
  <2>. QED
    BY <1>5, <1>8, <2>1, Scaled
<1>13. wx = c.x - a.x /\ wy = c.y - a.y /\ ux = b.x - a.x /\ uy = b.y - a.y
  BY <1>1, <1>9 DEF Less, At
<1>. QED
  BY <1>11, <1>12, <1>13, OnSegmentIs

\* The line between two ends in terms of the two sides (Cramer's rule).
LEMMA Cramer ==
    ASSUME NEW u \in Points, NEW v \in Points, NEW w \in Points
    PROVE  /\ Cross(u, v) * w.x = Cross(u, w) * v.x - Cross(v, w) * u.x
           /\ Cross(u, v) * w.y = Cross(u, w) * v.y - Cross(v, w) * u.y
           /\ \A n \in Points : Cross(u, v) * Dot(n, w)
                                  = Cross(u, w) * Dot(n, v) - Cross(v, w) * Dot(n, u)
<1>1. PICK ux \in Int, uy \in Int, vx \in Int, vy \in Int, wx \in Int, wy \in Int :
          ux = u.x /\ uy = u.y /\ vx = v.x /\ vy = v.y /\ wx = w.x /\ wy = w.y
  BY DEF Points
<1>2. PICK D \in Int, i \in Int, j \in Int :
          /\ D = Cross(u, v) /\ i = Cross(u, w) /\ j = Cross(v, w)
          /\ D = ux * vy - uy * vx /\ i = ux * wy - uy * wx /\ j = vx * wy - vy * wx
  <2>1. /\ Cross(u, v) = ux * vy - uy * vx /\ Cross(u, w) = ux * wy - uy * wx
        /\ Cross(v, w) = vx * wy - vy * wx
    BY <1>1 DEF Cross
  <2>2. ux * vy - uy * vx \in Int /\ ux * wy - uy * wx \in Int /\ vx * wy - vy * wx \in Int
    OBVIOUS
  <2>. QED
    BY <2>1, <2>2
<1>3. D * wx = i * vx - j * ux
  <2>1. (ux * vy - uy * vx) * wx = (ux * wy - uy * wx) * vx - (vx * wy - vy * wx) * ux
    OBVIOUS
  <2>. QED
    BY <1>2, <2>1
<1>4. D * wy = i * vy - j * uy
  <2>1. (ux * vy - uy * vx) * wy = (ux * wy - uy * wx) * vy - (vx * wy - vy * wx) * uy
    OBVIOUS
  <2>. QED
    BY <1>2, <2>1
<1>5. ASSUME NEW n \in Points PROVE D * Dot(n, w) = i * Dot(n, v) - j * Dot(n, u)
  <2>1. PICK nx \in Int, ny \in Int : nx = n.x /\ ny = n.y
    BY DEF Points
  <2>2. /\ Dot(n, u) = nx * ux + ny * uy /\ Dot(n, v) = nx * vx + ny * vy
        /\ Dot(n, w) = nx * wx + ny * wy
    BY <1>1, <2>1 DEF Dot
  <2>3. D * (nx * wx + ny * wy) = nx * (D * wx) + ny * (D * wy)
    OBVIOUS
  <2>4. nx * (i * vx - j * ux) + ny * (i * vy - j * uy)
          = i * (nx * vx + ny * vy) - j * (nx * ux + ny * uy)
    OBVIOUS
  <2>. QED
    BY <1>3, <1>4, <2>2, <2>3, <2>4
<1>. QED
  BY <1>1, <1>2, <1>3, <1>4, <1>5

\* Two stretches of a line, 0 to U and W to W + V, with a point in common, g / D of
\* the one and e / D of the other, are not apart.
LEMMA CommonPointUp ==
    ASSUME NEW D \in Nat \ {0}, NEW e \in 0..D, NEW g \in 0..D,
           NEW U \in Int, NEW V \in Int, NEW W \in Int, D * W + e * V = g * U
    PROVE  ~(0 < W /\ 0 < W + V /\ U < W /\ U < W + V)
<1>1. SUFFICES ASSUME 0 < W, 0 < W + V, U < W, U < W + V PROVE FALSE
  OBVIOUS
<1>2. PICK M \in Int : M = IF U >= 0 THEN U ELSE 0
  OBVIOUS
<1>3. PICK m \in Int : m = IF V >= 0 THEN W ELSE W + V
  OBVIOUS
<1>4. \A a, b, c \in Int : c >= 0 /\ a <= b => c * a <= c * b
  <2>1. SUFFICES ASSUME NEW a \in Int, NEW b \in Int, NEW c \in Nat, a <= b PROVE c * a <= c * b
    OBVIOUS
  <2>2. a * c <= b * c
    BY <2>1, TimesKeeps
  <2>3. a * c = c * a /\ b * c = c * b
    OBVIOUS
  <2>. QED
    BY <2>2, <2>3
<1>5. D \in Int /\ e \in Int /\ g \in Int /\ D - e >= 0 /\ D - g >= 0 /\ e >= 0 /\ g >= 0 /\ D >= 0
  OBVIOUS
<1>6. g * U <= D * M
  <2>1. g * U <= g * M
    BY <1>2, <1>4, <1>5
  <2>2. (D - g) * 0 <= (D - g) * M
    BY <1>2, <1>4, <1>5
  <2>3. (D - g) * M = D * M - g * M /\ (D - g) * 0 = 0
    OBVIOUS
  <2>4. PICK x \in Int, y \in Int, z \in Int : x = g * U /\ y = g * M /\ z = D * M
    OBVIOUS
  <2>. QED
    BY <2>1, <2>2, <2>3, <2>4
<1>7. D * m <= D * W + e * V
  <2>1. CASE V >= 0
    <3>1. e * 0 <= e * V
      BY <1>4, <1>5, <2>1
    <3>2. e * 0 = 0 /\ m = W
      BY <1>3, <2>1
    <3>3. PICK x \in Int, y \in Int : x = D * W /\ y = e * V
      OBVIOUS
    <3>. QED
      BY <3>1, <3>2, <3>3
  <2>2. CASE V < 0
    <3>1. (D - e) * V <= (D - e) * 0
      BY <1>4, <1>5, <2>2
    <3>2. (D - e) * V = D * V - e * V /\ (D - e) * 0 = 0
      OBVIOUS
    <3>3. D * m = D * W + D * V
      BY <1>3, <2>2
    <3>4. PICK x \in Int, y \in Int, z \in Int : x = D * W /\ y = e * V /\ z = D * V
      OBVIOUS
    <3>. QED
      BY <3>1, <3>2, <3>3, <3>4
  <2>. QED
    BY <2>1, <2>2
<1>8. M + 1 <= m
  BY <1>1, <1>2, <1>3
<1>9. D * (M + 1) <= D * m
  BY <1>4, <1>5, <1>8
<1>10. D * (M + 1) = D * M + D
  OBVIOUS
<1>11. PICK x \in Int, y \in Int, z \in Int : x = D * M /\ y = D * m /\ z = g * U
  OBVIOUS
<1>. QED
  BY <1>6, <1>7, <1>9, <1>10, <1>11

LEMMA CommonPoint ==
    ASSUME NEW D \in Int, D # 0, NEW e \in Int, NEW g \in Int, Within(e, D), Within(g, D),
           NEW U \in Int, NEW V \in Int, NEW W \in Int, D * W + e * V = g * U
    PROVE  /\ ~(0 < W /\ 0 < W + V /\ U < W /\ U < W + V)
           /\ ~(0 > W /\ 0 > W + V /\ U > W /\ U > W + V)
<1>1. PICK D1 \in Int, e1 \in Int, g1 \in Int :
          /\ D1 > 0 /\ 0 <= e1 /\ e1 <= D1 /\ 0 <= g1 /\ g1 <= D1
          /\ \/ D1 = D /\ e1 = e /\ g1 = g
             \/ D1 = -D /\ e1 = -e /\ g1 = -g
  <2>1. CASE D > 0
    BY <2>1 DEF Within
  <2>2. CASE D < 0
    <3>1. PICK i \in Int, j \in Int, k \in Int : i = -D /\ j = -e /\ k = -g
      OBVIOUS
    <3>2. i > 0 /\ 0 <= j /\ j <= i /\ 0 <= k /\ k <= i
      BY <2>2, <3>1 DEF Within
    <3>. QED
      BY <3>1, <3>2
  <2>. QED
    BY <2>1, <2>2
<1>2. D1 * W + e1 * V = g1 * U
  <2>1. (-D) * W + (-e) * V = -(D * W + e * V) /\ (-g) * U = -(g * U)
    OBVIOUS
  <2>. QED
    BY <1>1, <2>1
<1>3. PICK U1 \in Int, V1 \in Int, W1 \in Int : U1 = -U /\ V1 = -V /\ W1 = -W
  OBVIOUS
<1>4. D1 * W1 + e1 * V1 = g1 * U1
  <2>1. D1 * (-W) + e1 * (-V) = -(D1 * W + e1 * V) /\ g1 * (-U) = -(g1 * U)
    OBVIOUS
  <2>. QED
    BY <1>2, <1>3, <2>1
<1>7. D1 \in Nat \ {0} /\ e1 \in 0..D1 /\ g1 \in 0..D1
  BY <1>1
<1>5. ~(0 < W /\ 0 < W + V /\ U < W /\ U < W + V)
  BY <1>2, <1>7, CommonPointUp
<1>6. ~(0 < W1 /\ 0 < W1 + V1 /\ U1 < W1 /\ U1 < W1 + V1)
  BY <1>4, <1>7, CommonPointUp
<1>. QED
  BY <1>3, <1>5, <1>6

\* The first of segmentsIntersect's cases: the ends of each lie on both sides of the
\* other.
Straddle(a, b, c, d) ==
    /\ (orientation(a, b, c) > 0) # (orientation(a, b, d) > 0)
    /\ (orientation(c, d, a) > 0) # (orientation(c, d, b) > 0)

\* Segments that are found to meet overlap in every direction.
LEMMA MeetingOverlap ==
    ASSUME NEW a \in Points, NEW b \in Points, NEW c \in Points, NEW d \in Points,
           segmentsIntersect(a, b, c, d), NEW n \in Points
    PROVE  ~Separates(n, a, b, c, d)
<1>1. PICK u \in Points, v \in Points, w \in Points :
          u = Less(b, a) /\ v = Less(d, c) /\ w = Less(c, a)
  BY Framed
<1>2. /\ Dot(n, a) \in Int /\ Dot(n, u) \in Int /\ Dot(n, v) \in Int /\ Dot(n, w) \in Int
      /\ Dot(n, b) = Dot(n, a) + Dot(n, u)
      /\ Dot(n, c) = Dot(n, a) + Dot(n, w)
      /\ Dot(n, d) = Dot(n, a) + Dot(n, w) + Dot(n, v)
  BY <1>1, Framed
<1>3. Dot(n, b) \in Int /\ Dot(n, c) \in Int /\ Dot(n, d) \in Int
  BY <1>2
<1>4. CASE \/ orientation(a, b, c) = 0 /\ onSegment(a, c, b)
           \/ orientation(a, b, d) = 0 /\ onSegment(a, d, b)
           \/ orientation(c, d, a) = 0 /\ onSegment(c, a, d)
           \/ orientation(c, d, b) = 0 /\ onSegment(c, b, d)
  <2>1. \/ Amid(Dot(n, c), Dot(n, a), Dot(n, b)) \/ Amid(Dot(n, d), Dot(n, a), Dot(n, b))
        \/ Amid(Dot(n, a), Dot(n, c), Dot(n, d)) \/ Amid(Dot(n, b), Dot(n, c), Dot(n, d))
    BY <1>4, OnSegmentAmid
  <2>. QED
    BY <1>2, <1>3, <2>1, SeparatesIs
<1>5. CASE Straddle(a, b, c, d)
  <2>1. PICK D \in Int, i \in Int, j \in Int : D = Cross(u, v) /\ i = Cross(u, w) /\ j = Cross(v, w)
    BY <1>1, Framed
  <2>2. /\ orientation(a, b, c) = -i /\ orientation(a, b, d) = -i - D
        /\ orientation(c, d, a) = j /\ orientation(c, d, b) = j + D
    BY <1>1, <2>1, Framed
  <2>3. (-i > 0) # (-i - D > 0) /\ (j > 0) # (j + D > 0)
    BY <1>5, <2>2 DEF Straddle
  <2>4. D # 0 /\ Within(-i, D) /\ Within(-j, D)
    BY <2>3 DEF Within
  <2>5. PICK U \in Int, V \in Int, W \in Int : U = Dot(n, u) /\ V = Dot(n, v) /\ W = Dot(n, w)
    BY <1>2
  <2>6. D * W + (-i) * V = (-j) * U
    <3>1. D * W = i * V - j * U
      BY <2>1, <2>5, Cramer
    <3>2. (-i) * V = -(i * V) /\ (-j) * U = -(j * U)
      OBVIOUS
    <3>3. PICK x \in Int, y \in Int, z \in Int : x = D * W /\ y = i * V /\ z = j * U
      OBVIOUS
    <3>. QED
      BY <3>1, <3>2, <3>3
  <2>7. PICK e \in Int, g \in Int : e = -i /\ g = -j
    OBVIOUS
  <2>8. /\ ~(0 < W /\ 0 < W + V /\ U < W /\ U < W + V)
        /\ ~(0 > W /\ 0 > W + V /\ U > W /\ U > W + V)
    <3>1. Within(e, D) /\ Within(g, D) /\ D * W + e * V = g * U
      BY <2>4, <2>6, <2>7
    <3>. QED
      BY <2>4, <3>1, CommonPoint
  <2>9. PICK s \in Int : s = Dot(n, a)
    BY <1>2
  <2>10. /\ Dot(n, b) = s + U /\ Dot(n, c) = s + W /\ Dot(n, d) = s + W + V
    BY <1>2, <2>5, <2>9
  <2>11. \/ Amid(s + W, s, s + U) \/ Amid(s + W + V, s, s + U)
         \/ Amid(s, s + W, s + W + V) \/ Amid(s + U, s + W, s + W + V)
    BY <2>8 DEF Amid
  <2>. QED
    BY <1>2, <1>3, <2>9, <2>10, <2>11, SeparatesIs
<1>. QED
  BY <1>4, <1>5 DEF segmentsIntersect, Straddle

\* Turned by a right angle, a side tells on which side of it a point lies.
LEMMA AcrossIs ==
    ASSUME NEW p \in Points, NEW q \in Points
    PROVE  Normal(p) \in Points /\ Dot(Normal(p), q) = Cross(p, q)
<1>1. PICK px \in Int, py \in Int, qx \in Int, qy \in Int :
          px = p.x /\ py = p.y /\ qx = q.x /\ qy = q.y
  BY DEF Points
<1>2. Normal(p) = [x |-> -py, y |-> px]
  BY <1>1 DEF Normal, At
<1>3. Dot(Normal(p), q) = (-py) * qx + px * qy /\ Cross(p, q) = px * qy - py * qx
  BY <1>1, <1>2 DEF Dot, Cross
<1>4. (-py) * qx + px * qy = px * qy - py * qx
  OBVIOUS
<1>. QED
  BY <1>2, <1>3, <1>4 DEF Points

\* Segments that overlap across both of their sides: the ends of each lie on both
\* sides of the other, or on its line.
LEMMA OverlapAcross ==
    ASSUME NEW a \in Points, NEW b \in Points, NEW c \in Points, NEW d \in Points,
           ~Separates(Normal(Less(b, a)), a, b, c, d), ~Separates(Normal(Less(d, c)), a, b, c, d)
    PROVE  /\ Amid(0, orientation(a, b, c), orientation(a, b, d))
           /\ Amid(0, orientation(c, d, a), orientation(c, d, b))
<1>1. PICK u \in Points, v \in Points, w \in Points :
          u = Less(b, a) /\ v = Less(d, c) /\ w = Less(c, a)
  BY Framed
<1>2. PICK D \in Int, i \in Int, j \in Int : D = Cross(u, v) /\ i = Cross(u, w) /\ j = Cross(v, w)
  BY <1>1, Framed
<1>3. /\ orientation(a, b, c) = -i /\ orientation(a, b, d) = -i - D
      /\ orientation(c, d, a) = j /\ orientation(c, d, b) = j + D
  BY <1>1, <1>2, Framed
<1>4. Cross(u, u) = 0 /\ Cross(v, v) = 0 /\ Cross(v, u) = -D
  <2>1. PICK ux \in Int, uy \in Int, vx \in Int, vy \in Int :
            ux = u.x /\ uy = u.y /\ vx = v.x /\ vy = v.y
    BY DEF Points
  <2>2. /\ Cross(u, u) = ux * uy - uy * ux /\ Cross(v, v) = vx * vy - vy * vx
        /\ Cross(v, u) = vx * uy - vy * ux /\ Cross(u, v) = ux * vy - uy * vx
    BY <2>1 DEF Cross
  <2>3. /\ ux * uy - uy * ux = 0 /\ vx * vy - vy * vx = 0
        /\ vx * uy - vy * ux = -(ux * vy - uy * vx)
    OBVIOUS
  <2>. QED
    BY <1>2, <2>2, <2>3
<1>5. Amid(0, -i, -i - D)
  <2>1. PICK n \in Points : n = Normal(u)
    BY AcrossIs
  <2>2. Dot(n, u) = 0 /\ Dot(n, w) = i /\ Dot(n, v) = D
    BY <1>2, <1>4, <2>1, AcrossIs
  <2>3. PICK s \in Int : s = Dot(n, a)
    BY <1>1, Framed
  <2>4. Dot(n, b) = s /\ Dot(n, c) = s + i /\ Dot(n, d) = s + i + D
    <3>1. /\ Dot(n, b) = Dot(n, a) + Dot(n, u) /\ Dot(n, c) = Dot(n, a) + Dot(n, w)
          /\ Dot(n, d) = Dot(n, a) + Dot(n, w) + Dot(n, v)
      BY <1>1, Framed
    <3>. QED
      BY <2>2, <2>3, <3>1
  <2>5. ~Separates(n, a, b, c, d)
    BY <1>1, <2>1
  <2>6. \/ Amid(s + i, s, s) \/ Amid(s + i + D, s, s)
        \/ Amid(s, s + i, s + i + D) \/ Amid(s, s + i, s + i + D)
    BY <2>3, <2>4, <2>5, SeparatesIs
  <2>. QED
    BY <2>6 DEF Amid
<1>6. Amid(0, j, j + D)
  <2>1. PICK n \in Points : n = Normal(v)
    BY AcrossIs
  <2>2. Dot(n, u) = -D /\ Dot(n, w) = j /\ Dot(n, v) = 0
    BY <1>2, <1>4, <2>1, AcrossIs
  <2>3. PICK s \in Int : s = Dot(n, a)
    BY <1>1, Framed
  <2>4. Dot(n, b) = s - D /\ Dot(n, c) = s + j /\ Dot(n, d) = s + j
    <3>1. /\ Dot(n, b) = Dot(n, a) + Dot(n, u) /\ Dot(n, c) = Dot(n, a) + Dot(n, w)
          /\ Dot(n, d) = Dot(n, a) + Dot(n, w) + Dot(n, v)
      BY <1>1, Framed
    <3>. QED
      BY <2>2, <2>3, <3>1
  <2>5. ~Separates(n, a, b, c, d)
    BY <1>1, <2>1
  <2>6. \/ Amid(s + j, s, s - D) \/ Amid(s + j, s, s - D)
        \/ Amid(s, s + j, s + j) \/ Amid(s - D, s + j, s + j)
    BY <2>3, <2>4, <2>5, SeparatesIs
  <2>. QED
    BY <2>6 DEF Amid
<1>. QED
  BY <1>3, <1>5, <1>6

\* A part of a side, both ways.
LEMMA PartOfSide ==
    ASSUME NEW D \in Int, D # 0, NEW e \in Int, Within(e, D),
           NEW zx \in Int, NEW zy \in Int, NEW yx \in Int, NEW yy \in Int,
           D * zx = yx * e, D * zy = yy * e
    PROVE  Within(zx, yx) /\ Within(zy, yy)
<1>1. ASSUME NEW z \in Int, NEW y \in Int, D * z = y * e PROVE Within(z, y)
  <2>1. PICK f \in Int, m \in Int : f = D /\ m = y
    OBVIOUS
  <2>2. D * z = m * e /\ D * y = m * f /\ Within(e, f)
    BY <1>1, <2>1
  <2>. QED
    BY <2>2, Scaled
<1>2. Within(zx, yx)
  BY <1>1
<1>3. Within(zy, yy)
  BY <1>1
<1>. QED
  BY <1>2, <1>3

\* Two sides that are not parallel and reach each other's line meet.
LEMMA AcrossMeets ==
    ASSUME NEW a \in Points, NEW b \in Points, NEW c \in Points, NEW d \in Points,
           Cross(Less(b, a), Less(d, c)) # 0,
           Amid(0, orientation(a, b, c), orientation(a, b, d)),
           Amid(0, orientation(c, d, a), orientation(c, d, b))
    PROVE  segmentsIntersect(a, b, c, d)
<1>1. PICK u \in Points, v \in Points, w \in Points :
          u = Less(b, a) /\ v = Less(d, c) /\ w = Less(c, a)
  BY Framed
<1>2. PICK D \in Int, i \in Int, j \in Int : D = Cross(u, v) /\ i = Cross(u, w) /\ j = Cross(v, w)
  <2>1. Cross(u, v) \in Int /\ Cross(u, w) \in Int /\ Cross(v, w) \in Int
    BY <1>1, Framed
  <2>. QED
    BY <2>1
<1>3. /\ orientation(a, b, c) = -i /\ orientation(a, b, d) = -i - D
      /\ orientation(c, d, a) = j /\ orientation(c, d, b) = j + D
  BY <1>1, <1>2, Framed
<1>4. D # 0 /\ Amid(0, -i, -i - D) /\ Amid(0, j, j + D)
  BY <1>1, <1>2, <1>3
<1>5. Within(-i, D) /\ Within(-j, D)
  BY <1>4 DEF Amid, Within
<1>6. PICK ux \in Int, uy \in Int, vx \in Int, vy \in Int, wx \in Int, wy \in Int :
          ux = u.x /\ uy = u.y /\ vx = v.x /\ vy = v.y /\ wx = w.x /\ wy = w.y
  BY DEF Points
<1>7. D * wx = i * vx - j * ux /\ D * wy = i * vy - j * uy
  BY <1>2, <1>6, Cramer
<1>8. PICK ax \in Int, ay \in Int : ax = a.x /\ ay = a.y
  BY DEF Points
<1>9. /\ b.x = ax + ux /\ b.y = ay + uy /\ c.x = ax + wx /\ c.y = ay + wy
      /\ d.x = ax + wx + vx /\ d.y = ay + wy + vy
  <2>1. /\ ux = b.x - a.x /\ uy = b.y - a.y /\ vx = d.x - c.x /\ vy = d.y - c.y
        /\ wx = c.x - a.x /\ wy = c.y - a.y
    BY <1>1, <1>6 DEF Less, At
  <2>2. /\ a.x \in Int /\ a.y \in Int /\ b.x \in Int /\ b.y \in Int
        /\ c.x \in Int /\ c.y \in Int /\ d.x \in Int /\ d.y \in Int
    BY DEF Points
  <2>. QED
    BY <1>8, <2>1, <2>2
<1>10. PICK e \in Int, g \in Int : e = -i /\ g = -j
  OBVIOUS
<1>11. Within(e, D) /\ Within(g, D)
  BY <1>5, <1>10
<1>12. CASE i = 0
  <2>1. D * wx = ux * g /\ D * wy = uy * g
    <3>1. 0 * vx - j * ux = ux * (-j) /\ 0 * vy - j * uy = uy * (-j)
      OBVIOUS
    <3>. QED
      BY <1>7, <1>10, <1>12, <3>1
  <2>2. Within(wx, ux) /\ Within(wy, uy)
    BY <1>4, <1>11, <2>1, PartOfSide
  <2>3. wx = c.x - a.x /\ wy = c.y - a.y /\ ux = b.x - a.x /\ uy = b.y - a.y
    BY <1>8, <1>9
  <2>4. onSegment(a, c, b)
    BY <2>2, <2>3, OnSegmentIs
  <2>5. orientation(a, b, c) = 0
    <3>1. -i = 0 - i
      OBVIOUS
    <3>. QED
      BY <1>3, <1>12, <3>1
  <2>. QED
    BY <2>4, <2>5 DEF segmentsIntersect
<1>13. CASE i = -D
  <2>1. D * (wx + vx) = ux * g /\ D * (wy + vy) = uy * g
    <3>1. /\ D * (wx + vx) = D * wx + D * vx /\ D * (wy + vy) = D * wy + D * vy
          /\ ((-D) * vx - j * ux) + D * vx = ux * (-j) /\ ((-D) * vy - j * uy) + D * vy = uy * (-j)
      OBVIOUS
    <3>. QED
      BY <1>7, <1>10, <1>13, <3>1
  <2>2. PICK zx \in Int, zy \in Int : zx = wx + vx /\ zy = wy + vy
    OBVIOUS
  <2>3. Within(zx, ux) /\ Within(zy, uy)
    BY <1>4, <1>11, <2>1, <2>2, PartOfSide
  <2>4. zx = d.x - a.x /\ zy = d.y - a.y /\ ux = b.x - a.x /\ uy = b.y - a.y
    BY <1>8, <1>9, <2>2
  <2>5. onSegment(a, d, b)
    BY <2>3, <2>4, OnSegmentIs
  <2>6. orientation(a, b, d) = 0
    BY <1>3, <1>13
  <2>. QED
    BY <2>5, <2>6 DEF segmentsIntersect
<1>14. CASE j = 0
  <2>1. PICK zx \in Int, zy \in Int : zx = -wx /\ zy = -wy
    OBVIOUS
  <2>2. D * zx = vx * e /\ D * zy = vy * e
    <3>1. /\ D * (-wx) = -(D * wx) /\ D * (-wy) = -(D * wy)
          /\ -(i * vx - 0 * ux) = vx * (-i) /\ -(i * vy - 0 * uy) = vy * (-i)
      OBVIOUS
    <3>. QED
      BY <1>7, <1>10, <1>14, <2>1, <3>1
  <2>3. Within(zx, vx) /\ Within(zy, vy)
    <3>1. D # 0 /\ Within(e, D)
      BY <1>4, <1>11
    <3>. QED
      BY <2>2, <3>1, PartOfSide
  <2>4. zx = a.x - c.x /\ zy = a.y - c.y /\ vx = d.x - c.x /\ vy = d.y - c.y
    BY <1>8, <1>9, <2>1
  <2>5. onSegment(c, a, d)
    BY <2>3, <2>4, OnSegmentIs
  <2>6. orientation(c, d, a) = 0
    BY <1>3, <1>14
  <2>. QED
    BY <2>5, <2>6 DEF segmentsIntersect
<1>15. CASE j = -D
  <2>1. PICK zx \in Int, zy \in Int : zx = ux - wx /\ zy = uy - wy
    OBVIOUS
  <2>2. D * zx = vx * e /\ D * zy = vy * e
    <3>1. /\ D * (ux - wx) = D * ux - D * wx /\ D * (uy - wy) = D * uy - D * wy
          /\ D * ux - (i * vx - (-D) * ux) = vx * (-i) /\ D * uy - (i * vy - (-D) * uy) = vy * (-i)
      OBVIOUS
    <3>. QED
      BY <1>7, <1>10, <1>15, <2>1, <3>1
  <2>3. Within(zx, vx) /\ Within(zy, vy)
    <3>1. D # 0 /\ Within(e, D)
      BY <1>4, <1>11
    <3>2. D * zx = vx * e
      BY <2>2
    <3>3. D * zy = vy * e
      BY <2>2
    <3>. QED
      BY <3>1, <3>2, <3>3, PartOfSide
  <2>4. zx = b.x - c.x /\ zy = b.y - c.y /\ vx = d.x - c.x /\ vy = d.y - c.y
    <3>1. /\ (ax + ux) - (ax + wx) = ux - wx /\ (ay + uy) - (ay + wy) = uy - wy
          /\ (ax + wx + vx) - (ax + wx) = vx /\ (ay + wy + vy) - (ay + wy) = vy
      OBVIOUS
    <3>. QED
      BY <1>9, <2>1, <3>1
  <2>5. onSegment(c, b, d)
    BY <2>3, <2>4, OnSegmentIs
  <2>6. orientation(c, d, b) = 0
    BY <1>3, <1>15
  <2>. QED
    BY <2>5, <2>6 DEF segmentsIntersect
<1>16. CASE i # 0 /\ i # -D /\ j # 0 /\ j # -D
  <2>1. (-i > 0) # (-i - D > 0) /\ (j > 0) # (j + D > 0)
    BY <1>4, <1>16 DEF Amid
  <2>2. Straddle(a, b, c, d)
    BY <1>3, <2>1 DEF Straddle
  <2>. QED
    BY <2>2 DEF Straddle, segmentsIntersect
<1>. QED
  BY <1>12, <1>13, <1>14, <1>15, <1>16

\* The sides that end a triangle, seen across a direction.
LEMMA CrossOfSides ==
    ASSUME NEW a \in Points, NEW b \in Points, NEW c \in Points, NEW d \in Points, NEW n \in Points,
           Cross(n, Less(b, a)) = 0, Cross(n, Less(d, c)) = 0, Cross(n, Less(c, a)) = 0
    PROVE  /\ Cross(n, Less(d, a)) = 0 /\ Cross(n, Less(a, c)) = 0 /\ Cross(n, Less(b, c)) = 0
<1>1. PICK ax \in Int, ay \in Int, bx \in Int, by \in Int :
          ax = a.x /\ ay = a.y /\ bx = b.x /\ by = b.y
  BY DEF Points
<1>2. PICK cx \in Int, cy \in Int, dx \in Int, dy \in Int :
          cx = c.x /\ cy = c.y /\ dx = d.x /\ dy = d.y
  BY DEF Points
<1>3. PICK nx \in Int, ny \in Int : nx = n.x /\ ny = n.y
  BY DEF Points
<1>4. /\ Cross(n, Less(b, a)) = nx * (by - ay) - ny * (bx - ax)
      /\ Cross(n, Less(d, c)) = nx * (dy - cy) - ny * (dx - cx)
      /\ Cross(n, Less(c, a)) = nx * (cy - ay) - ny * (cx - ax)
      /\ Cross(n, Less(d, a)) = nx * (dy - ay) - ny * (dx - ax)
      /\ Cross(n, Less(a, c)) = nx * (ay - cy) - ny * (ax - cx)
      /\ Cross(n, Less(b, c)) = nx * (by - cy) - ny * (bx - cx)
  BY <1>1, <1>2, <1>3 DEF Cross, Less, At
<1>5. /\ nx * (dy - ay) - ny * (dx - ax)
           = (nx * (dy - cy) - ny * (dx - cx)) + (nx * (cy - ay) - ny * (cx - ax))
      /\ nx * (ay - cy) - ny * (ax - cx) = -(nx * (cy - ay) - ny * (cx - ax))
      /\ nx * (by - cy) - ny * (bx - cx)
           = (nx * (by - ay) - ny * (bx - ax)) - (nx * (cy - ay) - ny * (cx - ax))
  OBVIOUS
<1>. QED
  BY <1>4, <1>5

\* Four points on one line: sides that overlap along it meet.
LEMMA AlongMeets ==
    ASSUME NEW a \in Points, NEW b \in Points, NEW c \in Points, NEW d \in Points, NEW n \in Points,
           n.x # 0 \/ n.y # 0,
           Cross(n, Less(b, a)) = 0, Cross(n, Less(d, c)) = 0, Cross(n, Less(c, a)) = 0,
           orientation(a, b, c) = 0, orientation(a, b, d) = 0,
           orientation(c, d, a) = 0, orientation(c, d, b) = 0,
           ~Separates(n, a, b, c, d)
    PROVE  segmentsIntersect(a, b, c, d)
<1>1. /\ Cross(n, Less(d, a)) = 0 /\ Cross(n, Less(a, c)) = 0 /\ Cross(n, Less(b, c)) = 0
  BY CrossOfSides
<1>2. Dot(n, a) \in Int /\ Dot(n, b) \in Int /\ Dot(n, c) \in Int /\ Dot(n, d) \in Int
  <2>1. ASSUME NEW p \in Points PROVE Dot(n, p) \in Int
    <3>1. n.x \in Int /\ n.y \in Int /\ p.x \in Int /\ p.y \in Int
      BY DEF Points
    <3>. QED
      BY <3>1 DEF Dot
  <2>. QED
    BY <2>1
<1>3. \/ Amid(Dot(n, c), Dot(n, a), Dot(n, b)) \/ Amid(Dot(n, d), Dot(n, a), Dot(n, b))
      \/ Amid(Dot(n, a), Dot(n, c), Dot(n, d)) \/ Amid(Dot(n, b), Dot(n, c), Dot(n, d))
  BY <1>2, SeparatesIs
<1>4. onSegment(a, c, b) \/ onSegment(a, d, b) \/ onSegment(c, a, d) \/ onSegment(c, b, d)
  BY <1>1, <1>3, AmidOnSegment
<1>. QED
  BY <1>4 DEF segmentsIntersect

\* Segments that overlap along and across their sides and the line between two ends
\* are found to meet.
LEMMA OverlapMeets ==
    ASSUME NEW a \in Points, NEW b \in Points, NEW c \in Points, NEW d \in Points,
           \A n \in {Less(b, a), Less(d, c), Less(c, a)} :
              ~Separates(n, a, b, c, d) /\ ~Separates(Normal(n), a, b, c, d)
    PROVE  segmentsIntersect(a, b, c, d)
<1>1. PICK u \in Points, v \in Points, w \in Points :
          u = Less(b, a) /\ v = Less(d, c) /\ w = Less(c, a)
  BY Framed
<1>2. /\ Amid(0, orientation(a, b, c), orientation(a, b, d))
      /\ Amid(0, orientation(c, d, a), orientation(c, d, b))
  BY OverlapAcross
<1>3. CASE Cross(u, v) # 0
  BY <1>1, <1>2, <1>3, AcrossMeets
<1>4. CASE Cross(u, v) = 0
  <2>1. PICK i \in Int, j \in Int : i = Cross(u, w) /\ j = Cross(v, w)
    <3>1. Cross(u, w) \in Int /\ Cross(v, w) \in Int
      BY <1>1, Framed
    <3>. QED
      BY <3>1
  <2>2. /\ orientation(a, b, c) = -i /\ orientation(a, b, d) = -i - 0
        /\ orientation(c, d, a) = j /\ orientation(c, d, b) = j + 0
    BY <1>1, <1>4, <2>1, Framed
  <2>3. i = 0 /\ j = 0
    BY <1>2, <2>2 DEF Amid
  <2>4. /\ orientation(a, b, c) = 0 /\ orientation(a, b, d) = 0
        /\ orientation(c, d, a) = 0 /\ orientation(c, d, b) = 0
    <3>1. -i = 0 - i /\ -i - 0 = 0 - i /\ j + 0 = j
      OBVIOUS
    <3>. QED
      BY <2>2, <2>3, <3>1
  <2>5. \A n, q \in {u, v, w} : Cross(n, q) = 0
    <3>1. ASSUME NEW p \in Points, NEW q \in Points
          PROVE  Cross(p, p) = 0 /\ (Cross(p, q) = 0 => Cross(q, p) = 0)
      <4>1. PICK px \in Int, py \in Int, qx \in Int, qy \in Int :
                px = p.x /\ py = p.y /\ qx = q.x /\ qy = q.y
        BY DEF Points
      <4>2. /\ Cross(p, p) = px * py - py * px
            /\ Cross(p, q) = px * qy - py * qx /\ Cross(q, p) = qx * py - qy * px
        BY <4>1 DEF Cross
      <4>3. px * py - py * px = 0 /\ qx * py - qy * px = -(px * qy - py * qx)
        OBVIOUS
      <4>. QED
        BY <4>2, <4>3
    <3>2. Cross(u, v) = 0 /\ Cross(u, w) = 0 /\ Cross(v, w) = 0
      BY <1>4, <2>1, <2>3
    <3>. QED
      BY <3>1, <3>2
  <2>6. CASE \E n \in {u, v, w} : n.x # 0 \/ n.y # 0
    <3>1. PICK n \in {u, v, w} : n.x # 0 \/ n.y # 0
      BY <2>6
    <3>2. /\ n \in Points /\ ~Separates(n, a, b, c, d)
          /\ Cross(n, Less(b, a)) = 0 /\ Cross(n, Less(d, c)) = 0 /\ Cross(n, Less(c, a)) = 0
      BY <1>1, <2>5
    <3>. QED
      BY <2>4, <3>1, <3>2, AlongMeets
  <2>7. CASE ~(\E n \in {u, v, w} : n.x # 0 \/ n.y # 0)
    <3>1. u.x = 0 /\ u.y = 0 /\ w.x = 0 /\ w.y = 0
      BY <2>7
    <3>2. /\ u.x = b.x - a.x /\ u.y = b.y - a.y /\ w.x = c.x - a.x /\ w.y = c.y - a.y
      BY <1>1 DEF Less, At
    <3>3. onSegment(a, c, b)
      <4>1. /\ Within(c.x - a.x, b.x - a.x) /\ Within(c.y - a.y, b.y - a.y)
        BY <3>1, <3>2 DEF Within
      <4>. QED
        BY <4>1, OnSegmentIs
    <3>. QED
      BY <2>4, <3>3 DEF segmentsIntersect
  <2>. QED
    BY <2>6, <2>7
<1>. QED
  BY <1>3, <1>4

\* Two sides, of any length and direction, crossing, touching, on one line or shrunk
\* to a point, are found to meet exactly when no direction tells them apart, and
\* exactly when none of their own does (segmentsIntersect, CanvasEditor.jsx).
THEOREM SidesMeet ==
    ASSUME NEW a \in Points, NEW b \in Points, NEW c \in Points, NEW d \in Points
    PROVE  /\ segmentsIntersect(a, b, c, d) <=> \A n \in Points : ~Separates(n, a, b, c, d)
           /\ segmentsIntersect(a, b, c, d) <=> ~Apart(a, b, c, d)
<1>. DEFINE own == {Less(b, a), Less(d, c), Less(c, a)}
<1>1. \A n \in own : n \in Points /\ Normal(n) \in Points
  <2>1. own \subseteq Points
    BY Framed
  <2>. HIDE DEF own
  <2>. QED
    BY <2>1, AcrossIs
<1>2. Apart(a, b, c, d) <=> \E n \in own : Separates(n, a, b, c, d) \/ Separates(Normal(n), a, b, c, d)
  <2>1. Apart(a, b, c, d) <=> \E n \in UNION {{v, Normal(v)} : v \in own} : Separates(n, a, b, c, d)
    BY DEF Apart, Separates
  <2>. HIDE DEF own
  <2>2. \A n : n \in UNION {{v, Normal(v)} : v \in own} <=> \E v \in own : n = v \/ n = Normal(v)
    OBVIOUS
  <2>. QED
    BY <2>1, <2>2
<1>3. segmentsIntersect(a, b, c, d) => \A n \in Points : ~Separates(n, a, b, c, d)
  BY MeetingOverlap
<1>4. (\A n \in Points : ~Separates(n, a, b, c, d)) => ~Apart(a, b, c, d)
  <2>. HIDE DEF own
  <2>. QED
    BY <1>1, <1>2
<1>5. ~Apart(a, b, c, d) => segmentsIntersect(a, b, c, d)
  BY <1>2, OverlapMeets
<1>. QED
  BY <1>3, <1>4, <1>5

\* Whether two sides meet does not depend on their order, nor on their directions.
LEMMA MeetEitherWay ==
    ASSUME NEW a \in Points, NEW b \in Points, NEW c \in Points, NEW d \in Points
    PROVE  /\ segmentsIntersect(c, d, a, b) <=> segmentsIntersect(a, b, c, d)
           /\ segmentsIntersect(b, a, d, c) <=> segmentsIntersect(a, b, c, d)
<1>1. ASSUME NEW n \in Points
      PROVE  /\ Separates(n, c, d, a, b) <=> Separates(n, a, b, c, d)
             /\ Separates(n, b, a, d, c) <=> Separates(n, a, b, c, d)
  <2>1. PICK i \in Int, j \in Int, k \in Int, l \in Int :
            i = Dot(n, a) /\ j = Dot(n, b) /\ k = Dot(n, c) /\ l = Dot(n, d)
    <3>1. ASSUME NEW p \in Points PROVE Dot(n, p) \in Int
      <4>1. n.x \in Int /\ n.y \in Int /\ p.x \in Int /\ p.y \in Int
        BY DEF Points
      <4>. QED
        BY <4>1 DEF Dot
    <3>. QED
      BY <3>1
  <2>2. {j, i} = {i, j} /\ {l, k} = {k, l}
    OBVIOUS
  <2>3. PICK s \in Int, t \in Int, y \in Int, z \in Int :
            s = Max({i, j}) /\ t = Min({i, j}) /\ y = Max({k, l}) /\ z = Min({k, l})
    BY MaxOfTwo, MinOfTwo
  <2>4. (y < t \/ z > s) <=> (s < z \/ t > y)
    OBVIOUS
  <2>. QED
    BY <2>1, <2>2, <2>3, <2>4 DEF Separates
<1>. QED
  BY <1>1, SidesMeet

-----------------------------------------------------------------------------
(***************************************************************************)
(* The sides of an outline                                                 *)
(***************************************************************************)

\* The corner after a corner, and the side after a side.
After(n, i) == IF i = n THEN 1 ELSE i + 1

\* The corner after a corner is found by a remainder.
LEMMA AfterIs ==
    ASSUME NEW n \in Nat \ {0}
    PROVE  /\ \A i \in 1..n : (i % n) + 1 = After(n, i) /\ After(n, i) \in 1..n
           /\ \A i \in n..(2 * n - 1) : i % n = i - n
<1>1. \A i \in 0..(n - 1) : i % n = i
  OBVIOUS
<1>2. \A i \in n..(2 * n - 1) : i % n = i - n
  OBVIOUS
<1>3. ASSUME NEW i \in 1..n PROVE (i % n) + 1 = After(n, i) /\ After(n, i) \in 1..n
  <2>1. CASE i = n
    <3>1. n \in n..(2 * n - 1) /\ n - n = 0
      OBVIOUS
    <3>2. n % n = 0
      BY <1>2, <3>1
    <3>. QED
      BY <2>1, <3>2 DEF After
  <2>2. CASE i # n
    <3>1. i \in 0..(n - 1)
      BY <2>2
    <3>2. i % n = i
      BY <1>1, <3>1
    <3>. QED
      BY <2>2, <3>2 DEF After
  <2>. QED
    BY <2>1, <2>2
<1>. QED
  BY <1>2, <1>3

SideMeets(pts, n, i, j) == segmentsIntersect(pts[i], pts[After(n, i)], pts[j], pts[After(n, j)])
Adjacent(n, i, j) == i = j \/ j = After(n, i) \/ i = After(n, j)
Crosses(pts, n) == \E i, j \in 1..n : ~Adjacent(n, i, j) /\ SideMeets(pts, n, i, j)

\* An outline is found to cross itself by its sides, numbered as its corners.
LEMMA CrossingIs ==
    ASSUME NEW pts \in Seq(Points), NEW n, n = Len(pts), NEW closed \in BOOLEAN
    PROVE  hasSelfIntersection(pts, closed) <=>
              \E i, j \in 1..(IF closed THEN n ELSE n - 1) :
                 /\ j - i >= 2 /\ (closed => j - i # n - 1)
                 /\ segmentsIntersect(pts[i], pts[(i % n) + 1], pts[j], pts[(j % n) + 1])
<1>1. n \in Nat
  OBVIOUS
<1>2. PICK m \in Int : m = IF closed THEN n ELSE n - 1
  BY <1>1
<1>3. CASE n < 2
  <2>1. segmentsFromPoints(pts, closed) = << >>
    BY <1>3 DEF segmentsFromPoints
  <2>2. ~hasSelfIntersection(pts, closed)
    BY <2>1 DEF hasSelfIntersection
  <2>3. \A i, j \in 1..m : ~(j - i >= 2)
    BY <1>1, <1>2, <1>3
  <2>. QED
    BY <1>2, <2>2, <2>3
<1>4. CASE ~(n < 2)
  <2>1. PICK sides : sides = segmentsFromPoints(pts, closed)
    OBVIOUS
  <2>2. sides = [i \in 1..m |-> [a |-> pts[i], b |-> pts[(i % n) + 1]]]
    BY <1>2, <1>4, <2>1 DEF segmentsFromPoints
  <2>3. m \in Nat /\ DOMAIN sides = 1..m /\ Len(sides) = m
    BY <1>1, <1>2, <1>4, <2>2
  <2>4. \A i \in 1..m : sides[i].a = pts[i] /\ sides[i].b = pts[(i % n) + 1]
    BY <2>2
  <2>5. hasSelfIntersection(pts, closed) <=>
           \E i, j \in 1..m : /\ i + 1 < j /\ ~(closed /\ i = 1 /\ j = m)
                              /\ segmentsIntersect(sides[i].a, sides[i].b, sides[j].a, sides[j].b)
    BY <2>1, <2>3 DEF hasSelfIntersection
  <2>6. \A i, j \in 1..m : /\ i + 1 < j <=> j - i >= 2
                           /\ (closed /\ i = 1 /\ j = m) <=> (closed /\ j - i = n - 1)
    BY <1>1, <1>2, <2>3
  <2>7. hasSelfIntersection(pts, closed) <=>
           \E i, j \in 1..m :
              /\ j - i >= 2 /\ (closed => j - i # n - 1)
              /\ segmentsIntersect(pts[i], pts[(i % n) + 1], pts[j], pts[(j % n) + 1])
    BY <2>4, <2>5, <2>6
  <2>. QED
    BY <1>2, <2>7
<1>. QED
  BY <1>3, <1>4

\* A closed outline crosses itself exactly when two sides that are not adjacent meet.
LEMMA ClosedCrosses ==
    ASSUME NEW pts \in Seq(Points), NEW n, n = Len(pts), n >= 3
    PROVE  hasSelfIntersection(pts, TRUE) <=> Crosses(pts, n)
<1>1. n \in Nat \ {0} /\ \A i \in 1..n : pts[i] \in Points
  OBVIOUS
<1>2. \A i \in 1..n : (i % n) + 1 = After(n, i) /\ After(n, i) \in 1..n
  BY <1>1, AfterIs
<1>3. hasSelfIntersection(pts, TRUE) <=>
         \E i, j \in 1..n : j - i >= 2 /\ j - i # n - 1 /\ SideMeets(pts, n, i, j)
  <2>1. hasSelfIntersection(pts, TRUE) <=>
           \E i, j \in 1..n :
              /\ j - i >= 2 /\ j - i # n - 1
              /\ segmentsIntersect(pts[i], pts[(i % n) + 1], pts[j], pts[(j % n) + 1])
    <3>1. PICK closed \in BOOLEAN : closed = TRUE
      OBVIOUS
    <3>2. hasSelfIntersection(pts, closed) <=>
              \E i, j \in 1..(IF closed THEN n ELSE n - 1) :
                 /\ j - i >= 2 /\ (closed => j - i # n - 1)
                 /\ segmentsIntersect(pts[i], pts[(i % n) + 1], pts[j], pts[(j % n) + 1])
      BY CrossingIs
    <3>. QED
      BY <3>1, <3>2
  <2>. QED
    BY <1>2, <2>1 DEF SideMeets
<1>4. \A i, j \in 1..n : i < j => (~Adjacent(n, i, j) <=> j - i >= 2 /\ j - i # n - 1)
  BY <1>1 DEF Adjacent, After
<1>5. \A i, j \in 1..n : /\ Adjacent(n, i, j) <=> Adjacent(n, j, i)
                         /\ SideMeets(pts, n, i, j) <=> SideMeets(pts, n, j, i)
  <2>1. \A i, j \in 1..n : Adjacent(n, i, j) <=> Adjacent(n, j, i)
    BY DEF Adjacent
  <2>2. ASSUME NEW i \in 1..n, NEW j \in 1..n PROVE SideMeets(pts, n, i, j) <=> SideMeets(pts, n, j, i)
    <3>1. PICK a \in Points, b \in Points, c \in Points, d \in Points :
              a = pts[i] /\ b = pts[After(n, i)] /\ c = pts[j] /\ d = pts[After(n, j)]
      BY <1>1, <1>2
    <3>2. segmentsIntersect(c, d, a, b) <=> segmentsIntersect(a, b, c, d)
      BY MeetEitherWay
    <3>. QED
      BY <3>1, <3>2 DEF SideMeets
  <2>. QED
    BY <2>1, <2>2
<1>6. \A i, j \in 1..n : ~Adjacent(n, i, j) => i < j \/ j < i
  BY <1>1 DEF Adjacent
<1>7. \A i, j \in 1..n : j - i >= 2 => i < j
  BY <1>1
<1>. QED
  BY <1>3, <1>4, <1>5, <1>6, <1>7 DEF Crosses

\* The same sides under other numbers cross as they did.
LEMMA RenumberedCrosses ==
    ASSUME NEW n, NEW pts, NEW new, NEW f \in [1..n -> 1..n],
           \A m \in 1..n : \E i \in 1..n : f[i] = m,
           \A i, j \in 1..n : Adjacent(n, i, j) <=> Adjacent(n, f[i], f[j]),
           \A i, j \in 1..n : SideMeets(new, n, i, j) <=> SideMeets(pts, n, f[i], f[j])
    PROVE  Crosses(new, n) <=> Crosses(pts, n)
<1>1. ASSUME Crosses(new, n) PROVE Crosses(pts, n)
  <2>1. PICK i \in 1..n, j \in 1..n : ~Adjacent(n, i, j) /\ SideMeets(new, n, i, j)
    BY <1>1 DEF Crosses
  <2>2. f[i] \in 1..n /\ f[j] \in 1..n /\ ~Adjacent(n, f[i], f[j]) /\ SideMeets(pts, n, f[i], f[j])
    BY <2>1
  <2>. QED
    BY <2>2 DEF Crosses
<1>2. ASSUME Crosses(pts, n) PROVE Crosses(new, n)
  <2>1. PICK l \in 1..n, m \in 1..n : ~Adjacent(n, l, m) /\ SideMeets(pts, n, l, m)
    BY <1>2 DEF Crosses
  <2>2. PICK i \in 1..n, j \in 1..n : f[i] = l /\ f[j] = m
    <3>1. PICK i \in 1..n : f[i] = l
      OBVIOUS
    <3>2. PICK j \in 1..n : f[j] = m
      OBVIOUS
    <3>. QED
      BY <3>1, <3>2
  <2>3. ~Adjacent(n, i, j) /\ SideMeets(new, n, i, j)
    BY <2>1, <2>2
  <2>. QED
    BY <2>3 DEF Crosses
<1>. QED
  BY <1>1, <1>2

-----------------------------------------------------------------------------
(***************************************************************************)
(* Begun at another corner, drawn the other way                            *)
(***************************************************************************)

Shift(n, k, i) == IF i + k <= n THEN i + k ELSE (i + k) - n
Flip(n, i) == IF i = n THEN n ELSE n - i

\* t has the corners of pts, from the one after the k-th on.
BegunAt(t, pts, n, k) ==
    /\ t \in Seq(Points) /\ Len(t) = n
    /\ \A i \in 1..n : Shift(n, k, i) \in 1..n /\ t[i] = pts[Shift(n, k, i)]

\* The corners of an outline begun at another one.
LEMMA TurnedIs ==
    ASSUME NEW pts \in Seq(Points), NEW n, n = Len(pts), NEW k \in 1..n
    PROVE  BegunAt(Turned(pts, k), pts, n, k)
<1>1. n \in Nat \ {0} /\ DOMAIN pts = 1..n /\ \A i \in 1..n : pts[i] \in Points
  OBVIOUS
<1>2. ASSUME NEW i \in 1..n PROVE ((i + k - 1) % n) + 1 = Shift(n, k, i) /\ Shift(n, k, i) \in 1..n
  <2>1. CASE i + k <= n
    <3>1. i + k - 1 \in 1..n /\ i + k - 1 # n
      BY <1>1, <2>1
    <3>2. ((i + k - 1) % n) + 1 = After(n, i + k - 1)
      BY <1>1, <3>1, AfterIs
    <3>. QED
      BY <1>1, <2>1, <3>1, <3>2 DEF After, Shift
  <2>2. CASE ~(i + k <= n)
    <3>1. i + k - 1 \in n..(2 * n - 1)
      BY <1>1, <2>2
    <3>2. (i + k - 1) % n = (i + k - 1) - n
      BY <1>1, <3>1, AfterIs
    <3>. QED
      BY <1>1, <2>2, <3>2 DEF Shift
  <2>. QED
    BY <2>1, <2>2
<1>3. PICK t : t = Turned(pts, k)
  OBVIOUS
<1>4. t = [i \in 1..n |-> pts[((i + k - 1) % n) + 1]]
  BY <1>1, <1>3 DEF Turned
<1>5. \A i \in 1..n : t[i] = pts[Shift(n, k, i)] /\ t[i] \in Points
  BY <1>1, <1>2, <1>4
<1>6. t \in [1..n -> Points]
  BY <1>4, <1>5
<1>7. t \in Seq(Points) /\ Len(t) = n
  BY <1>1, <1>6
<1>. QED
  BY <1>2, <1>3, <1>5, <1>7 DEF BegunAt

\* The corners of an outline drawn the other way.
LEMMA ReversedIs ==
    ASSUME NEW pts \in Seq(Points), NEW n, n = Len(pts), n >= 1
    PROVE  /\ Reverse(pts) \in Seq(Points) /\ Len(Reverse(pts)) = n
           /\ \A i \in 1..n : /\ Flip(n, i) \in 1..n
                              /\ Reverse(pts)[i] = pts[After(n, Flip(n, i))]
                              /\ Reverse(pts)[After(n, i)] = pts[Flip(n, i)]
<1>1. n \in Nat \ {0} /\ DOMAIN pts = 1..n /\ \A i \in 1..n : pts[i] \in Points
  OBVIOUS
<1>2. PICK t : t = Reverse(pts)
  OBVIOUS
<1>3. t = [i \in 1..n |-> pts[(n - i) + 1]]
  BY <1>2 DEF Reverse
<1>4. \A i \in 1..n : (n - i) + 1 \in 1..n /\ t[i] = pts[(n - i) + 1] /\ t[i] \in Points
  BY <1>1, <1>3
<1>5. t \in [1..n -> Points]
  BY <1>3, <1>4
<1>6. t \in Seq(Points) /\ Len(t) = n
  BY <1>1, <1>5
<1>7. ASSUME NEW i \in 1..n
      PROVE  /\ Flip(n, i) \in 1..n /\ t[i] = pts[After(n, Flip(n, i))]
             /\ t[After(n, i)] = pts[Flip(n, i)]
  <2>1. Flip(n, i) \in 1..n /\ After(n, Flip(n, i)) = (n - i) + 1
    BY <1>1 DEF Flip, After
  <2>2. After(n, i) \in 1..n /\ (n - After(n, i)) + 1 = Flip(n, i)
    BY <1>1 DEF Flip, After
  <2>. QED
    BY <1>4, <2>1, <2>2
<1>. QED
  BY <1>2, <1>6, <1>7

\* Begun at another corner an outline crosses itself as it did.
LEMMA TurnedCrosses ==
    ASSUME NEW pts \in Seq(Points), NEW n, n = Len(pts), n >= 3, NEW k \in 1..n
    PROVE  hasSelfIntersection(Turned(pts, k), TRUE) <=> hasSelfIntersection(pts, TRUE)
<1>1. PICK t \in Seq(Points) : t = Turned(pts, k) /\ n = Len(t) /\ BegunAt(t, pts, n, k)
  <2>1. BegunAt(Turned(pts, k), pts, n, k)
    BY TurnedIs
  <2>. QED
    BY <2>1 DEF BegunAt
<1>2. n \in Nat \ {0}
  OBVIOUS
<1>3. \A i \in 1..n : Shift(n, k, i) \in 1..n /\ t[i] = pts[Shift(n, k, i)] /\ After(n, i) \in 1..n
  <2>1. \A i \in 1..n : Shift(n, k, i) \in 1..n /\ t[i] = pts[Shift(n, k, i)]
    BY <1>1 DEF BegunAt
  <2>2. \A i \in 1..n : After(n, i) \in 1..n
    BY <1>2, AfterIs
  <2>. QED
    BY <1>1, <2>1, <2>2
<1>4. PICK f : f = [i \in 1..n |-> Shift(n, k, i)]
  OBVIOUS
<1>5. f \in [1..n -> 1..n]
  BY <1>3, <1>4
<1>6. \A i \in 1..n : f[i] = Shift(n, k, i) /\ t[i] = pts[f[i]]
  BY <1>3, <1>4
<1>7. \A i \in 1..n : Shift(n, k, After(n, i)) = After(n, Shift(n, k, i))
  BY <1>2 DEF Shift, After
<1>8. ASSUME NEW m \in 1..n PROVE \E i \in 1..n : f[i] = m
  <2>1. CASE m > k
    <3>1. m - k \in 1..n /\ Shift(n, k, m - k) = m
      BY <1>2, <2>1 DEF Shift
    <3>. QED
      BY <1>6, <3>1
  <2>2. CASE ~(m > k)
    <3>1. (m - k) + n \in 1..n /\ Shift(n, k, (m - k) + n) = m
      BY <1>2, <2>2 DEF Shift
    <3>. QED
      BY <1>6, <3>1
  <2>. QED
    BY <2>1, <2>2
<1>9. \A i, j \in 1..n : Adjacent(n, i, j) <=> Adjacent(n, f[i], f[j])
  <2>1. \A i, j \in 1..n : Shift(n, k, i) = Shift(n, k, j) <=> i = j
    BY <1>2 DEF Shift
  <2>2. ASSUME NEW i \in 1..n, NEW j \in 1..n
        PROVE  j = After(n, i) <=> Shift(n, k, j) = After(n, Shift(n, k, i))
    <3>1. After(n, i) \in 1..n /\ Shift(n, k, After(n, i)) = After(n, Shift(n, k, i))
      BY <1>3, <1>7
    <3>2. Shift(n, k, j) = Shift(n, k, After(n, i)) <=> j = After(n, i)
      BY <2>1, <3>1
    <3>. QED
      BY <3>1, <3>2
  <2>. QED
    BY <1>6, <2>1, <2>2 DEF Adjacent
<1>10. \A i, j \in 1..n : SideMeets(t, n, i, j) <=> SideMeets(pts, n, f[i], f[j])
  <2>1. ASSUME NEW i \in 1..n PROVE t[After(n, i)] = pts[After(n, f[i])]
    <3>1. After(n, i) \in 1..n /\ Shift(n, k, After(n, i)) = After(n, Shift(n, k, i))
      BY <1>3, <1>7
    <3>2. t[After(n, i)] = pts[Shift(n, k, After(n, i))]
      BY <1>3, <3>1
    <3>. QED
      BY <1>6, <3>1, <3>2
  <2>. QED
    BY <1>6, <2>1 DEF SideMeets
<1>11. Crosses(t, n) <=> Crosses(pts, n)
  BY <1>5, <1>8, <1>9, <1>10, RenumberedCrosses
<1>12. /\ hasSelfIntersection(t, TRUE) <=> Crosses(t, n)
       /\ hasSelfIntersection(pts, TRUE) <=> Crosses(pts, n)
  BY <1>1, ClosedCrosses
<1>. QED
  BY <1>1, <1>11, <1>12

\* Drawn the other way an outline crosses itself as it did.
LEMMA ReversedCrosses ==
    ASSUME NEW pts \in Seq(Points), NEW n, n = Len(pts), n >= 3
    PROVE  hasSelfIntersection(Reverse(pts), TRUE) <=> hasSelfIntersection(pts, TRUE)
<1>1. n \in Nat \ {0} /\ n >= 1 /\ \A i \in 1..n : pts[i] \in Points
  OBVIOUS
<1>2. PICK t \in Seq(Points) : t = Reverse(pts) /\ n = Len(t)
  BY <1>1, ReversedIs
<1>3. \A i \in 1..n : /\ Flip(n, i) \in 1..n /\ After(n, i) \in 1..n
                      /\ t[i] = pts[After(n, Flip(n, i))] /\ t[After(n, i)] = pts[Flip(n, i)]
  <2>1. \A i \in 1..n : /\ Flip(n, i) \in 1..n
                         /\ Reverse(pts)[i] = pts[After(n, Flip(n, i))]
                         /\ Reverse(pts)[After(n, i)] = pts[Flip(n, i)]
    BY <1>1, ReversedIs
  <2>2. \A i \in 1..n : After(n, i) \in 1..n
    BY <1>1, AfterIs
  <2>. QED
    BY <1>2, <2>1, <2>2
<1>4. PICK f : f = [i \in 1..n |-> Flip(n, i)]
  OBVIOUS
<1>5. f \in [1..n -> 1..n] /\ \A i \in 1..n : f[i] = Flip(n, i)
  BY <1>3, <1>4
<1>6. \A m \in 1..n : Flip(n, Flip(n, m)) = m
  BY <1>1 DEF Flip
<1>7. \A m \in 1..n : \E i \in 1..n : f[i] = m
  BY <1>3, <1>5, <1>6
<1>8. \A i, j \in 1..n : Adjacent(n, i, j) <=> Adjacent(n, f[i], f[j])
  <2>1. \A i, j \in 1..n : Adjacent(n, i, j) <=> Adjacent(n, Flip(n, i), Flip(n, j))
    BY <1>1 DEF Adjacent, Flip, After
  <2>. QED
    BY <1>5, <2>1
<1>9. ASSUME NEW i \in 1..n, NEW j \in 1..n
      PROVE  SideMeets(t, n, i, j) <=> SideMeets(pts, n, f[i], f[j])
  <2>1. PICK a \in Points, b \in Points, c \in Points, d \in Points :
            /\ a = pts[f[i]] /\ b = pts[After(n, f[i])]
            /\ c = pts[f[j]] /\ d = pts[After(n, f[j])]
    BY <1>1, <1>3, <1>5
  <2>2. t[i] = b /\ t[After(n, i)] = a /\ t[j] = d /\ t[After(n, j)] = c
    BY <1>3, <1>5, <2>1
  <2>3. segmentsIntersect(b, a, d, c) <=> segmentsIntersect(a, b, c, d)
    BY MeetEitherWay
  <2>. QED
    BY <2>1, <2>2, <2>3 DEF SideMeets
<1>10. Crosses(t, n) <=> Crosses(pts, n)
  BY <1>5, <1>7, <1>8, <1>9, RenumberedCrosses
<1>11. /\ hasSelfIntersection(t, TRUE) <=> Crosses(t, n)
       /\ hasSelfIntersection(pts, TRUE) <=> Crosses(pts, n)
  BY <1>2, ClosedCrosses
<1>. QED
  BY <1>2, <1>10, <1>11

-----------------------------------------------------------------------------
(***************************************************************************)
(* The area of an outline                                                  *)
(***************************************************************************)

\* The largest of some numbers up to n is one of them.
LEMMA MaxInside ==
    ASSUME NEW n \in Nat, NEW s \in SUBSET (1..n), s # {}
    PROVE  Max(s) \in s
<1>1. PICK T : T = {n - i : i \in s}
  OBVIOUS
<1>2. T \in SUBSET Nat /\ T # {}
  <2>1. \A i \in s : n - i \in Nat
    OBVIOUS
  <2>2. PICK i \in s : TRUE
    OBVIOUS
  <2>. QED
    BY <1>1, <2>1, <2>2
<1>3. PICK t \in T : \A j \in T : t <= j
  BY <1>2, LeastNumber
<1>4. PICK i \in s : t = n - i
  BY <1>1, <1>3
<1>5. \A j \in s : i >= j
  BY <1>1, <1>3, <1>4
<1>6. Max(s) = i
  <2>1. s \in SUBSET Int
    OBVIOUS
  <2>. QED
    BY <1>5, <2>1, MaxIs
<1>. QED
  BY <1>6

\* The sums of p[i] - q[i] over the sets of numbers in S.
Adds(f, p, q, S) ==
    f = [s \in SUBSET S |-> IF s = {} THEN 0 ELSE f[s \ {Max(s)}] + p[Max(s)] - q[Max(s)]]
Addable(p, q, n) == \E f : Adds(f, p, q, 1..n)

\* A sum of one more.
LEMMA OneMoreAdded ==
    ASSUME NEW p, NEW q, NEW n \in Nat, Addable(p, q, n)
    PROVE  Addable(p, q, n + 1)
<1>1. PICK f : Adds(f, p, q, 1..n)
  BY DEF Addable
<1>2. PICK N : N = n + 1
  OBVIOUS
<1>3. N \in Int /\ N \notin 1..n /\ 1..N = (1..n) \cup {N} /\ \A i \in 1..n : i < N
  BY <1>2
<1>4. PICK g : g = [s \in SUBSET (1..N) |->
                       IF N \in s THEN f[s \ {N}] + p[N] - q[N] ELSE f[s]]
  OBVIOUS
<1>5. ASSUME NEW s \in SUBSET (1..N)
      PROVE  g[s] = IF s = {} THEN 0 ELSE g[s \ {Max(s)}] + p[Max(s)] - q[Max(s)]
  <2>1. CASE N \in s
    <3>1. Max(s) = N
      <4>1. s \in SUBSET Int /\ \A m \in s : N >= m
        BY <1>2, <1>3
      <4>. QED
        BY <2>1, <4>1, MaxIs
    <3>2. s \ {N} \in SUBSET (1..N) /\ N \notin s \ {N}
      OBVIOUS
    <3>3. g[s \ {N}] = f[s \ {N}]
      BY <1>4, <3>2
    <3>4. g[s] = f[s \ {N}] + p[N] - q[N]
      BY <1>4, <2>1
    <3>. QED
      BY <2>1, <3>1, <3>3, <3>4
  <2>2. CASE N \notin s
    <3>1. s \in SUBSET (1..n)
      BY <1>3, <2>2
    <3>2. g[s] = f[s]
      BY <1>4, <2>2
    <3>3. f[s] = IF s = {} THEN 0 ELSE f[s \ {Max(s)}] + p[Max(s)] - q[Max(s)]
      BY <1>1, <3>1 DEF Adds
    <3>4. PICK m : m = Max(s)
      OBVIOUS
    <3>5. g[s \ {m}] = f[s \ {m}]
      <4>1. s \ {m} \in SUBSET (1..N) /\ N \notin s \ {m}
        BY <2>2
      <4>. QED
        BY <1>4, <4>1
    <3>. QED
      BY <3>2, <3>3, <3>4, <3>5
  <2>. QED
    BY <2>1, <2>2
<1>6. Adds(g, p, q, 1..N)
  <2>1. DOMAIN g = SUBSET (1..N) /\ g = [s \in DOMAIN g |-> g[s]]
    BY <1>4
  <2>. QED
    BY <1>5, <2>1 DEF Adds
<1>. QED
  BY <1>2, <1>6 DEF Addable

\* Any number of them can be summed: there is no least number that cannot.
LEMMA AllAdded ==
    ASSUME NEW p, NEW q, NEW n \in Nat
    PROVE  Addable(p, q, n)
<1>. DEFINE T == {k \in Nat : ~Addable(p, q, k)}
<1>1. SUFFICES ASSUME T # {} PROVE FALSE
  OBVIOUS
<1>2. PICK m \in T : \A k \in T : m <= k
  <2>1. T \in SUBSET Nat
    OBVIOUS
  <2>. HIDE DEF T
  <2>. QED
    BY <1>1, <2>1, LeastNumber
<1>3. m # 0
  <2>1. PICK f : f = [s \in SUBSET (1..0) |-> 0]
    OBVIOUS
  <2>2. 1..0 = {}
    OBVIOUS
  <2>3. f = [s \in SUBSET {} |-> IF s = {} THEN 0 ELSE f[s \ {Max(s)}] + p[Max(s)] - q[Max(s)]]
    BY <2>1, <2>2
  <2>4. Adds(f, p, q, 1..0)
    BY <2>2, <2>3 DEF Adds
  <2>. QED
    BY <1>2, <2>4 DEF Addable
<1>4. m - 1 \in Nat /\ (m - 1) + 1 = m /\ ~(m <= m - 1)
  BY <1>2, <1>3
<1>5. Addable(p, q, m - 1)
  BY <1>2, <1>4
<1>6. Addable(p, q, m)
  BY <1>4, <1>5, OneMoreAdded
<1>. QED
  BY <1>2, <1>6

\* S[i] is the sum of the first i numbers of z.
PartialSums(S, z, n) ==
    /\ S \in [0..n -> Int] /\ S[0] = 0
    /\ \A i \in 1..n : S[i] = S[i - 1] + z[i]

SumsTo(z, n, v) == \E S : PartialSums(S, z, n) /\ S[n] = v

\* A fold over the numbers of the corners adds them up one after the other.
LEMMA AddsUp ==
    ASSUME NEW n \in Nat, NEW p \in [1..n -> Int], NEW q \in [1..n -> Int],
           NEW z, z = [i \in 1..n |-> p[i] - q[i]], NEW f, Adds(f, p, q, 1..n)
    PROVE  SumsTo(z, n, f[1..n])
<1>1. PICK S : S = [i \in 0..n |-> f[1..i]]
  OBVIOUS
<1>2. S[0] = 0
  <2>1. S[0] = f[1..0] /\ 1..0 = {} /\ {} \in SUBSET (1..n)
    BY <1>1
  <2>. QED
    BY <2>1 DEF Adds
<1>3. ASSUME NEW i \in 1..n PROVE S[i] = S[i - 1] + p[i] - q[i]
  <2>1. Max(1..i) = i
    <3>1. 1..i \in SUBSET Int /\ i \in 1..i /\ \A k \in 1..i : i >= k
      OBVIOUS
    <3>. QED
      BY <3>1, MaxIs
  <2>2. (1..i) \ {i} = 1..(i - 1) /\ 1..i # {} /\ 1..i \in SUBSET (1..n)
    <3>1. i \in Int /\ 1 <= i /\ i <= n
      OBVIOUS
    <3>2. \A k : k \in (1..i) \ {i} <=> k \in 1..(i - 1)
      BY <3>1
    <3>3. i \in 1..i /\ \A k \in 1..i : k \in 1..n
      BY <3>1
    <3>. QED
      BY <3>2, <3>3
  <2>3. PICK s : s = 1..i
    OBVIOUS
  <2>4. f[s] = f[s \ {Max(s)}] + p[Max(s)] - q[Max(s)]
    BY <2>2, <2>3 DEF Adds
  <2>5. f[1..i] = f[1..(i - 1)] + p[i] - q[i]
    BY <2>1, <2>2, <2>3, <2>4
  <2>6. S[i] = f[1..i] /\ S[i - 1] = f[1..(i - 1)]
    BY <1>1
  <2>. QED
    BY <2>5, <2>6
<1>4. \A i \in 0..n : S[i] \in Int
  <2>. DEFINE T == {i \in 0..n : S[i] \notin Int}
  <2>1. SUFFICES ASSUME T # {} PROVE FALSE
    OBVIOUS
  <2>2. PICK m \in T : \A k \in T : m <= k
    <3>1. T \in SUBSET Nat
      OBVIOUS
    <3>. HIDE DEF T
    <3>. QED
      BY <2>1, <3>1, LeastNumber
  <2>3. m \in 1..n
    BY <1>2, <2>2
  <2>4. m - 1 \in 0..n /\ m - 1 \notin T
    BY <2>2, <2>3
  <2>5. S[m - 1] \in Int /\ p[m] \in Int /\ q[m] \in Int
    BY <2>3, <2>4
  <2>6. S[m] \in Int
    BY <1>3, <2>3, <2>5
  <2>. QED
    BY <2>2, <2>6
<1>5. ASSUME NEW i \in 1..n PROVE S[i] = S[i - 1] + z[i]
  <2>1. i - 1 \in 0..n /\ z[i] = p[i] - q[i] /\ p[i] \in Int /\ q[i] \in Int
    OBVIOUS
  <2>2. S[i - 1] \in Int
    BY <1>4, <2>1
  <2>3. S[i] = S[i - 1] + p[i] - q[i]
    BY <1>3
  <2>. QED
    BY <2>1, <2>2, <2>3
<1>6. S \in [0..n -> Int] /\ S[n] = f[1..n]
  BY <1>1, <1>4
<1>. QED
  BY <1>2, <1>5, <1>6 DEF PartialSums, SumsTo

\* Twice the part of the area under a side.
Under(pts, n) ==
    [i \in 1..n |-> pts[i].x * pts[After(n, i)].y - pts[After(n, i)].x * pts[i].y]

\* The area is the sum of the parts under the sides.
LEMMA AreaAdds ==
    ASSUME NEW pts \in Seq(Points), NEW n, n = Len(pts), n >= 3
    PROVE  \E S : PartialSums(S, Under(pts, n), n) /\ polygonArea(pts) = Magnitude(S[n])
<1>1. n \in Nat \ {0} /\ DOMAIN pts = 1..n /\ \A i \in 1..n : pts[i] \in Points
  OBVIOUS
<1>. DEFINE seq == [i \in DOMAIN pts |-> i]
            next(i) == pts[(i % Len(pts)) + 1]
            folds(f) == f = [s \in SUBSET (DOMAIN seq) |->
                               IF s = {} THEN 0
                               ELSE f[s \ {Max(s)}]
                                      + pts[seq[Max(s)]].x * next(seq[Max(s)]).y
                                      - next(seq[Max(s)]).x * pts[seq[Max(s)]].y]
<1>2. polygonArea(pts) = Magnitude((CHOOSE f : folds(f))[DOMAIN seq])
  BY DEF polygonArea, FoldLeftDomain, FoldLeft, MapThenFoldSet
<1>3. DOMAIN seq = 1..n
  BY <1>1
<1>4. PICK p : p = [i \in 1..n |-> pts[i].x * pts[After(n, i)].y]
  OBVIOUS
<1>5. PICK q : q = [i \in 1..n |-> pts[After(n, i)].x * pts[i].y]
  OBVIOUS
<1>6. ASSUME NEW i \in 1..n
      PROVE  /\ p[i] = pts[seq[i]].x * next(seq[i]).y /\ q[i] = next(seq[i]).x * pts[seq[i]].y
             /\ p[i] \in Int /\ q[i] \in Int
  <2>1. seq[i] = i /\ next(i) = pts[After(n, i)] /\ After(n, i) \in 1..n
    BY <1>1, AfterIs
  <2>2. /\ pts[i].x \in Int /\ pts[i].y \in Int
        /\ pts[After(n, i)].x \in Int /\ pts[After(n, i)].y \in Int
    BY <1>1, <2>1 DEF Points
  <2>3. p[i] = pts[i].x * pts[After(n, i)].y /\ q[i] = pts[After(n, i)].x * pts[i].y
    BY <1>4, <1>5
  <2>4. p[i] \in Int /\ q[i] \in Int
    BY <2>2, <2>3
  <2>. QED
    BY <2>1, <2>3, <2>4
<1>7. ASSUME NEW f PROVE folds(f) <=> Adds(f, p, q, 1..n)
  <2>1. ASSUME NEW s \in SUBSET (1..n), s # {} PROVE Max(s) \in 1..n
    <3>1. Max(s) \in s
      BY <1>1, <2>1, MaxInside
    <3>. QED
      BY <3>1
  <2>. QED
    BY <1>3, <1>6, <2>1 DEF Adds
<1>8. PICK f : f = CHOOSE g : folds(g)
  OBVIOUS
<1>14. folds(f)
  <2>1. \E g : folds(g)
    <3>1. \E g : Adds(g, p, q, 1..n)
      BY <1>1, AllAdded DEF Addable
    <3>. HIDE DEF folds
    <3>. QED
      BY <1>7, <3>1
  <2>. HIDE DEF folds
  <2>. QED
    BY <1>8, <2>1
<1>9. Adds(f, p, q, 1..n)
  BY <1>7, <1>14
<1>10. polygonArea(pts) = Magnitude(f[1..n])
  BY <1>2, <1>3, <1>8
<1>11. p \in [1..n -> Int] /\ q \in [1..n -> Int]
  <2>1. p = [i \in 1..n |-> p[i]] /\ q = [i \in 1..n |-> q[i]]
    BY <1>4, <1>5
  <2>. QED
    BY <1>6, <2>1
<1>12. Under(pts, n) = [i \in 1..n |-> p[i] - q[i]]
  BY <1>4, <1>5 DEF Under
<1>13. PICK S : PartialSums(S, Under(pts, n), n) /\ S[n] = f[1..n]
  <2>1. PICK z : z = Under(pts, n)
    OBVIOUS
  <2>2. n \in Nat /\ z = [i \in 1..n |-> p[i] - q[i]]
    BY <1>1, <1>12, <2>1
  <2>3. SumsTo(z, n, f[1..n])
    BY <1>9, <1>11, <2>2, AddsUp
  <2>. QED
    BY <2>1, <2>3 DEF SumsTo
<1>. QED
  BY <1>10, <1>13

\* Two rows of numbers that begin with 0 and grow alike end alike.
LEMMA GrowAlike ==
    ASSUME NEW n \in Nat, NEW S \in [0..n -> Int], NEW T \in [0..n -> Int], S[0] = T[0],
           \A i \in 1..n : S[i] - S[i - 1] = T[i] - T[i - 1]
    PROVE  S[n] = T[n]
<1>. DEFINE D == {i \in 0..n : S[i] # T[i]}
<1>1. SUFFICES ASSUME S[n] # T[n] PROVE FALSE
  OBVIOUS
<1>2. D \in SUBSET Nat /\ D # {}
  <2>1. n \in D /\ \A i \in 0..n : i \in Nat
    BY <1>1
  <2>2. D \in SUBSET (0..n)
    OBVIOUS
  <2>. HIDE DEF D
  <2>. QED
    BY <2>1, <2>2
<1>3. PICK m \in D : \A k \in D : m <= k
  <2>. HIDE DEF D
  <2>. QED
    BY <1>2, LeastNumber
<1>4. m \in 1..n /\ S[m] # T[m]
  BY <1>3
<1>5. m - 1 \in 0..n /\ m - 1 \notin D
  BY <1>3, <1>4
<1>6. S[m - 1] = T[m - 1]
  BY <1>5
<1>7. S[m] - S[m - 1] = T[m] - T[m - 1]
  BY <1>4
<1>8. S[m] \in Int /\ T[m] \in Int /\ S[m - 1] \in Int
  BY <1>4, <1>5
<1>. QED
  BY <1>4, <1>6, <1>7, <1>8

\* y has the numbers of z from the one after the k-th on, and round.
ShiftedBy(y, z, n, k) == \A i \in 1..n : y[i] = z[Shift(n, k, i)]
\* y has the negatives of the numbers of z, backwards.
FlippedOver(y, z, n) == \A i \in 1..n : y[i] = -z[Flip(n, i)]

SameSum(y, z, n) == \A S, T : PartialSums(S, z, n) /\ PartialSums(T, y, n) => T[n] = S[n]
OppositeSum(y, z, n) == \A S, T : PartialSums(S, z, n) /\ PartialSums(T, y, n) => T[n] = -S[n]

\* Numbers added up from another place on, and round, give the same sum.
LEMMA SumShifted ==
    ASSUME NEW n \in Nat, NEW k \in 1..n, NEW z \in [1..n -> Int], NEW y \in [1..n -> Int],
           ShiftedBy(y, z, n, k)
    PROVE  SameSum(y, z, n)
<1>. SUFFICES ASSUME NEW S, PartialSums(S, z, n), NEW T, PartialSums(T, y, n)
              PROVE  T[n] = S[n]
  BY DEF SameSum
<1>1. /\ S \in [0..n -> Int] /\ S[0] = 0 /\ \A i \in 1..n : S[i] = S[i - 1] + z[i]
      /\ T \in [0..n -> Int] /\ T[0] = 0 /\ \A i \in 1..n : T[i] = T[i - 1] + y[i]
  BY DEF PartialSums
<1>2. PICK Q : Q = [i \in 0..n |-> IF i + k <= n THEN S[i + k] - S[k]
                                   ELSE (S[n] - S[k]) + S[(i + k) - n]]
  OBVIOUS
<1>3. \A i \in 0..n : i + k <= n => i + k \in 0..n /\ Q[i] = S[i + k] - S[k]
  BY <1>2
<1>4. \A i \in 0..n : ~(i + k <= n) => (i + k) - n \in 0..n /\ Q[i] = (S[n] - S[k]) + S[(i + k) - n]
  BY <1>2
<1>5. S[k] \in Int /\ S[n] \in Int /\ k \in Int /\ 1 <= k /\ k <= n
  BY <1>1
<1>6. Q \in [0..n -> Int]
  <2>1. ASSUME NEW i \in 0..n PROVE Q[i] \in Int
    <3>1. CASE i + k <= n
      <4>1. PICK a \in 0..n : a = i + k
        BY <1>3, <3>1
      <4>2. S[a] \in Int /\ Q[i] = S[a] - S[k]
        BY <1>1, <1>3, <3>1, <4>1
      <4>. QED
        BY <1>5, <4>2
    <3>2. CASE ~(i + k <= n)
      <4>1. PICK a \in 0..n : a = (i + k) - n
        BY <1>4, <3>2
      <4>2. S[a] \in Int /\ Q[i] = (S[n] - S[k]) + S[a]
        BY <1>1, <1>4, <3>2, <4>1
      <4>. QED
        BY <1>5, <4>2
    <3>. QED
      BY <3>1, <3>2
  <2>. QED
    BY <1>2, <2>1
<1>7. Q[0] = 0 /\ Q[n] = S[n]
  <2>1. 0 + k = k /\ 0 + k <= n /\ (n + k) - n = k /\ ~(n + k <= n)
    BY <1>5
  <2>2. Q[0] = S[k] - S[k] /\ Q[n] = (S[n] - S[k]) + S[k]
    BY <1>3, <1>4, <2>1
  <2>. QED
    BY <1>5, <2>2
<1>8. ASSUME NEW i \in 1..n PROVE Q[i] - Q[i - 1] = y[i]
  <2>1. i \in Int /\ 1 <= i /\ i <= n /\ i \in 0..n /\ i - 1 \in 0..n
    OBVIOUS
  <2>2. CASE i + k <= n
    <3>1. PICK j \in 1..n : j = i + k
      BY <1>5, <2>1, <2>2
    <3>5. (i - 1) + k = j - 1 /\ (i - 1) + k <= n /\ j - 1 \in 0..n
      BY <1>5, <2>1, <3>1
    <3>2. Q[i] = S[j] - S[k] /\ Q[i - 1] = S[j - 1] - S[k]
      BY <1>3, <2>1, <2>2, <3>1, <3>5
    <3>3. S[j] = S[j - 1] + z[j] /\ z[j] \in Int /\ S[j - 1] \in Int
      BY <1>1, <3>5
    <3>4. y[i] = z[j]
      BY <2>2, <3>1 DEF ShiftedBy, Shift
    <3>. QED
      BY <1>5, <3>2, <3>3, <3>4
  <2>3. CASE ~(i + k <= n)
    <3>1. PICK j \in 1..n : j = (i + k) - n
      BY <1>5, <2>1, <2>3
    <3>2. Q[i] = (S[n] - S[k]) + S[j]
      BY <1>4, <2>1, <2>3, <3>1
    <3>6. j - 1 \in 0..n
      OBVIOUS
    <3>3. S[j] = S[j - 1] + z[j] /\ z[j] \in Int /\ j - 1 \in 0..n /\ S[j - 1] \in Int
      BY <1>1, <3>6
    <3>4. y[i] = z[j]
      BY <2>3, <3>1 DEF ShiftedBy, Shift
    <3>5. Q[i - 1] = (S[n] - S[k]) + S[j - 1]
      <4>1. CASE j = 1
        <5>1. (i - 1) + k = n /\ (i - 1) + k <= n
          BY <1>5, <2>1, <3>1, <4>1
        <5>2. Q[i - 1] = S[n] - S[k]
          BY <1>3, <2>1, <5>1
        <5>3. S[j - 1] = 0
          BY <1>1, <4>1
        <5>. QED
          BY <1>5, <5>2, <5>3
      <4>2. CASE j # 1
        <5>1. ~((i - 1) + k <= n) /\ ((i - 1) + k) - n = j - 1
          BY <1>5, <2>1, <3>1, <4>2
        <5>. QED
          BY <1>4, <2>1, <5>1
      <4>. QED
        BY <4>1, <4>2
    <3>. QED
      BY <1>5, <3>2, <3>3, <3>4, <3>5
  <2>. QED
    BY <2>2, <2>3
<1>9. \A i \in 1..n : T[i] - T[i - 1] = y[i]
  <2>1. ASSUME NEW i \in 1..n PROVE T[i] - T[i - 1] = y[i]
    <3>1. i - 1 \in 0..n
      OBVIOUS
    <3>2. T[i - 1] \in Int /\ y[i] \in Int /\ T[i] = T[i - 1] + y[i]
      BY <1>1, <3>1
    <3>. QED
      BY <3>2
  <2>. QED
    BY <2>1
<1>10. T[n] = Q[n]
  <2>1. T[0] = Q[0] /\ \A i \in 1..n : T[i] - T[i - 1] = Q[i] - Q[i - 1]
    BY <1>1, <1>7, <1>8, <1>9
  <2>. QED
    BY <1>1, <1>6, <2>1, GrowAlike
<1>. QED
  BY <1>7, <1>10

\* The negatives of numbers, added up backwards, give the negative of the sum.
LEMMA SumFlipped ==
    ASSUME NEW n \in Nat, n >= 1, NEW z \in [1..n -> Int], NEW y \in [1..n -> Int],
           FlippedOver(y, z, n)
    PROVE  OppositeSum(y, z, n)
<1>. SUFFICES ASSUME NEW S, PartialSums(S, z, n), NEW T, PartialSums(T, y, n)
              PROVE  T[n] = -S[n]
  BY DEF OppositeSum
<1>1. /\ S \in [0..n -> Int] /\ S[0] = 0 /\ \A i \in 1..n : S[i] = S[i - 1] + z[i]
      /\ T \in [0..n -> Int] /\ T[0] = 0 /\ \A i \in 1..n : T[i] = T[i - 1] + y[i]
  BY DEF PartialSums
<1>2. PICK Q : Q = [i \in 0..n |-> IF i < n THEN S[(n - 1) - i] - S[n - 1] ELSE 0 - S[n]]
  OBVIOUS
<1>3. \A i \in 0..n : i < n => (n - 1) - i \in 0..n /\ Q[i] = S[(n - 1) - i] - S[n - 1]
  BY <1>2
<1>4. Q[n] = 0 - S[n]
  BY <1>2
<1>5. n - 1 \in 0..n /\ S[n - 1] \in Int /\ S[n] \in Int
  BY <1>1
<1>6. Q \in [0..n -> Int]
  <2>1. ASSUME NEW i \in 0..n PROVE Q[i] \in Int
    <3>1. CASE i < n
      <4>1. PICK a \in 0..n : a = (n - 1) - i
        BY <1>3, <3>1
      <4>2. S[a] \in Int /\ Q[i] = S[a] - S[n - 1]
        BY <1>1, <1>3, <3>1, <4>1
      <4>. QED
        BY <1>5, <4>2
    <3>2. CASE ~(i < n)
      <4>1. i = n
        BY <3>2
      <4>. QED
        BY <1>4, <1>5, <4>1
    <3>. QED
      BY <3>1, <3>2
  <2>. QED
    BY <1>2, <2>1
<1>7. Q[0] = 0
  <2>1. 0 \in 0..n /\ 0 < n /\ (n - 1) - 0 = n - 1
    OBVIOUS
  <2>2. Q[0] = S[n - 1] - S[n - 1]
    BY <1>3, <2>1
  <2>. QED
    BY <1>5, <2>2
<1>8. ASSUME NEW i \in 1..n PROVE Q[i] - Q[i - 1] = y[i]
  <2>1. i \in Int /\ 1 <= i /\ i <= n /\ i \in 0..n /\ i - 1 \in 0..n /\ i - 1 < n
    OBVIOUS
  <2>2. CASE i < n
    <3>1. PICK j \in 1..n : j = n - i
      BY <2>1, <2>2
    <3>2. (n - 1) - i = j - 1 /\ (n - 1) - (i - 1) = j
      BY <2>1, <3>1
    <3>3. Q[i] = S[j - 1] - S[n - 1] /\ Q[i - 1] = S[j] - S[n - 1]
      BY <1>3, <2>1, <2>2, <3>2
    <3>4. S[j] = S[j - 1] + z[j] /\ z[j] \in Int /\ j - 1 \in 0..n /\ S[j - 1] \in Int
      BY <1>1
    <3>5. y[i] = -z[j]
      BY <2>2, <3>1 DEF FlippedOver, Flip
    <3>6. PICK a \in Int, b \in Int, c \in Int, e \in Int :
              a = S[j] /\ b = S[j - 1] /\ c = z[j] /\ e = S[n - 1]
      <4>1. S[j] \in Int
        BY <1>1
      <4>. QED
        BY <1>5, <3>4, <4>1
    <3>7. a = b + c /\ Q[i] = b - e /\ Q[i - 1] = a - e /\ y[i] = -c
      BY <3>3, <3>4, <3>5, <3>6
    <3>. QED
      BY <3>7
  <2>3. CASE i = n
    <3>1. (n - 1) - (i - 1) = 0
      BY <2>1, <2>3
    <3>2. Q[i] = 0 - S[n] /\ Q[i - 1] = S[0] - S[n - 1]
      BY <1>3, <1>4, <2>1, <2>3, <3>1
    <3>3. S[n] = S[n - 1] + z[n] /\ z[n] \in Int
      BY <1>1
    <3>4. y[i] = -z[n]
      BY <2>3 DEF FlippedOver, Flip
    <3>5. PICK a \in Int, b \in Int, c \in Int : a = S[n] /\ b = S[n - 1] /\ c = z[n]
      BY <1>5, <3>3
    <3>6. a = b + c /\ Q[i] = 0 - a /\ Q[i - 1] = 0 - b /\ y[i] = -c
      BY <1>1, <3>2, <3>3, <3>4, <3>5
    <3>. QED
      BY <3>6
  <2>. QED
    BY <2>1, <2>2, <2>3
<1>9. \A i \in 1..n : T[i] - T[i - 1] = y[i]
  <2>1. ASSUME NEW i \in 1..n PROVE T[i] - T[i - 1] = y[i]
    <3>1. i - 1 \in 0..n
      OBVIOUS
    <3>2. T[i - 1] \in Int /\ y[i] \in Int /\ T[i] = T[i - 1] + y[i]
      BY <1>1, <3>1
    <3>. QED
      BY <3>2
  <2>. QED
    BY <2>1
<1>10. T[n] = Q[n]
  <2>1. T[0] = Q[0] /\ \A i \in 1..n : T[i] - T[i - 1] = Q[i] - Q[i - 1]
    BY <1>1, <1>7, <1>8, <1>9
  <2>. QED
    BY <1>1, <1>6, <2>1, GrowAlike
<1>. QED
  BY <1>4, <1>5, <1>10

\* The parts under the sides are numbers.
LEMMA UnderIs ==
    ASSUME NEW pts \in Seq(Points), NEW n, n = Len(pts), n >= 1
    PROVE  Under(pts, n) \in [1..n -> Int]
<1>1. n \in Nat \ {0} /\ \A i \in 1..n : pts[i] \in Points
  OBVIOUS
<1>2. \A i \in 1..n : After(n, i) \in 1..n
  BY <1>1, AfterIs
<1>3. ASSUME NEW i \in 1..n
      PROVE  pts[i].x * pts[After(n, i)].y - pts[After(n, i)].x * pts[i].y \in Int
  <2>1. PICK a \in Points, b \in Points : a = pts[i] /\ b = pts[After(n, i)]
    BY <1>1, <1>2
  <2>2. a.x \in Int /\ a.y \in Int /\ b.x \in Int /\ b.y \in Int
    BY DEF Points
  <2>3. a.x * b.y - b.x * a.y \in Int
    BY <2>2
  <2>. QED
    BY <2>1, <2>3
<1>. QED
  BY <1>3 DEF Under

\* Begun at another corner an outline has the area it had.
LEMMA TurnedArea ==
    ASSUME NEW pts \in Seq(Points), NEW n, n = Len(pts), n >= 3, NEW k \in 1..n
    PROVE  polygonArea(Turned(pts, k)) = polygonArea(pts)
<1>1. PICK t \in Seq(Points) : t = Turned(pts, k) /\ n = Len(t) /\ BegunAt(t, pts, n, k)
  <2>1. BegunAt(Turned(pts, k), pts, n, k)
    BY TurnedIs
  <2>. QED
    BY <2>1 DEF BegunAt
<1>2. n \in Nat \ {0} /\ n \in Nat /\ n >= 1
  OBVIOUS
<1>3. \A i \in 1..n : Shift(n, k, i) \in 1..n /\ t[i] = pts[Shift(n, k, i)] /\ After(n, i) \in 1..n
  <2>1. \A i \in 1..n : Shift(n, k, i) \in 1..n /\ t[i] = pts[Shift(n, k, i)]
    BY <1>1 DEF BegunAt
  <2>2. \A i \in 1..n : After(n, i) \in 1..n
    BY <1>2, AfterIs
  <2>. QED
    BY <2>1, <2>2
<1>4. \A i \in 1..n : Shift(n, k, After(n, i)) = After(n, Shift(n, k, i))
  BY <1>2 DEF Shift, After
<1>5. PICK z : z = Under(pts, n)
  OBVIOUS
<1>6. PICK y : y = Under(t, n)
  OBVIOUS
<1>7. z \in [1..n -> Int] /\ y \in [1..n -> Int]
  BY <1>1, <1>2, <1>5, <1>6, UnderIs
<1>8. ASSUME NEW i \in 1..n PROVE y[i] = z[Shift(n, k, i)]
  <2>1. PICK j \in 1..n : j = Shift(n, k, i)
    BY <1>3
  <2>2. t[i] = pts[j] /\ t[After(n, i)] = pts[After(n, j)]
    <3>1. PICK m \in 1..n : m = After(n, i)
      BY <1>3
    <3>2. t[m] = pts[Shift(n, k, m)] /\ Shift(n, k, m) = After(n, j)
      BY <1>3, <1>4, <2>1, <3>1
    <3>. QED
      BY <1>3, <2>1, <3>1, <3>2
  <2>3. /\ y[i] = t[i].x * t[After(n, i)].y - t[After(n, i)].x * t[i].y
        /\ z[j] = pts[j].x * pts[After(n, j)].y - pts[After(n, j)].x * pts[j].y
    BY <1>5, <1>6 DEF Under
  <2>. QED
    BY <2>1, <2>2, <2>3
<1>9. PICK S : PartialSums(S, z, n) /\ polygonArea(pts) = Magnitude(S[n])
  BY <1>5, AreaAdds
<1>10. PICK T : PartialSums(T, y, n) /\ polygonArea(t) = Magnitude(T[n])
  BY <1>1, <1>6, AreaAdds
<1>11. T[n] = S[n]
  <2>1. ShiftedBy(y, z, n, k)
    BY <1>8 DEF ShiftedBy
  <2>2. SameSum(y, z, n)
    BY <1>2, <1>7, <2>1, SumShifted
  <2>. QED
    BY <1>9, <1>10, <2>2 DEF SameSum
<1>. QED
  BY <1>1, <1>9, <1>10, <1>11

\* Drawn the other way an outline has the area it had.
LEMMA ReversedArea ==
    ASSUME NEW pts \in Seq(Points), NEW n, n = Len(pts), n >= 3
    PROVE  polygonArea(Reverse(pts)) = polygonArea(pts)
<1>1. n \in Nat \ {0} /\ n \in Nat /\ n >= 1 /\ \A i \in 1..n : pts[i] \in Points
  OBVIOUS
<1>2. PICK t \in Seq(Points) : t = Reverse(pts) /\ n = Len(t)
  BY <1>1, ReversedIs
<1>3. \A i \in 1..n : /\ Flip(n, i) \in 1..n /\ After(n, i) \in 1..n
                      /\ t[i] = pts[After(n, Flip(n, i))] /\ t[After(n, i)] = pts[Flip(n, i)]
  <2>1. \A i \in 1..n : /\ Flip(n, i) \in 1..n
                         /\ Reverse(pts)[i] = pts[After(n, Flip(n, i))]
                         /\ Reverse(pts)[After(n, i)] = pts[Flip(n, i)]
    BY <1>1, ReversedIs
  <2>2. \A i \in 1..n : After(n, i) \in 1..n
    BY <1>1, AfterIs
  <2>. QED
    BY <1>2, <2>1, <2>2
<1>4. PICK z : z = Under(pts, n)
  OBVIOUS
<1>5. PICK y : y = Under(t, n)
  OBVIOUS
<1>6. z \in [1..n -> Int] /\ y \in [1..n -> Int]
  BY <1>1, <1>2, <1>4, <1>5, UnderIs
<1>7. ASSUME NEW i \in 1..n PROVE y[i] = -z[Flip(n, i)]
  <2>1. PICK j \in 1..n : j = Flip(n, i)
    BY <1>3
  <2>2. PICK a \in Points, b \in Points : a = pts[j] /\ b = pts[After(n, j)]
    BY <1>1, <1>3
  <2>3. t[i] = b /\ t[After(n, i)] = a
    BY <1>3, <2>1, <2>2
  <2>4. y[i] = b.x * a.y - a.x * b.y /\ z[j] = a.x * b.y - b.x * a.y
    BY <1>4, <1>5, <2>2, <2>3 DEF Under
  <2>5. a.x \in Int /\ a.y \in Int /\ b.x \in Int /\ b.y \in Int
    BY DEF Points
  <2>6. b.x * a.y - a.x * b.y = -(a.x * b.y - b.x * a.y)
    BY <2>5
  <2>. QED
    BY <2>1, <2>4, <2>6
<1>8. PICK S : PartialSums(S, z, n) /\ polygonArea(pts) = Magnitude(S[n])
  BY <1>4, AreaAdds
<1>9. PICK T : PartialSums(T, y, n) /\ polygonArea(t) = Magnitude(T[n])
  BY <1>2, <1>5, AreaAdds
<1>10. T[n] = -S[n]
  <2>1. FlippedOver(y, z, n)
    BY <1>7 DEF FlippedOver
  <2>2. OppositeSum(y, z, n)
    BY <1>1, <1>6, <2>1, SumFlipped
  <2>. QED
    BY <1>8, <1>9, <2>2 DEF OppositeSum
<1>11. S[n] \in Int
  BY <1>1, <1>8 DEF PartialSums
<1>12. Magnitude(-S[n]) = Magnitude(S[n])
  BY <1>11 DEF Magnitude
<1>. QED
  BY <1>2, <1>8, <1>9, <1>10, <1>12

-----------------------------------------------------------------------------
(***************************************************************************)
(* The verdict on an outline                                               *)
(***************************************************************************)

\* The verdict depends on how many corners there are, the area and the crossing.
LEMMA VerdictBy ==
    ASSUME NEW type, NEW pts \in Seq(Points), NEW same \in Seq(Points), Len(same) = Len(pts),
           Len(pts) >= 3 => /\ polygonArea(same) = polygonArea(pts)
                            /\ hasSelfIntersection(same, TRUE) <=> hasSelfIntersection(pts, TRUE)
    PROVE  drawValidationIssue(type, same) = drawValidationIssue(type, pts)
<1>1. PICK n \in Nat : n = Len(pts) /\ n = Len(same)
  OBVIOUS
<1>2. PICK a : a = polygonArea(pts)
  OBVIOUS
<1>3. PICK b : b = polygonArea(same)
  OBVIOUS
<1>4. n >= 3 => a = b
  BY <1>1, <1>2, <1>3
<1>5. CASE type \notin {"boundary", "zone"}
  BY <1>5 DEF drawValidationIssue
<1>6. CASE type \in {"boundary", "zone"} /\ n < 3
  <2>1. drawValidationIssue(type, same) = "info"
    BY <1>1, <1>6 DEF drawValidationIssue
  <2>2. drawValidationIssue(type, pts) = "info"
    BY <1>1, <1>6 DEF drawValidationIssue
  <2>. QED
    BY <2>1, <2>2
<1>7. CASE type \in {"boundary", "zone"} /\ ~(n < 3)
  <2>1. n >= 3 /\ a = b
    BY <1>4, <1>7
  <2>2. drawValidationIssue(type, same)
          = IF b < 2 * MIN_BOUNDARY_AREA THEN "warning"
            ELSE IF hasSelfIntersection(same, TRUE) THEN "error" ELSE "ok"
    BY <1>1, <1>3, <1>7 DEF drawValidationIssue
  <2>3. drawValidationIssue(type, pts)
          = IF a < 2 * MIN_BOUNDARY_AREA THEN "warning"
            ELSE IF hasSelfIntersection(pts, TRUE) THEN "error" ELSE "ok"
    BY <1>1, <1>2, <1>7 DEF drawValidationIssue
  <2>4. CASE a < 2 * MIN_BOUNDARY_AREA
    <3>1. drawValidationIssue(type, same) = "warning"
      BY <2>1, <2>2, <2>4
    <3>2. drawValidationIssue(type, pts) = "warning"
      BY <2>3, <2>4
    <3>. QED
      BY <3>1, <3>2
  <2>5. CASE ~(a < 2 * MIN_BOUNDARY_AREA)
    <3>1. drawValidationIssue(type, same) = IF hasSelfIntersection(same, TRUE) THEN "error" ELSE "ok"
      BY <2>1, <2>2, <2>5
    <3>2. drawValidationIssue(type, pts) = IF hasSelfIntersection(pts, TRUE) THEN "error" ELSE "ok"
      BY <2>3, <2>5
    <3>3. hasSelfIntersection(same, TRUE) <=> hasSelfIntersection(pts, TRUE)
      BY <1>1, <2>1
    <3>4. CASE hasSelfIntersection(pts, TRUE)
      BY <3>1, <3>2, <3>3, <3>4, Zenon
    <3>5. CASE ~hasSelfIntersection(pts, TRUE)
      BY <3>1, <3>2, <3>3, <3>5, Zenon
    <3>. QED
      BY <3>4, <3>5
  <2>. QED
    BY <2>4, <2>5
<1>. QED
  BY <1>5, <1>6, <1>7

\* The verdict on an outline of any corners is the same whichever of them it is begun
\* at and whichever way round it is drawn (drawValidationIssue, polygonArea and
\* hasSelfIntersection, CanvasEditor.jsx).
THEOREM OutlineVerdict ==
    ASSUME NEW type, NEW pts \in Seq(Points), NEW k \in DOMAIN pts
    PROVE  /\ Turned(pts, k) \in Seq(Points)
           /\ drawValidationIssue(type, Turned(pts, k)) = drawValidationIssue(type, pts)
           /\ drawValidationIssue(type, Reverse(pts)) = drawValidationIssue(type, pts)
<1>1. PICK n \in Nat : n = Len(pts)
  OBVIOUS
<1>2. n >= 1 /\ k \in 1..n
  BY <1>1
<1>3. PICK t \in Seq(Points) : t = Turned(pts, k) /\ Len(t) = n
  <2>1. BegunAt(Turned(pts, k), pts, n, k)
    BY <1>1, <1>2, TurnedIs
  <2>. QED
    BY <2>1 DEF BegunAt
<1>4. PICK r \in Seq(Points) : r = Reverse(pts) /\ Len(r) = n
  BY <1>1, <1>2, ReversedIs
<1>5. Len(pts) >= 3 => /\ polygonArea(t) = polygonArea(pts)
                       /\ hasSelfIntersection(t, TRUE) <=> hasSelfIntersection(pts, TRUE)
  BY <1>1, <1>2, <1>3, TurnedArea, TurnedCrosses
<1>6. Len(pts) >= 3 => /\ polygonArea(r) = polygonArea(pts)
                       /\ hasSelfIntersection(r, TRUE) <=> hasSelfIntersection(pts, TRUE)
  BY <1>1, <1>4, ReversedArea, ReversedCrosses
<1>7. Len(t) = Len(pts) /\ Len(r) = Len(pts)
  BY <1>1, <1>3, <1>4
<1>8. drawValidationIssue(type, t) = drawValidationIssue(type, pts)
  BY <1>5, <1>7, VerdictBy
<1>9. drawValidationIssue(type, r) = drawValidationIssue(type, pts)
  BY <1>6, <1>7, VerdictBy
<1>. QED
  BY <1>3, <1>4, <1>8, <1>9

\* A question about an outline.
LEMMA OutlineSample ==
    ASSUME NEW s \in Samples \cup {NoSample}, s.kind = "outline"
    PROVE  s.pts \in Outlines /\ s.pts \in Seq(Points)
<1>1. s.pts \in Outlines
  BY DEF Samples, NoSample
<1>. QED
  BY <1>1, OutlinesAssumption DEF Points

\* Two sides that are not adjacent meet.
SidesThatMeet(pts, n, closed) ==
    \E i, j \in 1..(IF closed THEN n ELSE n - 1) :
       /\ j - i >= 2 /\ (closed => j - i # n - 1)
       /\ ~Apart(pts[i], pts[(i % n) + 1], pts[j], pts[(j % n) + 1])

\* An outline crosses itself where two sides that are not adjacent meet.
LEMMA CrossesWhereMeets ==
    ASSUME NEW pts \in Seq(Points), NEW n, n = Len(pts), NEW closed \in BOOLEAN
    PROVE  hasSelfIntersection(pts, closed) <=> SidesThatMeet(pts, n, closed)
<1>1. n \in Nat /\ \A i \in 1..n : pts[i] \in Points
  OBVIOUS
<1>2. PICK m \in Int : m = (IF closed THEN n ELSE n - 1) /\ m <= n
  BY <1>1
<1>3. ASSUME NEW i \in 1..m, NEW j \in 1..m
      PROVE  segmentsIntersect(pts[i], pts[(i % n) + 1], pts[j], pts[(j % n) + 1])
               <=> ~Apart(pts[i], pts[(i % n) + 1], pts[j], pts[(j % n) + 1])
  <2>1. n \in Nat \ {0} /\ i \in 1..n /\ j \in 1..n
    BY <1>1, <1>2
  <2>2. (i % n) + 1 \in 1..n /\ (j % n) + 1 \in 1..n
    BY <2>1, AfterIs
  <2>3. PICK a \in Points, b \in Points, c \in Points, d \in Points :
            a = pts[i] /\ b = pts[(i % n) + 1] /\ c = pts[j] /\ d = pts[(j % n) + 1]
    BY <1>1, <2>1, <2>2
  <2>4. segmentsIntersect(a, b, c, d) <=> ~Apart(a, b, c, d)
    BY SidesMeet
  <2>. QED
    BY <2>3, <2>4
<1>4. hasSelfIntersection(pts, closed) <=>
         \E i, j \in 1..m :
            /\ j - i >= 2 /\ (closed => j - i # n - 1)
            /\ segmentsIntersect(pts[i], pts[(i % n) + 1], pts[j], pts[(j % n) + 1])
  BY <1>2, CrossingIs
<1>. QED
  BY <1>2, <1>3, <1>4 DEF SidesThatMeet

\* In every state the verdict on an outline is right: it is found to cross itself
\* exactly when two sides that are not adjacent meet, and neither the corner it is
\* begun at nor the way round changes what is said of it (hasSelfIntersection,
\* drawValidationIssue).
THEOREM VerdictAlwaysRight == Spec => []VerdictRight
<1>1. ASSUME sample \in Samples \cup {NoSample} PROVE VerdictRight
  <2>1. SUFFICES ASSUME sample.kind = "outline", NEW pts, pts = sample.pts, NEW n, n = Len(pts)
                 PROVE  /\ \A closed \in BOOLEAN :
                             hasSelfIntersection(pts, closed) <=>
                               \E i, j \in 1..(IF closed THEN n ELSE n - 1) :
                                  /\ j - i >= 2 /\ (closed => j - i # n - 1)
                                  /\ ~Apart(pts[i], pts[(i % n) + 1], pts[j], pts[(j % n) + 1])
                        /\ \A k \in DOMAIN pts :
                             /\ drawValidationIssue(sample.type, Turned(pts, k))
                                  = drawValidationIssue(sample.type, pts)
                             /\ drawValidationIssue(sample.type, Reverse(Turned(pts, k)))
                                  = drawValidationIssue(sample.type, pts)
    BY DEF VerdictRight
  <2>2. pts \in Seq(Points)
    BY <1>1, <2>1, OutlineSample
  <2>3. ASSUME NEW closed \in BOOLEAN
        PROVE  hasSelfIntersection(pts, closed) <=>
                 \E i, j \in 1..(IF closed THEN n ELSE n - 1) :
                    /\ j - i >= 2 /\ (closed => j - i # n - 1)
                    /\ ~Apart(pts[i], pts[(i % n) + 1], pts[j], pts[(j % n) + 1])
    <3>1. hasSelfIntersection(pts, closed) <=> SidesThatMeet(pts, n, closed)
      BY <2>1, <2>2, CrossesWhereMeets
    <3>. QED
      BY <3>1 DEF SidesThatMeet
  <2>4. PICK type : type = sample.type
    OBVIOUS
  <2>5. ASSUME NEW k \in DOMAIN pts
        PROVE  /\ drawValidationIssue(type, Turned(pts, k)) = drawValidationIssue(type, pts)
               /\ drawValidationIssue(type, Reverse(Turned(pts, k))) = drawValidationIssue(type, pts)
    <3>1. PICK same \in Seq(Points) : same = Turned(pts, k)
      BY <2>2, OutlineVerdict
    <3>2. drawValidationIssue(type, same) = drawValidationIssue(type, pts)
      BY <2>2, <3>1, OutlineVerdict
    <3>3. k \in DOMAIN same
      BY <3>1 DEF Turned
    <3>4. drawValidationIssue(type, Reverse(same)) = drawValidationIssue(type, same)
      BY <3>3, OutlineVerdict
    <3>. QED
      BY <3>1, <3>2, <3>4
  <2>. QED
    BY <2>3, <2>4, <2>5
<1>. QED
  BY <1>1, SampleStays, PTL
=============================================================================
