-------------------------- MODULE AdminShellProofs --------------------------
(***************************************************************************)
(* What the admin pages and the editor of a component keep for any number  *)
(* of floors, offices, calls and shapes, any markup and any components.    *)
(***************************************************************************)
EXTENDS AdminShell, WellFoundedInduction, FiniteSetTheorems, TLAPS

-----------------------------------------------------------------------------
(***************************************************************************)
(* Numbers.  A property of all numbers is proved by its least exception.   *)
(***************************************************************************)

\* Some numbers have a least one.
LEMMA LeastNat ==
    ASSUME NEW T \in SUBSET Nat, T # {}
    PROVE  \E m \in T : \A n \in T : m <= n
<1>. DEFINE R == OpToRel(<, Nat)
<1>1. IsWellFoundedOn(R, Nat)
  BY NatLessThanWellFounded
<1>2. \A x, y \in Nat : y < x => <<y, x>> \in R
  BY DEF OpToRel
<1>. HIDE DEF R
<1>3. PICK m \in T : \A y \in T : ~ (<<y, m>> \in R)
  BY <1>1, WFMin
<1>4. \A n \in T : n \in Nat /\ m \in Nat /\ ~(n < m)
  BY <1>2, <1>3
<1>5. \A n \in T : m <= n
  BY <1>4
<1>. QED
  BY <1>5

\* A row of so many numbers has a least one.
HasLeast(n) == \A f \in [1..n -> Int] : \E m \in 1..n : \A i \in 1..n : f[m] <= f[i]

\* One more number is the least, or the least was.
LEMMA LeastOfOneMore ==
    ASSUME NEW n \in Nat \ {0}, HasLeast(n)
    PROVE  HasLeast(n + 1)
<1>. SUFFICES ASSUME NEW f \in [1..(n + 1) -> Int]
              PROVE  \E m \in 1..(n + 1) : \A i \in 1..(n + 1) : f[m] <= f[i]
  BY DEF HasLeast
<1>1. \A i \in 1..(n + 1) : i \in 1..n \/ i = n + 1
  OBVIOUS
<1>2. \A i \in 1..n : i \in 1..(n + 1)
  OBVIOUS
<1>3. PICK g : g = [i \in 1..n |-> f[i]]
  OBVIOUS
<1>4. g \in [1..n -> Int] /\ \A i \in 1..n : g[i] = f[i]
  BY <1>2, <1>3
<1>5. PICK m \in 1..n : \A i \in 1..n : f[m] <= f[i]
  BY <1>4 DEF HasLeast
<1>6. f[m] \in Int /\ f[n + 1] \in Int /\ n + 1 \in 1..(n + 1) /\ \A i \in 1..n : f[i] \in Int
  BY <1>2
<1>7. CASE f[m] <= f[n + 1]
  BY <1>1, <1>2, <1>5, <1>7
<1>8. CASE ~(f[m] <= f[n + 1])
  <2>1. \A i \in 1..n : f[n + 1] <= f[i]
    BY <1>5, <1>6, <1>8
  <2>2. f[n + 1] <= f[n + 1]
    BY <1>6
  <2>. QED
    BY <1>1, <1>6, <2>1, <2>2
<1>. QED
  BY <1>7, <1>8

\* So has any row that is not empty.
LEMMA LeastOfMany == \A n \in Nat \ {0} : HasLeast(n)
<1>. DEFINE T == {n \in Nat \ {0} : ~HasLeast(n)}
<1>1. HasLeast(1)
  <2>. SUFFICES ASSUME NEW f \in [1..1 -> Int]
                PROVE  \E m \in 1..1 : \A i \in 1..1 : f[m] <= f[i]
    BY DEF HasLeast
  <2>1. 1 \in 1..1 /\ \A i \in 1..1 : i = 1
    OBVIOUS
  <2>2. f[1] <= f[1]
    BY <2>1
  <2>. QED
    BY <2>1, <2>2
<1>2. ASSUME T # {} PROVE FALSE
  <2>1. PICK n \in T : \A k \in T : n <= k
    BY <1>2, LeastNat
  <2>2. n \in Nat \ {0} /\ ~HasLeast(n)
    OBVIOUS
  <2>. DEFINE k == n - 1
  <2>3. n # 1
    BY <1>1, <2>2
  <2>4. k \in Nat \ {0} /\ n = k + 1 /\ ~(n <= k)
    BY <2>2, <2>3
  <2>. HIDE DEF k
  <2>5. HasLeast(k)
    BY <2>1, <2>4
  <2>. QED
    BY <2>2, <2>4, <2>5, LeastOfOneMore
<1>. QED
  BY <1>2

\* And a greatest.
LEMMA GreatestOfMany ==
    ASSUME NEW n \in Nat \ {0}, NEW f \in [1..n -> Int]
    PROVE  \E m \in 1..n : \A i \in 1..n : f[i] <= f[m]
<1>1. PICK g : g = [i \in 1..n |-> -f[i]]
  OBVIOUS
<1>2. g \in [1..n -> Int] /\ \A i \in 1..n : g[i] = -f[i] /\ f[i] \in Int
  BY <1>1
<1>3. PICK m \in 1..n : \A i \in 1..n : g[m] <= g[i]
  BY <1>2, LeastOfMany DEF HasLeast
<1>4. \A i \in 1..n : f[i] <= f[m]
  BY <1>2, <1>3
<1>. QED
  BY <1>4

-----------------------------------------------------------------------------
(***************************************************************************)
(* Reading markup                                                          *)
(***************************************************************************)

\* Of some places of a row there is a first, a second, and so on up to the last.
LEMMA NthIsPlace ==
    ASSUME NEW n \in Nat, NEW S \in SUBSET (1..n), NEW k \in 1..Cardinality(S)
    PROVE  Nth(S, k) \in S
<1>1. IsFiniteSet(S) /\ Cardinality(S) \in Nat
  <2>1. IsFiniteSet(1..n)
    BY FS_Interval
  <2>. QED
    BY <2>1, FS_Subset, FS_CardinalityType
<1>2. k \in Nat \ {0} /\ k <= Cardinality(S)
  BY <1>1
<1>3. \A j \in S : j \in Nat /\ 1 <= j /\ j <= n
  OBVIOUS
<1>. DEFINE UpTo(i) == {j \in S : j <= i}
<1>4. \A i : /\ UpTo(i) \subseteq S
              /\ \A j \in S : j \in UpTo(i) <=> j <= i
  OBVIOUS
<1>5. \A i : Nth(S, k) \in S \/ ~(i \in S /\ Cardinality(UpTo(i)) = k)
  BY DEF Nth
<1>. HIDE DEF UpTo
<1>6. \A i : IsFiniteSet(UpTo(i)) /\ Cardinality(UpTo(i)) \in Nat
  BY <1>1, <1>4, FS_Subset, FS_CardinalityType
<1>7. UpTo(n) = S /\ UpTo(0) = {}
  <2>1. \A j \in S : j <= n /\ ~(j <= 0)
    BY <1>3
  <2>. QED
    BY <1>4, <2>1
<1>. DEFINE T == {i \in Nat : k <= Cardinality(UpTo(i))}
<1>8. n \in T
  BY <1>2, <1>7
<1>9. PICK m \in T : \A i \in T : m <= i
  BY <1>8, LeastNat
<1>10. m \in Nat /\ k <= Cardinality(UpTo(m)) /\ \A i \in Nat : k <= Cardinality(UpTo(i)) => m <= i
  BY <1>9
<1>. HIDE DEF T
<1>11. m # 0
  BY <1>2, <1>7, <1>10, FS_EmptySet
<1>12. PICK l \in Nat : m = l + 1
  <2>1. m - 1 \in Nat /\ m = (m - 1) + 1
    BY <1>10, <1>11
  <2>. QED
    BY <2>1
<1>13. ~(k <= Cardinality(UpTo(l)))
  BY <1>10, <1>12
<1>14. \A j \in S : j <= m <=> (j <= l \/ j = m)
  BY <1>3, <1>12
<1>15. m \in S
  <2>1. ASSUME m \notin S PROVE FALSE
    <3>1. UpTo(m) = UpTo(l)
      BY <1>4, <1>14, <2>1
    <3>. QED
      BY <1>10, <1>13, <3>1
  <2>. QED
    BY <2>1
<1>16. Cardinality(UpTo(m)) = Cardinality(UpTo(l)) + 1
  <2>1. UpTo(m) = UpTo(l) \cup {m}
    BY <1>4, <1>14, <1>15
  <2>2. m \notin UpTo(l)
    BY <1>4, <1>12, <1>15
  <2>. QED
    BY <1>6, <2>1, <2>2, FS_AddElement
<1>17. Cardinality(UpTo(m)) = k
  BY <1>2, <1>6, <1>10, <1>13, <1>16
<1>. QED
  BY <1>5, <1>15, <1>17

\* Of all places the k-th is k.
LEMMA NthOfAll ==
    ASSUME NEW n \in Nat, NEW k \in 1..n
    PROVE  Nth(1..n, k) = k
<1>1. \A i \in 1..n : Cardinality({j \in 1..n : j <= i}) = i
  <2>. SUFFICES ASSUME NEW i \in 1..n
                PROVE  Cardinality({j \in 1..n : j <= i}) = i
    OBVIOUS
  <2>1. {j \in 1..n : j <= i} = 1..i
    OBVIOUS
  <2>2. Cardinality(1..i) = i
    BY FS_Interval
  <2>. QED
    BY <2>1, <2>2
<1>. QED
  BY <1>1 DEF Nth

\* What is drawn has a shape's fields.
LEMMA ElementIs ==
    ASSUME NEW e \in Elements, Drawable(e)
    PROVE  /\ e.kind \in {"rect", "ellipse", "line"} /\ e.a \in Int /\ e.b \in Int
           /\ e.fill \in Colours \cup {"none"} /\ e.stroke \in Colours
           /\ e.kind = "rect" => e.rx \in Int /\ e.rx # NoRx
<1>1. e \notin [kind: {"path", "g", "text", "script"}]
  BY DEF Drawable
<1>2. CASE e \in [kind: {"rect"}, a: Int, b: Int, fill: Colours \cup {"none"}, stroke: Colours,
                  rx: Int \ {NoRx}]
  BY <1>2
<1>3. CASE e \in [kind: {"ellipse", "line"}, a: Int, b: Int, fill: Colours \cup {"none"},
                  stroke: Colours, rx: Int]
  BY <1>3
<1>. QED
  BY <1>1, <1>2, <1>3 DEF Elements

\* Read, it is a shape.
LEMMA ShapeReadTyped ==
    ASSUME NEW e \in Elements, Drawable(e), NEW id \in Nat
    PROVE  ShapeRead(e, id) \in DrawnShape /\ ShapeRead(e, id).id = id
<1>1. /\ e.kind \in {"rect", "ellipse", "line"} /\ e.a \in Int /\ e.b \in Int
      /\ e.fill \in Colours \cup {"none"} /\ e.stroke \in Colours
      /\ e.kind = "rect" => e.rx \in Int /\ e.rx # NoRx
  BY ElementIs
<1>2. RadiusRead(e.b) \in Int /\ FieldRead(e.b) \in Int
  BY <1>1 DEF RadiusRead, FieldRead, Px
<1>3. PICK a, b, fill, rx :
        /\ a = IF e.kind = "ellipse" THEN e.a - RadiusRead(e.b) ELSE e.a
        /\ b = IF e.kind = "ellipse" THEN 2 * RadiusRead(e.b) ELSE FieldRead(e.b)
        /\ fill = IF e.kind = "line" THEN "none" ELSE e.fill
        /\ rx = IF e.kind = "rect" THEN e.rx ELSE NoRx
  OBVIOUS
<1>4. a \in Int /\ b \in Int /\ fill \in Colours \cup {"none"} /\ rx \in Int
  BY <1>1, <1>2, <1>3 DEF NoRx
<1>5. PICK s : s = [id |-> id, kind |-> e.kind, a |-> a, b |-> b, fill |-> fill,
                    stroke |-> e.stroke, rx |-> rx]
  OBVIOUS
<1>6. s \in Shape
  BY <1>1, <1>4, <1>5 DEF Shape
<1>7. s \in DrawnShape /\ s.id = id
  BY <1>1, <1>3, <1>5, <1>6 DEF DrawnShape
<1>8. ShapeRead(e, id) = s
  BY <1>3, <1>5 DEF ShapeRead
<1>. QED
  BY <1>7, <1>8

\* A row of so many things of a set is a sequence of them.
LEMMA RowIsSeq ==
    ASSUME NEW S, NEW n \in Nat, NEW s, s = [k \in 1..n |-> s[k]], \A k \in 1..n : s[k] \in S
    PROVE  s \in Seq(S) /\ Len(s) = n /\ DOMAIN s = 1..n
OBVIOUS

\* Markup is read as a row of shapes, numbered from one on.
LEMMA ShapesRead ==
    ASSUME NEW m \in Seq(Elements)
    PROVE  /\ markupToShapes(m) \in Seq(DrawnShape)
           /\ Keyed(markupToShapes(m), Len(markupToShapes(m)) + 1)
<1>. DEFINE drawn == {i \in DOMAIN m : Drawable(m[i])}
            s == markupToShapes(m)
<1>1. Len(m) \in Nat /\ DOMAIN m = 1..Len(m) /\ drawn \in SUBSET (1..Len(m))
  OBVIOUS
<1>2. Cardinality(drawn) \in Nat
  <2>1. IsFiniteSet(1..Len(m))
    BY <1>1, FS_Interval
  <2>. QED
    BY <1>1, <2>1, FS_Subset, FS_CardinalityType
<1>3. s = [k \in 1..Cardinality(drawn) |-> ShapeRead(m[Nth(drawn, k)], k)]
  BY DEF markupToShapes
<1>4. \A k \in 1..Cardinality(drawn) : Nth(drawn, k) \in drawn
  BY <1>1, NthIsPlace
<1>5. \A i \in drawn : m[i] \in Elements /\ Drawable(m[i])
  BY <1>1
<1>. HIDE DEF drawn, s
<1>6. \A k \in 1..Cardinality(drawn) : /\ s[k] = ShapeRead(m[Nth(drawn, k)], k)
                                       /\ k \in Nat
  BY <1>2, <1>3
<1>7. \A k \in 1..Cardinality(drawn) : s[k] \in DrawnShape /\ s[k].id = k
  BY <1>4, <1>5, <1>6, ShapeReadTyped
<1>8. s = [k \in 1..Cardinality(drawn) |-> s[k]]
  BY <1>3
<1>9. s \in Seq(DrawnShape) /\ Len(s) = Cardinality(drawn) /\ DOMAIN s = 1..Cardinality(drawn)
  BY <1>2, <1>7, <1>8, RowIsSeq
<1>10. Keyed(s, Len(s) + 1)
  <2>1. \A k \in 1..Cardinality(drawn) : k < Cardinality(drawn) + 1
    BY <1>2
  <2>. QED
    BY <1>7, <1>9, <2>1 DEF Keyed
<1>. QED
  BY <1>9, <1>10 DEF s

-----------------------------------------------------------------------------
(***************************************************************************)
(* Shapes: their box, their markup, and rows of them                       *)
(***************************************************************************)

\* The fields of a shape, and its two ends.
LEMMA ShapeIs ==
    ASSUME NEW s \in DrawnShape
    PROVE  /\ s.id \in Nat /\ s.kind \in {"rect", "ellipse", "line"} /\ s.a \in Int /\ s.b \in Int
           /\ s.fill \in Colours \cup {"none"} /\ s.stroke \in Colours /\ s.rx \in Int
           /\ s.kind = "line" => s.fill = "none"
           /\ s.kind = "rect" => s.rx # NoRx
           /\ LeftOf(s) \in Int /\ RightOf(s) \in Int
<1>1. /\ s.id \in Nat /\ s.kind \in {"rect", "ellipse", "line"} /\ s.a \in Int /\ s.b \in Int
      /\ s.fill \in Colours \cup {"none"} /\ s.stroke \in Colours /\ s.rx \in Int
      /\ s.kind = "line" => s.fill = "none"
      /\ s.kind = "rect" => s.rx # NoRx
  BY DEF DrawnShape, Shape
<1>2. LeftOf(s) \in Int /\ RightOf(s) \in Int
  BY <1>1 DEF LeftOf, RightOf, Smaller, Larger
<1>. QED
  BY <1>1, <1>2

\* The view around shapes begins beside the leftmost one and ends beside the
\* rightmost.
LEMMA BoundsAre ==
    ASSUME NEW s \in Seq(DrawnShape), s # << >>
    PROVE  \E l, r \in DOMAIN s :
              /\ boundsFromShapes(s) = [x |-> LeftOf(s[l]) - 400,
                                        w |-> RightOf(s[r]) - LeftOf(s[l]) + 2 * 400]
              /\ \A i \in DOMAIN s : LeftOf(s[l]) <= LeftOf(s[i]) /\ RightOf(s[i]) <= RightOf(s[r])
<1>1. Len(s) \in Nat \ {0} /\ DOMAIN s = 1..Len(s) /\ \A i \in 1..Len(s) : s[i] \in DrawnShape
  OBVIOUS
<1>2. PICK n \in Nat \ {0} : n = Len(s)
  BY <1>1
<1>3. PICK f, g : f = [i \in 1..n |-> LeftOf(s[i])] /\ g = [i \in 1..n |-> RightOf(s[i])]
  OBVIOUS
<1>4. \A i \in 1..n : LeftOf(s[i]) \in Int /\ RightOf(s[i]) \in Int
  BY <1>1, <1>2, ShapeIs
<1>5. f \in [1..n -> Int] /\ g \in [1..n -> Int]
  BY <1>3, <1>4
<1>6. PICK l \in 1..n : \A i \in 1..n : f[l] <= f[i]
  BY <1>5, LeastOfMany DEF HasLeast
<1>7. PICK r \in 1..n : \A i \in 1..n : g[i] <= g[r]
  BY <1>5, GreatestOfMany
<1>8. /\ \A i \in DOMAIN s : LeftOf(s[l]) <= LeftOf(s[i]) /\ RightOf(s[i]) <= RightOf(s[r])
      /\ LeftOf(s[l]) \in {LeftOf(s[i]) : i \in DOMAIN s}
      /\ RightOf(s[r]) \in {RightOf(s[i]) : i \in DOMAIN s}
  BY <1>1, <1>2, <1>3, <1>6, <1>7
<1>9. PICK left, right :
        /\ left = CHOOSE x \in {LeftOf(s[i]) : i \in DOMAIN s} : \A i \in DOMAIN s : x <= LeftOf(s[i])
        /\ right = CHOOSE x \in {RightOf(s[i]) : i \in DOMAIN s} : \A i \in DOMAIN s : x >= RightOf(s[i])
  OBVIOUS
<1>10. left \in {LeftOf(s[i]) : i \in DOMAIN s} /\ \A i \in DOMAIN s : left <= LeftOf(s[i])
  BY <1>8, <1>9
<1>11. \A i \in DOMAIN s : RightOf(s[r]) >= RightOf(s[i])
  BY <1>1, <1>2, <1>4, <1>8
<1>12. right \in {RightOf(s[i]) : i \in DOMAIN s} /\ \A i \in DOMAIN s : right >= RightOf(s[i])
  BY <1>8, <1>9, <1>11
<1>13. left = LeftOf(s[l]) /\ right = RightOf(s[r])
  <2>1. PICK j \in 1..n, k \in 1..n : left = LeftOf(s[j]) /\ right = RightOf(s[k])
    BY <1>1, <1>2, <1>10, <1>12
  <2>2. left <= LeftOf(s[l]) /\ right >= RightOf(s[r])
    BY <1>1, <1>2, <1>10, <1>12
  <2>3. LeftOf(s[l]) <= left /\ right <= RightOf(s[r])
    BY <1>1, <1>2, <1>8, <2>1
  <2>4. left \in Int /\ right \in Int /\ LeftOf(s[l]) \in Int /\ RightOf(s[r]) \in Int
    BY <1>4, <2>1
  <2>. QED
    BY <2>2, <2>3, <2>4
<1>14. boundsFromShapes(s) = [x |-> left - 400, w |-> right - left + 2 * 400]
  BY <1>9 DEF boundsFromShapes, Pad, Px
<1>15. l \in DOMAIN s /\ r \in DOMAIN s
  BY <1>1, <1>2
<1>. QED
  BY <1>8, <1>13, <1>14, <1>15

\* It holds them all.
LEMMA BoundsHold ==
    ASSUME NEW s \in Seq(DrawnShape)
    PROVE  /\ boundsFromShapes(s) \in Boxes
           /\ \A i \in DOMAIN s : /\ boundsFromShapes(s).x < LeftOf(s[i])
                                  /\ RightOf(s[i]) < boundsFromShapes(s).x + boundsFromShapes(s).w
<1>1. CASE s = << >>
  <2>1. boundsFromShapes(s) = NoBox
    BY <1>1 DEF boundsFromShapes
  <2>2. NoBox \in Boxes
    BY DEF NoBox, Boxes, Px
  <2>3. DOMAIN s = {}
    BY <1>1
  <2>. QED
    BY <2>1, <2>2, <2>3
<1>2. CASE s # << >>
  <2>1. PICK l \in DOMAIN s, r \in DOMAIN s :
          /\ boundsFromShapes(s) = [x |-> LeftOf(s[l]) - 400,
                                    w |-> RightOf(s[r]) - LeftOf(s[l]) + 2 * 400]
          /\ \A i \in DOMAIN s : LeftOf(s[l]) <= LeftOf(s[i]) /\ RightOf(s[i]) <= RightOf(s[r])
    BY <1>2, BoundsAre
  <2>2. \A i \in DOMAIN s : s[i] \in DrawnShape
    OBVIOUS
  <2>3. \A i \in DOMAIN s : LeftOf(s[i]) \in Int /\ RightOf(s[i]) \in Int
    BY <2>2, ShapeIs
  <2>4. PICK left \in Int, right \in Int : left = LeftOf(s[l]) /\ right = RightOf(s[r])
    BY <2>3
  <2>5. boundsFromShapes(s) = [x |-> left - 400, w |-> right - left + 2 * 400]
    BY <2>1, <2>4
  <2>6. [x |-> left - 400, w |-> right - left + 2 * 400] \in Boxes
    BY DEF Boxes
  <2>7. ASSUME NEW i \in DOMAIN s
        PROVE  left - 400 < LeftOf(s[i]) /\ RightOf(s[i]) < (left - 400) + (right - left + 2 * 400)
    <3>1. LeftOf(s[i]) \in Int /\ RightOf(s[i]) \in Int /\ left <= LeftOf(s[i]) /\ RightOf(s[i]) <= right
      BY <2>1, <2>3, <2>4
    <3>. QED
      BY <3>1
  <2>. QED
    BY <2>5, <2>6, <2>7
<1>. QED
  BY <1>1, <1>2

\* A number written to a tenth is one, and is off by less than one.
LEMMA Rounds ==
    ASSUME NEW n \in Int
    PROVE  /\ svgNum(n) \in Int /\ svgNum(n) % 10 = 0
           /\ svgNum(n) - n <= 5 /\ n - svgNum(n) <= 5
           /\ n % 10 = 0 => svgNum(n) = n
BY DEF svgNum, Tenth

\* So is half of it, and twice that is off by less than two.
LEMMA RoundsHalf ==
    ASSUME NEW n \in Int
    PROVE  /\ svgHalf(n) \in Int /\ svgHalf(n) % 10 = 0
           /\ 2 * svgHalf(n) - n <= 10 /\ n - 2 * svgHalf(n) <= 10
           /\ n % 20 = 0 => 2 * svgHalf(n) = n
BY DEF svgHalf, Tenth

\* Twice a tenth is halved as it is.
LEMMA HalfOfTwice ==
    ASSUME NEW n \in Int, n % 10 = 0
    PROVE  svgHalf(2 * n) = n
BY DEF svgHalf, Tenth

\* What follows the drawing is a box.
LEMMA SyncTyped ==
    ASSUME NEW e \in Editors, NEW s \in Seq(DrawnShape)
    PROVE  syncViewBoxFromShapes(e, s) \in Boxes
<1>1. e.box \in Boxes
  BY DEF Editors
<1>2. PICK b \in Boxes : b = boundsFromShapes(s)
  BY BoundsHold
<1>3. b.x \in Int /\ b.w \in Int
  BY DEF Boxes
<1>4. svgNum(b.x) \in Int
  BY <1>3, Rounds
<1>5. Px * ((b.w + 50) \div Px) \in Int
  BY <1>3 DEF Px
<1>6. [x |-> svgNum(b.x), w |-> Px * ((b.w + 50) \div Px)] \in Boxes
  BY <1>4, <1>5 DEF Boxes
<1>. QED
  BY <1>1, <1>2, <1>6 DEF syncViewBoxFromShapes

\* A shape is written as an element.
LEMMA WrittenTyped ==
    ASSUME NEW s \in DrawnShape
    PROVE  Written(s) \in Elements /\ Drawable(Written(s))
<1>1. /\ s.kind \in {"rect", "ellipse", "line"} /\ s.a \in Int /\ s.b \in Int
      /\ s.fill \in Colours \cup {"none"} /\ s.stroke \in Colours /\ s.rx \in Int
  BY ShapeIs
<1>2. /\ svgHalf(2 * s.a + s.b) \in Int /\ svgHalf(s.b) \in Int
      /\ svgNum(s.a) \in Int /\ svgNum(s.b) \in Int
  <2>1. 2 * s.a + s.b \in Int
    BY <1>1
  <2>. QED
    BY <1>1, <2>1, Rounds, RoundsHalf
<1>3. svgNum(s.rx) \in Int /\ svgNum(s.rx) # NoRx
  <2>1. svgNum(s.rx) \in Int /\ svgNum(s.rx) % 10 = 0
    BY <1>1, Rounds
  <2>. QED
    BY <2>1 DEF NoRx
<1>4. PICK a, b, rx : /\ a = IF s.kind = "ellipse" THEN svgHalf(2 * s.a + s.b) ELSE svgNum(s.a)
                      /\ b = IF s.kind = "ellipse" THEN svgHalf(s.b) ELSE svgNum(s.b)
                      /\ rx = IF s.kind = "rect" THEN svgNum(s.rx) ELSE NoRx
  OBVIOUS
<1>5. a \in Int /\ b \in Int /\ rx \in Int /\ (s.kind = "rect" => rx # NoRx)
  BY <1>2, <1>3, <1>4 DEF NoRx
<1>6. PICK e : e = [kind |-> s.kind, a |-> a, b |-> b, fill |-> s.fill, stroke |-> s.stroke,
                    rx |-> rx]
  OBVIOUS
<1>7. Written(s) = e /\ e.kind = s.kind
  BY <1>4, <1>6 DEF Written
<1>8. e \in Elements
  <2>1. CASE s.kind = "rect"
    <3>1. e \in [kind: {"rect"}, a: Int, b: Int, fill: Colours \cup {"none"}, stroke: Colours,
                 rx: Int \ {NoRx}]
      BY <1>1, <1>5, <1>6, <2>1
    <3>. QED
      BY <3>1 DEF Elements
  <2>2. CASE s.kind # "rect"
    <3>1. e \in [kind: {"ellipse", "line"}, a: Int, b: Int, fill: Colours \cup {"none"},
                 stroke: Colours, rx: Int]
      BY <1>1, <1>5, <1>6, <2>2
    <3>. QED
      BY <3>1 DEF Elements
  <2>. QED
    BY <2>1, <2>2
<1>. QED
  BY <1>1, <1>7, <1>8 DEF Drawable

\* Shapes are written as markup, each as its element.
LEMMA MarkupWritten ==
    ASSUME NEW s \in Seq(DrawnShape)
    PROVE  /\ shapesToMarkup(s) \in Seq(Elements) /\ Len(shapesToMarkup(s)) = Len(s)
           /\ DOMAIN shapesToMarkup(s) = 1..Len(s)
           /\ \A i \in 1..Len(s) : shapesToMarkup(s)[i] = Written(s[i])
<1>. DEFINE m == shapesToMarkup(s)
<1>1. Len(s) \in Nat /\ DOMAIN s = 1..Len(s) /\ \A i \in 1..Len(s) : s[i] \in DrawnShape
  OBVIOUS
<1>2. m = [i \in 1..Len(s) |-> Written(s[i])]
  BY <1>1 DEF shapesToMarkup
<1>. HIDE DEF m
<1>3. \A i \in 1..Len(s) : m[i] = Written(s[i]) /\ m[i] \in Elements
  BY <1>1, <1>2, WrittenTyped
<1>4. m = [i \in 1..Len(s) |-> m[i]]
  BY <1>2
<1>5. m \in Seq(Elements) /\ Len(m) = Len(s) /\ DOMAIN m = 1..Len(s)
  BY <1>1, <1>3, <1>4, RowIsSeq
<1>. QED
  BY <1>3, <1>5 DEF m

\* A row that takes each of its shapes from another place of a keyed one is keyed.
LEMMA KeyedRow ==
    ASSUME NEW s, NEW t, NEW next, Keyed(s, next),
           NEW g \in [DOMAIN t -> DOMAIN s], \A i, j \in DOMAIN t : g[i] = g[j] => i = j,
           \A i \in DOMAIN t : t[i] = s[g[i]]
    PROVE  Keyed(t, next)
BY DEF Keyed

\* One more shape with the next id.
LEMMA KeyedMore ==
    ASSUME NEW s \in Seq(DrawnShape), NEW next \in Nat, Keyed(s, next),
           NEW x \in DrawnShape, x.id = next
    PROVE  Append(s, x) \in Seq(DrawnShape) /\ Keyed(Append(s, x), next + 1)
<1>1. PICK n \in Nat : n = Len(s)
  OBVIOUS
<1>2. PICK t : t = Append(s, x)
  OBVIOUS
<1>3. /\ t \in Seq(DrawnShape) /\ DOMAIN t = 1..(n + 1) /\ t[n + 1] = x /\ DOMAIN s = 1..n
      /\ \A i \in 1..n : t[i] = s[i] /\ s[i] \in DrawnShape
  BY <1>1, <1>2
<1>4. \A i \in 1..(n + 1) : i \in 1..n \/ i = n + 1
  BY <1>1
<1>5. \A i \in 1..n : t[i].id \in Nat /\ t[i].id < next
  BY <1>3, ShapeIs DEF Keyed
<1>6. \A i, j \in 1..(n + 1) : i # j => t[i].id # t[j].id
  <2>. SUFFICES ASSUME NEW i \in 1..(n + 1), NEW j \in 1..(n + 1), i # j
                PROVE  t[i].id # t[j].id
    OBVIOUS
  <2>1. CASE i \in 1..n /\ j \in 1..n
    BY <1>3, <2>1 DEF Keyed
  <2>2. CASE i = n + 1 /\ j \in 1..n
    BY <1>3, <1>5, <2>2
  <2>3. CASE j = n + 1 /\ i \in 1..n
    BY <1>3, <1>5, <2>3
  <2>. QED
    BY <1>4, <2>1, <2>2, <2>3
<1>7. \A i \in 1..(n + 1) : t[i].id < next + 1
  BY <1>3, <1>4, <1>5
<1>. QED
  BY <1>2, <1>3, <1>6, <1>7 DEF Keyed

\* A row without one of its shapes.
LEMMA WithoutIs ==
    ASSUME NEW S, NEW s \in Seq(S), NEW i \in 1..Len(s)
    PROVE  /\ Without(s, i) \in Seq(S) /\ Len(Without(s, i)) = Len(s) - 1
           /\ \A j \in 1..(Len(s) - 1) : Without(s, i)[j] = IF j < i THEN s[j] ELSE s[j + 1]
<1>1. PICK n \in Nat : n = Len(s)
  OBVIOUS
<1>2. PICK u, v : u = SubSeq(s, 1, i - 1) /\ v = SubSeq(s, i + 1, n)
  OBVIOUS
<1>3. i \in 1..n /\ \A j \in 1..n : s[j] \in S
  BY <1>1
<1>4. u \in Seq(S) /\ Len(u) = i - 1 /\ \A j \in 1..(i - 1) : u[j] = s[j]
  <2>1. \A j \in 1..(i - 1) : j \in 1..n
    BY <1>3
  <2>. QED
    BY <1>1, <1>2, <1>3, <2>1
<1>5. v \in Seq(S) /\ Len(v) = n - i /\ \A j \in 1..(n - i) : v[j] = s[i + j]
  <2>1. \A j \in (i + 1)..n : j \in 1..n
    BY <1>3
  <2>. QED
    BY <1>1, <1>2, <1>3, <2>1
<1>6. PICK w : w = u \o v
  OBVIOUS
<1>7. /\ w \in Seq(S) /\ Len(w) = n - 1
      /\ \A j \in 1..(n - 1) : w[j] = IF j <= i - 1 THEN u[j] ELSE v[j - (i - 1)]
  <2>1. w \in Seq(S) /\ Len(w) = Len(u) + Len(v)
    <3>1. \A a, b \in Seq(S) : a \o b \in Seq(S) /\ Len(a \o b) = Len(a) + Len(b)
      OBVIOUS
    <3>2. u \in Seq(S) /\ v \in Seq(S)
      BY <1>4, <1>5
    <3>. QED
      BY <1>6, <3>1, <3>2
  <2>2. Len(u) + Len(v) = n - 1 /\ Len(u) \in Nat /\ Len(v) \in Nat
    BY <1>3, <1>4, <1>5
  <2>3. \A j \in 1..(Len(u) + Len(v)) : w[j] = IF j <= Len(u) THEN u[j] ELSE v[j - Len(u)]
    <3>. SUFFICES ASSUME NEW a \in Seq(S), NEW b \in Seq(S), NEW j \in 1..(Len(a) + Len(b))
                  PROVE  (a \o b)[j] = IF j <= Len(a) THEN a[j] ELSE b[j - Len(a)]
      BY <1>4, <1>5, <1>6
    <3>. QED
      OBVIOUS
  <2>. QED
    BY <1>4, <2>1, <2>2, <2>3
<1>8. ASSUME NEW j \in 1..(n - 1)
      PROVE  w[j] = IF j < i THEN s[j] ELSE s[j + 1]
  <2>1. CASE j < i
    BY <1>3, <1>4, <1>7, <2>1
  <2>2. CASE ~(j < i)
    <3>1. j - (i - 1) \in 1..(n - i) /\ i + (j - (i - 1)) = j + 1 /\ ~(j <= i - 1)
      BY <1>3, <2>2
    <3>. QED
      BY <1>5, <1>7, <2>2, <3>1
  <2>. QED
    BY <2>1, <2>2
<1>9. Without(s, i) = w
  BY <1>1, <1>2, <1>6 DEF Without
<1>. QED
  BY <1>1, <1>7, <1>8, <1>9

-----------------------------------------------------------------------------
(***************************************************************************)
(* The editor: opening, modes and tools                                    *)
(***************************************************************************)

\* The fields of an editor in order.
LEMMA EditorIs ==
    ASSUME NEW e, EditorOK(e)
    PROVE  /\ e \in Editors
           /\ e.mode \in {"draw", "code"}
           /\ e.tool \in {"select", "rect", "roundrect", "ellipse", "line"}
           /\ e.shapes \in Seq(DrawnShape) /\ Len(e.shapes) \in Nat
           /\ DOMAIN e.shapes = 1..Len(e.shapes)
           /\ \A i \in 1..Len(e.shapes) : e.shapes[i] \in DrawnShape
           /\ e.next \in Nat /\ e.picked \in 0..Len(e.shapes) /\ e.picked \in Nat
           /\ e.drag \in Drags /\ e.style \in Styles
           /\ e.code \in Seq(Elements) /\ e.box \in Boxes /\ e.sized \in BOOLEAN
           /\ Keyed(e.shapes, e.next)
           /\ e.picked # 0 => /\ e.picked \in 1..Len(e.shapes)
                              /\ Matches(e.style, e.shapes[e.picked])
<1>1. e \in Editors /\ e.picked \in 0..Len(e.shapes)
  BY DEF EditorOK
<1>2. /\ e.mode \in {"draw", "code"}
      /\ e.tool \in {"select", "rect", "roundrect", "ellipse", "line"}
      /\ e.shapes \in Seq(DrawnShape)
      /\ e.next \in Nat /\ e.picked \in Nat /\ e.drag \in Drags /\ e.style \in Styles
      /\ e.code \in Seq(Elements) /\ e.box \in Boxes /\ e.sized \in BOOLEAN
  BY <1>1 DEF Editors
<1>3. PICK s : s = e.shapes
  OBVIOUS
<1>4. s \in Seq(DrawnShape) => /\ Len(s) \in Nat /\ DOMAIN s = 1..Len(s)
                               /\ \A i \in 1..Len(s) : s[i] \in DrawnShape
  OBVIOUS
<1>5. Len(e.shapes) \in Nat /\ DOMAIN e.shapes = 1..Len(e.shapes)
      /\ \A i \in 1..Len(e.shapes) : e.shapes[i] \in DrawnShape
  BY <1>2, <1>3, <1>4
<1>6. e.picked # 0 => e.picked \in 1..Len(e.shapes)
  BY <1>1, <1>5
<1>. QED
  BY <1>1, <1>2, <1>5, <1>6 DEF EditorOK

\* What nothing is picked of needs only its ids.
LEMMA UnpickedOK ==
    ASSUME NEW e \in Editors, e.picked = 0, Keyed(e.shapes, e.next)
    PROVE  EditorOK(e)
<1>1. e.shapes \in Seq(DrawnShape)
  BY DEF Editors
<1>2. e.picked \in 0..Len(e.shapes)
  BY <1>1
<1>. QED
  BY <1>2 DEF EditorOK

\* A form is mounted on any markup and box.
LEMMA OpenedOK ==
    ASSUME NEW m \in Seq(Elements), NEW box \in Boxes
    PROVE  EditorOK(Opened(m, box)) /\ Opened(m, box).picked = 0
<1>1. PICK c, s, n, d : /\ c = CHOOSE x \in Colours : TRUE
                        /\ s = markupToShapes(m) /\ n = Len(s) + 1 /\ d = NoDrag
  OBVIOUS
<1>2. c \in Colours
  BY <1>1, ComponentAssumption
<1>3. s \in Seq(DrawnShape) /\ Keyed(s, n) /\ n \in Nat
  <2>1. s \in Seq(DrawnShape) /\ Keyed(s, n)
    BY <1>1, ShapesRead
  <2>2. Len(s) \in Nat
    BY <2>1
  <2>. QED
    BY <1>1, <2>1, <2>2
<1>4. PICK style : style = [fill |-> c, stroke |-> c, rx |-> 200]
  OBVIOUS
<1>5. style \in Styles
  BY <1>2, <1>4 DEF Styles, NoRx
<1>6. d \in Drags
  BY <1>1 DEF Drags
<1>7. PICK e : e = [mode |-> "draw", tool |-> "select", shapes |-> s, next |-> n, picked |-> 0,
                    drag |-> d, style |-> style, code |-> m, box |-> box, sized |-> FALSE]
  OBVIOUS
<1>8. e \in Editors
  BY <1>3, <1>5, <1>6, <1>7 DEF Editors
<1>9. e.picked = 0 /\ e.shapes = s /\ e.next = n
  BY <1>7
<1>10. Opened(m, box) = e
  <2>1. 2 * Px = 200
    BY DEF Px
  <2>. QED
    BY <1>1, <1>4, <1>7, <2>1 DEF Opened
<1>. QED
  BY <1>3, <1>8, <1>9, <1>10, UnpickedOK

\* Choosing a tool drops what is picked.
LEMMA SelectToolOK ==
    ASSUME NEW e, EditorOK(e), NEW t \in {"select", "rect", "roundrect", "ellipse", "line"}
    PROVE  /\ EditorOK(selectTool(e, t)) /\ selectTool(e, t).picked = 0
           /\ selectTool(e, t).style = e.style
<1>1. PICK f : f = [e EXCEPT !.tool = t, !.picked = 0]
  OBVIOUS
<1>2. e \in Editors /\ Keyed(e.shapes, e.next)
  BY EditorIs
<1>3. f \in Editors
  BY <1>1, <1>2 DEF Editors
<1>4. f.picked = 0 /\ f.shapes = e.shapes /\ f.next = e.next /\ f.style = e.style
  BY <1>1, <1>2 DEF Editors
<1>5. selectTool(e, t) = f
  BY <1>1 DEF selectTool
<1>. QED
  BY <1>2, <1>3, <1>4, <1>5, UnpickedOK

\* From code to drawing the ids start anew.
LEMMA DrawnOK ==
    ASSUME NEW e, EditorOK(e)
    PROVE  EditorOK(Drawn(e)) /\ Drawn(e).picked = 0 /\ Drawn(e).style = e.style
<1>1. e \in Editors /\ Keyed(e.shapes, e.next) /\ e.code \in Seq(Elements)
  BY EditorIs
<1>2. PICK s, n, box : s = markupToShapes(e.code) /\ n = Len(s) + 1
                       /\ box = syncViewBoxFromShapes(e, s)
  OBVIOUS
<1>3. s \in Seq(DrawnShape) /\ Keyed(s, n)
  BY <1>1, <1>2, ShapesRead
<1>4. n \in Nat
  <2>1. Len(s) \in Nat
    BY <1>3
  <2>. QED
    BY <1>2, <2>1
<1>5. box \in Boxes
  BY <1>1, <1>2, <1>3, SyncTyped
<1>6. PICK f, g : /\ f = [e EXCEPT !.mode = "draw", !.picked = 0]
                  /\ g = [e EXCEPT !.mode = "draw", !.picked = 0, !.shapes = s, !.next = n,
                                   !.box = box]
  OBVIOUS
<1>7. f \in Editors /\ f.picked = 0 /\ f.shapes = e.shapes /\ f.next = e.next /\ f.style = e.style
  BY <1>1, <1>6 DEF Editors
<1>8. g \in Editors
  BY <1>1, <1>3, <1>4, <1>5, <1>6 DEF Editors
<1>9. g.picked = 0 /\ g.shapes = s /\ g.next = n /\ g.style = e.style
  BY <1>1, <1>6 DEF Editors
<1>10. Drawn(e) = IF s = << >> THEN f ELSE g
  BY <1>2, <1>6 DEF Drawn
<1>11. EditorOK(f) /\ EditorOK(g)
  BY <1>1, <1>3, <1>7, <1>8, <1>9, UnpickedOK
<1>. QED
  BY <1>7, <1>9, <1>10, <1>11

\* From drawing to code the picked shape stays picked behind it.
LEMMA SwitchModeOK ==
    ASSUME NEW e, EditorOK(e)
    PROVE  EditorOK(switchMode(e)) /\ switchMode(e).style = e.style
<1>1. e \in Editors /\ e.shapes \in Seq(DrawnShape)
  BY EditorIs
<1>2. PICK c, f : c = shapesToMarkup(e.shapes) /\ f = [e EXCEPT !.mode = "code", !.code = c]
  OBVIOUS
<1>3. c \in Seq(Elements)
  BY <1>1, <1>2, MarkupWritten
<1>4. f \in Editors
  BY <1>1, <1>2, <1>3 DEF Editors
<1>5. f.picked = e.picked /\ f.shapes = e.shapes /\ f.next = e.next /\ f.style = e.style
  BY <1>1, <1>2 DEF Editors
<1>6. EditorOK(f)
  BY <1>4, <1>5 DEF EditorOK
<1>7. switchMode(e) = IF e.mode = "draw" THEN f ELSE Drawn(e)
  BY <1>2 DEF switchMode
<1>. QED
  BY <1>5, <1>6, <1>7, DrawnOK

-----------------------------------------------------------------------------
(***************************************************************************)
(* The editor: changing the picked shape                                   *)
(***************************************************************************)

\* A shape takes the place of one with its id.
LEMMA RowReshaped ==
    ASSUME NEW s \in Seq(DrawnShape), NEW next, Keyed(s, next), NEW i \in 1..Len(s),
           NEW x \in DrawnShape, x.id = s[i].id
    PROVE  /\ [s EXCEPT ![i] = x] \in Seq(DrawnShape) /\ Len([s EXCEPT ![i] = x]) = Len(s)
           /\ Keyed([s EXCEPT ![i] = x], next) /\ [s EXCEPT ![i] = x][i] = x
<1>1. PICK t : t = [s EXCEPT ![i] = x]
  OBVIOUS
<1>2. t \in Seq(DrawnShape) /\ Len(t) = Len(s)
  BY <1>1
<1>3. DOMAIN s = 1..Len(s) /\ DOMAIN t = 1..Len(s) /\ t[i] = x
      /\ \A j \in 1..Len(s) : j # i => t[j] = s[j]
  BY <1>1
<1>4. \A j \in 1..Len(s) : t[j].id = s[j].id
  BY <1>3
<1>5. Keyed(t, next)
  BY <1>3, <1>4 DEF Keyed
<1>. QED
  BY <1>1, <1>2, <1>3, <1>5

\* What is picked is reshaped, and the toolbar shows the style it has then.
LEMMA ReshapeOK ==
    ASSUME NEW e, EditorOK(e), e.picked # 0,
           NEW x \in DrawnShape, x.id = e.shapes[e.picked].id
    PROVE  /\ Matches(e.style, x) => EditorOK(Reshape(e, x))
           /\ \A style \in Styles : Matches(style, x) => EditorOK([Reshape(e, x) EXCEPT !.style = style])
           /\ Reshape(e, x).picked = e.picked /\ Reshape(e, x).style = e.style
           /\ Reshape(e, x).shapes[e.picked] = x /\ Reshape(e, x) \in Editors
<1>1. /\ e \in Editors /\ e.shapes \in Seq(DrawnShape) /\ e.picked \in 1..Len(e.shapes)
      /\ Keyed(e.shapes, e.next) /\ e.picked \in 0..Len(e.shapes)
  BY EditorIs
<1>2. PICK t : t = [e.shapes EXCEPT ![e.picked] = x]
  OBVIOUS
<1>3. /\ t \in Seq(DrawnShape) /\ Len(t) = Len(e.shapes) /\ Keyed(t, e.next) /\ t[e.picked] = x
  BY <1>1, <1>2, RowReshaped
<1>4. PICK f : f = [e EXCEPT !.shapes = t]
  OBVIOUS
<1>5. f \in Editors
  BY <1>1, <1>3, <1>4 DEF Editors
<1>6. f.picked = e.picked /\ f.shapes = t /\ f.next = e.next /\ f.style = e.style
  BY <1>1, <1>4 DEF Editors
<1>7. Reshape(e, x) = f
  BY <1>2, <1>4 DEF Reshape
<1>8. Matches(e.style, x) => EditorOK(f)
  BY <1>1, <1>3, <1>5, <1>6 DEF EditorOK
<1>9. ASSUME NEW style \in Styles, Matches(style, x)
      PROVE  EditorOK([f EXCEPT !.style = style])
  <2>1. PICK g : g = [f EXCEPT !.style = style]
    OBVIOUS
  <2>2. g \in Editors
    BY <1>5, <2>1 DEF Editors
  <2>3. g.picked = e.picked /\ g.shapes = t /\ g.next = e.next /\ g.style = style
    BY <1>5, <1>6, <2>1 DEF Editors
  <2>4. EditorOK(g)
    BY <1>1, <1>3, <1>9, <2>2, <2>3 DEF EditorOK
  <2>. QED
    BY <2>1, <2>4
<1>. QED
  BY <1>3, <1>5, <1>6, <1>7, <1>8, <1>9

\* A shape with the look of another that the toolbar shows is shown as well.
LEMMA SameLook ==
    ASSUME NEW style, NEW s, NEW x, Matches(style, s),
           x.kind = s.kind, x.fill = s.fill, x.stroke = s.stroke, x.rx = s.rx
    PROVE  Matches(style, x)
BY DEF Matches

\* What a change leaves of a shape when it is dragged.
Keeps(x, s) ==
    /\ x \in DrawnShape /\ x.id = s.id /\ x.kind = s.kind
    /\ x.fill = s.fill /\ x.stroke = s.stroke /\ x.rx = s.rx

\* Dragging a handle or the shape changes where it is, not what it looks like.
LEMMA Placed ==
    ASSUME NEW s \in DrawnShape, NEW a \in Int, NEW b \in Int
    PROVE  /\ Keeps([s EXCEPT !.a = a], s) /\ Keeps([s EXCEPT !.b = b], s)
           /\ Keeps([s EXCEPT !.a = a, !.b = b], s)
<1>1. s \in Shape /\ (s.kind = "line" => s.fill = "none") /\ (s.kind = "rect" => s.rx # NoRx)
  BY DEF DrawnShape
<1>2. PICK x, y, z : /\ x = [s EXCEPT !.a = a] /\ y = [s EXCEPT !.b = b]
                     /\ z = [s EXCEPT !.a = a, !.b = b]
  OBVIOUS
<1>3. x \in Shape /\ y \in Shape /\ z \in Shape
  BY <1>1, <1>2 DEF Shape
<1>4. /\ x.id = s.id /\ x.kind = s.kind /\ x.fill = s.fill /\ x.stroke = s.stroke /\ x.rx = s.rx
      /\ y.id = s.id /\ y.kind = s.kind /\ y.fill = s.fill /\ y.stroke = s.stroke /\ y.rx = s.rx
      /\ z.id = s.id /\ z.kind = s.kind /\ z.fill = s.fill /\ z.stroke = s.stroke /\ z.rx = s.rx
  BY <1>1, <1>2 DEF Shape
<1>5. x \in DrawnShape /\ y \in DrawnShape /\ z \in DrawnShape
  BY <1>1, <1>3, <1>4 DEF DrawnShape
<1>. QED
  BY <1>2, <1>4, <1>5 DEF Keeps

\* A handle keeps the look.
LEMMA ResizedKeeps ==
    ASSUME NEW s \in DrawnShape, NEW handle, NEW p \in Int
    PROVE  Keeps(resized(s, handle, p), s)
<1>1. s.a \in Int /\ s.b \in Int
  BY ShapeIs
<1>2. PICK right \in Int : right = Larger(MinSize, p - s.a)
  BY <1>1 DEF Larger, MinSize, Px
<1>3. PICK x \in Int : x = Smaller(p, s.a + s.b - MinSize)
  BY <1>1 DEF Smaller, MinSize, Px
<1>4. PICK w \in Int : w = s.b + s.a - x
  BY <1>1
<1>5. [s EXCEPT !.a = x, !.b = @ + s.a - x] = [s EXCEPT !.a = x, !.b = w]
  BY <1>4
<1>6. \/ resized(s, handle, p) = [s EXCEPT !.a = p]
      \/ resized(s, handle, p) = [s EXCEPT !.b = p]
      \/ resized(s, handle, p) = [s EXCEPT !.b = right]
      \/ resized(s, handle, p) = [s EXCEPT !.a = x, !.b = w]
  BY <1>2, <1>3, <1>5 DEF resized
<1>7. PICK y : y = resized(s, handle, p)
  OBVIOUS
<1>8. \/ y = [s EXCEPT !.a = p]
      \/ y = [s EXCEPT !.b = p]
      \/ y = [s EXCEPT !.b = right]
      \/ y = [s EXCEPT !.a = x, !.b = w]
  BY <1>6, <1>7
<1>9. Keeps([s EXCEPT !.a = p], s) /\ Keeps([s EXCEPT !.b = p], s)
  BY Placed
<1>10. Keeps([s EXCEPT !.b = right], s) /\ Keeps([s EXCEPT !.a = x, !.b = w], s)
  BY Placed
<1>11. Keeps(y, s)
  BY <1>8, <1>9, <1>10
<1>. QED
  BY <1>7, <1>11

\* Moving keeps the look.
LEMMA MovedKeeps ==
    ASSUME NEW s \in DrawnShape, NEW p \in Int, NEW offset \in Int
    PROVE  Keeps(moved(s, p, offset), s)
<1>1. s.a \in Int /\ s.b \in Int
  BY ShapeIs
<1>2. PICK a \in Int, b \in Int : a = p - offset /\ b = s.b + p - offset - s.a
  <2>1. p - offset \in Int /\ s.b + p - offset - s.a \in Int
    BY <1>1
  <2>. QED
    BY <2>1
<1>3. [s EXCEPT !.a = p - offset, !.b = @ + p - offset - s.a] = [s EXCEPT !.a = a, !.b = b]
  BY <1>2
<1>4. \/ moved(s, p, offset) = [s EXCEPT !.a = a, !.b = b]
      \/ moved(s, p, offset) = [s EXCEPT !.a = a]
  BY <1>2, <1>3 DEF moved
<1>5. PICK y : y = moved(s, p, offset)
  OBVIOUS
<1>6. y = [s EXCEPT !.a = a, !.b = b] \/ y = [s EXCEPT !.a = a]
  BY <1>4, <1>5
<1>7. Keeps([s EXCEPT !.a = a], s) /\ Keeps([s EXCEPT !.a = a, !.b = b], s)
  BY Placed
<1>8. Keeps(y, s)
  BY <1>6, <1>7
<1>. QED
  BY <1>5, <1>8

\* The fields of a style.
LEMMA StyleIs ==
    ASSUME NEW style \in Styles
    PROVE  /\ style.fill \in Colours /\ style.stroke \in Colours
           /\ style.rx \in Int /\ style.rx # NoRx
BY DEF Styles

\* The toolbar shows what is picked.
LEMMA ToolbarShows ==
    ASSUME NEW style \in Styles, NEW s \in DrawnShape
    PROVE  /\ loadSelectedToToolbar(style, s) \in Styles
           /\ Matches(loadSelectedToToolbar(style, s), s)
<1>1. /\ s.fill \in Colours \cup {"none"} /\ s.stroke \in Colours /\ s.rx \in Int
      /\ s.kind = "rect" => s.rx # NoRx
  BY ShapeIs
<1>2. style.fill \in Colours /\ style.rx \in Int /\ style.rx # NoRx
  BY StyleIs
<1>3. PICK f, r : /\ f = IF s.fill = "none" THEN style.fill ELSE s.fill
                  /\ r = IF s.rx = NoRx THEN style.rx ELSE s.rx
  OBVIOUS
<1>4. f \in Colours /\ r \in Int /\ r # NoRx
  BY <1>1, <1>2, <1>3
<1>5. PICK t : t = [fill |-> f, stroke |-> s.stroke, rx |-> r]
  OBVIOUS
<1>6. t \in Styles
  BY <1>1, <1>4, <1>5 DEF Styles
<1>7. Matches(t, s)
  BY <1>1, <1>3, <1>5 DEF Matches
<1>8. loadSelectedToToolbar(style, s) = t
  BY <1>3, <1>5 DEF loadSelectedToToolbar
<1>. QED
  BY <1>6, <1>7, <1>8

\* What gets the style of the toolbar is shown by it, and keeps its id.
LEMMA AppliedShows ==
    ASSUME NEW style \in Styles, NEW s \in DrawnShape
    PROVE  LET x == applyToolbarToSelected(s, style) IN
           /\ x \in DrawnShape /\ x.id = s.id /\ Matches(style, x)
           /\ x.fill = (IF s.kind = "line" THEN s.fill ELSE style.fill)
           /\ x.stroke = style.stroke
           /\ x.rx = (IF s.kind = "rect" THEN style.rx ELSE s.rx)
<1>1. /\ s \in Shape /\ s.fill \in Colours \cup {"none"} /\ s.rx \in Int
      /\ s.kind = "line" => s.fill = "none"
  BY ShapeIs DEF DrawnShape
<1>2. style.fill \in Colours /\ style.stroke \in Colours /\ style.rx \in Int /\ style.rx # NoRx
  BY StyleIs
<1>3. PICK f, r : /\ f = IF s.kind = "line" THEN s.fill ELSE style.fill
                  /\ r = IF s.kind = "rect" THEN style.rx ELSE s.rx
  OBVIOUS
<1>4. f \in Colours \cup {"none"} /\ r \in Int
  BY <1>1, <1>2, <1>3
<1>5. PICK x : x = [s EXCEPT !.fill = f, !.stroke = style.stroke, !.rx = r]
  OBVIOUS
<1>6. x \in Shape
  BY <1>1, <1>2, <1>4, <1>5 DEF Shape
<1>7. x.id = s.id /\ x.kind = s.kind /\ x.fill = f /\ x.stroke = style.stroke /\ x.rx = r
  BY <1>1, <1>5 DEF Shape
<1>8. x \in DrawnShape
  BY <1>1, <1>2, <1>3, <1>6, <1>7 DEF DrawnShape
<1>9. Matches(style, x)
  BY <1>1, <1>3, <1>7 DEF Matches
<1>10. applyToolbarToSelected(s, style) = x
  BY <1>3, <1>5 DEF applyToolbarToSelected
<1>. QED
  BY <1>3, <1>7, <1>8, <1>9, <1>10

\* A new shape has the next id.
LEMMA CreatedIs ==
    ASSUME NEW e \in Editors, NEW p \in Int, e.drag \in [kind: {"draw"}, start: Int]
    PROVE  createShape(e, p) \in DrawnShape /\ createShape(e, p).id = e.next
<1>1. PICK from \in Int : from = e.drag.start
  OBVIOUS
<1>2. /\ e.next \in Nat /\ e.style.fill \in Colours /\ e.style.stroke \in Colours
      /\ e.style.rx \in Int /\ e.style.rx # NoRx
  <2>1. e.next \in Nat /\ e.style \in Styles
    BY DEF Editors
  <2>. QED
    BY <2>1, StyleIs
<1>3. PICK kind \in {"rect", "ellipse", "line"} :
           kind = IF e.tool \in {"line", "ellipse"} THEN e.tool ELSE "rect"
  OBVIOUS
<1>4. PICK w \in Nat : w = IF from < p THEN p - from ELSE from - p
  <2>1. (IF from < p THEN p - from ELSE from - p) \in Nat
    OBVIOUS
  <2>. QED
    BY <2>1
<1>5. PICK a, b, fill : /\ a = IF kind = "line" THEN from ELSE Smaller(from, p)
                        /\ b = IF kind = "line" THEN p ELSE w
                        /\ fill = IF kind = "line" THEN "none" ELSE e.style.fill
  OBVIOUS
<1>6. a \in Int /\ b \in Int /\ fill \in Colours \cup {"none"}
  BY <1>2, <1>4, <1>5 DEF Smaller
<1>7. PICK rx : rx = CASE kind = "line" -> NoRx
                       [] e.tool = "roundrect" -> Smaller(e.style.rx, w \div 2)
                       [] OTHER -> 0
  OBVIOUS
<1>8. PICK h \in Nat : h = w \div 2
  OBVIOUS
<1>9. Smaller(e.style.rx, h) \in Int /\ Smaller(e.style.rx, h) # NoRx
  BY <1>2 DEF Smaller, NoRx
<1>10. rx \in {NoRx, 0, Smaller(e.style.rx, h)} /\ (kind = "rect" => rx # NoRx)
  <2>1. kind = "rect" => e.tool \notin {"line"} /\ kind # "line"
    BY <1>3
  <2>2. CASE kind = "line"
    BY <1>3, <1>7, <2>2
  <2>3. CASE kind # "line" /\ e.tool = "roundrect"
    BY <1>7, <1>8, <1>9, <2>3
  <2>4. CASE kind # "line" /\ e.tool # "roundrect"
    <3>1. rx = 0 /\ 0 # NoRx
      BY <1>7, <2>4 DEF NoRx
    <3>. QED
      BY <3>1
  <2>. QED
    BY <2>2, <2>3, <2>4
<1>11. rx \in Int
  BY <1>9, <1>10 DEF NoRx
<1>12. PICK s : s = [id |-> e.next, kind |-> kind, a |-> a, b |-> b, fill |-> fill,
                     stroke |-> e.style.stroke, rx |-> rx]
  OBVIOUS
<1>13. s \in Shape
  BY <1>2, <1>6, <1>11, <1>12 DEF Shape
<1>14. s \in DrawnShape /\ s.id = e.next
  BY <1>5, <1>10, <1>12, <1>13 DEF DrawnShape
<1>15. createShape(e, p) = s
  BY <1>1, <1>3, <1>4, <1>5, <1>7, <1>12 DEF createShape
<1>. QED
  BY <1>14, <1>15

-----------------------------------------------------------------------------
(***************************************************************************)
(* Rows with a shape taken out, put last or put first                      *)
(***************************************************************************)

\* The ids that are left are still distinct.
LEMMA WithoutKeyed ==
    ASSUME NEW s \in Seq(DrawnShape), NEW next, Keyed(s, next), NEW i \in 1..Len(s)
    PROVE  Without(s, i) \in Seq(DrawnShape) /\ Keyed(Without(s, i), next)
<1>0. PICK n \in Nat : n = Len(s)
  OBVIOUS
<1>1. PICK t : n = Len(s) /\ t = Without(s, i)
  BY <1>0
<1>2. /\ t \in Seq(DrawnShape) /\ Len(t) = n - 1 /\ i \in 1..n
      /\ \A j \in 1..(n - 1) : t[j] = IF j < i THEN s[j] ELSE s[j + 1]
  BY <1>1, WithoutIs
<1>3. DOMAIN t = 1..(n - 1) /\ DOMAIN s = 1..n
  BY <1>1, <1>2
<1>4. PICK g : g = [j \in 1..(n - 1) |-> IF j < i THEN j ELSE j + 1]
  OBVIOUS
<1>5. g \in [1..(n - 1) -> 1..n] /\ \A j, k \in 1..(n - 1) : g[j] = g[k] => j = k
  BY <1>1, <1>2, <1>4
<1>6. \A j \in 1..(n - 1) : t[j] = s[g[j]]
  BY <1>1, <1>2, <1>4
<1>7. Keyed(t, next)
  BY <1>3, <1>5, <1>6, KeyedRow
<1>. QED
  BY <1>1, <1>2, <1>7

\* A shape put on top of the others.
LEMMA FrontKeyed ==
    ASSUME NEW s \in Seq(DrawnShape), NEW next, Keyed(s, next), NEW i \in 1..Len(s)
    PROVE  LET t == Append(Without(s, i), s[i]) IN
           t \in Seq(DrawnShape) /\ Len(t) = Len(s) /\ Keyed(t, next) /\ t[Len(s)] = s[i]
<1>a. PICK n \in Nat : n = Len(s)
  OBVIOUS
<1>b. PICK w, t : w = Without(s, i) /\ t = Append(w, s[i])
  OBVIOUS
<1>1. n = Len(s) /\ w = Without(s, i) /\ t = Append(w, s[i])
  BY <1>a, <1>b
<1>2. /\ w \in Seq(DrawnShape) /\ Len(w) = n - 1 /\ i \in 1..n
      /\ \A j \in 1..(n - 1) : w[j] = IF j < i THEN s[j] ELSE s[j + 1]
  BY <1>1, WithoutIs
<1>3. PICK x \in DrawnShape : x = s[i]
  OBVIOUS
<1>4. t = Append(w, x)
  BY <1>1, <1>3
<1>5. t \in Seq(DrawnShape) /\ Len(t) = Len(w) + 1
  BY <1>2, <1>4
<1>6. Len(t) = n /\ DOMAIN t = 1..n /\ DOMAIN s = 1..n
  BY <1>1, <1>2, <1>5
<1>7. t[n] = x /\ \A j \in 1..(n - 1) : t[j] = w[j]
  BY <1>2, <1>4
<1>8. PICK g : g = [j \in 1..n |-> IF j = n THEN i ELSE IF j < i THEN j ELSE j + 1]
  OBVIOUS
<1>9. g \in [1..n -> 1..n] /\ \A j, k \in 1..n : g[j] = g[k] => j = k
  BY <1>2, <1>8
<1>10. ASSUME NEW j \in 1..n
       PROVE  t[j] = s[g[j]]
  <2>1. CASE j = n
    BY <1>3, <1>7, <1>8, <2>1
  <2>2. CASE j # n
    <3>1. j \in 1..(n - 1)
      BY <2>2
    <3>. QED
      BY <1>2, <1>7, <1>8, <2>2, <3>1
  <2>. QED
    BY <2>1, <2>2
<1>11. Keyed(t, next)
  <2>1. g \in [DOMAIN t -> DOMAIN s] /\ \A j, k \in DOMAIN t : g[j] = g[k] => j = k
    BY <1>6, <1>9
  <2>2. \A j \in DOMAIN t : t[j] = s[g[j]]
    BY <1>6, <1>10
  <2>. QED
    BY <2>1, <2>2, KeyedRow
<1>. QED
  BY <1>1, <1>3, <1>5, <1>6, <1>7, <1>11

\* A shape put below the others.
LEMMA BackKeyed ==
    ASSUME NEW s \in Seq(DrawnShape), NEW next, Keyed(s, next), NEW i \in 1..Len(s)
    PROVE  LET t == <<s[i]>> \o Without(s, i) IN
           t \in Seq(DrawnShape) /\ Len(t) = Len(s) /\ Keyed(t, next) /\ t[1] = s[i]
<1>a. PICK n \in Nat : n = Len(s)
  OBVIOUS
<1>b. PICK w, t : w = Without(s, i) /\ t = <<s[i]>> \o w
  OBVIOUS
<1>1. n = Len(s) /\ w = Without(s, i) /\ t = <<s[i]>> \o w
  BY <1>a, <1>b
<1>2. /\ w \in Seq(DrawnShape) /\ Len(w) = n - 1 /\ i \in 1..n
      /\ \A j \in 1..(n - 1) : w[j] = IF j < i THEN s[j] ELSE s[j + 1]
  BY <1>1, WithoutIs
<1>3. PICK x \in DrawnShape : x = s[i]
  OBVIOUS
<1>4. t = <<x>> \o w
  BY <1>1, <1>3
<1>5. /\ t \in Seq(DrawnShape) /\ Len(t) = 1 + Len(w) /\ t[1] = x
      /\ \A j \in 2..(1 + Len(w)) : t[j] = w[j - 1]
  <2>1. \A v \in Seq(DrawnShape) :
           /\ <<x>> \o v \in Seq(DrawnShape) /\ Len(<<x>> \o v) = 1 + Len(v) /\ (<<x>> \o v)[1] = x
           /\ \A j \in 2..(1 + Len(v)) : (<<x>> \o v)[j] = v[j - 1]
    OBVIOUS
  <2>2. w \in Seq(DrawnShape)
    BY <1>2
  <2>. QED
    BY <1>4, <2>1, <2>2
<1>6. Len(t) = n /\ DOMAIN t = 1..n /\ DOMAIN s = 1..n
  BY <1>1, <1>2, <1>5
<1>7. \A j \in 2..n : t[j] = w[j - 1]
  BY <1>2, <1>5
<1>8. PICK g : g = [j \in 1..n |-> IF j = 1 THEN i ELSE IF j - 1 < i THEN j - 1 ELSE j]
  OBVIOUS
<1>9. g \in [1..n -> 1..n] /\ \A j, k \in 1..n : g[j] = g[k] => j = k
  BY <1>2, <1>8
<1>10. ASSUME NEW j \in 1..n
       PROVE  t[j] = s[g[j]]
  <2>1. CASE j = 1
    BY <1>3, <1>5, <1>8, <2>1
  <2>2. CASE j # 1
    <3>1. PICK k \in 1..(n - 1) : k = j - 1
      BY <2>2
    <3>2. j \in 2..n /\ k + 1 = j
      BY <2>2, <3>1
    <3>3. t[j] = w[k] /\ g[j] = IF k < i THEN k ELSE k + 1
      BY <1>7, <1>8, <2>2, <3>1, <3>2
    <3>. QED
      BY <1>2, <3>1, <3>3
  <2>. QED
    BY <2>1, <2>2
<1>11. Keyed(t, next)
  <2>1. g \in [DOMAIN t -> DOMAIN s] /\ \A j, k \in DOMAIN t : g[j] = g[k] => j = k
    BY <1>6, <1>9
  <2>2. \A j \in DOMAIN t : t[j] = s[g[j]]
    BY <1>6, <1>10
  <2>. QED
    BY <2>1, <2>2, KeyedRow
<1>. QED
  BY <1>1, <1>3, <1>5, <1>6, <1>11

-----------------------------------------------------------------------------
(***************************************************************************)
(* The editor: its steps                                                   *)
(***************************************************************************)

\* Most steps change the style or the shapes, not both.
OneKept == ed'.style = ed.style \/ ed'.shapes = ed.shapes

\* Where nothing of the drawing changes, nothing can go wrong with it.
LEMMA SameDrawingOK ==
    ASSUME NEW e, EditorOK(e), NEW f \in Editors,
           f.shapes = e.shapes, f.next = e.next, f.picked = e.picked, f.style = e.style
    PROVE  EditorOK(f)
BY DEF EditorOK

\* The places are numbers.
LEMMA PlaceIs == \A p \in Places \cup Numbers : p \in Int
BY ComponentAssumption

\* The steps that leave the drawing alone.
LEMMA PlainSteps ==
    ASSUME EditorOK(ed), SwitchMode \/ EditCode \/ SelectTool \/ PressHandle \/ EscapePick \/ TypeSize
    PROVE  EditorOK(ed') /\ OneKept
<1>0. ed \in Editors /\ Keyed(ed.shapes, ed.next)
  BY EditorIs
<1>1. CASE SwitchMode
  BY <1>1, SwitchModeOK DEF SwitchMode, Touch, OneKept
<1>2. CASE EditCode
  <2>1. PICK text \in Markups : ed' = [ed EXCEPT !.code = text]
    BY <1>2 DEF EditCode, Touch
  <2>2. text \in Seq(Elements)
    BY <2>1, MarkupsAssumption
  <2>3. ed' \in Editors
    BY <1>0, <2>1, <2>2 DEF Editors
  <2>4. ed'.shapes = ed.shapes /\ ed'.next = ed.next /\ ed'.picked = ed.picked /\ ed'.style = ed.style
    BY <1>0, <2>1 DEF Editors
  <2>. QED
    BY <2>3, <2>4, SameDrawingOK DEF OneKept
<1>3. CASE SelectTool
  BY <1>3, SelectToolOK DEF SelectTool, Touch, OneKept
<1>4. CASE PressHandle
  <2>1. PICK h \in {"left", "right"} : ed' = [ed EXCEPT !.drag = [kind |-> "resize", handle |-> h]]
    BY <1>4 DEF PressHandle, Touch
  <2>2. PICK d : d = [kind |-> "resize", handle |-> h]
    OBVIOUS
  <2>3. d \in [kind: {"resize"}, handle: {"left", "right"}]
    BY <2>2
  <2>4. d \in Drags
    BY <2>3 DEF Drags
  <2>5. ed' = [ed EXCEPT !.drag = d]
    BY <2>1, <2>2
  <2>6. ed' \in Editors
    BY <1>0, <2>4, <2>5 DEF Editors
  <2>7. ed'.shapes = ed.shapes /\ ed'.next = ed.next /\ ed'.picked = ed.picked /\ ed'.style = ed.style
    BY <1>0, <2>5 DEF Editors
  <2>. QED
    BY <2>6, <2>7, SameDrawingOK DEF OneKept
<1>5. CASE EscapePick
  <2>1. ed' = [ed EXCEPT !.picked = 0]
    BY <1>5 DEF EscapePick, Touch
  <2>2. ed' \in Editors
    BY <1>0, <2>1 DEF Editors
  <2>3. ed'.shapes = ed.shapes /\ ed'.next = ed.next /\ ed'.picked = 0 /\ ed'.style = ed.style
    BY <1>0, <2>1 DEF Editors
  <2>. QED
    BY <1>0, <2>2, <2>3, UnpickedOK DEF OneKept
<1>6. CASE TypeSize
  <2>1. PICK w \in Numbers : ed' = [ed EXCEPT !.sized = TRUE, !.box.w = w]
    BY <1>6 DEF TypeSize, Touch
  <2>2. PICK b : b = [ed.box EXCEPT !.w = w]
    OBVIOUS
  <2>3. b \in Boxes
    <3>1. ed.box \in Boxes
      BY EditorIs
    <3>. QED
      BY <2>2, <3>1, PlaceIs DEF Boxes
  <2>4. ed' = [ed EXCEPT !.sized = TRUE, !.box = b]
    BY <2>1, <2>2
  <2>5. ed' \in Editors
    BY <1>0, <2>3, <2>4 DEF Editors
  <2>6. ed'.shapes = ed.shapes /\ ed'.next = ed.next /\ ed'.picked = ed.picked /\ ed'.style = ed.style
    BY <1>0, <2>4 DEF Editors
  <2>. QED
    BY <2>5, <2>6, SameDrawingOK DEF OneKept
<1>. QED
  BY <1>1, <1>2, <1>3, <1>4, <1>5, <1>6

\* Picking a shape brings its style to the toolbar.
LEMMA PickOK ==
    ASSUME EditorOK(ed), Pick
    PROVE  EditorOK(ed') /\ OneKept
<1>0. ed \in Editors /\ Keyed(ed.shapes, ed.next)
  BY EditorIs
<1>1. CASE ed' = [ed EXCEPT !.picked = 0]
  <2>1. ed' \in Editors
    BY <1>0, <1>1 DEF Editors
  <2>2. ed'.shapes = ed.shapes /\ ed'.next = ed.next /\ ed'.picked = 0
    BY <1>0, <1>1 DEF Editors
  <2>. QED
    BY <1>0, <2>1, <2>2, UnpickedOK DEF OneKept
<1>2. ASSUME NEW p \in Places, NEW i \in Hits(ed.shapes, p),
             ed' = [ed EXCEPT !.picked = i, !.style = loadSelectedToToolbar(@, ed.shapes[i]),
                              !.drag = [kind |-> "move", offset |-> p - ed.shapes[i].a]]
      PROVE  EditorOK(ed') /\ OneKept
  <2>1. i \in 1..Len(ed.shapes) /\ Len(ed.shapes) \in Nat
    BY EditorIs DEF Hits
  <2>2. PICK s \in DrawnShape : s = ed.shapes[i]
    BY <2>1, EditorIs
  <2>3. PICK style \in Styles : style = loadSelectedToToolbar(ed.style, s) /\ Matches(style, s)
    BY <2>2, ToolbarShows, EditorIs
  <2>4. PICK offset \in Int : offset = p - s.a
    BY <2>2, ShapeIs, PlaceIs
  <2>5. PICK d : d = [kind |-> "move", offset |-> offset]
    OBVIOUS
  <2>6. d \in [kind: {"move"}, offset: Int]
    BY <2>5
  <2>7. d \in Drags
    BY <2>6 DEF Drags
  <2>8. ed' = [ed EXCEPT !.picked = i, !.style = style, !.drag = d]
    BY <1>2, <2>2, <2>3, <2>4, <2>5
  <2>9. i \in Nat /\ i \in 0..Len(ed.shapes)
    BY <2>1
  <2>10. ed' \in Editors
    BY <1>0, <2>7, <2>8, <2>9 DEF Editors
  <2>11. ed'.shapes = ed.shapes /\ ed'.next = ed.next /\ ed'.picked = i /\ ed'.style = style
    BY <1>0, <2>8 DEF Editors
  <2>12. EditorOK(ed')
    BY <2>2, <2>3, <2>9, <2>10, <2>11 DEF EditorOK
  <2>. QED
    BY <2>11, <2>12 DEF OneKept
<1>. QED
  BY <1>1, <1>2 DEF Pick, Touch

\* A gesture is of one of three kinds.
LEMMA DragIs ==
    ASSUME NEW d \in Drags
    PROVE  /\ d.kind = "move" => d.offset \in Int
           /\ d.kind = "draw" => d \in [kind: {"draw"}, start: Int]
<1>1. CASE d = NoDrag
  BY <1>1 DEF NoDrag
<1>2. CASE d \in [kind: {"resize"}, handle: {"left", "right"}]
  BY <1>2
<1>3. CASE d \in [kind: {"move"}, offset: Int]
  BY <1>3
<1>4. CASE d \in [kind: {"draw"}, start: Int]
  BY <1>4
<1>. QED
  BY <1>1, <1>2, <1>3, <1>4 DEF Drags

\* A shape is begun.
LEMMA BeginShapeOK ==
    ASSUME EditorOK(ed), BeginShape
    PROVE  EditorOK(ed') /\ OneKept
<1>0. ed \in Editors /\ Keyed(ed.shapes, ed.next)
  BY EditorIs
<1>1. PICK p \in Places : ed' = [ed EXCEPT !.drag = [kind |-> "draw", start |-> p], !.picked = 0]
  BY DEF BeginShape, Touch
<1>2. PICK d : d = [kind |-> "draw", start |-> p]
  OBVIOUS
<1>3. d \in [kind: {"draw"}, start: Int]
  BY <1>2, PlaceIs
<1>4. d \in Drags
  BY <1>3 DEF Drags
<1>5. ed' = [ed EXCEPT !.drag = d, !.picked = 0]
  BY <1>1, <1>2
<1>6. ed' \in Editors
  BY <1>0, <1>4, <1>5 DEF Editors
<1>7. ed'.shapes = ed.shapes /\ ed'.next = ed.next /\ ed'.picked = 0
  BY <1>0, <1>5 DEF Editors
<1>. QED
  BY <1>0, <1>6, <1>7, UnpickedOK DEF OneKept

\* The mouse moves.
LEMMA MouseMoveOK ==
    ASSUME EditorOK(ed), MouseMove
    PROVE  EditorOK(ed') /\ OneKept
<1>1. /\ ed.picked # 0 /\ ed.drag \in Drags
      /\ Picked \in DrawnShape /\ Matches(ed.style, Picked)
  BY EditorIs DEF MouseMove, Picked
<1>2. PICK x : Keeps(x, Picked) /\ ed' = Reshape(ed, x)
  <2>1. PICK p \in Places : \/ ed' = Reshape(ed, resized(Picked, ed.drag.handle, p))
                            \/ /\ ed.drag.kind = "move"
                               /\ ed' = Reshape(ed, moved(Picked, p, ed.drag.offset))
    BY DEF MouseMove, Touch
  <2>2. CASE ed' = Reshape(ed, resized(Picked, ed.drag.handle, p))
    BY <1>1, <2>2, PlaceIs, ResizedKeeps
  <2>3. CASE ed.drag.kind = "move" /\ ed' = Reshape(ed, moved(Picked, p, ed.drag.offset))
    BY <1>1, <2>3, PlaceIs, DragIs, MovedKeeps
  <2>. QED
    BY <2>1, <2>2, <2>3
<1>3. x \in DrawnShape /\ x.id = ed.shapes[ed.picked].id /\ Matches(ed.style, x)
  BY <1>1, <1>2, SameLook DEF Keeps, Picked
<1>4. EditorOK(Reshape(ed, x)) /\ Reshape(ed, x).style = ed.style
  BY <1>1, <1>3, ReshapeOK
<1>. QED
  BY <1>2, <1>4 DEF OneKept

\* The mouse is released: what was drawn is there, and picked by no one.
LEMMA MouseUpOK ==
    ASSUME EditorOK(ed), MouseUp
    PROVE  EditorOK(ed') /\ OneKept
<1>1. /\ ed \in Editors /\ ed.shapes \in Seq(DrawnShape) /\ ed.next \in Nat
      /\ Keyed(ed.shapes, ed.next) /\ ed.drag \in Drags
  BY EditorIs
<1>2. PICK no : no = NoDrag /\ no \in Drags
  BY DEF Drags
<1>3. CASE ed' = [ed EXCEPT !.drag = NoDrag]
  <2>1. ed' = [ed EXCEPT !.drag = no]
    BY <1>2, <1>3
  <2>2. ed' \in Editors
    BY <1>1, <1>2, <2>1 DEF Editors
  <2>3. ed'.shapes = ed.shapes /\ ed'.next = ed.next /\ ed'.picked = ed.picked /\ ed'.style = ed.style
    BY <1>1, <2>1 DEF Editors
  <2>. QED
    BY <2>2, <2>3, SameDrawingOK DEF OneKept
<1>4. ASSUME NEW p \in Places, ed.drag.kind = "draw",
             ed' = [selectTool(ed, "select") EXCEPT
                      !.shapes = Append(ed.shapes, createShape(ed, p)), !.next = @ + 1,
                      !.drag = NoDrag,
                      !.box = syncViewBoxFromShapes(ed, Append(ed.shapes, createShape(ed, p)))]
      PROVE  EditorOK(ed') /\ OneKept
  <2>1. PICK x \in DrawnShape : x = createShape(ed, p) /\ x.id = ed.next
    BY <1>1, <1>4, DragIs, PlaceIs, CreatedIs
  <2>2. PICK t : t = Append(ed.shapes, x)
    OBVIOUS
  <2>3. t \in Seq(DrawnShape) /\ Keyed(t, ed.next + 1)
    BY <1>1, <2>1, <2>2, KeyedMore
  <2>4. PICK box \in Boxes : box = syncViewBoxFromShapes(ed, t)
    BY <1>1, <2>3, SyncTyped
  <2>5. PICK n \in Nat : n = ed.next + 1
    BY <1>1
  <2>6. PICK f : f = [ed EXCEPT !.tool = "select", !.picked = 0]
    OBVIOUS
  <2>7. f \in Editors /\ f.next = ed.next /\ f.picked = 0 /\ f.style = ed.style
    BY <1>1, <2>6 DEF Editors
  <2>8. ed' = [f EXCEPT !.shapes = t, !.next = n, !.drag = no, !.box = box]
    BY <1>2, <1>4, <2>1, <2>2, <2>4, <2>5, <2>6, <2>7 DEF selectTool
  <2>9. ed' \in Editors
    BY <1>2, <2>3, <2>4, <2>5, <2>7, <2>8 DEF Editors
  <2>10. ed'.shapes = t /\ ed'.next = n /\ ed'.picked = 0 /\ ed'.style = ed.style
    BY <2>7, <2>8 DEF Editors
  <2>. QED
    BY <2>3, <2>5, <2>9, <2>10, UnpickedOK DEF OneKept
<1>. QED
  BY <1>3, <1>4 DEF MouseUp, Touch

\* What is picked is deleted, or put on top of the others or below them.
LEMMA OrderOK ==
    ASSUME EditorOK(ed), deleteSelected \/ bringToFront \/ sendToBack
    PROVE  EditorOK(ed') /\ OneKept
<1>1. /\ ed \in Editors /\ ed.shapes \in Seq(DrawnShape) /\ Keyed(ed.shapes, ed.next)
      /\ Len(ed.shapes) \in Nat /\ ed.picked \in Nat
      /\ ed.picked # 0 => ed.picked \in 1..Len(ed.shapes) /\ Matches(ed.style, ed.shapes[ed.picked])
  BY EditorIs
<1>2. ed.picked # 0
  BY <1>1 DEF deleteSelected, bringToFront, sendToBack
<1>3. PICK s, i : s = ed.shapes /\ i = ed.picked
  OBVIOUS
<1>4. /\ s \in Seq(DrawnShape) /\ Keyed(s, ed.next) /\ i \in 1..Len(s) /\ Matches(ed.style, s[i])
      /\ Len(s) \in Nat
  BY <1>1, <1>2, <1>3
<1>5. CASE deleteSelected
  <2>1. PICK t : t = Without(s, i)
    OBVIOUS
  <2>2. t \in Seq(DrawnShape) /\ Keyed(t, ed.next)
    BY <1>4, <2>1, WithoutKeyed
  <2>3. PICK box \in Boxes : box = syncViewBoxFromShapes(ed, t)
    BY <1>1, <2>2, SyncTyped
  <2>4. ed' = [ed EXCEPT !.shapes = t, !.picked = 0, !.box = box]
    BY <1>3, <1>5, <2>1, <2>3 DEF deleteSelected, Touch
  <2>5. ed' \in Editors
    BY <1>1, <2>2, <2>3, <2>4 DEF Editors
  <2>6. ed'.shapes = t /\ ed'.next = ed.next /\ ed'.picked = 0 /\ ed'.style = ed.style
    BY <1>1, <2>4 DEF Editors
  <2>. QED
    BY <2>2, <2>5, <2>6, UnpickedOK DEF OneKept
<1>6. ASSUME NEW t \in Seq(DrawnShape), Keyed(t, ed.next), Len(t) = Len(s),
             NEW k \in 1..Len(s), t[k] = s[i], ed' = [ed EXCEPT !.shapes = t, !.picked = k]
      PROVE  EditorOK(ed') /\ OneKept
  <2>1. k \in Nat /\ k \in 0..Len(t)
    BY <1>4, <1>6
  <2>2. ed' \in Editors
    BY <1>1, <1>6, <2>1 DEF Editors
  <2>3. ed'.shapes = t /\ ed'.next = ed.next /\ ed'.picked = k /\ ed'.style = ed.style
    BY <1>1, <1>6 DEF Editors
  <2>4. EditorOK(ed')
    BY <1>4, <1>6, <2>1, <2>2, <2>3 DEF EditorOK
  <2>. QED
    BY <2>3, <2>4 DEF OneKept
<1>7. CASE bringToFront
  <2>1. PICK t : t = Append(Without(s, i), s[i])
    OBVIOUS
  <2>2. t \in Seq(DrawnShape) /\ Len(t) = Len(s) /\ Keyed(t, ed.next) /\ t[Len(s)] = s[i]
    BY <1>4, <2>1, FrontKeyed
  <2>3. Len(s) \in 1..Len(s)
    BY <1>4
  <2>4. ed' = [ed EXCEPT !.shapes = t, !.picked = Len(s)]
    BY <1>3, <1>7, <2>1 DEF bringToFront, Touch, Picked
  <2>. QED
    BY <1>6, <2>2, <2>3, <2>4
<1>8. CASE sendToBack
  <2>1. PICK t : t = <<s[i]>> \o Without(s, i)
    OBVIOUS
  <2>2. t \in Seq(DrawnShape) /\ Len(t) = Len(s) /\ Keyed(t, ed.next) /\ t[1] = s[i]
    BY <1>4, <2>1, BackKeyed
  <2>3. 1 \in 1..Len(s)
    BY <1>4
  <2>4. ed' = [ed EXCEPT !.shapes = t, !.picked = 1]
    BY <1>3, <1>8, <2>1 DEF sendToBack, Touch, Picked
  <2>. QED
    BY <1>6, <2>2, <2>3, <2>4
<1>. QED
  BY <1>5, <1>7, <1>8

\* What the toolbar's change of one thing does to what is picked.
RestKept ==
    ed'.style # ed.style /\ ed.picked # 0 /\ ed'.picked = ed.picked =>
        LET s == Picked
            t == ed'.shapes[ed.picked]
        IN  \A f, g \in Restyled(s, t) \ (IF s.fill = "none" THEN {"fill"} ELSE {}) : f = g

\* A style that differs in one thing from one that is shown changes that thing only.
LEMMA OneChanged ==
    ASSUME NEW was, NEW style, NEW s, NEW t, Matches(was, s), NEW f \in {"fill", "stroke", "rx"},
           f # "fill" => style.fill = was.fill,
           f # "stroke" => style.stroke = was.stroke,
           f # "rx" => style.rx = was.rx,
           t.fill = (IF s.kind = "line" THEN s.fill ELSE style.fill), t.stroke = style.stroke,
           t.rx = (IF s.kind = "rect" THEN style.rx ELSE s.rx)
    PROVE  \A g \in Restyled(s, t) \ (IF s.fill = "none" THEN {"fill"} ELSE {}) : g = f
<1>. SUFFICES ASSUME NEW g \in Restyled(s, t) \ (IF s.fill = "none" THEN {"fill"} ELSE {}), g # f
              PROVE  FALSE
  OBVIOUS
<1>1. /\ s.fill # "none" => was.fill = s.fill
      /\ was.stroke = s.stroke
      /\ s.kind = "rect" => was.rx = s.rx
  BY DEF Matches
<1>2. g \in {"fill", "stroke", "rx"} /\ t[g] # s[g] /\ (g = "fill" => s.fill # "none")
  BY DEF Restyled
<1>3. CASE g = "fill"
  BY <1>1, <1>2, <1>3
<1>4. CASE g = "stroke"
  BY <1>1, <1>2, <1>4
<1>5. CASE g = "rx"
  BY <1>1, <1>2, <1>5
<1>. QED
  BY <1>2, <1>3, <1>4, <1>5

\* The toolbar is changed in one thing.
LEMMA RestyleOK ==
    ASSUME EditorOK(ed), NEW style \in Styles, Restyle(style), NEW f \in {"fill", "stroke", "rx"},
           f # "fill" => style.fill = ed.style.fill,
           f # "stroke" => style.stroke = ed.style.stroke,
           f # "rx" => style.rx = ed.style.rx
    PROVE  EditorOK(ed') /\ RestKept
<1>1. ed \in Editors /\ Keyed(ed.shapes, ed.next) /\ (ed.picked # 0 => Picked \in DrawnShape)
  BY EditorIs DEF Picked
<1>2. CASE ed.picked = 0
  <2>1. ed' = [ed EXCEPT !.style = style]
    BY <1>2 DEF Restyle, Touch
  <2>2. ed' \in Editors
    BY <1>1, <2>1 DEF Editors
  <2>3. ed'.shapes = ed.shapes /\ ed'.next = ed.next /\ ed'.picked = 0
    BY <1>1, <1>2, <2>1 DEF Editors
  <2>. QED
    BY <1>1, <1>2, <2>2, <2>3, UnpickedOK DEF RestKept
<1>3. CASE ed.picked # 0
  <2>1. PICK s, x : s \in DrawnShape /\ s = Picked /\ x = applyToolbarToSelected(s, style)
    BY <1>1, <1>3
  <2>2. /\ x \in DrawnShape /\ x.id = s.id /\ Matches(style, x)
        /\ x.fill = (IF s.kind = "line" THEN s.fill ELSE style.fill)
        /\ x.stroke = style.stroke
        /\ x.rx = (IF s.kind = "rect" THEN style.rx ELSE s.rx)
    BY <2>1, AppliedShows
  <2>3. ed' = [Reshape(ed, x) EXCEPT !.style = style]
    BY <1>3, <2>1 DEF Restyle, Touch
  <2>4. x.id = ed.shapes[ed.picked].id
    BY <2>1, <2>2 DEF Picked
  <2>5. EditorOK(ed') /\ Reshape(ed, x).shapes[ed.picked] = x /\ Reshape(ed, x) \in Editors
    BY <1>3, <2>2, <2>3, <2>4, ReshapeOK
  <2>6. ed'.shapes[ed.picked] = x
    BY <2>3, <2>5 DEF Editors
  <2>7. Matches(ed.style, s)
    BY <1>3, <2>1, EditorIs DEF Picked
  <2>8. \A g \in Restyled(s, x) \ (IF s.fill = "none" THEN {"fill"} ELSE {}) : g = f
    BY <2>2, <2>7, OneChanged
  <2>9. RestKept
    BY <2>1, <2>6, <2>8 DEF RestKept
  <2>. QED
    BY <2>5, <2>9
<1>. QED
  BY <1>2, <1>3

\* A number typed into the panel.
LEMMA FieldOK ==
    ASSUME EditorOK(ed), applyShapePropsField
    PROVE  EditorOK(ed') /\ (OneKept \/ RestKept)
<1>1. ed.picked # 0
  BY DEF applyShapePropsField
<1>2. PICK s \in DrawnShape : s = Picked /\ Matches(ed.style, s)
  BY <1>1, EditorIs DEF Picked
<1>3. ASSUME NEW x, Keeps(x, s), ed' = Reshape(ed, x)
      PROVE  EditorOK(ed') /\ OneKept
  <2>1. x \in DrawnShape /\ x.id = ed.shapes[ed.picked].id /\ Matches(ed.style, x)
    BY <1>2, <1>3, SameLook DEF Keeps, Picked
  <2>2. EditorOK(Reshape(ed, x)) /\ Reshape(ed, x).style = ed.style
    BY <1>1, <2>1, ReshapeOK
  <2>. QED
    BY <1>3, <2>2 DEF OneKept
<1>4. ASSUME NEW n \in Numbers, ed' = Reshape(ed, [Picked EXCEPT !.a = n])
      PROVE  EditorOK(ed') /\ OneKept
  BY <1>2, <1>3, <1>4, Placed, PlaceIs, ShapeIs
<1>5. ASSUME NEW n \in Numbers, ed' = Reshape(ed, [Picked EXCEPT !.b = n])
      PROVE  EditorOK(ed') /\ OneKept
  BY <1>2, <1>3, <1>5, Placed, PlaceIs, ShapeIs
<1>6. ASSUME NEW n \in Radii, s.kind = "rect",
             ed' = [Reshape(ed, [Picked EXCEPT !.rx = Larger(0, Smaller(n, Picked.b \div 2))])
                      EXCEPT !.style.rx = Larger(0, Smaller(n, Picked.b \div 2))]
      PROVE  EditorOK(ed') /\ RestKept
  <2>1. PICK r \in Int : r = Larger(0, Smaller(n, Picked.b \div 2)) /\ r # NoRx
    <3>1. PICK h \in Int : h = Picked.b \div 2
      BY <1>2, ShapeIs
    <3>2. n \in Nat
      BY ComponentAssumption
    <3>3. Smaller(n, h) \in Int
      BY <3>1, <3>2 DEF Smaller
    <3>4. Larger(0, Smaller(n, h)) \in Nat
      BY <3>3 DEF Larger
    <3>5. \A k \in Nat : k \in Int /\ k # NoRx
      BY DEF NoRx
    <3>. QED
      BY <3>1, <3>4, <3>5
  <2>2. PICK x : x = [s EXCEPT !.rx = r]
    OBVIOUS
  <2>3. s \in Shape
    BY DEF DrawnShape
  <2>4. x \in Shape
    BY <2>2, <2>3 DEF Shape
  <2>5. /\ x.id = s.id /\ x.kind = "rect" /\ x.fill = s.fill /\ x.stroke = s.stroke /\ x.rx = r
    BY <1>6, <2>2, <2>3 DEF Shape
  <2>6. x \in DrawnShape
    BY <2>1, <2>4, <2>5 DEF DrawnShape
  <2>7. ed.style \in Styles
    BY EditorIs
  <2>8. PICK style : style = [ed.style EXCEPT !.rx = r]
    OBVIOUS
  <2>9. style \in Styles
    BY <2>1, <2>7, <2>8 DEF Styles
  <2>10. style.fill = ed.style.fill /\ style.stroke = ed.style.stroke /\ style.rx = r
    BY <2>7, <2>8 DEF Styles
  <2>11. Matches(style, x)
    BY <1>2, <2>5, <2>10 DEF Matches
  <2>12. /\ EditorOK([Reshape(ed, x) EXCEPT !.style = style])
         /\ Reshape(ed, x).style = ed.style /\ Reshape(ed, x) \in Editors
         /\ Reshape(ed, x).shapes[ed.picked] = x
    BY <1>1, <1>2, <2>5, <2>6, <2>9, <2>11, ReshapeOK DEF Picked
  <2>13. ed' = [Reshape(ed, x) EXCEPT !.style.rx = r]
    BY <1>2, <1>6, <2>1, <2>2
  <2>14. ed' = [Reshape(ed, x) EXCEPT !.style = style]
    BY <2>8, <2>12, <2>13
  <2>15. ed'.shapes[ed.picked] = x
    BY <2>12, <2>14 DEF Editors
  <2>16. Restyled(s, x) \subseteq {"rx"}
    BY <2>5 DEF Restyled
  <2>17. RestKept
    BY <1>2, <2>15, <2>16 DEF RestKept
  <2>. QED
    BY <2>12, <2>14, <2>17
<1>. QED
  BY <1>2, <1>4, <1>5, <1>6 DEF applyShapePropsField, Touch

\* The style a picker or the slider of the toolbar makes.
LEMMA RestyleSteps ==
    ASSUME EditorOK(ed), onFillChange \/ onStrokeChange \/ onBorderRadiusChange
    PROVE  EditorOK(ed') /\ RestKept
<1>1. ed.style \in Styles
  BY EditorIs
<1>2. PICK was \in Styles : was = ed.style
  BY <1>1
<1>3. CASE onFillChange
  <2>1. PICK c \in Colours : Restyle([was EXCEPT !.fill = c])
    BY <1>2, <1>3 DEF onFillChange
  <2>2. PICK style : style = [was EXCEPT !.fill = c]
    OBVIOUS
  <2>3. style \in Styles /\ style.stroke = was.stroke /\ style.rx = was.rx
    BY <2>2 DEF Styles
  <2>. QED
    BY <1>2, <2>1, <2>2, <2>3, RestyleOK
<1>4. CASE onStrokeChange
  <2>1. PICK c \in Colours : Restyle([was EXCEPT !.stroke = c])
    BY <1>2, <1>4 DEF onStrokeChange
  <2>2. PICK style : style = [was EXCEPT !.stroke = c]
    OBVIOUS
  <2>3. style \in Styles /\ style.fill = was.fill /\ style.rx = was.rx
    BY <2>2 DEF Styles
  <2>. QED
    BY <1>2, <2>1, <2>2, <2>3, RestyleOK
<1>5. CASE onBorderRadiusChange
  <2>1. PICK r \in Radii : Restyle([was EXCEPT !.rx = r])
    BY <1>2, <1>5 DEF onBorderRadiusChange
  <2>2. PICK style : style = [was EXCEPT !.rx = r]
    OBVIOUS
  <2>3. r \in Int /\ r # NoRx
    BY ComponentAssumption DEF NoRx
  <2>4. style \in Styles /\ style.fill = was.fill /\ style.stroke = was.stroke
    BY <2>2, <2>3 DEF Styles
  <2>. QED
    BY <1>2, <2>1, <2>2, <2>4, RestyleOK
<1>. QED
  BY <1>3, <1>4, <1>5

\* Where only one of both changes, the look is kept.
LEMMA OneKeptRest ==
    ASSUME OneKept
    PROVE  RestKept
<1>1. \A s : Restyled(s, s) = {}
  BY DEF Restyled
<1>2. CASE ed'.style = ed.style
  BY <1>2 DEF RestKept
<1>3. CASE ed'.shapes = ed.shapes
  BY <1>1, <1>3 DEF RestKept, Picked
<1>. QED
  BY <1>2, <1>3 DEF OneKept

\* Every step of the editor leaves it in order.
LEMMA EditStepOK ==
    ASSUME EditorOK(ed), EditStep
    PROVE  EditorOK(ed') /\ RestKept
BY PlainSteps, PickOK, BeginShapeOK, MouseMoveOK, MouseUpOK, OrderOK, FieldOK, RestyleSteps,
   OneKeptRest DEF EditStep

-----------------------------------------------------------------------------
(***************************************************************************)
(* What is saved and opened again                                          *)
(***************************************************************************)

\* A shape is its fields.
LEMMA SameShape ==
    ASSUME NEW s \in DrawnShape, NEW t \in DrawnShape,
           s.id = t.id, s.kind = t.kind, s.a = t.a, s.b = t.b, s.fill = t.fill,
           s.stroke = t.stroke, s.rx = t.rx
    PROVE  s = t
BY DEF DrawnShape, Shape

\* What a shape is written as and read again.
LEMMA ReadAgainIs ==
    ASSUME NEW s \in DrawnShape, NEW id \in Nat
    PROVE  LET t == ShapeRead(Written(s), id) IN
           /\ t.id = id /\ t.kind = s.kind /\ t.fill = s.fill /\ t.stroke = s.stroke
           /\ t.rx = (IF s.kind = "rect" THEN svgNum(s.rx) ELSE NoRx)
           /\ s.kind # "ellipse" => t.a = svgNum(s.a) /\ t.b = FieldRead(svgNum(s.b))
           /\ s.kind = "ellipse" => /\ t.a = svgHalf(2 * s.a + s.b) - RadiusRead(svgHalf(s.b))
                                    /\ t.b = 2 * RadiusRead(svgHalf(s.b))
           /\ Written(s).b = (IF s.kind = "ellipse" THEN svgHalf(s.b) ELSE svgNum(s.b))
<1>1. s.kind = "line" => s.fill = "none"
  BY ShapeIs
<1>2. PICK e : e = Written(s)
  OBVIOUS
<1>3. /\ e.kind = s.kind /\ e.fill = s.fill /\ e.stroke = s.stroke
      /\ e.a = (IF s.kind = "ellipse" THEN svgHalf(2 * s.a + s.b) ELSE svgNum(s.a))
      /\ e.b = (IF s.kind = "ellipse" THEN svgHalf(s.b) ELSE svgNum(s.b))
      /\ e.rx = (IF s.kind = "rect" THEN svgNum(s.rx) ELSE NoRx)
  BY <1>2 DEF Written
<1>4. PICK t : t = ShapeRead(e, id)
  OBVIOUS
<1>5. /\ t.id = id /\ t.kind = e.kind /\ t.stroke = e.stroke
      /\ t.a = (IF e.kind = "ellipse" THEN e.a - RadiusRead(e.b) ELSE e.a)
      /\ t.b = (IF e.kind = "ellipse" THEN 2 * RadiusRead(e.b) ELSE FieldRead(e.b))
      /\ t.fill = (IF e.kind = "line" THEN "none" ELSE e.fill)
      /\ t.rx = (IF e.kind = "rect" THEN e.rx ELSE NoRx)
  BY <1>4 DEF ShapeRead
<1>. QED
  BY <1>1, <1>2, <1>3, <1>4, <1>5

\* It is what it was but for rounding.
LEMMA AlikeAgain ==
    ASSUME NEW s \in DrawnShape, NEW id \in Nat
    PROVE  DrawnAlike(ShapeRead(Written(s), id), s)
<1>1. PICK t : t = ShapeRead(Written(s), id)
  OBVIOUS
<1>2. /\ t.kind = s.kind /\ t.fill = s.fill /\ t.stroke = s.stroke
      /\ t.rx = (IF s.kind = "rect" THEN svgNum(s.rx) ELSE NoRx)
      /\ s.kind # "ellipse" => t.a = svgNum(s.a) /\ t.b = FieldRead(svgNum(s.b))
      /\ s.kind = "ellipse" => /\ t.a = svgHalf(2 * s.a + s.b) - RadiusRead(svgHalf(s.b))
                               /\ t.b = 2 * RadiusRead(svgHalf(s.b))
      /\ Written(s).b = (IF s.kind = "ellipse" THEN svgHalf(s.b) ELSE svgNum(s.b))
  BY <1>1, ReadAgainIs
<1>3. PICK a \in Int, b \in Int, rx \in Int : a = s.a /\ b = s.b /\ rx = s.rx
  BY ShapeIs
<1>4. s.kind = "rect" => Near(t.rx, s.rx)
  <2>1. svgNum(rx) \in Int /\ svgNum(rx) - rx <= 5 /\ rx - svgNum(rx) <= 5
    BY Rounds
  <2>. QED
    BY <1>2, <1>3, <2>1 DEF Near, Tenth
<1>5. CASE s.kind = "ellipse"
  <2>0. PICK d \in Int : d = 2 * a + b
    OBVIOUS
  <2>1. PICK c \in Int, h \in Int : c = svgHalf(d) /\ h = svgHalf(b)
    BY RoundsHalf
  <2>2. /\ 2 * c - (2 * a + b) <= 10 /\ (2 * a + b) - 2 * c <= 10
        /\ 2 * h - b <= 10 /\ b - 2 * h <= 10
        /\ (2 * a + b) % 20 = 0 => 2 * c = 2 * a + b
        /\ b % 20 = 0 => 2 * h = b
    BY <2>0, <2>1, RoundsHalf
  <2>3. h # 0 => t.a = c - h /\ t.b = 2 * h
    BY <1>2, <1>3, <1>5, <2>0, <2>1 DEF RadiusRead
  <2>4. a % 10 = 0 /\ b % 20 = 0 => c - h = a /\ 2 * h = b
    BY <2>2
  <2>5. /\ (c - h) - a <= 10 /\ a - (c - h) <= 10
        /\ 2 * h - b <= 10 /\ b - 2 * h <= 10
    BY <2>2
  <2>6. Vanishes(s) <=> h = 0
    BY <1>2, <1>3, <1>5, <2>1 DEF Vanishes
  <2>7. OnTenths(s) => a % 10 = 0 /\ b % 20 = 0
    BY <1>3, <1>5 DEF OnTenths, Tenth
  <2>8. h # 0 => Near(t.a, s.a) /\ Near(t.b, s.b)
    BY <1>3, <2>3, <2>5 DEF Near, Tenth
  <2>9. h # 0 /\ OnTenths(s) => t.a = s.a /\ t.b = s.b
    BY <1>3, <2>3, <2>4, <2>7
  <2>. QED
    BY <1>1, <1>2, <1>4, <2>6, <2>8, <2>9 DEF DrawnAlike
<1>6. CASE s.kind # "ellipse"
  <2>1. /\ svgNum(a) \in Int /\ svgNum(a) - a <= 5 /\ a - svgNum(a) <= 5
        /\ svgNum(b) \in Int /\ svgNum(b) - b <= 5 /\ b - svgNum(b) <= 5
        /\ a % 10 = 0 => svgNum(a) = a
        /\ b % 10 = 0 => svgNum(b) = b
    BY Rounds
  <2>2. svgNum(b) # 0 => t.a = svgNum(a) /\ t.b = svgNum(b)
    BY <1>2, <1>3, <1>6 DEF FieldRead
  <2>3. Vanishes(s) <=> svgNum(b) = 0
    BY <1>2, <1>3, <1>6 DEF Vanishes
  <2>4. OnTenths(s) => a % 10 = 0 /\ b % 10 = 0
    BY <1>3, <1>6 DEF OnTenths, Tenth
  <2>5. svgNum(b) # 0 => Near(t.a, s.a) /\ Near(t.b, s.b)
    BY <1>3, <2>1, <2>2 DEF Near, Tenth
  <2>6. svgNum(b) # 0 /\ OnTenths(s) => t.a = s.a /\ t.b = s.b
    BY <1>3, <2>1, <2>2, <2>4
  <2>. QED
    BY <1>1, <1>2, <1>4, <2>3, <2>5, <2>6 DEF DrawnAlike
<1>. QED
  BY <1>5, <1>6

\* Written and read once more it stays.
LEMMA StaysAgain ==
    ASSUME NEW s \in DrawnShape, NEW id \in Nat
    PROVE  LET t == ShapeRead(Written(s), id) IN ShapeRead(Written(t), id) = t
<1>1. PICK t \in DrawnShape : t = ShapeRead(Written(s), id)
  BY WrittenTyped, ShapeReadTyped
<1>2. PICK u \in DrawnShape : u = ShapeRead(Written(t), id)
  BY WrittenTyped, ShapeReadTyped
<1>3. /\ t.id = id /\ t.kind = s.kind /\ t.fill = s.fill /\ t.stroke = s.stroke
      /\ t.rx = (IF s.kind = "rect" THEN svgNum(s.rx) ELSE NoRx)
      /\ s.kind # "ellipse" => t.a = svgNum(s.a) /\ t.b = FieldRead(svgNum(s.b))
      /\ s.kind = "ellipse" => /\ t.a = svgHalf(2 * s.a + s.b) - RadiusRead(svgHalf(s.b))
                               /\ t.b = 2 * RadiusRead(svgHalf(s.b))
  BY <1>1, ReadAgainIs
<1>4. /\ u.id = id /\ u.kind = t.kind /\ u.fill = t.fill /\ u.stroke = t.stroke
      /\ u.rx = (IF t.kind = "rect" THEN svgNum(t.rx) ELSE NoRx)
      /\ t.kind # "ellipse" => u.a = svgNum(t.a) /\ u.b = FieldRead(svgNum(t.b))
      /\ t.kind = "ellipse" => /\ u.a = svgHalf(2 * t.a + t.b) - RadiusRead(svgHalf(t.b))
                               /\ u.b = 2 * RadiusRead(svgHalf(t.b))
  BY <1>2, ReadAgainIs
<1>5. s.a \in Int /\ s.b \in Int /\ s.rx \in Int
  BY ShapeIs
<1>6. u.rx = t.rx
  <2>1. svgNum(s.rx) \in Int /\ svgNum(s.rx) % 10 = 0
    BY <1>5, Rounds
  <2>2. svgNum(svgNum(s.rx)) = svgNum(s.rx)
    BY <2>1, Rounds
  <2>. QED
    BY <1>3, <1>4, <2>2
<1>7. CASE s.kind = "ellipse"
  <2>1. PICK c \in Int, h \in Int : c = svgHalf(2 * s.a + s.b) /\ h = RadiusRead(svgHalf(s.b))
    <3>1. 2 * s.a + s.b \in Int
      BY <1>5
    <3>2. svgHalf(2 * s.a + s.b) \in Int /\ svgHalf(s.b) \in Int
      BY <1>5, <3>1, RoundsHalf
    <3>. QED
      BY <3>2 DEF RadiusRead, Px
  <2>2. c % 10 = 0 /\ h % 10 = 0 /\ h # 0
    <3>1. 2 * s.a + s.b \in Int
      BY <1>5
    <3>2. svgHalf(2 * s.a + s.b) % 10 = 0 /\ svgHalf(s.b) % 10 = 0
      BY <1>5, <3>1, RoundsHalf
    <3>. QED
      BY <2>1, <3>2 DEF RadiusRead, Px
  <2>3. t.a = c - h /\ t.b = 2 * h
    BY <1>3, <1>7, <2>1
  <2>4. 2 * t.a + t.b = 2 * c
    BY <2>3
  <2>5. svgHalf(2 * c) = c /\ svgHalf(2 * h) = h
    BY <2>2, HalfOfTwice
  <2>6. u.a = c - h /\ u.b = 2 * h
    BY <1>3, <1>4, <1>7, <2>2, <2>3, <2>4, <2>5 DEF RadiusRead
  <2>7. u.a = t.a /\ u.b = t.b
    BY <2>3, <2>6
  <2>. QED
    BY <1>1, <1>2, <1>3, <1>4, <1>6, <2>7, SameShape
<1>8. CASE s.kind # "ellipse"
  <2>1. PICK a \in Int, b \in Int : a = svgNum(s.a) /\ b = FieldRead(svgNum(s.b))
    <3>1. svgNum(s.a) \in Int /\ svgNum(s.b) \in Int
      BY <1>5, Rounds
    <3>. QED
      BY <3>1 DEF FieldRead, Px
  <2>2. a % 10 = 0 /\ b % 10 = 0 /\ b # 0
    <3>1. svgNum(s.a) % 10 = 0 /\ svgNum(s.b) % 10 = 0
      BY <1>5, Rounds
    <3>. QED
      BY <2>1, <3>1 DEF FieldRead, Px
  <2>3. t.a = a /\ t.b = b
    BY <1>3, <1>8, <2>1
  <2>4. svgNum(a) = a /\ svgNum(b) = b
    BY <2>2, Rounds
  <2>5. u.a = a /\ u.b = b
    BY <1>3, <1>4, <1>8, <2>2, <2>3, <2>4 DEF FieldRead
  <2>. QED
    BY <1>1, <1>2, <1>3, <1>4, <1>6, <2>3, <2>5, SameShape
<1>. QED
  BY <1>7, <1>8

\* Markup written from shapes is read as these, one by one.
LEMMA ReadBack ==
    ASSUME NEW s \in Seq(DrawnShape)
    PROVE  LET again == markupToShapes(shapesToMarkup(s)) IN
           /\ again \in Seq(DrawnShape) /\ Len(again) = Len(s) /\ DOMAIN again = 1..Len(s)
           /\ \A i \in 1..Len(s) : again[i] = ShapeRead(Written(s[i]), i)
<1>0. PICK n \in Nat : n = Len(s)
  <2>1. Len(s) \in Nat
    OBVIOUS
  <2>. QED
    BY <2>1
<1>1. PICK m : n = Len(s) /\ m = shapesToMarkup(s)
  BY <1>0
<1>2. m \in Seq(Elements) /\ DOMAIN m = 1..n /\ \A i \in 1..n : m[i] = Written(s[i])
  BY <1>1, MarkupWritten
<1>3. \A i \in 1..n : s[i] \in DrawnShape
  BY <1>1
<1>4. \A i \in 1..n : Drawable(m[i])
  BY <1>2, <1>3, WrittenTyped
<1>5. {i \in DOMAIN m : Drawable(m[i])} = 1..n
  BY <1>2, <1>4
<1>6. Cardinality(1..n) = n
  <2>1. 1 \in Int /\ n \in Int
    OBVIOUS
  <2>. QED
    BY <2>1, FS_Interval
<1>7. PICK again : again = markupToShapes(m)
  OBVIOUS
<1>8. again = [k \in 1..n |-> ShapeRead(m[Nth(1..n, k)], k)]
  BY <1>5, <1>6, <1>7 DEF markupToShapes
<1>9. \A k \in 1..n : again[k] = ShapeRead(m[k], k)
  BY <1>8, NthOfAll
<1>10. again \in Seq(DrawnShape)
  BY <1>2, <1>7, ShapesRead
<1>11. DOMAIN again = 1..n /\ Len(again) = n
  BY <1>8, <1>10
<1>12. \A i \in 1..n : again[i] = ShapeRead(Written(s[i]), i)
  BY <1>2, <1>9
<1>. QED
  BY <1>1, <1>7, <1>10, <1>11, <1>12

\* The sides of what is read are tenths, so that the view around them is too.
LEMMA SidesRounded ==
    ASSUME NEW s \in DrawnShape, NEW id \in Nat
    PROVE  LET t == ShapeRead(Written(s), id) IN LeftOf(t) % 10 = 0 /\ RightOf(t) % 10 = 0
<1>1. PICK t \in DrawnShape : t = ShapeRead(Written(s), id)
  BY WrittenTyped, ShapeReadTyped
<1>2. /\ t.kind = s.kind
      /\ s.kind # "ellipse" => t.a = svgNum(s.a) /\ t.b = FieldRead(svgNum(s.b))
      /\ s.kind = "ellipse" => /\ t.a = svgHalf(2 * s.a + s.b) - RadiusRead(svgHalf(s.b))
                               /\ t.b = 2 * RadiusRead(svgHalf(s.b))
  BY <1>1, ReadAgainIs
<1>3. s.a \in Int /\ s.b \in Int /\ 2 * s.a + s.b \in Int
  BY ShapeIs
<1>4. /\ svgNum(s.a) \in Int /\ svgNum(s.a) % 10 = 0 /\ svgNum(s.b) \in Int /\ svgNum(s.b) % 10 = 0
      /\ svgHalf(2 * s.a + s.b) \in Int /\ svgHalf(2 * s.a + s.b) % 10 = 0
      /\ svgHalf(s.b) \in Int /\ svgHalf(s.b) % 10 = 0
  BY <1>3, Rounds, RoundsHalf
<1>5. PICK h \in Int, f \in Int : h = RadiusRead(svgHalf(s.b)) /\ f = FieldRead(svgNum(s.b))
  BY <1>4 DEF RadiusRead, FieldRead, Px
<1>6. h % 10 = 0 /\ f % 10 = 0
  BY <1>4, <1>5 DEF RadiusRead, FieldRead, Px
<1>7. PICK a \in Int, b \in Int : a = t.a /\ b = t.b
  BY ShapeIs
<1>8. a % 10 = 0 /\ b % 10 = 0
  BY <1>2, <1>4, <1>5, <1>6, <1>7
<1>9. (a + b) % 10 = 0
  BY <1>8
<1>. QED
  BY <1>1, <1>7, <1>8, <1>9 DEF LeftOf, RightOf, Smaller, Larger

\* The view around shapes whose sides are tenths is written as it is.
LEMMA BoundsRounded ==
    ASSUME NEW s \in Seq(DrawnShape),
           \A i \in 1..Len(s) : LeftOf(s[i]) % 10 = 0 /\ RightOf(s[i]) % 10 = 0
    PROVE  /\ svgNum(boundsFromShapes(s).x) = boundsFromShapes(s).x
           /\ svgNum(boundsFromShapes(s).w) = boundsFromShapes(s).w
<1>1. CASE s = << >>
  <2>1. boundsFromShapes(s) = [x |-> 0, w |-> 10000]
    BY <1>1 DEF boundsFromShapes, NoBox, Px
  <2>2. svgNum(0) = 0 /\ svgNum(10000) = 10000
    BY DEF svgNum, Tenth
  <2>. QED
    BY <2>1, <2>2
<1>2. CASE s # << >>
  <2>1. PICK l \in DOMAIN s, r \in DOMAIN s :
          boundsFromShapes(s) = [x |-> LeftOf(s[l]) - 400, w |-> RightOf(s[r]) - LeftOf(s[l]) + 2 * 400]
    BY <1>2, BoundsAre
  <2>2. s[l] \in DrawnShape /\ s[r] \in DrawnShape /\ l \in 1..Len(s) /\ r \in 1..Len(s)
    OBVIOUS
  <2>3. PICK left \in Int, right \in Int : left = LeftOf(s[l]) /\ right = RightOf(s[r])
    BY <2>2, ShapeIs
  <2>4. left % 10 = 0 /\ right % 10 = 0
    BY <2>2, <2>3
  <2>5. (left - 400) % 10 = 0 /\ (right - left + 2 * 400) % 10 = 0
    BY <2>4
  <2>6. PICK x \in Int, w \in Int : x = left - 400 /\ w = right - left + 2 * 400
    OBVIOUS
  <2>7. svgNum(x) = x /\ svgNum(w) = w
    BY <2>5, <2>6, Rounds
  <2>8. boundsFromShapes(s) = [x |-> x, w |-> w]
    BY <2>1, <2>3, <2>6
  <2>. QED
    BY <2>7, <2>8
<1>. QED
  BY <1>1, <1>2

\* So a save is drawn again as it was, but for rounding.
LEMMA SavedAgain ==
    ASSUME EditorOK(ed)
    PROVE  SavedAsDrawn
<1>. SUFFICES ASSUME ed.mode = "draw" PROVE SavedAsDrawn
  BY DEF SavedAsDrawn
<1>1. PICK s \in Seq(DrawnShape) : s = ed.shapes
  BY EditorIs
<1>2. PICK again : again = markupToShapes(shapesToMarkup(s))
  OBVIOUS
<1>3. /\ again \in Seq(DrawnShape) /\ Len(again) = Len(s) /\ DOMAIN again = 1..Len(s)
      /\ \A i \in 1..Len(s) : again[i] = ShapeRead(Written(s[i]), i)
  BY <1>2, ReadBack
<1>4. \A i \in 1..Len(s) : s[i] \in DrawnShape /\ i \in Nat
  OBVIOUS
<1>5. \A i \in 1..Len(s) : /\ DrawnAlike(again[i], s[i])
                            /\ ShapeRead(Written(again[i]), i) = again[i]
                            /\ LeftOf(again[i]) % 10 = 0 /\ RightOf(again[i]) % 10 = 0
  BY <1>3, <1>4, AlikeAgain, StaysAgain, SidesRounded
<1>6. PICK box \in Boxes : box = boundsFromShapes(again)
  BY <1>3, BoundsHold
<1>7. \A i \in DOMAIN again : box.x < LeftOf(again[i]) /\ RightOf(again[i]) < box.x + box.w
  BY <1>3, <1>6, BoundsHold
<1>8. svgNum(box.x) = box.x /\ svgNum(box.w) = box.w
  BY <1>3, <1>5, <1>6, BoundsRounded
<1>9. MarkupNow(ed) = shapesToMarkup(s)
  BY <1>1 DEF MarkupNow
<1>10. boundsFromMarkup(shapesToMarkup(s)) = [x |-> box.x, w |-> box.w]
  BY <1>2, <1>6, <1>8 DEF boundsFromMarkup
<1>11. /\ Payload(ed).markup = shapesToMarkup(s)
       /\ Payload(ed).box.x = box.x /\ Payload(ed).box.w = box.w
  BY <1>9, <1>10 DEF Payload
<1>12. markupToShapes(Payload(ed).markup) = again
  BY <1>2, <1>11
<1>. QED
  BY <1>1, <1>3, <1>5, <1>7, <1>11, <1>12 DEF SavedAsDrawn

-----------------------------------------------------------------------------
(***************************************************************************)
(* The pages: what they hold                                               *)
(***************************************************************************)

\* The calls under way, with what they know of the floors made.
CallsOK(cs, floors) ==
    /\ cs \in [Slots -> Requests \cup {Idle}]
    /\ \A i \in Slots : cs[i] # Idle => NewKnown(cs[i], floors)

\* The invariant, part by part.
Parts ==
    /\ server \in Tables /\ listed \in Tables
    /\ logged \in BOOLEAN /\ tab \in {"layout", "buildings", "components"}
    /\ building \in Buildings /\ form \in Forms /\ saving \in BOOLEAN
    /\ CallsOK(calls, made) /\ made \in SUBSET Floors /\ adrift \in BOOLEAN
    /\ begun \in Nat /\ touches \in Nat /\ EditorOK(ed) /\ SelectedListed

\* The fields of stored tables.
LEMMA TablesAre ==
    ASSUME NEW t \in Tables
    PROVE  /\ t.offices \in SUBSET Offices /\ t.floors \in SUBSET Floors
           /\ t.home \in [Floors -> Offices \cup {None}] /\ t.comps \in [Ids -> Components]
BY DEF Tables

\* The parts make the invariant.
LEMMA PartsAre == ShellInvariant <=> Parts
<1>1. ShellInvariant => Parts
  BY DEF ShellInvariant, ShellTypeOK, Parts, CallsOK, Calling
<1>2. ASSUME Parts PROVE ShellInvariant
  <2>1. selected \in Floors \cup {None}
    <3>1. listed.floors \in SUBSET Floors /\ made \in SUBSET Floors
      BY <1>2, TablesAre DEF Parts
    <3>. QED
      BY <1>2, <3>1 DEF Parts, SelectedListed
  <2>. QED
    BY <1>2, <2>1 DEF ShellInvariant, ShellTypeOK, Parts, CallsOK, Calling
<1>. QED
  BY <1>1, <1>2

\* Floors and offices are numbers, and none of them is None.
LEMMA FloorsAre ==
    /\ Floors \subseteq Nat \ {0} /\ Offices \subseteq Nat \ {0} /\ None = 0
    /\ Floors \subseteq Int /\ Offices \subseteq Int /\ None \in Int
BY ShellAssumption DEF Floors, Offices, None

\* No component, one of the system, and none of anything are what can be stored.
LEMMA NothingTyped ==
    NoComponent \in Components /\ BuiltinComponent \in Components /\ Nothing \in Tables
<1>1. PICK m \in Seq(Elements) : m = << >>
  <2>1. << >> \in Seq(Elements)
    OBVIOUS
  <2>. QED
    BY <2>1
<1>2. PICK box \in Boxes : box = NoBox
  <2>1. NoBox \in Boxes
    BY DEF NoBox, Boxes, Px
  <2>. QED
    BY <2>1
<1>3. NoComponent \in Components
  <2>1. NoComponent = [markup |-> m, box |-> box, w |-> 0]
    BY <1>1, <1>2 DEF NoComponent
  <2>. QED
    BY <1>1, <1>2, <2>1 DEF Components
<1>4. BuiltinComponent \in Components
  <2>1. PICK e : e = [kind |-> "path"]
    OBVIOUS
  <2>2. e \in Elements
    BY <2>1 DEF Elements
  <2>3. PICK p : p = <<e>>
    OBVIOUS
  <2>4. p \in Seq(Elements)
    BY <2>2, <2>3
  <2>5. BuiltinComponent = [markup |-> p, box |-> box, w |-> 10000]
    BY <1>2, <2>1, <2>3 DEF BuiltinComponent, Px
  <2>. QED
    BY <1>2, <2>4, <2>5 DEF Components
<1>5. Nothing \in Tables
  BY <1>3, FloorsAre DEF Nothing, Tables
<1>. QED
  BY <1>3, <1>4, <1>5

\* An editor without a form.
LEMMA ClosedOK == EditorOK(Closed) /\ Closed.picked = 0
<1>1. << >> \in Seq(Elements)
  OBVIOUS
<1>2. NoBox \in Boxes
  BY DEF NoBox, Boxes, Px
<1>. QED
  BY <1>1, <1>2, OpenedOK DEF Closed

\* What a save sends can be stored.
LEMMA PayloadTyped ==
    ASSUME NEW e, EditorOK(e)
    PROVE  Payload(e) \in Components
<1>1. /\ e.shapes \in Seq(DrawnShape) /\ e.code \in Seq(Elements) /\ e.box \in Boxes
  BY EditorIs
<1>2. MarkupNow(e) \in Seq(Elements)
  BY <1>1, MarkupWritten DEF MarkupNow
<1>3. boundsFromMarkup(MarkupNow(e)) \in Boxes
  <2>1. PICK b \in Boxes : b = boundsFromShapes(markupToShapes(MarkupNow(e)))
    BY <1>2, ShapesRead, BoundsHold
  <2>2. svgNum(b.x) \in Int /\ svgNum(b.w) \in Int
    BY Rounds DEF Boxes
  <2>3. [x |-> svgNum(b.x), w |-> svgNum(b.w)] \in Boxes
    BY <2>2 DEF Boxes
  <2>. QED
    BY <2>1, <2>3 DEF boundsFromMarkup
<1>4. e.box.w \in Int
  BY <1>1 DEF Boxes
<1>. QED
  BY <1>2, <1>3, <1>4 DEF Payload, Components

\* A component is opened in order.
LEMMA ComponentOpens ==
    ASSUME listed \in Tables, NEW c \in Ids
    PROVE  LET e == Opened(Component(c).markup, [Component(c).box EXCEPT !.w = Component(c).w]) IN
           EditorOK(e) /\ e.picked = 0
<1>1. PICK x \in Components : x = Component(c)
  <2>1. listed.comps \in [Ids -> Components]
    BY TablesAre
  <2>. QED
    BY <2>1, NothingTyped DEF Component
<1>2. x.markup \in Seq(Elements) /\ x.box \in Boxes /\ x.w \in Int
  BY DEF Components
<1>3. [x.box EXCEPT !.w = x.w] \in Boxes
  BY <1>2 DEF Boxes
<1>. QED
  BY <1>1, <1>2, <1>3, OpenedOK

-----------------------------------------------------------------------------
(***************************************************************************)
(* Calls                                                                   *)
(***************************************************************************)

Requested == {"office", "floor", "rename office", "rename floor", "delete office", "delete floor",
              "lists", "put", "post", "delete component"}

\* The fields of a call.
LEMMA RequestIs ==
    ASSUME NEW c \in Requests
    PROVE  /\ c.at \in Requested /\ c.arg \in Int /\ c.comp \in Components
           /\ c.id \in Ids \cup {"none"} /\ c.system \in BOOLEAN /\ c.first \in BOOLEAN
           /\ c.sel \in Floors \cup {None} /\ c.floors \in SUBSET Floors
           /\ c.new \in Floors \cup {None} /\ c.got \in {"sent", "ok", "failed", "expired"}
           /\ c.data \in Tables /\ c.mine \in BOOLEAN
BY DEF Requests, Requested

\* A call that begins.
LEMMA CallIs ==
    ASSUME NEW at \in Requested, NEW arg \in Int
    PROVE  /\ Call(at, arg) \in Requests /\ Call(at, arg).at = at /\ Call(at, arg).new = None
           /\ Call(at, arg).got = "sent"
<1>1. PICK comp, data, none : comp = NoComponent /\ data = Nothing /\ none = None
  OBVIOUS
<1>2. comp \in Components /\ data \in Tables
  BY <1>1, NothingTyped
<1>3. PICK c : c = [at |-> at, arg |-> arg, comp |-> comp, id |-> "none", system |-> FALSE,
                    first |-> FALSE, sel |-> none, floors |-> {}, new |-> none, got |-> "sent",
                    data |-> data, mine |-> TRUE]
  OBVIOUS
<1>4. c \in Requests
  BY <1>1, <1>2, <1>3 DEF Requests, Requested
<1>5. Call(at, arg) = c
  BY <1>1, <1>3 DEF Call
<1>. QED
  BY <1>1, <1>3, <1>4, <1>5

\* One call goes on or ends, and what was made is not forgotten.
LEMMA CallSet ==
    ASSUME NEW cs, NEW floors, NEW more, CallsOK(cs, floors), floors \subseteq more,
           NEW i \in Slots, NEW c \in Requests \cup {Idle}, c # Idle => NewKnown(c, more)
    PROVE  CallsOK([cs EXCEPT ![i] = c], more)
<1>1. [cs EXCEPT ![i] = c] \in [Slots -> Requests \cup {Idle}]
  BY DEF CallsOK
<1>2. ASSUME NEW j \in Slots, [cs EXCEPT ![i] = c][j] # Idle
      PROVE  NewKnown([cs EXCEPT ![i] = c][j], more)
  <2>1. CASE j = i
    BY <1>2, <2>1 DEF CallsOK
  <2>2. CASE j # i
    <3>1. [cs EXCEPT ![i] = c][j] = cs[j] /\ NewKnown(cs[j], floors)
      BY <1>2, <2>2 DEF CallsOK
    <3>. QED
      BY <3>1 DEF NewKnown
  <2>. QED
    BY <2>1, <2>2
<1>. QED
  BY <1>1, <1>2 DEF CallsOK

\* Calls that lose their page.
LEMMA UnmountedOK ==
    ASSUME NEW cs, NEW floors, CallsOK(cs, floors)
    PROVE  CallsOK(Unmounted(cs), floors)
<1>1. ASSUME NEW c \in Requests
      PROVE  /\ [c EXCEPT !.mine = FALSE] \in Requests
             /\ \A known : NewKnown(c, known) => NewKnown([c EXCEPT !.mine = FALSE], known)
  <2>1. PICK d : d = [c EXCEPT !.mine = FALSE]
    OBVIOUS
  <2>2. d \in Requests /\ d.at = c.at /\ d.new = c.new /\ d.got = c.got
    BY <2>1 DEF Requests
  <2>. QED
    BY <2>1, <2>2 DEF NewKnown
<1>2. PICK us : us = Unmounted(cs)
  OBVIOUS
<1>3. us = [i \in Slots |-> IF cs[i] = Idle THEN Idle ELSE [cs[i] EXCEPT !.mine = FALSE]]
  BY <1>2 DEF Unmounted
<1>4. \A i \in Slots : us[i] \in Requests \cup {Idle} /\ (us[i] # Idle => NewKnown(us[i], floors))
  <2>. SUFFICES ASSUME NEW i \in Slots
                PROVE  us[i] \in Requests \cup {Idle} /\ (us[i] # Idle => NewKnown(us[i], floors))
    OBVIOUS
  <2>1. CASE cs[i] = Idle
    BY <1>3, <2>1
  <2>2. CASE cs[i] # Idle
    <3>1. cs[i] \in Requests /\ NewKnown(cs[i], floors)
      BY <2>2 DEF CallsOK
    <3>2. us[i] = [cs[i] EXCEPT !.mine = FALSE]
      BY <1>3, <2>2
    <3>. QED
      BY <1>1, <3>1, <3>2
  <2>. QED
    BY <2>1, <2>2
<1>5. us \in [Slots -> Requests \cup {Idle}]
  BY <1>3, <1>4
<1>. QED
  BY <1>2, <1>4, <1>5 DEF CallsOK

-----------------------------------------------------------------------------
(***************************************************************************)
(* The pages: their steps                                                  *)
(***************************************************************************)

\* What SelectionKept says of one step.
Kept ==
    selected' # selected =>
        \/ openFloor \/ \E f \in Floors : SelectFloor(f)
        \/ selected \notin listed'.floors
        \/ selected' \in made'
        \/ \E i \in Slots : /\ Calling(i) /\ calls'[i] # calls[i]
                            /\ \/ calls[i].at = "delete floor" /\ calls[i].arg = calls[i].sel
                               \/ calls[i].at = "delete office"
                                  /\ calls[i].sel \in calls[i].floors

\* What is to be shown of a step.
Good == Parts' /\ Kept /\ RestKept

\* An editor that is left alone or that opens.
LEMMA RestOfOthers ==
    ASSUME ed' = ed \/ ed'.picked = 0
    PROVE  RestKept
BY OneKeptRest DEF RestKept, OneKept

\* The page of buildings does something, or nothing.
LEMMA ActTyped ==
    ASSUME building \in Buildings,
           NEW what \in {"none", "create office", "new floor", "office", "floor"}, NEW n \in Nat
    PROVE  [building EXCEPT !.acting = [what |-> what, n |-> n]] \in Buildings
<1>1. PICK a : a = [what |-> what, n |-> n]
  OBVIOUS
<1>2. a \in Activities
  BY <1>1 DEF Activities
<1>3. [building EXCEPT !.acting = a] \in Buildings
  BY <1>2 DEF Buildings
<1>. QED
  BY <1>1, <1>3

\* The page at rest.
LEMMA AtRestTyped == AtRest \in Buildings /\ AtRest.acting = [what |-> "none", n |-> None]
<1>1. PICK a, none : a = [what |-> "none", n |-> none] /\ none = None
  OBVIOUS
<1>2. a \in Activities /\ none \in Nat
  BY <1>1, FloorsAre DEF Activities
<1>3. AtRest = [acting |-> a, office |-> none, floor |-> none]
  BY <1>1 DEF AtRest
<1>. QED
  BY <1>1, <1>2, <1>3 DEF Buildings

\* A call begins, and little else happens.
LEMMA BeginsGood ==
    ASSUME Parts, NEW i \in Slots, NEW c \in Requests, c.new = None, c.got = "sent", Begin(i, c),
           logged' \in BOOLEAN, building' \in Buildings, saving' \in BOOLEAN,
           UNCHANGED <<listed, tab, selected, form, ed, touches>>
    PROVE  Good
<1>1. NewKnown(c, made)
  BY DEF NewKnown
<1>2. CallsOK(calls', made') /\ made' = made /\ adrift' = adrift /\ server' = server
  <2>1. calls' = [calls EXCEPT ![i] = c] /\ made' = made /\ adrift' = adrift /\ server' = server
    BY DEF Begin
  <2>2. CallsOK([calls EXCEPT ![i] = c], made)
    BY <1>1, CallSet DEF Parts
  <2>. QED
    BY <2>1, <2>2
<1>3. begun' \in Nat
  BY DEF Begin, Parts
<1>4. Parts'
  BY <1>2, <1>3 DEF Parts, SelectedListed
<1>. QED
  BY <1>4, RestOfOthers DEF Good, Kept

\* Logging in and loading the lists anew.
LEMMA ListsBegin ==
    ASSUME Parts, NEW i \in Slots, handleLogin(i) \/ refreshAll(i)
    PROVE  Good
<1>1. PICK arg \in Int : Begin(i, Call("lists", arg))
  BY FloorsAre DEF handleLogin, refreshAll, All
<1>2. PICK c \in Requests : c = Call("lists", arg) /\ c.new = None /\ c.got = "sent"
  <2>1. Call("lists", arg) \in Requests /\ Call("lists", arg).new = None
       /\ Call("lists", arg).got = "sent"
    BY CallIs DEF Requested
  <2>. QED
    BY <2>1
<1>3. /\ logged' \in BOOLEAN
      /\ UNCHANGED <<listed, tab, selected, building, form, saving, ed, touches>>
  BY DEF handleLogin, refreshAll, Parts
<1>4. building' \in Buildings /\ saving' \in BOOLEAN
  BY <1>3 DEF Parts
<1>. QED
  BY <1>1, <1>2, <1>3, <1>4, BeginsGood

\* The requests of the page of buildings, with what they take along.
LEMMA BuildingsBegin ==
    ASSUME Parts, NEW i \in Slots,
           \/ createOffice(i) \/ createFloor(i) \/ saveOffice(i) \/ saveFloor(i)
           \/ deleteOffice(i) \/ deleteFloor(i)
    PROVE  Good
<1>1. /\ building \in Buildings /\ listed.offices \in SUBSET Offices
      /\ listed.floors \in SUBSET Floors /\ selected \in Floors \cup {None}
  BY PartsAre, TablesAre DEF Parts, ShellInvariant, ShellTypeOK
<1>2. ASSUME NEW c \in Requests, c.new = None, c.got = "sent", Begin(i, c),
             NEW what \in {"none", "create office", "new floor", "office", "floor"}, NEW n \in Nat,
             Act(what, n), OnlyBuilding
      PROVE  Good
  <2>1. building' \in Buildings
    BY <1>1, <1>2, ActTyped DEF Act
  <2>2. UNCHANGED <<listed, logged, tab, selected, form, saving, ed, touches>>
    BY <1>2 DEF OnlyBuilding
  <2>3. logged' \in BOOLEAN /\ saving' \in BOOLEAN
    BY <2>2 DEF Parts
  <2>. QED
    BY <1>2, <2>1, <2>2, <2>3, BeginsGood
<1>3. CASE createOffice(i)
  <2>1. PICK first \in BOOLEAN : /\ Begin(i, [Call("office", None) EXCEPT !.first = first])
                                 /\ Act("create office", None) /\ OnlyBuilding
    BY <1>3 DEF createOffice
  <2>2. PICK b \in Requests : b = Call("office", None) /\ b.new = None /\ b.got = "sent"
    <3>1. Call("office", None) \in Requests /\ Call("office", None).new = None
         /\ Call("office", None).got = "sent"
      BY FloorsAre, CallIs DEF Requested
    <3>. QED
      BY <3>1
  <2>3. PICK c : c = [b EXCEPT !.first = first]
    OBVIOUS
  <2>4. c \in Requests /\ c.new = None /\ c.got = "sent"
    BY <2>2, <2>3 DEF Requests
  <2>. QED
    BY <1>2, <2>1, <2>2, <2>3, <2>4, FloorsAre
<1>4. CASE createFloor(i)
  <2>1. PICK o \in listed.offices : Act("new floor", o) /\ Begin(i, Call("floor", o)) /\ OnlyBuilding
    BY <1>4 DEF createFloor
  <2>2. o \in Nat /\ o \in Int
    BY <1>1, FloorsAre
  <2>3. Call("floor", o) \in Requests /\ Call("floor", o).new = None /\ Call("floor", o).got = "sent"
    BY <2>2, CallIs DEF Requested
  <2>. QED
    BY <1>2, <2>1, <2>2, <2>3
<1>5. CASE saveOffice(i)
  <2>1. PICK o \in listed.offices : /\ Act("office", o) /\ Begin(i, Call("rename office", o))
                                    /\ OnlyBuilding
    BY <1>5 DEF saveOffice
  <2>2. o \in Nat /\ o \in Int
    BY <1>1, FloorsAre
  <2>3. /\ Call("rename office", o) \in Requests /\ Call("rename office", o).new = None
        /\ Call("rename office", o).got = "sent"
    BY <2>2, CallIs DEF Requested
  <2>. QED
    BY <1>2, <2>1, <2>2, <2>3
<1>6. CASE saveFloor(i)
  <2>1. PICK f \in listed.floors : /\ Act("floor", f) /\ Begin(i, Call("rename floor", f))
                                   /\ OnlyBuilding
    BY <1>6 DEF saveFloor
  <2>2. f \in Nat /\ f \in Int
    BY <1>1, FloorsAre
  <2>3. /\ Call("rename floor", f) \in Requests /\ Call("rename floor", f).new = None
        /\ Call("rename floor", f).got = "sent"
    BY <2>2, CallIs DEF Requested
  <2>. QED
    BY <1>2, <2>1, <2>2, <2>3
<1>7. CASE deleteOffice(i)
  <2>1. PICK o \in listed.offices :
          /\ Act("office", o) /\ OnlyBuilding
          /\ Begin(i, [Call("delete office", o) EXCEPT
                         !.sel = selected, !.floors = {f \in listed.floors : listed.home[f] = o}])
    BY <1>7 DEF deleteOffice
  <2>2. o \in Nat /\ o \in Int
    BY <1>1, FloorsAre
  <2>3. PICK b \in Requests : b = Call("delete office", o) /\ b.new = None /\ b.got = "sent"
    <3>1. Call("delete office", o) \in Requests /\ Call("delete office", o).new = None
         /\ Call("delete office", o).got = "sent"
      BY <2>2, CallIs DEF Requested
    <3>. QED
      BY <3>1
  <2>4. PICK F : F = {f \in listed.floors : listed.home[f] = o}
    OBVIOUS
  <2>5. F \in SUBSET Floors
    BY <1>1, <2>4
  <2>6. PICK c : c = [b EXCEPT !.sel = selected, !.floors = F]
    OBVIOUS
  <2>7. c \in Requests /\ c.new = None /\ c.got = "sent"
    BY <1>1, <2>3, <2>5, <2>6 DEF Requests
  <2>8. Begin(i, c)
    BY <2>1, <2>3, <2>4, <2>6
  <2>. QED
    BY <1>2, <2>1, <2>2, <2>7, <2>8
<1>8. CASE deleteFloor(i)
  <2>1. PICK f \in listed.floors :
          /\ Act("floor", f) /\ OnlyBuilding
          /\ Begin(i, [Call("delete floor", f) EXCEPT !.sel = selected])
    BY <1>8 DEF deleteFloor
  <2>2. f \in Nat /\ f \in Int
    BY <1>1, FloorsAre
  <2>3. PICK b \in Requests : b = Call("delete floor", f) /\ b.new = None /\ b.got = "sent"
    <3>1. Call("delete floor", f) \in Requests /\ Call("delete floor", f).new = None
         /\ Call("delete floor", f).got = "sent"
      BY <2>2, CallIs DEF Requested
    <3>. QED
      BY <3>1
  <2>4. PICK c : c = [b EXCEPT !.sel = selected]
    OBVIOUS
  <2>5. c \in Requests /\ c.new = None /\ c.got = "sent"
    BY <1>1, <2>3, <2>4 DEF Requests
  <2>6. Begin(i, c)
    BY <2>1, <2>3, <2>4
  <2>. QED
    BY <1>2, <2>1, <2>2, <2>5, <2>6
<1>. QED
  BY <1>3, <1>4, <1>5, <1>6, <1>7, <1>8

\* The library saves or deletes a component.
LEMMA LibraryBegins ==
    ASSUME Parts, NEW i \in Slots, handleSave(i) \/ handleDelete(i)
    PROVE  Good
<1>1. ASSUME NEW c \in Requests, c.new = None, c.got = "sent", Begin(i, c),
             saving' = TRUE, OnlyLibrary, UNCHANGED <<form, ed>>
      PROVE  Good
  <2>1. UNCHANGED <<listed, logged, tab, selected, building, form, ed, touches>>
    BY <1>1 DEF OnlyLibrary
  <2>2. logged' \in BOOLEAN /\ building' \in Buildings /\ saving' \in BOOLEAN
    BY <1>1, <2>1 DEF Parts
  <2>. QED
    BY <1>1, <2>1, <2>2, BeginsGood
<1>2. CASE handleSave(i)
  <2>1. PICK c \in Ids :
          Begin(i, [Call(IF form.isNew THEN "post" ELSE "put", None) EXCEPT
                      !.id = c, !.comp = Payload(ed), !.system = form.isSystem])
    BY <1>2 DEF handleSave
  <2>2. saving' = TRUE /\ OnlyLibrary /\ UNCHANGED <<form, ed>>
    BY <1>2 DEF handleSave
  <2>3. PICK at : at = (IF form.isNew THEN "post" ELSE "put") /\ at \in Requested
    BY DEF Requested
  <2>4. PICK b \in Requests : b = Call(at, None) /\ b.new = None /\ b.got = "sent"
    <3>1. Call(at, None) \in Requests /\ Call(at, None).new = None
         /\ Call(at, None).got = "sent"
      BY <2>3, FloorsAre, CallIs
    <3>. QED
      BY <3>1
  <2>5. PICK comp \in Components, sys \in BOOLEAN : comp = Payload(ed) /\ sys = form.isSystem
    <3>1. Payload(ed) \in Components
      BY PayloadTyped DEF Parts
    <3>2. form.isSystem \in BOOLEAN
      <4>1. form \in Forms /\ form # NoForm
        BY <1>2 DEF handleSave, Parts
      <4>. QED
        BY <4>1 DEF Forms
    <3>. QED
      BY <3>1, <3>2
  <2>6. PICK d : d = [b EXCEPT !.id = c, !.comp = comp, !.system = sys]
    OBVIOUS
  <2>7. d \in Requests /\ d.new = None /\ d.got = "sent"
    BY <2>4, <2>6 DEF Requests
  <2>8. Begin(i, d)
    BY <2>1, <2>3, <2>4, <2>5, <2>6
  <2>. QED
    BY <1>1, <2>2, <2>7, <2>8
<1>3. CASE handleDelete(i)
  <2>1. PICK c \in Ids : Begin(i, [Call("delete component", None) EXCEPT !.id = c])
    BY <1>3 DEF handleDelete, Catalogue
  <2>2. saving' = TRUE /\ OnlyLibrary /\ UNCHANGED <<form, ed>>
    BY <1>3 DEF handleDelete
  <2>3. PICK b \in Requests : b = Call("delete component", None) /\ b.new = None /\ b.got = "sent"
    <3>1. Call("delete component", None) \in Requests /\ Call("delete component", None).new = None
         /\ Call("delete component", None).got = "sent"
      BY FloorsAre, CallIs DEF Requested
    <3>. QED
      BY <3>1
  <2>4. PICK d : d = [b EXCEPT !.id = c]
    OBVIOUS
  <2>5. d \in Requests /\ d.new = None /\ d.got = "sent"
    BY <2>3, <2>4 DEF Requests
  <2>. QED
    BY <1>1, <2>1, <2>2, <2>3, <2>4, <2>5
<1>. QED
  BY <1>2, <1>3

\* A call under way.
LEMMA CallingIs ==
    ASSUME Parts, NEW i \in Slots, calls[i] # Idle
    PROVE  calls[i] \in Requests /\ NewKnown(calls[i], made)
BY DEF Parts, CallsOK

\* A call goes on or ends.
LEMMA CallStep ==
    ASSUME Parts, NEW i \in Slots, NEW c \in Requests \cup {Idle}, NEW floors,
           made \subseteq floors, c # Idle => NewKnown(c, floors), calls' = [calls EXCEPT ![i] = c]
    PROVE  CallsOK(calls', floors)
BY CallSet DEF Parts

\* A request is carried out.
LEMMA ExecutesGood ==
    ASSUME Parts, NEW i \in Slots, Executes(i)
    PROVE  Good
<1>. DEFINE c == calls[i]
<1>1. c \in Requests /\ NewKnown(c, made) /\ server \in Tables /\ c.got = "sent"
  BY CallingIs DEF Executes, Parts
<1>2. /\ UNCHANGED <<listed, logged, tab, selected, building, form, saving, ed, touches, begun, made, adrift>>
  BY DEF Executes, clientVars
<1>3. ASSUME server' \in Tables, CallsOK(calls', made)
      PROVE  Good
  <2>1. Parts'
    BY <1>2, <1>3 DEF Parts, SelectedListed
  <2>. QED
    BY <1>2, <2>1, RestOfOthers DEF Good, Kept
<1>4. ASSUME NEW d \in Requests, d.at = c.at,
             d.at = "floor" \/ d.new = c.new, d.at = "floor" => d.new \in Floors,
             Done(i, d)
      PROVE  CallsOK(calls', made)
  <2>1. PICK e : e = [d EXCEPT !.got = "ok"]
    OBVIOUS
  <2>2. e \in Requests /\ e.at = d.at /\ e.new = d.new
    BY <2>1 DEF Requests
  <2>3. NewKnown(e, made)
    BY <1>1, <1>4, <2>2 DEF NewKnown
  <2>4. calls' = [calls EXCEPT ![i] = e]
    BY <1>4, <2>1 DEF Done
  <2>. QED
    BY <2>2, <2>3, <2>4, CallStep
<1>5. /\ server.offices \in SUBSET Offices /\ server.floors \in SUBSET Floors
      /\ server.home \in [Floors -> Offices \cup {None}] /\ server.comps \in [Ids -> Components]
  BY <1>1, TablesAre
<1>6. /\ c.comp \in Components /\ c.arg \in Int /\ c.new \in Floors \cup {None}
  BY <1>1, RequestIs
<1>7. ASSUME c.at = "office",
             NEW o \in Offices \ server.offices,
             server' = [server EXCEPT !.offices = @ \cup {o}], Done(i, [c EXCEPT !.arg = o])
      PROVE  Good
  <2>1. server' \in Tables
    BY <1>1, <1>5, <1>7 DEF Tables
  <2>2. PICK d : d = [c EXCEPT !.arg = o]
    OBVIOUS
  <2>3. d \in Requests /\ d.at = c.at /\ d.new = c.new
    BY <1>1, <1>7, <2>2, FloorsAre DEF Requests
  <2>4. CallsOK(calls', made)
    BY <1>4, <1>7, <2>2, <2>3
  <2>. QED
    BY <1>3, <2>1, <2>4
<1>8. ASSUME c.at = "floor", c.arg \in server.offices, NEW f \in Floors,
             server' = [server EXCEPT !.floors = @ \cup {f}, !.home[f] = c.arg],
             Done(i, [c EXCEPT !.new = f])
      PROVE  Good
  <2>1. PICK home : home = [server.home EXCEPT ![f] = c.arg]
    OBVIOUS
  <2>2. home \in [Floors -> Offices \cup {None}]
    BY <1>5, <1>8, <2>1
  <2>3. server' = [server EXCEPT !.floors = @ \cup {f}, !.home = home]
    BY <1>8, <2>1
  <2>4. server' \in Tables
    BY <1>1, <1>5, <2>2, <2>3 DEF Tables
  <2>5. PICK d : d = [c EXCEPT !.new = f]
    OBVIOUS
  <2>6. d \in Requests /\ d.at = c.at /\ d.new = f
    BY <1>1, <2>5 DEF Requests
  <2>7. CallsOK(calls', made)
    BY <1>4, <1>8, <2>5, <2>6
  <2>. QED
    BY <1>3, <2>4, <2>7
<1>9. ASSUME c.at \notin {"office", "floor", "lists"}, Done(i, c), server' \in Tables
      PROVE  Good
  <2>1. CallsOK(calls', made)
    BY <1>1, <1>4, <1>9
  <2>. QED
    BY <1>3, <1>9, <2>1
<1>10. CASE c.at = "delete floor" /\ server' = [server EXCEPT !.floors = @ \ {c.arg}] /\ Done(i, c)
  <2>1. server' \in Tables
    BY <1>1, <1>5, <1>10 DEF Tables
  <2>. QED
    BY <1>9, <1>10, <2>1
<1>11. CASE /\ c.at = "delete office" /\ Done(i, c)
            /\ server' = [server EXCEPT !.offices = @ \ {c.arg},
                                        !.floors = {f \in @ : server.home[f] # c.arg}]
  <2>1. PICK F : F = {f \in server.floors : server.home[f] # c.arg}
    OBVIOUS
  <2>2. F \in SUBSET Floors
    BY <1>5, <2>1
  <2>3. server' = [server EXCEPT !.offices = @ \ {c.arg}, !.floors = F]
    BY <1>11, <2>1
  <2>4. server' \in Tables
    BY <1>1, <1>5, <2>2, <2>3 DEF Tables
  <2>. QED
    BY <1>9, <1>11, <2>4
<1>12. CASE c.at = "lists" /\ UNCHANGED server /\ Done(i, [c EXCEPT !.data = server])
  <2>1. PICK d : d = [c EXCEPT !.data = server]
    OBVIOUS
  <2>2. d \in Requests /\ d.at = c.at /\ d.new = c.new
    BY <1>1, <2>1 DEF Requests
  <2>3. CallsOK(calls', made)
    BY <1>4, <1>12, <2>1, <2>2
  <2>. QED
    BY <1>1, <1>3, <1>12, <2>3
<1>13. ASSUME NEW x \in Components, server' = [server EXCEPT !.comps[c.id] = x]
       PROVE  server' \in Tables
  <2>1. PICK comps : comps = [server.comps EXCEPT ![c.id] = x]
    OBVIOUS
  <2>2. comps \in [Ids -> Components]
    BY <1>5, <2>1
  <2>3. server' = [server EXCEPT !.comps = comps]
    BY <1>13, <2>1
  <2>. QED
    BY <1>1, <2>2, <2>3 DEF Tables
<1>14. CASE c.at \in {"put", "post"} /\ server' = [server EXCEPT !.comps[c.id] = c.comp] /\ Done(i, c)
  BY <1>6, <1>9, <1>13, <1>14
<1>15. CASE /\ c.at = "delete component" /\ Done(i, c)
            /\ server' = [server EXCEPT !.comps[c.id] = NoComponent]
  BY <1>9, <1>13, <1>15, NothingTyped
<1>16. CASE c.at \in {"rename floor", "rename office"} /\ UNCHANGED server /\ Done(i, c)
  BY <1>1, <1>9, <1>16
<1>. HIDE DEF c
<1>17. \/ \E o \in Offices \ server.offices :
             /\ c.at = "office" /\ server' = [server EXCEPT !.offices = @ \cup {o}]
             /\ Done(i, [c EXCEPT !.arg = o])
       \/ \E f \in Floors :
             /\ c.at = "floor" /\ c.arg \in server.offices
             /\ server' = [server EXCEPT !.floors = @ \cup {f}, !.home[f] = c.arg]
             /\ Done(i, [c EXCEPT !.new = f])
       \/ c.at \in {"rename floor", "rename office"} /\ UNCHANGED server /\ Done(i, c)
       \/ c.at = "delete floor" /\ server' = [server EXCEPT !.floors = @ \ {c.arg}] /\ Done(i, c)
       \/ /\ c.at = "delete office" /\ Done(i, c)
          /\ server' = [server EXCEPT !.offices = @ \ {c.arg},
                                      !.floors = {f \in @ : server.home[f] # c.arg}]
       \/ c.at = "lists" /\ UNCHANGED server /\ Done(i, [c EXCEPT !.data = server])
       \/ c.at \in {"put", "post"} /\ server' = [server EXCEPT !.comps[c.id] = c.comp] /\ Done(i, c)
       \/ /\ c.at = "delete component" /\ Done(i, c)
          /\ server' = [server EXCEPT !.comps[c.id] = NoComponent]
  BY DEF Executes, ServesBuildings, ServesComponents, c
<1>. QED
  BY <1>7, <1>8, <1>10, <1>11, <1>12, <1>14, <1>15, <1>16, <1>17

\* An answer is lost, or the session has expired.
LEMMA FailsGood ==
    ASSUME Parts, NEW i \in Slots, Fails(i)
    PROVE  Good
<1>1. calls[i] \in Requests /\ NewKnown(calls[i], made)
  BY CallingIs DEF Fails
<1>2. UNCHANGED <<server, listed, logged, tab, selected, building, form, saving, ed, touches,
                  begun, made, adrift>>
  BY DEF Fails, clientVars
<1>3. PICK c \in Requests : c = calls[i]
  BY <1>1
<1>4. PICK n \in Tables : n = Nothing
  BY NothingTyped
<1>5. PICK f, x : f = [c EXCEPT !.got = "failed", !.data = n] /\ x = [c EXCEPT !.got = "expired"]
  OBVIOUS
<1>6. f \in Requests /\ f.at = c.at /\ f.new = c.new /\ f.got = "failed"
  BY <1>5 DEF Requests
<1>7. x \in Requests /\ x.at = c.at /\ x.new = c.new /\ x.got = "expired"
  BY <1>5 DEF Requests
<1>8. NewKnown(f, made) /\ NewKnown(x, made)
  BY <1>1, <1>3, <1>6, <1>7 DEF NewKnown
<1>9. calls' = [calls EXCEPT ![i] = f] \/ calls' = [calls EXCEPT ![i] = x]
  <2>1. CASE calls' = [calls EXCEPT ![i].got = "failed", ![i].data = Nothing]
    <3>1. calls \in [Slots -> Requests \cup {Idle}]
      BY DEF Parts, CallsOK
    <3>2. [[calls EXCEPT ![i].got = "failed"] EXCEPT ![i].data = n] = [calls EXCEPT ![i] = f]
      BY <1>3, <1>5, <3>1
    <3>. QED
      BY <1>4, <2>1, <3>2
  <2>2. CASE calls' = [calls EXCEPT ![i].got = "expired"]
    BY <1>3, <1>5, <2>2
  <2>. QED
    BY <2>1, <2>2 DEF Fails
<1>10. CallsOK(calls', made)
  BY <1>6, <1>7, <1>8, <1>9, CallStep
<1>11. Parts'
  BY <1>2, <1>10 DEF Parts, SelectedListed
<1>. QED
  BY <1>2, <1>11, RestOfOthers DEF Good, Kept

\* Another administrator deletes a floor.
LEMMA OtherGood ==
    ASSUME Parts, OtherDeletesFloor
    PROVE  Good
<1>1. UNCHANGED <<listed, logged, tab, selected, building, form, saving, ed, touches, calls, made, adrift>>
  BY DEF OtherDeletesFloor, clientVars
<1>2. PICK f \in server.floors : server' = [server EXCEPT !.floors = @ \ {f}]
  BY DEF OtherDeletesFloor
<1>3. server \in Tables /\ server.floors \in SUBSET Floors
  BY TablesAre DEF Parts
<1>4. server' \in Tables
  BY <1>2, <1>3 DEF Tables
<1>5. begun' \in Nat
  BY DEF OtherDeletesFloor, Parts
<1>6. Parts'
  BY <1>1, <1>4, <1>5 DEF Parts, SelectedListed, CallsOK, NewKnown
<1>. QED
  BY <1>1, <1>6, RestOfOthers DEF Good, Kept

\* Of the floors listed one is the first.
LEMMA RepairedListed ==
    ASSUME NEW floors \in SUBSET Floors
    PROVE  /\ Repaired(selected, floors) \in floors \cup {None}
           /\ Repaired(selected, floors) # selected => selected \notin floors
<1>1. CASE selected \in floors
  BY <1>1 DEF Repaired
<1>2. CASE selected \notin floors /\ floors = {}
  BY <1>2 DEF Repaired
<1>3. CASE selected \notin floors /\ floors # {}
  <2>1. floors \in SUBSET Nat
    BY FloorsAre
  <2>2. \E f \in floors : \A g \in floors : f <= g
    BY <1>3, <2>1, LeastNat
  <2>. QED
    BY <1>3, <2>2 DEF Repaired
<1>. QED
  BY <1>1, <1>2, <1>3

\* A call that ends may free its page.
LEMMA FinishTyped ==
    ASSUME Parts, NEW i \in Slots, Finish(i)
    PROVE  building' \in Buildings /\ CallsOK(calls', made)
<1>1. CallsOK(calls', made)
  BY CallStep DEF Finish
<1>2. AtRest.acting \in Activities
  BY AtRestTyped DEF Buildings
<1>3. building \in Buildings
  BY DEF Parts
<1>4. PICK a \in Activities : a = AtRest.acting
  BY <1>2
<1>5. [building EXCEPT !.acting = a] \in Buildings
  BY <1>3 DEF Buildings
<1>. QED
  BY <1>1, <1>3, <1>4, <1>5 DEF Finish

\* The lists arrive or do not.
LEMMA ListsGood ==
    ASSUME Parts, NEW i \in Slots, loadReferenceData(i)
    PROVE  Good
<1>1. PICK c \in Requests : /\ c = calls[i] /\ NewKnown(c, made) /\ c.at = "lists"
                            /\ c.got \in {"ok", "failed"}
  BY CallingIs DEF loadReferenceData, Calling
<1>2. /\ listed' = (IF c.got = "ok" THEN c.data ELSE listed)
      /\ selected' = (IF c.new # None THEN c.new
                      ELSE IF c.got = "ok" THEN Repaired(selected, c.data.floors) ELSE selected)
      /\ Finish(i)
      /\ adrift' = (IF c.new # None THEN c.new \notin listed'.floors ELSE adrift /\ c.got # "ok")
      /\ UNCHANGED <<server, logged, tab, form, saving, ed, touches, begun, made>>
  BY <1>1 DEF loadReferenceData
<1>3. c.new \in made \cup {None} /\ c.data \in Tables /\ c.data.floors \in SUBSET Floors
  BY <1>1, RequestIs, TablesAre DEF NewKnown
<1>4. listed' \in Tables
  BY <1>2, <1>3 DEF Parts
<1>5. /\ (selected' \in listed'.floors \cup {None} \/ (adrift' /\ selected' \in made))
      /\ adrift' \in BOOLEAN
  <2>0. adrift \in BOOLEAN
    BY DEF Parts
  <2>1. CASE c.new # None
    <3>1. selected' = c.new /\ adrift' = (c.new \notin listed'.floors)
      BY <1>2, <2>1
    <3>. QED
      BY <1>3, <2>1, <3>1
  <2>2. CASE c.new = None /\ c.got = "ok"
    <3>1. adrift' = FALSE
      BY <1>2, <2>0, <2>2
    <3>2. selected' \in listed'.floors \cup {None}
      BY <1>2, <1>3, <2>2, RepairedListed
    <3>. QED
      BY <3>1, <3>2
  <2>3. CASE c.new = None /\ c.got # "ok"
    <3>1. adrift' = adrift
      BY <1>2, <2>0, <2>3
    <3>. QED
      BY <1>2, <2>0, <2>3, <3>1 DEF Parts, SelectedListed
  <2>. QED
    BY <2>1, <2>2, <2>3
<1>6. building' \in Buildings /\ CallsOK(calls', made)
  BY <1>2, FinishTyped
<1>7. Parts'
  BY <1>2, <1>4, <1>5, <1>6 DEF Parts, SelectedListed
<1>8. selected' # selected => selected \notin listed'.floors \/ selected' \in made'
  <2>1. CASE c.new # None
    BY <1>2, <1>3, <2>1
  <2>2. CASE c.new = None /\ c.got = "ok"
    BY <1>2, <1>3, <2>2, RepairedListed
  <2>3. CASE c.new = None /\ c.got # "ok"
    BY <1>2, <2>3
  <2>. QED
    BY <2>1, <2>2, <2>3
<1>9. Kept
  BY <1>8 DEF Kept
<1>. QED
  BY <1>2, <1>7, <1>9, RestOfOthers DEF Good

\* The pages close.
LEMMA ClosePagesTyped ==
    ASSUME ClosePages
    PROVE  /\ building' \in Buildings /\ form' \in Forms /\ saving' \in BOOLEAN
           /\ EditorOK(ed') /\ ed'.picked = 0
BY AtRestTyped, ClosedOK DEF ClosePages, Forms

\* The session has expired.
LEMMA ExpiredGood ==
    ASSUME Parts, NEW i \in Slots, Expired(i)
    PROVE  Good
<1>1. PICK c \in Requests : c = calls[i] /\ NewKnown(c, made)
  BY CallingIs DEF Expired, Calling
<1>2. /\ logged' = FALSE /\ ClosePages
      /\ calls' = Unmounted([calls EXCEPT ![i] = IF c.at = "put" /\ c.system
                                                 THEN [c EXCEPT !.at = "post"] ELSE Idle])
      /\ selected' = (IF c.at = "lists" /\ c.new # None THEN c.new ELSE selected)
      /\ adrift' = (IF c.at = "lists" /\ c.new # None THEN c.new \notin listed.floors ELSE adrift)
      /\ UNCHANGED <<server, listed, tab, touches, begun, made>>
  BY <1>1 DEF Expired
<1>3. PICK d : d = [c EXCEPT !.at = "post"]
  OBVIOUS
<1>4. d \in Requests /\ d.at = "post" /\ d.new = c.new
  BY <1>3 DEF Requests
<1>5. c.at = "put" => NewKnown(d, made)
  BY <1>1, <1>4 DEF NewKnown
<1>6. PICK e : e = IF c.at = "put" /\ c.system THEN d ELSE Idle
  OBVIOUS
<1>7. e \in Requests \cup {Idle} /\ (e # Idle => NewKnown(e, made))
  BY <1>4, <1>5, <1>6
<1>8. CallsOK([calls EXCEPT ![i] = e], made)
  BY <1>7, CallSet DEF Parts
<1>9. calls' = Unmounted([calls EXCEPT ![i] = e])
  BY <1>2, <1>3, <1>6
<1>10. CallsOK(calls', made)
  BY <1>8, <1>9, UnmountedOK
<1>11. c.at = "lists" /\ c.new # None => c.new \in made
  BY <1>1 DEF NewKnown
<1>12. /\ (selected' \in listed.floors \cup {None} \/ (adrift' /\ selected' \in made))
       /\ adrift' \in BOOLEAN
  <2>1. CASE c.at = "lists" /\ c.new # None
    <3>1. selected' = c.new /\ adrift' = (c.new \notin listed.floors)
      BY <1>2, <2>1
    <3>. QED
      BY <1>11, <2>1, <3>1
  <2>2. CASE ~(c.at = "lists" /\ c.new # None)
    <3>1. selected' = selected /\ adrift' = adrift
      BY <1>2, <2>2
    <3>. QED
      BY <3>1 DEF Parts, SelectedListed
  <2>. QED
    BY <2>1, <2>2
<1>13. logged' \in BOOLEAN
  BY <1>2
<1>14. Parts'
  BY <1>2, <1>10, <1>12, <1>13, ClosePagesTyped DEF Parts, SelectedListed
<1>15. Kept
  BY <1>2, <1>11 DEF Kept
<1>. QED
  BY <1>2, <1>14, <1>15, ClosePagesTyped, RestOfOthers DEF Good

\* Logging out, going to another tab, opening a floor.
LEMMA LeavingGood ==
    ASSUME Parts, handleLogout \/ openFloor \/ \E t \in {"layout", "buildings", "components"} : PickTab(t)
    PROVE  Good
<1>1. /\ ClosePages /\ calls' = Unmounted(calls)
      /\ UNCHANGED <<server, listed, touches, begun, made>>
  BY DEF handleLogout, openFloor, PickTab
<1>2. logged' \in BOOLEAN /\ tab' \in {"layout", "buildings", "components"}
  BY DEF handleLogout, openFloor, PickTab, Parts
<1>3. CallsOK(calls', made)
  BY <1>1, UnmountedOK DEF Parts
<1>4. \/ (selected' = selected /\ adrift' = adrift)
      \/ (openFloor /\ selected' \in listed.floors /\ adrift' = FALSE)
  BY DEF handleLogout, openFloor, PickTab
<1>5. SelectedListed' /\ adrift' \in BOOLEAN
  <2>1. CASE selected' = selected /\ adrift' = adrift
    BY <1>1, <2>1 DEF Parts, SelectedListed
  <2>2. CASE openFloor /\ selected' \in listed.floors /\ adrift' = FALSE
    <3>1. selected' \in listed'.floors \cup {None}
      BY <1>1, <2>2
    <3>2. SelectedListed'
      BY <3>1 DEF SelectedListed
    <3>. QED
      BY <2>2, <3>2
  <2>. QED
    BY <1>4, <2>1, <2>2
<1>6. Parts'
  BY <1>1, <1>2, <1>3, <1>5, ClosePagesTyped DEF Parts
<1>7. Kept
  BY <1>4 DEF Kept
<1>. QED
  BY <1>1, <1>6, <1>7, ClosePagesTyped, RestOfOthers DEF Good

\* Another floor is chosen in the plan.
LEMMA SelectFloorGood ==
    ASSUME Parts, NEW f \in Floors, SelectFloor(f)
    PROVE  Good
<1>1. /\ selected' = f /\ f \in listed.floors /\ adrift' = FALSE
      /\ UNCHANGED <<server, listed, logged, tab, building, form, saving, ed, touches, calls,
                     begun, made>>
  BY DEF SelectFloor
<1>2. CallsOK(calls', made')
  BY <1>1 DEF Parts
<1>3. SelectedListed' /\ adrift' \in BOOLEAN
  <2>1. selected' \in listed'.floors \cup {None}
    BY <1>1
  <2>2. SelectedListed'
    BY <2>1 DEF SelectedListed
  <2>. QED
    BY <1>1, <2>2
<1>4. Parts'
  BY <1>1, <1>2, <1>3 DEF Parts
<1>. QED
  BY <1>1, <1>4, RestOfOthers DEF Good, Kept

-----------------------------------------------------------------------------
(***************************************************************************)
(* The pages: answers                                                      *)
(***************************************************************************)

\* On to the lists with the floor that was made.
LEMMA RefreshOK ==
    ASSUME Parts, NEW i \in Slots, NEW c \in Requests, NEW floors, made \subseteq floors,
           c.new \in floors \cup {None}, Refresh(i, c)
    PROVE  /\ CallsOK(calls', floors)
           /\ calls[i] # Idle /\ calls[i].at # "lists" => calls'[i] # calls[i]
<1>1. Call("lists", None) \in Requests /\ Call("lists", None).at = "lists"
      /\ Call("lists", None).got = "sent"
  BY FloorsAre, CallIs DEF Requested
<1>2. PICK b \in Requests : b = Call("lists", None) /\ b.at = "lists" /\ b.got = "sent"
  BY <1>1
<1>3. PICK d : d = [b EXCEPT !.new = c.new, !.mine = c.mine]
  OBVIOUS
<1>4. d \in Requests /\ d.at = "lists" /\ d.new = c.new
  BY <1>2, <1>3, RequestIs DEF Requests
<1>5. NewKnown(d, floors)
  BY <1>4 DEF NewKnown
<1>6. PICK e : e = IF logged THEN d ELSE Idle
  OBVIOUS
<1>7. e \in Requests \cup {Idle} /\ (e # Idle => NewKnown(e, floors) /\ e.at = "lists")
  BY <1>4, <1>5, <1>6
<1>8. calls' = [calls EXCEPT ![i] = e]
  BY <1>2, <1>3, <1>6 DEF Refresh
<1>9. CallsOK(calls', floors)
  BY <1>7, <1>8, CallStep
<1>10. calls \in [Slots -> Requests \cup {Idle}]
  BY DEF Parts, CallsOK
<1>11. calls'[i] = e
  BY <1>8, <1>10
<1>. QED
  BY <1>7, <1>9, <1>11

\* What a call that was answered was, and what is left alone.
LEMMA AnsweredIs ==
    ASSUME Parts, NEW i \in Slots, NEW ats, Answered(i, ats), OnlyAnswered
    PROVE  /\ calls[i] # Idle /\ calls[i] \in Requests /\ NewKnown(calls[i], made)
           /\ calls[i].got = "ok" /\ calls[i].at \in ats
           /\ UNCHANGED <<server, listed, logged, tab, form, saving, ed, touches, begun>>
BY CallingIs DEF Answered, Calling, OnlyAnswered

\* A building was made: its floor comes next, or the lists.
LEMMA OfficeMadeGood ==
    ASSUME Parts, NEW i \in Slots, OfficeMade(i)
    PROVE  Good
<1>1. PICK c \in Requests : /\ c = calls[i] /\ NewKnown(c, made) /\ c.at = "office"
                            /\ UNCHANGED <<server, listed, logged, tab, form, saving, ed, touches, begun>>
  BY AnsweredIs DEF OfficeMade
<1>2. UNCHANGED <<selected, building, made, adrift>>
  BY DEF OfficeMade
<1>3. c.new = None
  BY <1>1 DEF NewKnown
<1>4. CallsOK(calls', made)
  <2>1. CASE calls' = [calls EXCEPT ![i] = Then(c, "floor")]
    <3>1. PICK got \in {"sent", "expired"} : got = IF logged THEN "sent" ELSE "expired"
      OBVIOUS
    <3>2. PICK d : d = [c EXCEPT !.at = "floor", !.got = got]
      OBVIOUS
    <3>3. d \in Requests /\ d.at = "floor" /\ d.got = got
      BY <3>2 DEF Requests
    <3>4. NewKnown(d, made)
      BY <3>1, <3>3 DEF NewKnown
    <3>5. calls' = [calls EXCEPT ![i] = d]
      BY <2>1, <3>1, <3>2 DEF Then
    <3>. QED
      BY <3>3, <3>4, <3>5, CallStep
  <2>2. CASE Refresh(i, c)
    BY <1>3, <2>2, RefreshOK
  <2>. QED
    BY <1>1, <2>1, <2>2 DEF OfficeMade
<1>5. Parts'
  BY <1>1, <1>2, <1>4 DEF Parts, SelectedListed
<1>. QED
  BY <1>1, <1>2, <1>5, RestOfOthers DEF Good, Kept

\* A floor was made.
LEMMA FloorMadeGood ==
    ASSUME Parts, NEW i \in Slots, FloorMade(i)
    PROVE  Good
<1>1. PICK c \in Requests : /\ c = calls[i] /\ NewKnown(c, made) /\ c.at = "floor" /\ c.got = "ok"
                            /\ UNCHANGED <<server, listed, logged, tab, form, saving, ed, touches, begun>>
  BY AnsweredIs DEF FloorMade
<1>2. /\ made' = made \cup {c.new} /\ Refresh(i, c)
      /\ selected' = (IF logged THEN selected ELSE c.new) /\ building' = building
      /\ adrift' = (IF logged THEN adrift ELSE c.new \notin listed.floors)
  BY <1>1 DEF FloorMade
<1>3. c.new \in Floors
  BY <1>1 DEF NewKnown
<1>4. made' \in SUBSET Floors /\ made \subseteq made' /\ c.new \in made'
  BY <1>2, <1>3 DEF Parts
<1>5. CallsOK(calls', made')
  BY <1>2, <1>4, RefreshOK
<1>6. SelectedListed' /\ adrift' \in BOOLEAN
  <2>1. CASE logged
    <3>1. selected' = selected /\ adrift' = adrift
      BY <1>2, <2>1
    <3>. QED
      BY <1>1, <1>4, <3>1 DEF Parts, SelectedListed
  <2>2. CASE ~logged
    <3>1. selected' = c.new /\ adrift' = (c.new \notin listed.floors)
      BY <1>2, <2>2
    <3>. QED
      BY <1>1, <1>4, <3>1 DEF SelectedListed
  <2>. QED
    BY <2>1, <2>2
<1>7. Parts'
  BY <1>1, <1>2, <1>4, <1>5, <1>6 DEF Parts
<1>8. Kept
  BY <1>2, <1>4 DEF Kept
<1>. QED
  BY <1>1, <1>7, <1>8, RestOfOthers DEF Good

\* A name was changed.
LEMMA RenamedGood ==
    ASSUME Parts, NEW i \in Slots, Renamed(i)
    PROVE  Good
<1>1. PICK c \in Requests : /\ c = calls[i] /\ NewKnown(c, made)
                            /\ c.at \in {"rename floor", "rename office"}
                            /\ UNCHANGED <<server, listed, logged, tab, form, saving, ed, touches, begun>>
  BY AnsweredIs DEF Renamed
<1>2. /\ Refresh(i, c) /\ UNCHANGED <<selected, made, adrift>>
      /\ \/ building' = building
         \/ building' = [building EXCEPT !.floor = None]
         \/ building' = [building EXCEPT !.office = None]
  BY <1>1 DEF Renamed
<1>3. c.new = None
  BY <1>1 DEF NewKnown
<1>4. CallsOK(calls', made)
  BY <1>2, <1>3, RefreshOK
<1>5. building' \in Buildings
  <2>1. building \in Buildings
    BY DEF Parts
  <2>. QED
    BY <1>2, <2>1 DEF Buildings
<1>6. Parts'
  BY <1>1, <1>2, <1>4, <1>5 DEF Parts, SelectedListed
<1>. QED
  BY <1>1, <1>2, <1>6, RestOfOthers DEF Good, Kept

\* A floor or a building was deleted.
LEMMA DeletedGood ==
    ASSUME Parts, NEW i \in Slots, Deleted(i)
    PROVE  Good
<1>1. PICK c \in Requests : /\ c = calls[i] /\ NewKnown(c, made) /\ calls[i] # Idle
                            /\ c.at \in {"delete floor", "delete office"}
                            /\ UNCHANGED <<server, listed, logged, tab, form, saving, ed, touches, begun>>
  BY AnsweredIs DEF Deleted
<1>2. /\ Refresh(i, c) /\ UNCHANGED <<building, made>>
      /\ selected' = (IF ClearsSelection(c) THEN None ELSE selected)
      /\ adrift' = (adrift /\ ~ClearsSelection(c))
  BY <1>1 DEF Deleted
<1>3. c.new = None
  BY <1>1 DEF NewKnown
<1>4. CallsOK(calls', made) /\ calls'[i] # calls[i]
  BY <1>1, <1>2, <1>3, RefreshOK
<1>5. SelectedListed' /\ adrift' \in BOOLEAN
  <2>1. adrift \in BOOLEAN
    BY DEF Parts
  <2>2. CASE ClearsSelection(c)
    <3>1. selected' = None /\ adrift' = FALSE
      BY <1>2, <2>1, <2>2
    <3>2. selected' \in listed'.floors \cup {None}
      BY <3>1
    <3>3. SelectedListed'
      BY <3>2 DEF SelectedListed
    <3>. QED
      BY <3>1, <3>3
  <2>3. CASE ~ClearsSelection(c)
    <3>1. selected' = selected /\ adrift' = adrift
      BY <1>2, <2>1, <2>3
    <3>. QED
      BY <1>1, <1>2, <2>1, <3>1 DEF Parts, SelectedListed
  <2>. QED
    BY <2>2, <2>3
<1>6. Parts'
  BY <1>1, <1>2, <1>4, <1>5 DEF Parts
<1>7. Kept
  BY <1>1, <1>2, <1>4 DEF Kept, ClearsSelection, Calling
<1>. QED
  BY <1>1, <1>6, <1>7, RestOfOthers DEF Good

\* A request of the page of buildings was refused.
LEMMA RefusedGood ==
    ASSUME Parts, NEW i \in Slots, BuildingRefused(i)
    PROVE  Good
<1>1. /\ Finish(i)
      /\ UNCHANGED <<server, listed, logged, tab, selected, form, saving, ed, touches, begun, made, adrift>>
  BY DEF BuildingRefused
<1>2. building' \in Buildings /\ CallsOK(calls', made)
  BY <1>1, FinishTyped
<1>3. Parts'
  BY <1>1, <1>2 DEF Parts, SelectedListed
<1>. QED
  BY <1>1, <1>3, RestOfOthers DEF Good, Kept

\* A form of the page of buildings is opened or closed.
LEMMA BuildingFormsGood ==
    ASSUME Parts, startEdit \/ cancelEdit
    PROVE  Good
<1>1. UNCHANGED <<server, listed, logged, tab, selected, form, saving, ed, touches, calls, begun, made, adrift>>
  BY DEF startEdit, cancelEdit, OnlyBuilding
<1>2. building \in Buildings /\ listed.offices \in SUBSET Offices /\ listed.floors \in SUBSET Floors
  BY TablesAre DEF Parts
<1>3. PICK o \in Offices \cup {None}, f \in Floors \cup {None} :
        building' = [building EXCEPT !.office = o] \/ building' = [building EXCEPT !.floor = f]
  BY <1>2 DEF startEdit, cancelEdit
<1>4. building' \in Buildings
  BY <1>2, <1>3 DEF Buildings
<1>5. CallsOK(calls', made')
  BY <1>1 DEF Parts
<1>6. Parts'
  BY <1>1, <1>4, <1>5 DEF Parts, SelectedListed
<1>. QED
  BY <1>1, <1>6, RestOfOthers DEF Good, Kept

\* The editor of a component is opened, used or closed.
LEMMA EditorGood ==
    ASSUME Parts, openCreate \/ (\E c \in Ids : openEdit(c)) \/ closeEditor \/ Editing
    PROVE  Good
<1>1. /\ UNCHANGED <<server, listed, logged, tab, selected, building, saving, calls, begun, made, adrift>>
  BY DEF openCreate, openEdit, closeEditor, Editing, OnlyLibrary
<1>2. touches' \in Nat
  <2>1. CASE Editing
    <3>1. touches' = touches + 1
      BY <2>1 DEF Editing, EditStep, SwitchMode, EditCode, SelectTool, PressHandle, Pick, BeginShape,
         MouseMove, MouseUp, deleteSelected, bringToFront, sendToBack, onFillChange, onStrokeChange,
         onBorderRadiusChange, Restyle, applyShapePropsField, EscapePick, TypeSize, Touch
    <3>. QED
      BY <3>1 DEF Parts
  <2>2. CASE openCreate \/ (\E c \in Ids : openEdit(c)) \/ closeEditor
    <3>1. touches' = touches
      BY <2>2 DEF openCreate, openEdit, closeEditor, OnlyLibrary
    <3>. QED
      BY <3>1 DEF Parts
  <2>. QED
    BY <2>1, <2>2
<1>3. EditorOK(ed') /\ RestKept
  <2>1. CASE Editing
    BY <2>1, EditStepOK DEF Editing, Parts
  <2>2. CASE openCreate \/ closeEditor
    BY <2>2, ClosedOK, RestOfOthers DEF openCreate, closeEditor
  <2>3. CASE \E c \in Ids : openEdit(c)
    BY <2>3, ComponentOpens, RestOfOthers DEF openEdit, Parts
  <2>. QED
    BY <2>1, <2>2, <2>3
<1>4. form' \in Forms
  <2>1. CASE openCreate
    <3>1. form' = [id |-> "none", isNew |-> TRUE, isSystem |-> FALSE]
      BY <2>1 DEF openCreate
    <3>. QED
      BY <3>1 DEF Forms
  <2>2. CASE \E c \in Ids : openEdit(c)
    <3>1. PICK c \in Ids : form' = [id |-> c, isNew |-> FALSE, isSystem |-> IsSystem(c)]
      BY <2>2 DEF openEdit
    <3>2. PICK b \in BOOLEAN : b = IsSystem(c)
      BY DEF IsSystem
    <3>3. form' = [id |-> c, isNew |-> FALSE, isSystem |-> b]
      BY <3>1, <3>2
    <3>. QED
      BY <3>3 DEF Forms
  <2>3. CASE closeEditor \/ Editing
    BY <2>3 DEF closeEditor, Editing, Forms, Parts
  <2>. QED
    BY <2>1, <2>2, <2>3
<1>5. CallsOK(calls', made')
  BY <1>1 DEF Parts
<1>6. Parts'
  BY <1>1, <1>2, <1>3, <1>4, <1>5 DEF Parts, SelectedListed
<1>. QED
  BY <1>1, <1>3, <1>6 DEF Good, Kept

\* A component was saved or deleted, or could not be.
LEMMA ComponentGood ==
    ASSUME Parts, NEW i \in Slots, ComponentAnswered(i) \/ ComponentRefused(i)
    PROVE  Good
<1>1. PICK c \in Requests : /\ c = calls[i] /\ NewKnown(c, made)
                            /\ c.at \in {"put", "post", "delete component"}
  BY CallingIs DEF ComponentAnswered, ComponentRefused, Calling
<1>2. c.new = None
  BY <1>1 DEF NewKnown
<1>3. UNCHANGED <<server, listed, logged, tab, selected, building, touches, begun, made, adrift>>
  BY DEF ComponentAnswered, ComponentRefused
<1>4. CallsOK(calls', made)
  <2>1. CASE ComponentAnswered(i)
    <3>1. PICK d : d = [c EXCEPT !.mine = FALSE]
      OBVIOUS
    <3>2. d \in Requests /\ d.new = None
      BY <1>2, <3>1 DEF Requests
    <3>3. Refresh(i, d)
      BY <1>1, <2>1, <3>1 DEF ComponentAnswered
    <3>. QED
      BY <3>2, <3>3, RefreshOK
  <2>2. CASE ComponentRefused(i) /\ calls' = [calls EXCEPT ![i] = Then(c, "post")]
    <3>1. PICK got \in {"sent", "expired"} : got = IF logged THEN "sent" ELSE "expired"
      OBVIOUS
    <3>2. PICK d : d = [c EXCEPT !.at = "post", !.got = got]
      OBVIOUS
    <3>3. d \in Requests /\ d.at = "post" /\ d.new = None
      BY <1>2, <3>2 DEF Requests
    <3>4. NewKnown(d, made)
      BY <3>3 DEF NewKnown
    <3>5. calls' = [calls EXCEPT ![i] = d]
      BY <2>2, <3>1, <3>2 DEF Then
    <3>. QED
      BY <3>3, <3>4, <3>5, CallStep
  <2>3. CASE calls' = [calls EXCEPT ![i] = Idle]
    BY <2>3, CallStep
  <2>. QED
    BY <1>1, <2>1, <2>2, <2>3 DEF ComponentRefused
<1>5. saving' \in BOOLEAN
  BY DEF ComponentAnswered, ComponentRefused, Parts
<1>6. (form' = form /\ ed' = ed) \/ (form' = NoForm /\ ed' = Closed)
  BY DEF ComponentAnswered, ComponentRefused
<1>7. form' \in Forms /\ EditorOK(ed') /\ (ed' = ed \/ ed'.picked = 0)
  BY <1>6, ClosedOK DEF Forms, Parts
<1>8. Parts'
  BY <1>3, <1>4, <1>5, <1>7 DEF Parts, SelectedListed
<1>. QED
  BY <1>3, <1>7, <1>8, RestOfOthers DEF Good, Kept

-----------------------------------------------------------------------------
(***************************************************************************)
(* The theorems                                                            *)
(***************************************************************************)

\* Every step of the pages and of the editor.
LEMMA EveryStep ==
    ASSUME Parts, Next
    PROVE  Good
BY ExecutesGood, FailsGood, ExpiredGood, ListsBegin, ListsGood, BuildingsBegin, OfficeMadeGood,
   FloorMadeGood, RenamedGood, DeletedGood, RefusedGood, LibraryBegins, ComponentGood, LeavingGood,
   OtherGood, SelectFloorGood, BuildingFormsGood, EditorGood DEF Next

\* Where nothing happens, nothing is lost.
LEMMA Stutters ==
    ASSUME Parts, UNCHANGED shellVars
    PROVE  Good
<1>1. UNCHANGED <<server, listed, logged, tab, selected, building, form, saving, ed, touches, calls,
                  begun, made, adrift>>
  BY DEF shellVars, clientVars
<1>2. CallsOK(calls', made')
  BY <1>1 DEF Parts
<1>3. Parts'
  BY <1>1, <1>2 DEF Parts, SelectedListed
<1>. QED
  BY <1>1, <1>3, RestOfOthers DEF Good, Kept

\* The pages start empty, with the lists on their way or without a token.
LEMMA FirstParts ==
    ASSUME Init
    PROVE  Parts
<1>1. server \in Tables
  <2>1. PICK floors \in SUBSET Floors, stored \in Components :
          server = [offices |-> {1}, floors |-> floors,
                    home |-> [f \in Floors |-> IF f \in floors THEN 1 ELSE None],
                    comps |-> [c \in Ids |-> IF c \in Builtin THEN NoComponent ELSE stored]]
    BY StoredAssumption DEF Init
  <2>2. 1 \in Offices
    BY ShellAssumption DEF Offices
  <2>3. PICK home : home = [f \in Floors |-> IF f \in floors THEN 1 ELSE None]
    OBVIOUS
  <2>4. home \in [Floors -> Offices \cup {None}]
    BY <2>2, <2>3
  <2>5. PICK comps : comps = [c \in Ids |-> IF c \in Builtin THEN NoComponent ELSE stored]
    OBVIOUS
  <2>6. comps \in [Ids -> Components]
    BY <2>5, NothingTyped
  <2>7. server = [offices |-> {1}, floors |-> floors, home |-> home, comps |-> comps]
    BY <2>1, <2>3, <2>5
  <2>. QED
    BY <2>2, <2>4, <2>6, <2>7 DEF Tables
<1>2. CallsOK(calls, made)
  <2>1. PICK c \in Requests : c = Call("lists", None) /\ c.new = None /\ c.got = "sent"
    <3>1. Call("lists", None) \in Requests /\ Call("lists", None).new = None
          /\ Call("lists", None).got = "sent"
      BY FloorsAre, CallIs DEF Requested
    <3>. QED
      BY <3>1
  <2>2. NewKnown(c, made)
    BY <2>1 DEF NewKnown
  <2>3. calls = [i \in Slots |-> IF logged /\ i = 1 THEN c ELSE Idle]
    BY <2>1 DEF Init
  <2>4. calls \in [Slots -> Requests \cup {Idle}]
    BY <2>3
  <2>5. \A i \in Slots : calls[i] = c \/ calls[i] = Idle
    BY <2>3
  <2>. QED
    BY <2>2, <2>4, <2>5 DEF CallsOK
<1>3. listed \in Tables /\ building \in Buildings /\ EditorOK(ed)
  BY NothingTyped, AtRestTyped, ClosedOK DEF Init
<1>4. /\ logged \in BOOLEAN /\ tab \in {"layout", "buildings", "components"} /\ form \in Forms
      /\ saving \in BOOLEAN /\ made \in SUBSET Floors /\ adrift \in BOOLEAN
      /\ begun \in Nat /\ touches \in Nat
  BY DEF Init, Forms
<1>5. SelectedListed
  <2>1. selected = None
    BY DEF Init
  <2>. QED
    BY <2>1 DEF SelectedListed
<1>. QED
  BY <1>1, <1>2, <1>3, <1>4, <1>5 DEF Parts

\* The invariant holds of all there is to it: the types, the editor in order,
\* what calls know of the floors made, and the floor in work.
THEOREM ShellInvariantAlways == Spec => []ShellInvariant
<1>1. Init => ShellInvariant
  BY FirstParts, PartsAre
<1>2. ShellInvariant /\ [Next]_shellVars => ShellInvariant'
  <2>. SUFFICES ASSUME ShellInvariant, [Next]_shellVars PROVE ShellInvariant'
    OBVIOUS
  <2>1. Parts
    BY PartsAre
  <2>2. Parts'
    BY <2>1, EveryStep, Stutters DEF Good
  <2>3. ShellInvariant' <=> Parts'
    BY PartsAre, PTL
  <2>. QED
    BY <2>2, <2>3
<1>. QED
  BY <1>1, <1>2, PTL DEF Spec

\* The floor in work is one of the list on the screen or none (loadReferenceData
\* and its callers), whatever answers, deletions by others and sessions cross; but
\* for one a call made here and selected without it being listed, and that only
\* until lists are loaded again.
THEOREM SelectedAlwaysListed == Spec => []SelectedListed
<1>1. ShellInvariant => SelectedListed
  BY DEF ShellInvariant
<1>. QED
  BY <1>1, ShellInvariantAlways, PTL

\* No answer takes the user away from the floor in work while it is listed, but
\* for the one that was made and the deletion asked for when it was selected.
THEOREM SelectionAlwaysKept == Spec => SelectionKept
<1>1. ShellInvariant /\ [Next]_shellVars =>
        [selected' # selected =>
          \/ openFloor \/ \E f \in Floors : SelectFloor(f)
          \/ selected \notin listed'.floors
          \/ selected' \in made'
          \/ \E i \in Slots : /\ Calling(i) /\ calls'[i] # calls[i]
                              /\ \/ calls[i].at = "delete floor" /\ calls[i].arg = calls[i].sel
                                 \/ calls[i].at = "delete office"
                                    /\ calls[i].sel \in calls[i].floors]_shellVars
  <2>. SUFFICES ASSUME ShellInvariant, [Next]_shellVars PROVE Kept
    BY DEF Kept
  <2>. QED
    BY PartsAre, EveryStep, Stutters DEF Good
<1>. QED
  BY <1>1, ShellInvariantAlways, PTL DEF Spec, SelectionKept

\* Every shape of the editor has an id of its own, below the next one, whatever
\* was drawn, typed as code, reordered and deleted.
THEOREM ShapesAlwaysKeyed == Spec => []ShapesKeyed
<1>1. ShellInvariant => ShapesKeyed
  BY DEF ShellInvariant, EditorOK, Keyed, ShapesKeyed
<1>. QED
  BY <1>1, ShellInvariantAlways, PTL

\* A component that is saved is drawn again, when it is opened the next time, as
\* it was but for rounding to a tenth, which happens once (shapesToMarkup, svgNum,
\* markupToShapes, boundsFromMarkup).
THEOREM AlwaysSavedAsDrawn == Spec => []SavedAsDrawn
<1>1. ShellInvariant => SavedAsDrawn
  BY SavedAgain DEF ShellInvariant
<1>. QED
  BY <1>1, ShellInvariantAlways, PTL

\* Changing one thing about the look of a picked shape leaves the others, though
\* the code overwrites the whole style (applyToolbarToSelected).
THEOREM RestyleAlwaysKeepsRest == Spec => RestyleKeepsRest
<1>1. ShellInvariant /\ [Next]_shellVars =>
        [ed'.style # ed.style /\ ed.picked # 0 /\ ed'.picked = ed.picked =>
          LET s == Picked
              t == ed'.shapes[ed.picked]
          IN  \A f, g \in Restyled(s, t) \ (IF s.fill = "none" THEN {"fill"} ELSE {}) : f = g]_ed
  <2>. SUFFICES ASSUME ShellInvariant, [Next]_shellVars PROVE RestKept
    BY DEF RestKept
  <2>. QED
    BY PartsAre, EveryStep, Stutters DEF Good
<1>. QED
  BY <1>1, ShellInvariantAlways, PTL DEF Spec, RestyleKeepsRest
=============================================================================
