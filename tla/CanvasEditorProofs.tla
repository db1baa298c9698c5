------------------------- MODULE CanvasEditorProofs -------------------------
(***************************************************************************)
(* What the canvas keeps for every depth, number of desks, loads and edits *)
(* and every choice of operations.                                         *)
(***************************************************************************)
EXTENDS CanvasEditor, FiniteSetTheorems, SequenceTheorems, TLAPS

-----------------------------------------------------------------------------
(***************************************************************************)
(* The stacks.  What they hold does not matter for their length, so the    *)
(* inductive invariant only says that they are stacks of something.        *)
(***************************************************************************)

Within(h, S) == h \in Histories(S) /\ Len(h.undo) + Len(h.redo) <= maxDepth
Bounded(h) == \E S : Within(h, S)

\* The empty stacks are within the depth.
LEMMA NoHistoryBounded == Bounded(NoHistory)
<1>1. NoHistory \in Histories({}) /\ Len(NoHistory.undo) = 0 /\ Len(NoHistory.redo) = 0
  BY DEF NoHistory, Histories
<1>2. Within(NoHistory, {})
  BY <1>1, DepthAssumption DEF Within
<1> QED BY <1>2 DEF Bounded

\* A larger set of states types the same stacks.
LEMMA Widen == ASSUME NEW h, NEW S, NEW x, Within(h, S)
               PROVE /\ h.undo \in Seq(S \cup {x}) /\ h.redo \in Seq(S \cup {x})
                     /\ Len(h.undo) \in Nat /\ Len(h.redo) \in Nat
                     /\ Len(h.undo) + Len(h.redo) <= maxDepth
<1>1. h.undo \in Seq(S) /\ h.redo \in Seq(S) BY DEF Within, Histories
<1>2. ASSUME NEW s \in Seq(S) PROVE s \in Seq(S \cup {x}) /\ Len(s) \in Nat
  OBVIOUS
<1> QED BY <1>1, <1>2 DEF Within

\* push keeps the stacks within the depth: there is nothing to redo after it,
\* and what it appends to is one shorter than the depth at most.
LEMMA PushBounded == ASSUME NEW h, NEW x, Bounded(h)
                     PROVE Bounded(push(h, x))
<1>1. PICK S : Within(h, S) BY DEF Bounded
<1> DEFINE T == S \cup {x}
           u == h.undo
<1>2. u \in Seq(T) /\ Len(u) \in Nat /\ x \in T BY <1>1, Widen
<1>3. maxDepth \in Nat /\ maxDepth >= 1 BY DepthAssumption
<1> HIDE DEF T, u
<1>4. CASE Len(u) < maxDepth
  <2>1. push(h, x) = [undo |-> Append(u, x), redo |-> << >>]
    BY <1>4 DEF push, u
  <2>2. Append(u, x) \in Seq(T) /\ Len(Append(u, x)) = Len(u) + 1
    BY <1>2
  <2>3. << >> \in Seq(T) /\ Len(<< >>) = 0 OBVIOUS
  <2>4. Within(push(h, x), T)
    BY <1>2, <1>3, <1>4, <2>1, <2>2, <2>3 DEF Within, Histories
  <2> QED BY <2>4 DEF Bounded
<1>5. CASE ~(Len(u) < maxDepth)
  <2> DEFINE f == Len(u) - maxDepth + 2
             v == SubSeq(u, f, Len(u))
  <2>1. push(h, x) = [undo |-> Append(v, x), redo |-> << >>]
    BY <1>5 DEF push, u
  <2>2. f \in Nat /\ f >= 2 /\ Len(u) - f + 1 = maxDepth - 1 /\ f <= Len(u) + 1
    BY <1>2, <1>3, <1>5
  <2> HIDE DEF f
  <2>3. v \in Seq(T) /\ Len(v) = maxDepth - 1
    <3>1. \A i \in f..Len(u) : i \in 1..Len(u) BY <1>2, <2>2
    <3>2. v \in Seq(T) BY <1>2, <2>2, <3>1
    <3>3. Len(v) = IF f <= Len(u) THEN Len(u) - f + 1 ELSE 0 BY <1>2, <2>2
    <3> QED BY <1>2, <1>3, <2>2, <3>2, <3>3
  <2> HIDE DEF v
  <2>4. Append(v, x) \in Seq(T) /\ Len(Append(v, x)) = maxDepth
    BY <1>2, <1>3, <2>3
  <2>5. << >> \in Seq(T) /\ Len(<< >>) = 0 OBVIOUS
  <2>6. Within(push(h, x), T)
    BY <1>3, <2>1, <2>4, <2>5 DEF Within, Histories
  <2> QED BY <2>6 DEF Bounded
<1> QED BY <1>4, <1>5

\* n states are a sequence of that length.
LEMMA Copies == ASSUME NEW T, NEW x \in T, NEW n \in Nat
                PROVE [i \in 1..n |-> x] \in Seq(T) /\ Len([i \in 1..n |-> x]) = n
OBVIOUS

\* One sequence after another.
LEMMA Joined ==
    ASSUME NEW T, NEW s \in Seq(T), NEW t \in Seq(T)
    PROVE  /\ s \o t \in Seq(T) /\ Len(s \o t) = Len(s) + Len(t)
           /\ \A i \in 1..(Len(s) + Len(t)) :
                 (s \o t)[i] = IF i <= Len(s) THEN s[i] ELSE t[i - Len(s)]
OBVIOUS

\* The end of a sequence is no longer than the depth, and ends as it does.
LEMMA TailBounded ==
    ASSUME NEW T, NEW s \in Seq(T), NEW m \in Nat \ {0}, m <= Len(s)
    PROVE  /\ SubSeq(s, m, Len(s)) \in Seq(T)
           /\ Len(SubSeq(s, m, Len(s))) = Len(s) - m + 1
           /\ SubSeq(s, m, Len(s)) # << >>
           /\ Top(SubSeq(s, m, Len(s))) = Top(s)
<1> DEFINE n == Len(s)
           v == SubSeq(s, m, n)
<1>1. n \in Nat /\ DOMAIN s = 1..n /\ m <= n OBVIOUS
<1>2. \A i \in m..n : i \in 1..n BY <1>1
<1> HIDE DEF n
<1>3. v \in Seq(T) BY <1>1, <1>2
<1>4. Len(v) = n - m + 1 BY <1>1 DEF n
<1>5. \A i \in 1..(n - m + 1) : v[i] = s[m + i - 1] BY <1>1
<1>6. n - m + 1 \in 1..(n - m + 1) /\ m + (n - m + 1) - 1 = n BY <1>1 DEF n
<1>7. v[n - m + 1] = s[n] BY <1>5, <1>6
<1> HIDE DEF v
<1>8. v # << >> BY <1>1, <1>4 DEF n
<1> QED BY <1>3, <1>4, <1>7, <1>8 DEF Top, v, n

\* Several pushes of one state keep the stacks within the depth; what is pushed
\* is on top and nothing is left to redo.
LEMMA PushEachBounded ==
    ASSUME NEW h, NEW x, NEW n \in Nat \ {0}, Bounded(h)
    PROVE  /\ Bounded(pushEach(h, x, n))
           /\ pushEach(h, x, n).redo = << >> /\ pushEach(h, x, n).undo # << >>
           /\ Top(pushEach(h, x, n).undo) = x
<1>1. PICK S : Within(h, S) BY DEF Bounded
<1> DEFINE T == S \cup {x}
           copies == [i \in 1..n |-> x]
           all == h.undo \o copies
           m == IF Len(all) > maxDepth THEN Len(all) - maxDepth + 1 ELSE 1
           v == SubSeq(all, m, Len(all))
<1>2. h.undo \in Seq(T) /\ Len(h.undo) \in Nat /\ x \in T BY <1>1, Widen
<1>3. maxDepth \in Nat /\ maxDepth >= 1 BY DepthAssumption
<1> HIDE DEF T
<1>4. copies \in Seq(T) /\ Len(copies) = n BY <1>2, Copies
<1>5. copies[n] = x OBVIOUS
<1>6. pushEach(h, x, n) = [undo |-> v, redo |-> << >>] BY DEF pushEach
<1> HIDE DEF copies
<1>7. all \in Seq(T) /\ Len(all) = Len(h.undo) + n /\ all[Len(h.undo) + n] = copies[n]
  <2>1. /\ all \in Seq(T) /\ Len(all) = Len(h.undo) + Len(copies)
        /\ \A i \in 1..(Len(h.undo) + Len(copies)) :
              all[i] = IF i <= Len(h.undo) THEN h.undo[i] ELSE copies[i - Len(h.undo)]
    BY <1>2, <1>4, Joined
  <2> HIDE DEF all
  <2>2. Len(h.undo) + n \in 1..(Len(h.undo) + Len(copies)) /\ ~(Len(h.undo) + n <= Len(h.undo))
        /\ Len(h.undo) + n - Len(h.undo) = n
    BY <1>2, <1>4
  <2> QED BY <1>4, <2>1, <2>2
<1>8. Top(all) = x BY <1>5, <1>7 DEF Top
<1> HIDE DEF all
<1>9. m \in Nat \ {0} /\ m <= Len(all) /\ Len(all) - m + 1 <= maxDepth
  BY <1>2, <1>3, <1>7
<1> HIDE DEF m
<1>10. /\ v \in Seq(T) /\ Len(v) = Len(all) - m + 1 /\ v # << >> /\ Top(v) = Top(all)
  BY <1>7, <1>9, TailBounded
<1> HIDE DEF v
<1>11. << >> \in Seq(T) /\ Len(<< >>) = 0 OBVIOUS
<1>12. Within([undo |-> v, redo |-> << >>], T)
  BY <1>2, <1>3, <1>7, <1>9, <1>10, <1>11 DEF Within, Histories
<1> QED BY <1>6, <1>8, <1>10, <1>12 DEF Bounded

\* Taking the top off a stack leaves one that is shorter by one.
LEMMA FrontShorter == ASSUME NEW S, NEW s \in Seq(S), s # << >>
                      PROVE Front(s) \in Seq(S) /\ Len(Front(s)) = Len(s) - 1
<1> DEFINE n == Len(s) - 1
<1>1. Len(s) \in Nat /\ n \in Nat /\ n <= Len(s) OBVIOUS
<1> HIDE DEF n
<1>2. \A i \in 1..n : i \in 1..Len(s) BY <1>1
<1>3. SubSeq(s, 1, n) \in Seq(S) BY <1>1, <1>2
<1>4. Len(SubSeq(s, 1, n)) = n BY <1>1
<1> QED BY <1>3, <1>4 DEF Front, n

\* A pair of stacks is bounded once their lengths add up.
LEMMA PairBounded == ASSUME NEW S, NEW u \in Seq(S), NEW r \in Seq(S),
                            Len(u) + Len(r) <= maxDepth
                     PROVE Bounded([undo |-> u, redo |-> r])
<1>1. [undo |-> u, redo |-> r] \in Histories(S) BY DEF Histories
<1>2. Within([undo |-> u, redo |-> r], S) BY <1>1 DEF Within
<1> QED BY <1>2 DEF Bounded

\* The arithmetic of moving one entry.
LEMMA MoveOne == ASSUME NEW a \in Nat, NEW b \in Nat, NEW m \in Nat, a + b <= m
                 PROVE (a - 1) + (b + 1) <= m /\ (a + 1) + (b - 1) <= m
OBVIOUS

\* A part of what fits fits.
LEMMA LessOfSum == ASSUME NEW a \in Nat, NEW b \in Nat, NEW m \in Nat, a + b <= m
                   PROVE a <= m
OBVIOUS

\* undo and redo move one entry's room from a stack to the other.
LEMMA UndoBounded == ASSUME NEW h, NEW x, Bounded(h), canUndo(h)
                     PROVE Bounded(undo(h, x))
<1>1. PICK S : Within(h, S) BY DEF Bounded
<1> DEFINE T == S \cup {x}
<1>2. /\ h.undo \in Seq(T) /\ h.redo \in Seq(T) /\ x \in T
      /\ Len(h.undo) \in Nat /\ Len(h.redo) \in Nat
      /\ Len(h.undo) + Len(h.redo) <= maxDepth
  BY <1>1, Widen
<1> HIDE DEF T
<1>3. Front(h.undo) \in Seq(T) /\ Len(Front(h.undo)) = Len(h.undo) - 1
  BY <1>2, FrontShorter DEF canUndo
<1>4. Append(h.redo, x) \in Seq(T) /\ Len(Append(h.redo, x)) = Len(h.redo) + 1
  BY <1>2
<1>5. (Len(h.undo) - 1) + (Len(h.redo) + 1) <= maxDepth
  BY <1>2, MoveOne, DepthAssumption
<1>6. Len(Front(h.undo)) + Len(Append(h.redo, x)) <= maxDepth
  BY <1>3, <1>4, <1>5
<1> QED BY <1>3, <1>4, <1>6, PairBounded DEF undo

\* The same the other way.
LEMMA RedoBounded == ASSUME NEW h, NEW x, Bounded(h), canRedo(h)
                     PROVE Bounded(redo(h, x))
<1>1. PICK S : Within(h, S) BY DEF Bounded
<1> DEFINE T == S \cup {x}
<1>2. /\ h.undo \in Seq(T) /\ h.redo \in Seq(T) /\ x \in T
      /\ Len(h.undo) \in Nat /\ Len(h.redo) \in Nat
      /\ Len(h.undo) + Len(h.redo) <= maxDepth
  BY <1>1, Widen
<1> HIDE DEF T
<1>3. Front(h.redo) \in Seq(T) /\ Len(Front(h.redo)) = Len(h.redo) - 1
  BY <1>2, FrontShorter DEF canRedo
<1>4. Append(h.undo, x) \in Seq(T) /\ Len(Append(h.undo, x)) = Len(h.undo) + 1
  BY <1>2
<1>5. (Len(h.undo) + 1) + (Len(h.redo) - 1) <= maxDepth
  BY <1>2, MoveOne, DepthAssumption
<1>6. Len(Append(h.undo, x)) + Len(Front(h.redo)) <= maxDepth
  BY <1>3, <1>4, <1>5
<1> QED BY <1>3, <1>4, <1>6, PairBounded DEF redo

-----------------------------------------------------------------------------
(***************************************************************************)
(* The pushes of pushEach are pushes, one after the other.                 *)
(***************************************************************************)

\* How much of so many entries is cut off.
Cut(total) == IF total > maxDepth THEN total - maxDepth ELSE 0

\* What is left is within the depth.
LEMMA CutIs == ASSUME NEW k \in Nat
               PROVE /\ Cut(k) \in Nat /\ Cut(k) <= k /\ k - Cut(k) <= maxDepth
                     /\ k <= maxDepth => Cut(k) = 0
                     /\ k > maxDepth => Cut(k) = k - maxDepth
                     /\ k > 0 => Cut(k) < k
BY DepthAssumption DEF Cut

\* s is u with n times x after it, cut off at the depth.
Follows(s, u, x, n) ==
    /\ Len(s) = Len(u) + n - Cut(Len(u) + n)
    /\ \A i \in 1..(Len(u) + n - Cut(Len(u) + n)) :
          s[i] = IF i + Cut(Len(u) + n) <= Len(u) THEN u[i + Cut(Len(u) + n)] ELSE x

\* Which is all there is to say of a sequence.
LEMMA FollowsOne == ASSUME NEW T, NEW s \in Seq(T), NEW t \in Seq(T), NEW u, NEW x, NEW n,
                           Follows(s, u, x, n), Follows(t, u, x, n)
                    PROVE s = t
<1>1. Len(s) = Len(t) /\ \A i \in 1..Len(s) : s[i] = t[i] BY DEF Follows
<1> QED BY <1>1, SeqEqual

\* The elements of the end of a sequence.
LEMMA TailElements ==
    ASSUME NEW T, NEW s \in Seq(T), NEW m \in Nat \ {0}, m <= Len(s) + 1
    PROVE  /\ SubSeq(s, m, Len(s)) \in Seq(T)
           /\ Len(SubSeq(s, m, Len(s))) = Len(s) - m + 1
           /\ \A i \in 1..(Len(s) - m + 1) : SubSeq(s, m, Len(s))[i] = s[m + i - 1]
<1> DEFINE n == Len(s)
           v == SubSeq(s, m, n)
<1>1. n \in Nat /\ DOMAIN s = 1..n /\ m <= n + 1 OBVIOUS
<1>2. \A i \in m..n : i \in 1..n BY <1>1
<1> HIDE DEF n
<1>3. v \in Seq(T) BY <1>1, <1>2
<1>4. Len(v) = n - m + 1 BY <1>1 DEF n
<1>5. \A i \in 1..(n - m + 1) : v[i] = s[m + i - 1] BY <1>1
<1> QED BY <1>3, <1>4, <1>5 DEF v, n

\* What pushEach leaves.
LEMMA EachFollows ==
    ASSUME NEW T, NEW h, h.undo \in Seq(T), NEW x \in T, NEW n \in Nat \ {0}
    PROVE  /\ pushEach(h, x, n).undo \in Seq(T) /\ pushEach(h, x, n).redo = << >>
           /\ Follows(pushEach(h, x, n).undo, h.undo, x, n)
<1> DEFINE u == h.undo
           copies == [i \in 1..n |-> x]
           all == u \o copies
           m == IF Len(all) > maxDepth THEN Len(all) - maxDepth + 1 ELSE 1
           v == SubSeq(all, m, Len(all))
<1>1. u \in Seq(T) /\ Len(u) \in Nat OBVIOUS
<1>2. maxDepth \in Nat /\ maxDepth >= 1 BY DepthAssumption
<1>3. copies \in Seq(T) /\ Len(copies) = n BY Copies
<1>4. \A i \in 1..n : copies[i] = x OBVIOUS
<1>5. pushEach(h, x, n) = [undo |-> v, redo |-> << >>] BY DEF pushEach
<1> HIDE DEF u, copies
<1>6. /\ all \in Seq(T) /\ Len(all) = Len(u) + n
      /\ \A i \in 1..(Len(u) + n) : all[i] = IF i <= Len(u) THEN u[i] ELSE copies[i - Len(u)]
  BY <1>1, <1>3, Joined
<1> HIDE DEF all
<1>7. \A i \in 1..(Len(u) + n) : all[i] = IF i <= Len(u) THEN u[i] ELSE x
  BY <1>1, <1>4, <1>6
<1>8. m \in Nat \ {0} /\ m <= Len(all) BY <1>1, <1>2, <1>6
<1>9. /\ v \in Seq(T) /\ Len(v) = Len(all) - m + 1
      /\ \A i \in 1..(Len(all) - m + 1) : v[i] = all[m + i - 1]
  <2> HIDE DEF m
  <2> QED BY <1>6, <1>8, TailElements
<1> HIDE DEF v
<1> DEFINE off == Cut(Len(u) + n)
<1>10. off \in Nat /\ m = off + 1 /\ off < Len(u) + n
  <2>1. Len(u) + n \in Nat /\ Len(u) + n > 0 BY <1>1
  <2>2. off \in Nat /\ off < Len(u) + n BY <2>1, CutIs
  <2>3. CASE Len(u) + n > maxDepth
    <3>1. off = Len(u) + n - maxDepth BY <1>2, <2>1, <2>3, CutIs
    <3>2. m = Len(u) + n - maxDepth + 1
      <4>1. Len(all) = Len(u) + n BY <1>6
      <4>2. m = Len(all) - maxDepth + 1 BY <2>3, <4>1
      <4> HIDE DEF m
      <4> QED BY <1>1, <1>2, <4>1, <4>2
    <3> HIDE DEF m, off
    <3> QED BY <1>2, <2>1, <2>2, <3>1, <3>2
  <2>4. CASE ~(Len(u) + n > maxDepth)
    <3>1. Len(u) + n <= maxDepth BY <1>2, <2>1, <2>4
    <3>2. off = 0 BY <1>2, <2>1, <3>1, CutIs
    <3>3. m = 1 BY <1>6, <2>4
    <3> HIDE DEF m, off
    <3> QED BY <2>1, <2>2, <3>2, <3>3
  <2> QED BY <2>3, <2>4
<1> HIDE DEF m, off
<1>11. \A i \in 1..(Len(u) + n - off) : m + i - 1 = i + off /\ i + off \in 1..(Len(u) + n)
  BY <1>1, <1>10
<1>12. Len(v) = Len(u) + n - off BY <1>1, <1>6, <1>9, <1>10
<1>13. \A i \in 1..(Len(u) + n - off) : v[i] = IF i + off <= Len(u) THEN u[i + off] ELSE x
  BY <1>1, <1>6, <1>7, <1>9, <1>10, <1>11
<1>14. Follows(v, u, x, n) BY <1>12, <1>13 DEF Follows, off
<1> QED BY <1>5, <1>9, <1>14 DEF u

\* What push leaves.
LEMMA PushFollows ==
    ASSUME NEW T, NEW h, h.undo \in Seq(T), NEW x \in T, Len(h.undo) <= maxDepth
    PROVE  /\ push(h, x).undo \in Seq(T) /\ push(h, x).redo = << >>
           /\ Follows(push(h, x).undo, h.undo, x, 1)
<1> DEFINE u == h.undo
<1>1. u \in Seq(T) /\ Len(u) \in Nat /\ Len(u) <= maxDepth OBVIOUS
<1>2. maxDepth \in Nat /\ maxDepth >= 1 BY DepthAssumption
<1>3. CASE Len(u) < maxDepth
  <2>1. push(h, x) = [undo |-> Append(u, x), redo |-> << >>] BY <1>3 DEF push
  <2> HIDE DEF u
  <2>2. /\ Append(u, x) \in Seq(T) /\ Len(Append(u, x)) = Len(u) + 1
        /\ \A i \in 1..(Len(u) + 1) : Append(u, x)[i] = IF i <= Len(u) THEN u[i] ELSE x
    BY <1>1
  <2>3. Cut(Len(u) + 1) = 0 /\ Len(u) + 1 - 0 = Len(u) + 1 /\ \A i \in 1..(Len(u) + 1) : i + 0 = i
    BY <1>1, <1>2, <1>3, CutIs
  <2>4. Follows(Append(u, x), u, x, 1) BY <2>2, <2>3 DEF Follows
  <2> QED BY <2>1, <2>2, <2>4 DEF u
<1>4. CASE Len(u) = maxDepth
  <2> DEFINE v == SubSeq(u, 2, Len(u))
  <2>1. Len(u) - maxDepth + 2 = 2 BY <1>1, <1>2, <1>4
  <2>2. ~(Len(h.undo) < maxDepth) BY <1>1, <1>2, <1>4
  <2>8. push(h, x) = [undo |-> Append(v, x), redo |-> << >>]
    <3>1. push(h, x) = [undo |-> Append(SubSeq(u, Len(u) - maxDepth + 2, Len(u)), x), redo |-> << >>]
      BY <2>2 DEF push
    <3> HIDE DEF u
    <3> QED BY <2>1, <3>1
  <2> HIDE DEF u
  <2>3. /\ v \in Seq(T) /\ Len(v) = Len(u) - 1
        /\ \A i \in 1..(Len(u) - 1) : v[i] = u[i + 1]
    <3>1. 2 \in Nat \ {0} /\ 2 <= Len(u) + 1 /\ Len(u) - 2 + 1 = Len(u) - 1
          /\ \A i \in 1..(Len(u) - 1) : 2 + i - 1 = i + 1
      BY <1>1, <1>2, <1>4
    <3> QED BY <1>1, <3>1, TailElements
  <2> HIDE DEF v
  <2>4. /\ Append(v, x) \in Seq(T) /\ Len(Append(v, x)) = Len(u)
        /\ \A i \in 1..Len(u) : Append(v, x)[i] = IF i <= Len(u) - 1 THEN v[i] ELSE x
    BY <1>1, <1>2, <1>4, <2>3
  <2>5. \A i \in 1..Len(u) : Append(v, x)[i] = IF i + 1 <= Len(u) THEN u[i + 1] ELSE x
    BY <1>1, <2>3, <2>4
  <2>6. Cut(Len(u) + 1) = 1 /\ Len(u) + 1 - 1 = Len(u)
    BY <1>1, <1>2, <1>4, CutIs
  <2>7. Follows(Append(v, x), u, x, 1) BY <2>4, <2>5, <2>6 DEF Follows
  <2> QED BY <2>4, <2>7, <2>8 DEF u
<1> QED BY <1>1, <1>2, <1>3, <1>4

\* Following what follows is following.
LEMMA FollowsTwice ==
    ASSUME NEW T, NEW u \in Seq(T), NEW s \in Seq(T), NEW t \in Seq(T), NEW x,
           NEW n \in Nat \ {0}, Follows(s, u, x, n), Follows(t, s, x, 1)
    PROVE  Follows(t, u, x, n + 1)
<1> DEFINE a == Cut(Len(u) + n)
           b == Cut(Len(s) + 1)
           c == Cut(Len(u) + (n + 1))
<1>1. Len(u) \in Nat /\ Len(s) \in Nat /\ maxDepth \in Nat /\ maxDepth >= 1
  BY DepthAssumption
<1>2. /\ Len(s) = Len(u) + n - a
      /\ \A i \in 1..(Len(u) + n - a) : s[i] = IF i + a <= Len(u) THEN u[i + a] ELSE x
  BY DEF Follows
<1>3. /\ Len(t) = Len(s) + 1 - b
      /\ \A i \in 1..(Len(s) + 1 - b) : t[i] = IF i + b <= Len(s) THEN s[i + b] ELSE x
  BY DEF Follows
<1>4. a \in Nat /\ b \in Nat /\ c \in Nat /\ c = a + b
  <2>1. Len(u) + n \in Nat /\ Len(s) + 1 \in Nat /\ Len(u) + (n + 1) \in Nat BY <1>1
  <2>2. a \in Nat /\ b \in Nat /\ c \in Nat BY <2>1, CutIs
  <2>3. CASE Len(u) + n <= maxDepth
    <3>1. a = 0 /\ Len(s) = Len(u) + n BY <1>1, <1>2, <2>1, <2>3, CutIs
    <3>2. Len(s) + 1 = Len(u) + (n + 1) BY <1>1, <3>1
    <3> HIDE DEF a
    <3> QED BY <2>2, <3>1, <3>2
  <2>4. CASE Len(u) + n > maxDepth
    <3>1. a = Len(u) + n - maxDepth BY <1>1, <2>1, <2>4, CutIs
    <3>2. c = Len(u) + (n + 1) - maxDepth
      <4>1. Len(u) + (n + 1) > maxDepth BY <1>1, <2>4
      <4> QED BY <1>1, <2>1, <4>1, CutIs
    <3>3. Len(s) = maxDepth
      <4> HIDE DEF a
      <4> QED BY <1>1, <1>2, <3>1
    <3>4. b = Len(s) + 1 - maxDepth
      <4>1. Len(s) + 1 > maxDepth BY <1>1, <3>3
      <4> QED BY <1>1, <2>1, <4>1, CutIs
    <3> HIDE DEF a, b, c
    <3> QED BY <1>1, <2>2, <3>1, <3>2, <3>3, <3>4
  <2> QED BY <1>1, <2>3, <2>4
<1> HIDE DEF a, b, c
<1>5. Len(t) = Len(u) + (n + 1) - c BY <1>1, <1>2, <1>3, <1>4
<1>6. ASSUME NEW i \in 1..(Len(u) + (n + 1) - c)
      PROVE t[i] = IF i + c <= Len(u) THEN u[i + c] ELSE x
  <2>1. i \in Nat \ {0} /\ i \in 1..(Len(s) + 1 - b) /\ i + c = (i + b) + a
    BY <1>1, <1>2, <1>4
  <2>2. t[i] = IF i + b <= Len(s) THEN s[i + b] ELSE x BY <1>3, <2>1
  <2>3. CASE i + b <= Len(s)
    <3>1. i + b \in 1..(Len(u) + n - a) BY <1>1, <1>2, <1>4, <2>1, <2>3
    <3>2. s[i + b] = IF (i + b) + a <= Len(u) THEN u[(i + b) + a] ELSE x BY <1>2, <3>1
    <3> QED BY <2>1, <2>2, <2>3, <3>2
  <2>4. CASE ~(i + b <= Len(s))
    <3>1. ~(i + c <= Len(u)) BY <1>1, <1>2, <1>4, <2>1, <2>4
    <3> QED BY <2>2, <2>4, <3>1
  <2> QED BY <2>3, <2>4
<1> QED BY <1>5, <1>6 DEF Follows, c

\* The operator for the loop of an edit of several desks does what the loop does:
\* pushing one state once is a push, and once more is a push more, whatever is
\* on the stacks and wherever the depth cuts them off.
THEOREM PushEachIsPushes ==
    ASSUME NEW h, NEW x, Bounded(h)
    PROVE  /\ pushEach(h, x, 1) = push(h, x)
           /\ \A n \in Nat \ {0} : pushEach(h, x, n + 1) = push(pushEach(h, x, n), x)
<1>1. PICK S : Within(h, S) BY DEF Bounded
<1> DEFINE T == S \cup {x}
<1>2. /\ h.undo \in Seq(T) /\ x \in T /\ Len(h.undo) \in Nat /\ Len(h.redo) \in Nat
      /\ Len(h.undo) + Len(h.redo) <= maxDepth
  BY <1>1, Widen
<1> HIDE DEF T
<1>3. Len(h.undo) <= maxDepth BY <1>2, LessOfSum, DepthAssumption
<1>4. ASSUME NEW g, NEW n PROVE /\ push(g, x) = [undo |-> push(g, x).undo, redo |-> push(g, x).redo]
                                /\ pushEach(g, x, n) = [undo |-> pushEach(g, x, n).undo,
                                                        redo |-> pushEach(g, x, n).redo]
  BY DEF push, pushEach
<1>5. 1 \in Nat \ {0} OBVIOUS
<1>6. pushEach(h, x, 1) = push(h, x)
  <2>1. /\ pushEach(h, x, 1).undo \in Seq(T) /\ pushEach(h, x, 1).redo = << >>
        /\ Follows(pushEach(h, x, 1).undo, h.undo, x, 1)
    BY <1>2, <1>5, EachFollows
  <2>2. /\ push(h, x).undo \in Seq(T) /\ push(h, x).redo = << >>
        /\ Follows(push(h, x).undo, h.undo, x, 1)
    BY <1>2, <1>3, PushFollows
  <2>3. pushEach(h, x, 1).undo = push(h, x).undo BY <2>1, <2>2, FollowsOne
  <2> QED BY <1>4, <2>1, <2>2, <2>3
<1>7. ASSUME NEW n \in Nat \ {0} PROVE pushEach(h, x, n + 1) = push(pushEach(h, x, n), x)
  <2> DEFINE g == pushEach(h, x, n)
             next == pushEach(h, x, n + 1)
  <2>1. g.undo \in Seq(T) /\ Follows(g.undo, h.undo, x, n) BY <1>2, EachFollows
  <2>2. n + 1 \in Nat \ {0} OBVIOUS
  <2>3. next.undo \in Seq(T) /\ next.redo = << >> /\ Follows(next.undo, h.undo, x, n + 1)
    BY <1>2, <2>2, EachFollows
  <2>4. next = [undo |-> next.undo, redo |-> next.redo] BY <1>4
  <2> HIDE DEF g, next
  <2>5. Len(g.undo) <= maxDepth
    <3>1. Len(h.undo) + n \in Nat BY <1>2
    <3> QED BY <2>1, <3>1, CutIs DEF Follows
  <2>6. /\ push(g, x).undo \in Seq(T) /\ push(g, x).redo = << >>
        /\ Follows(push(g, x).undo, g.undo, x, 1)
    BY <1>2, <2>1, <2>5, PushFollows
  <2>7. Follows(push(g, x).undo, h.undo, x, n + 1) BY <1>2, <2>1, <2>6, FollowsTwice
  <2>8. push(g, x).undo = next.undo BY <2>3, <2>6, <2>7, FollowsOne
  <2> QED BY <1>4, <2>3, <2>4, <2>6, <2>8 DEF g, next
<1> QED BY <1>6, <1>7

-----------------------------------------------------------------------------
(***************************************************************************)
(* What a step may do to the stacks                                        *)
(***************************************************************************)

\* The documents that handlers know, and the one a drag began with.
AtHand(x) == x \in {doc, keys.doc, dbl.doc} \/ (loading.on /\ x = loading.seen)
Known(x) == AtHand(x) \/ (hand.kind = "drag" /\ x = hand.start)

\* The views that handlers see hold documents at hand.
LEMMA SeenAtHand == /\ AtHand(doc) /\ AtHand(dbl.doc) /\ AtHand(keys.doc) /\ AtHand(Now.doc)
                    /\ \A seen \in Seen : AtHand(seen.doc)
                    /\ loading.on => AtHand(loading.seen)
BY DEF AtHand, Seen, Now, View

\* The stacks are emptied, or keep what they have but for one entry that goes and
\* the documents known that come, and the layout stays.
Kept ==
    \/ hist' = NoHistory
    \/ /\ layout' = layout
       /\ \/ hist' = hist
          \/ \E x : Known(x) /\ hist' = push(hist, x)
          \/ \E x, y : Known(x) /\ Known(y) /\ hist' = push(push(hist, x), y)
          \/ \E x : Known(x) /\ \E n \in Nat \ {0} : hist' = pushEach(hist, x, n)
          \/ canUndo(hist) /\ \E x : Known(x) /\ hist' = undo(hist, x)
          \/ canRedo(hist) /\ \E x : Known(x) /\ hist' = redo(hist, x)

\* Whatever is kept of bounded stacks is bounded.
LEMMA KeptBounded == ASSUME Bounded(hist), Kept PROVE Bounded(hist')
<1>1. CASE hist' = NoHistory BY <1>1, NoHistoryBounded
<1>2. CASE hist' = hist BY <1>2
<1>3. CASE \E x : hist' = push(hist, x) BY <1>3, PushBounded
<1>4. CASE \E x, y : hist' = push(push(hist, x), y) BY <1>4, PushBounded
<1>5. CASE canUndo(hist) /\ \E x : hist' = undo(hist, x) BY <1>5, UndoBounded
<1>6. CASE canRedo(hist) /\ \E x : hist' = redo(hist, x) BY <1>6, RedoBounded
<1>7. CASE \E x : \E n \in Nat \ {0} : hist' = pushEach(hist, x, n) BY <1>7, PushEachBounded
<1> QED BY <1>1, <1>2, <1>3, <1>4, <1>5, <1>6, <1>7 DEF Kept

\* The selected desks can be counted.
LEMMA DesksCounted == Cardinality(ui.sel \cap Live(doc)) \in Nat
<1>1. MaxDesk \in Nat BY DesksAssumption
<1>2. IsFiniteSet(Desks) BY <1>1, FS_Interval DEF Desks
<1>3. IsFiniteSet(ui.sel \cap Live(doc)) BY <1>2, FS_Subset DEF Live
<1> QED BY <1>3, FS_CardinalityType

\* Several updates push several times.
LEMMA BulkKeeps == ASSUME NEW place \in Places, BulkUpdate(place) PROVE Kept
<1>1. hist' = pushEach(hist, doc, Cardinality(ui.sel \cap Live(doc))) /\ layout' = layout
  BY DEF BulkUpdate, Change
<1>2. Cardinality(ui.sel \cap Live(doc)) \in Nat \ {0} BY DesksCounted DEF BulkUpdate
<1> QED BY <1>1, <1>2, SeenAtHand DEF Kept, Known

\* Edits of the document push once, what is shown and selected not at all.
LEMMA EditsKeep ==
    ASSUME NEW seen, NEW next, NEW u, NEW k, NEW d
    PROVE /\ AtHand(seen.doc) /\ Record(seen, next, u, k) => Kept
          /\ Unrecorded(next, u, k) => Kept
          /\ Shows(u, k, d) => Kept
BY DEF Record, Unrecorded, Shows, Change, Kept, Known

\* Desks, groups and zones.
LEMMA ObjectsKeep ==
    ASSUME NEW seen \in Seen,
           \/ MoveSelected(seen) \/ deleteSelected(seen) \/ duplicateSelected(seen)
           \/ groupSelected(seen) \/ ungroupSelected(seen) \/ deleteZone(seen)
           \/ Copy \/ Paste \/ addDeskAt \/ insertObjects \/ CatalogueResizes \/ ToggleDesksLock
           \/ deleteGroup \/ selectGroup \/ updateZone
           \/ UpdateDesk \/ \E place \in Places : BulkUpdate(place)
    PROVE Kept
BY EditsKeep, BulkKeeps, SeenAtHand DEF UpdateDesk, MoveSelected, deleteSelected, duplicateSelected, groupSelected,
      ungroupSelected, deleteZone, Copy, Paste, addDeskAt, insertObjects, CatalogueResizes,
      ToggleDesksLock, deleteGroup, selectGroup, updateZone, AddDesk, modifyDesks, EditGroups,
      EditZone

\* Structures and layers of lines.
LEMMA LinesKeep ==
    ASSUME NEW seen \in Seen,
           \/ deleteSelectedStruct(seen) \/ DeleteInfraItem(seen)
           \/ PatchStruct \/ splitStructureSegment \/ toggleStructureLock
           \/ addInfraLayer \/ removeInfraLayer \/ toggleInfraLayerVisibility
           \/ ChooseInfraLayer \/ SelectInfraItem
    PROVE Kept
<1>1. ASSUME deleteSelectedStruct(seen) \/ DeleteInfraItem(seen) \/ PatchStruct
             \/ splitStructureSegment \/ toggleStructureLock \/ addInfraLayer \/ removeInfraLayer
      PROVE Kept
  BY <1>1, EditsKeep, SeenAtHand DEF deleteSelectedStruct, DeleteInfraItem, PatchStruct, splitStructureSegment,
       toggleStructureLock, addInfraLayer, removeInfraLayer, EditWall
<1>2. ASSUME toggleInfraLayerVisibility PROVE Kept
  BY <1>2 DEF toggleInfraLayerVisibility, Kept, Known
<1>3. ASSUME ChooseInfraLayer \/ SelectInfraItem PROVE Kept
  BY <1>3, EditsKeep, SeenAtHand DEF ChooseInfraLayer, SelectInfraItem
<1> QED BY <1>1, <1>2, <1>3

\* The background.
LEMMA BackgroundKeeps ==
    ASSUME \/ fitBackgroundToCanvas \/ commitBackgroundTransform \/ toggleBackgroundLock
           \/ ToggleBackground \/ RemoveBackground \/ AdjustBackground
           \/ onBgFileChange \/ applyLoadedBackground
    PROVE Kept
<1>1. ASSUME \/ fitBackgroundToCanvas \/ commitBackgroundTransform \/ toggleBackgroundLock
             \/ ToggleBackground \/ RemoveBackground \/ AdjustBackground
      PROVE Kept
  BY <1>1, EditsKeep, SeenAtHand DEF fitBackgroundToCanvas, commitBackgroundTransform, toggleBackgroundLock,
       ToggleBackground, RemoveBackground, AdjustBackground, EditBackground
<1>2. ASSUME onBgFileChange \/ applyLoadedBackground PROVE Kept
  BY <1>2, SeenAtHand DEF onBgFileChange, applyLoadedBackground, Kept, Known
<1> QED BY <1>1, <1>2

\* The end of a drawing pushes once, for a line of a layer twice.
LEMMA FinishKeeps == ASSUME NEW seen, AtHand(seen.doc), finishDraw(seen) PROVE Kept
BY DEF finishDraw, Kept, Known

\* Tools and drawing.
LEMMA DrawingKeeps ==
    ASSUME \/ \E t \in Tools : PickTool(t) \/ KeyTool(t)
           \/ SpaceDown \/ SpaceUp \/ EnterKey \/ DoubleClickDraw \/ DrawPoint \/ EscapeKey
    PROVE Kept
<1>1. ASSUME NEW t \in Tools, PickTool(t) \/ KeyTool(t) PROVE Kept
  BY <1>1, EditsKeep, SeenAtHand DEF PickTool, KeyTool
<1>2. ASSUME SpaceDown \/ SpaceUp PROVE Kept
  BY <1>2, EditsKeep, SeenAtHand DEF SpaceDown, SpaceUp
<1>3. ASSUME EnterKey \/ DoubleClickDraw \/ DrawPoint PROVE Kept
  BY <1>3, EditsKeep, FinishKeeps, SeenAtHand DEF EnterKey, DoubleClickDraw, DrawPoint
<1>4. ASSUME EscapeKey PROVE Kept
  BY <1>4, EditsKeep, SeenAtHand DEF EscapeKey
<1> QED BY <1>1, <1>2, <1>3, <1>4

\* Presses, handles and gestures.
LEMMA GesturesKeep ==
    ASSUME \/ \E d \in Desks, shift \in BOOLEAN : PressDesk(d, shift)
           \/ \E w \in Walls : PressWall(w)
           \/ PressZone \/ \E shift \in BOOLEAN : PressEmpty(shift)
           \/ \E what \in {"desk", "vertex", "bg"} : Grip(what)
           \/ \E place \in Places : onSvgPointerMove(place)
           \/ onSvgPointerUp
    PROVE Kept
<1>1. ASSUME NEW d \in Desks, NEW shift \in BOOLEAN, PressDesk(d, shift) PROVE Kept
  BY <1>1, EditsKeep, SeenAtHand DEF PressDesk
<1>2. ASSUME NEW w \in Walls, PressWall(w) PROVE Kept
  BY <1>2, EditsKeep, SeenAtHand DEF PressWall
<1>3. ASSUME PressZone PROVE Kept
  BY <1>3, EditsKeep, SeenAtHand DEF PressZone
<1>4. ASSUME NEW shift \in BOOLEAN, PressEmpty(shift) PROVE Kept
  BY <1>4, EditsKeep, SeenAtHand DEF PressEmpty
<1>5. ASSUME NEW what \in {"desk", "vertex", "bg"}, Grip(what) PROVE Kept
  BY <1>5, SeenAtHand DEF Grip, Kept, Known
<1>6. ASSUME NEW place \in Places, onSvgPointerMove(place) PROVE Kept
  BY <1>6, EditsKeep, SeenAtHand DEF onSvgPointerMove
<1>7. ASSUME onSvgPointerUp PROVE Kept
  <2>1. CASE hand.kind = "marquee"
    BY <1>7, <2>1, EditsKeep, SeenAtHand DEF onSvgPointerUp
  <2>2. CASE hand.kind # "marquee"
    BY <1>7, <2>2 DEF onSvgPointerUp, Kept, Known
  <2> QED BY <2>1, <2>2
<1> QED BY <1>1, <1>2, <1>3, <1>4, <1>5, <1>6, <1>7

\* Undo and redo, which ask first whether there is anything, loads and saves.
LEMMA HistoryKeeps ==
    ASSUME NEW seen \in Seen,
           \/ Undo(seen) \/ Redo(seen)
           \/ LoadLayout \/ resetChanges \/ ChangeScale \/ Save
    PROVE Kept
BY SeenAtHand
   DEF Undo, Redo, onRestore, LoadLayout, resetChanges, ChangeScale, Save, Kept, Known

\* No step of the canvas does anything else to the stacks.
LEMMA NextKeeps == ASSUME [Next]_vars PROVE Kept
<1>1. ASSUME UNCHANGED vars PROVE Kept
  BY <1>1 DEF vars, Kept
<1>2. Seen # {} BY DEF Seen
<1>3. ASSUME Next PROVE Kept
  BY <1>2, <1>3, ObjectsKeep, LinesKeep, BackgroundKeeps, DrawingKeeps, GesturesKeep, HistoryKeeps
     DEF Next
<1> QED BY <1>1, <1>3

\* The two stacks together never outgrow the depth, whatever is edited, undone
\* and redone, for every depth.
THEOREM HistoryBoundedAlways == Spec => []HistoryBounded
<1>1. Init => Bounded(hist)
  BY NoHistoryBounded DEF Init
<1>2. Bounded(hist) /\ [Next]_vars => Bounded(hist)'
  <2> SUFFICES ASSUME Bounded(hist), [Next]_vars PROVE Bounded(hist') BY DEF Bounded, Within
  <2> QED BY NextKeeps, KeptBounded
<1>3. Bounded(hist) => HistoryBounded
  BY DEF Bounded, Within, HistoryBounded
<1> QED BY <1>1, <1>2, <1>3, PTL DEF Spec

-----------------------------------------------------------------------------
(***************************************************************************)
(* What an edit leaves on the undo stack                                   *)
(***************************************************************************)

\* The documents an edit may push: its own, the one the key handler knows, and
\* those that a double click and a loaded image know.
Due(x) ==
    \/ x \in {doc, keys.doc}
    \/ (splitStructureSegment \/ DoubleClickDraw) /\ x = dbl.doc
    \/ applyLoadedBackground /\ x = loading.seen

\* What toolbar, panels and keys see is due.
LEMMA SeenDue == Due(doc) /\ Due(Now.doc) /\ Due(keys.doc) /\ \A seen \in Seen : Due(seen.doc)
BY DEF Due, Seen, Now, View

\* A document that is due is the last thing pushed.
Recorded ==
    \E x : /\ Due(x)
           /\ \/ hist' = push(hist, x) \/ \E y : hist' = push(push(hist, y), x)
              \/ \E n \in Nat \ {0} : hist' = pushEach(hist, x, n)

\* What is pushed last is on top, and nothing is left to redo.
LEMMA PushTop == ASSUME NEW h, NEW x, Bounded(h)
                 PROVE /\ push(h, x).redo = << >> /\ push(h, x).undo # << >>
                       /\ Top(push(h, x).undo) = x
<1>1. PICK S : Within(h, S) BY DEF Bounded
<1> DEFINE T == S \cup {x}
<1>2. h.undo \in Seq(T) /\ Len(h.undo) \in Nat /\ x \in T BY <1>1, Widen
<1>3. maxDepth \in Nat /\ maxDepth >= 1 BY DepthAssumption
<1> HIDE DEF T
<1>4. ASSUME NEW s \in Seq(T)
      PROVE Append(s, x) # << >> /\ Top(Append(s, x)) = x
  BY <1>2, <1>4 DEF Top
<1>5. CASE Len(h.undo) < maxDepth
  BY <1>2, <1>4, <1>5 DEF push
<1>6. CASE ~(Len(h.undo) < maxDepth)
  <2> DEFINE f == Len(h.undo) - maxDepth + 2
             v == SubSeq(h.undo, f, Len(h.undo))
  <2>1. f \in Nat /\ f >= 2 BY <1>2, <1>3, <1>6
  <2>2. push(h, x) = [undo |-> Append(v, x), redo |-> << >>]
    BY <1>6 DEF push
  <2> HIDE DEF f
  <2>3. \A i \in f..Len(h.undo) : i \in 1..Len(h.undo) BY <1>2, <2>1
  <2>4. v \in Seq(T) BY <1>2, <2>1, <2>3
  <2> HIDE DEF v
  <2> QED BY <1>4, <2>2, <2>4
<1> QED BY <1>5, <1>6

\* What the handlers of keys and double clicks cannot have missed.
Fresh ==
    /\ keys.doc.desks = doc.desks /\ keys.doc.zone = doc.zone /\ keys.doc.locked = doc.locked
    /\ dbl.doc.locked = doc.locked

\* So what is recorded is pushed.
LEMMA RecordedPushed == ASSUME Bounded(hist), Fresh, Recorded PROVE EditPushed
<1>1. PICK x : /\ Due(x)
               /\ \/ hist' = push(hist, x) \/ \E y : hist' = push(push(hist, y), x)
                  \/ \E n \in Nat \ {0} : hist' = pushEach(hist, x, n)
  BY DEF Recorded
<1>2. Pushed(x)
  <2>1. CASE hist' = push(hist, x) BY <2>1, PushTop DEF Pushed
  <2>2. CASE \E y : hist' = push(push(hist, y), x) BY <2>2, PushTop, PushBounded DEF Pushed
  <2>3. CASE \E n \in Nat \ {0} : hist' = pushEach(hist, x, n) BY <2>3, PushEachBounded DEF Pushed
  <2> QED BY <1>1, <2>1, <2>2, <2>3
<1>3. CASE x = doc BY <1>2, <1>3 DEF EditPushed
<1>4. CASE x = keys.doc BY <1>2, <1>4 DEF EditPushed, Fresh
<1>5. CASE (splitStructureSegment \/ DoubleClickDraw) /\ x = dbl.doc
  BY <1>2, <1>5 DEF EditPushed, Fresh
<1>6. CASE applyLoadedBackground /\ x = loading.seen BY <1>2, <1>6 DEF EditPushed
<1> QED BY <1>1, <1>3, <1>4, <1>5, <1>6 DEF Due

\* The pointer moves.
Moved == \E place \in Places : onSvgPointerMove(place)

\* The changes EditsUndoable allows.
Undoable == doc' = doc \/ Recorded \/ Moved \/ Unrecordable \/ Restores

\* The two usual shapes of a handler.
LEMMA UsualUndoable ==
    ASSUME NEW seen, NEW next, NEW u, NEW k, NEW d
    PROVE /\ Due(seen.doc) /\ Record(seen, next, u, k) => Recorded
          /\ Shows(u, k, d) => doc' = doc
BY DEF Record, Shows, Recorded

\* Desks, groups and zones.
LEMMA ObjectsUndoable ==
    ASSUME NEW seen \in Seen,
           \/ MoveSelected(seen) \/ deleteSelected(seen) \/ duplicateSelected(seen)
           \/ groupSelected(seen) \/ ungroupSelected(seen) \/ deleteZone(seen)
           \/ Copy \/ Paste \/ addDeskAt \/ insertObjects \/ CatalogueResizes \/ ToggleDesksLock
           \/ deleteGroup \/ selectGroup \/ updateZone
           \/ UpdateDesk \/ \E place \in Places : BulkUpdate(place)
    PROVE Undoable
<1>1. ASSUME MoveSelected(seen) \/ deleteSelected(seen) \/ duplicateSelected(seen)
             \/ groupSelected(seen) \/ ungroupSelected(seen) \/ deleteZone(seen)
      PROVE Recorded
  BY <1>1, UsualUndoable, SeenDue DEF MoveSelected, deleteSelected, duplicateSelected,
       groupSelected, ungroupSelected, deleteZone, AddDesk, modifyDesks, EditGroups, EditZone
<1>2. ASSUME Paste \/ addDeskAt \/ insertObjects \/ deleteGroup \/ updateZone \/ UpdateDesk
      PROVE Recorded
  BY <1>2, UsualUndoable, SeenDue DEF UpdateDesk, Paste, addDeskAt, insertObjects, deleteGroup, updateZone,
       AddDesk, modifyDesks, EditGroups, EditZone
<1>3. ASSUME Copy \/ ToggleDesksLock \/ selectGroup PROVE doc' = doc
  BY <1>3, UsualUndoable DEF Copy, ToggleDesksLock, selectGroup
<1>4. ASSUME NEW place \in Places, BulkUpdate(place) PROVE Recorded
  <2>1. Cardinality(ui.sel \cap Live(doc)) \in Nat \ {0} BY <1>4, DesksCounted DEF BulkUpdate
  <2> QED BY <1>4, <2>1, SeenDue DEF BulkUpdate, Recorded
<1> QED BY <1>1, <1>2, <1>3, <1>4 DEF Undoable, Unrecordable

\* Structures and layers of lines.
LEMMA LinesUndoable ==
    ASSUME NEW seen \in Seen,
           \/ deleteSelectedStruct(seen) \/ DeleteInfraItem(seen)
           \/ PatchStruct \/ splitStructureSegment \/ toggleStructureLock
           \/ addInfraLayer \/ removeInfraLayer \/ toggleInfraLayerVisibility
           \/ ChooseInfraLayer \/ SelectInfraItem
    PROVE Undoable
<1>1. ASSUME deleteSelectedStruct(seen) \/ DeleteInfraItem(seen)
             \/ toggleStructureLock \/ removeInfraLayer
      PROVE Recorded
  BY <1>1, UsualUndoable, SeenDue DEF deleteSelectedStruct, DeleteInfraItem,
       toggleStructureLock, removeInfraLayer, EditWall
<1>3. ASSUME splitStructureSegment PROVE Recorded
  <2>1. Due(dbl.doc) BY <1>3 DEF Due
  <2> QED BY <1>3, <2>1, UsualUndoable DEF splitStructureSegment, EditWall
<1>2. ASSUME ChooseInfraLayer \/ SelectInfraItem PROVE doc' = doc
  BY <1>2, UsualUndoable DEF ChooseInfraLayer, SelectInfraItem
<1> QED BY <1>1, <1>2, <1>3 DEF Undoable, Unrecordable

\* The background.
LEMMA BackgroundUndoable ==
    ASSUME \/ fitBackgroundToCanvas \/ commitBackgroundTransform \/ toggleBackgroundLock
           \/ ToggleBackground \/ RemoveBackground \/ AdjustBackground
           \/ onBgFileChange \/ applyLoadedBackground
    PROVE Undoable
<1>1. ASSUME \/ fitBackgroundToCanvas \/ commitBackgroundTransform \/ toggleBackgroundLock
             \/ ToggleBackground \/ RemoveBackground
      PROVE Recorded
  BY <1>1, UsualUndoable, SeenDue DEF fitBackgroundToCanvas, commitBackgroundTransform,
       toggleBackgroundLock, ToggleBackground, RemoveBackground, EditBackground
<1>2. ASSUME applyLoadedBackground PROVE Recorded
  <2>1. Due(loading.seen) BY <1>2 DEF Due
  <2> QED BY <1>2, <2>1 DEF applyLoadedBackground, Recorded
<1>3. ASSUME onBgFileChange PROVE doc' = doc
  BY <1>3 DEF onBgFileChange
<1> QED BY <1>1, <1>2, <1>3 DEF Undoable, Unrecordable

\* The end of a drawing.
LEMMA FinishUndoable == ASSUME NEW seen, Due(seen.doc), finishDraw(seen)
                        PROVE Recorded
BY DEF finishDraw, Recorded

\* Tools and drawing.
LEMMA DrawingUndoable ==
    ASSUME \/ \E t \in Tools : PickTool(t) \/ KeyTool(t)
           \/ SpaceDown \/ SpaceUp \/ EnterKey \/ DoubleClickDraw \/ DrawPoint \/ EscapeKey
    PROVE Undoable
<1>1. ASSUME NEW t \in Tools, PickTool(t) \/ KeyTool(t) PROVE doc' = doc
  BY <1>1, UsualUndoable DEF PickTool, KeyTool
<1>2. ASSUME SpaceDown \/ SpaceUp PROVE doc' = doc
  BY <1>2, UsualUndoable DEF SpaceDown, SpaceUp
<1>3. ASSUME EnterKey \/ DoubleClickDraw \/ DrawPoint PROVE doc' = doc \/ Recorded
  <2>1. CASE EnterKey \/ DrawPoint
    BY <2>1, UsualUndoable, FinishUndoable, SeenDue DEF EnterKey, DrawPoint
  <2>2. CASE DoubleClickDraw
    <3>1. Due(dbl.doc) BY <2>2 DEF Due
    <3> QED BY <2>2, <3>1, FinishUndoable DEF DoubleClickDraw
  <2> QED BY <1>3, <2>1, <2>2
<1>4. ASSUME EscapeKey PROVE doc' = doc
  BY <1>4, UsualUndoable DEF EscapeKey
<1> QED BY <1>1, <1>2, <1>3, <1>4 DEF Undoable

\* Presses change nothing; what moves is in hand.
LEMMA GesturesUndoable ==
    ASSUME \/ \E d \in Desks, shift \in BOOLEAN : PressDesk(d, shift)
           \/ \E w \in Walls : PressWall(w)
           \/ PressZone \/ \E shift \in BOOLEAN : PressEmpty(shift)
           \/ \E what \in {"desk", "vertex", "bg"} : Grip(what)
           \/ \E place \in Places : onSvgPointerMove(place)
           \/ onSvgPointerUp
    PROVE Undoable
<1>1. ASSUME NEW d \in Desks, NEW shift \in BOOLEAN, PressDesk(d, shift) PROVE doc' = doc
  BY <1>1, UsualUndoable DEF PressDesk
<1>2. ASSUME NEW w \in Walls, PressWall(w) PROVE doc' = doc
  BY <1>2, UsualUndoable DEF PressWall
<1>3. ASSUME PressZone PROVE doc' = doc
  BY <1>3, UsualUndoable DEF PressZone
<1>4. ASSUME NEW shift \in BOOLEAN, PressEmpty(shift) PROVE doc' = doc
  BY <1>4, UsualUndoable DEF PressEmpty
<1>5. ASSUME NEW what \in {"desk", "vertex", "bg"}, Grip(what) PROVE doc' = doc
  BY <1>5 DEF Grip
<1>6. ASSUME NEW place \in Places, onSvgPointerMove(place) PROVE Moved
  BY <1>6 DEF Moved
<1>7. ASSUME onSvgPointerUp PROVE doc' = doc
  <2>1. CASE hand.kind = "marquee" BY <1>7, <2>1, UsualUndoable DEF onSvgPointerUp
  <2>2. CASE hand.kind # "marquee" BY <1>7, <2>2 DEF onSvgPointerUp
  <2> QED BY <2>1, <2>2
<1> QED BY <1>1, <1>2, <1>3, <1>4, <1>5, <1>6, <1>7 DEF Undoable

\* Every step is of one of the kinds.
LEMMA NextUndoable == ASSUME Next PROVE Undoable
<1>1. ASSUME NEW seen \in Seen, Undo(seen) \/ Redo(seen) PROVE Restores
  BY <1>1 DEF Restores
<1>2. ASSUME LoadLayout \/ resetChanges PROVE Restores
  BY <1>2 DEF Restores
<1>3. ASSUME ChangeScale \/ Save PROVE doc' = doc
  BY <1>3 DEF ChangeScale, Save
<1>4. ASSUME \E seen \in Seen : Undo(seen) \/ Redo(seen) PROVE Undoable
  BY <1>1, <1>4 DEF Undoable
<1>5. ASSUME LoadLayout \/ resetChanges \/ ChangeScale \/ Save PROVE Undoable
  BY <1>2, <1>3, <1>5 DEF Undoable
<1>6. Seen # {} BY DEF Seen
<1> QED BY <1>4, <1>5, <1>6, ObjectsUndoable, LinesUndoable, BackgroundUndoable, DrawingUndoable,
           GesturesUndoable DEF Next

-----------------------------------------------------------------------------
(***************************************************************************)
(* Where what the stacks hold comes from                                   *)
(***************************************************************************)

Elements(s) == {s[i] : i \in DOMAIN s}

\* One more element.
LEMMA AppendElements == ASSUME NEW S, NEW s \in Seq(S), NEW x \in S
                        PROVE Elements(Append(s, x)) \subseteq Elements(s) \cup {x}
<1> DEFINE n == Len(s)
<1>1. n \in Nat /\ DOMAIN s = 1..n OBVIOUS
<1>2. DOMAIN Append(s, x) = 1..(n + 1) OBVIOUS
<1>3. \A i \in 1..n : Append(s, x)[i] = s[i] OBVIOUS
<1>4. Append(s, x)[n + 1] = x OBVIOUS
<1> HIDE DEF n
<1>5. \A i \in 1..(n + 1) : i \in 1..n \/ i = n + 1 BY <1>1
<1> QED BY <1>1, <1>2, <1>3, <1>4, <1>5 DEF Elements

\* Some of the elements.
LEMMA SubSeqElements == ASSUME NEW S, NEW s \in Seq(S), NEW m \in Nat \ {0}
                        PROVE /\ SubSeq(s, m, Len(s)) \in Seq(S)
                              /\ Elements(SubSeq(s, m, Len(s))) \subseteq Elements(s)
<1> DEFINE n == Len(s)
           v == SubSeq(s, m, n)
<1>1. n \in Nat /\ DOMAIN s = 1..n OBVIOUS
<1>2. \A i \in m..n : i \in 1..n BY <1>1
<1> HIDE DEF n
<1>3. v \in Seq(S) BY <1>1, <1>2
<1>4. DOMAIN v = 1..Len(v) /\ Len(v) = IF m <= n THEN n - m + 1 ELSE 0 BY <1>1, <1>3
<1>5. \A i \in 1..(n - m + 1) : v[i] = s[m + i - 1] BY <1>1
<1>6. \A i \in DOMAIN v : i \in 1..(n - m + 1) /\ m + i - 1 \in 1..n
  BY <1>1, <1>4
<1> HIDE DEF v
<1>7. Elements(v) \subseteq Elements(s)
  BY <1>1, <1>5, <1>6 DEF Elements
<1> QED BY <1>3, <1>7 DEF v, n

\* All but the last.
LEMMA FrontElements == ASSUME NEW S, NEW s \in Seq(S)
                       PROVE Elements(Front(s)) \subseteq Elements(s)
<1> DEFINE n == Len(s)
           v == SubSeq(s, 1, n - 1)
<1>1. n \in Nat /\ DOMAIN s = 1..n OBVIOUS
<1>2. \A i \in 1..(n - 1) : i \in 1..n BY <1>1
<1> HIDE DEF n
<1>3. v \in Seq(S) BY <1>1, <1>2
<1>4. DOMAIN v = 1..Len(v) /\ Len(v) = IF 1 <= n - 1 THEN n - 1 ELSE 0 BY <1>1, <1>3
<1>5. \A i \in 1..(n - 1) : v[i] = s[i] BY <1>1
<1>6. \A i \in DOMAIN v : i \in 1..(n - 1) BY <1>1, <1>4
<1> HIDE DEF v
<1> QED BY <1>1, <1>2, <1>5, <1>6 DEF Elements, Front, v, n

\* The entries of a pair of stacks.
LEMMA EntriesAre == \A h : Entries(h) = Elements(h.undo) \cup Elements(h.redo)
BY DEF Entries, Elements

\* push brings in what it is given.
LEMMA PushEntries == ASSUME NEW h, NEW x, Bounded(h)
                     PROVE Entries(push(h, x)) \subseteq Entries(h) \cup {x}
<1>1. PICK S : Within(h, S) BY DEF Bounded
<1> DEFINE T == S \cup {x}
<1>2. h.undo \in Seq(T) /\ Len(h.undo) \in Nat /\ x \in T BY <1>1, Widen
<1>3. maxDepth \in Nat /\ maxDepth >= 1 BY DepthAssumption
<1> HIDE DEF T
<1>4. Elements(<< >>) = {} BY DEF Elements
<1>5. CASE Len(h.undo) < maxDepth
  <2>1. push(h, x).undo = Append(h.undo, x) /\ push(h, x).redo = << >> BY <1>5 DEF push
  <2>2. Elements(Append(h.undo, x)) \subseteq Elements(h.undo) \cup {x}
    BY <1>2, AppendElements
  <2>3. Entries(push(h, x)) = Elements(Append(h.undo, x)) \cup {}
    BY <1>4, <2>1, EntriesAre
  <2> QED BY <2>2, <2>3, EntriesAre
<1>6. CASE ~(Len(h.undo) < maxDepth)
  <2> DEFINE f == Len(h.undo) - maxDepth + 2
             v == SubSeq(h.undo, f, Len(h.undo))
  <2>1. f \in Nat \ {0} BY <1>2, <1>3, <1>6
  <2>2. push(h, x).undo = Append(v, x) /\ push(h, x).redo = << >> BY <1>6 DEF push
  <2> HIDE DEF f
  <2>3. v \in Seq(T) /\ Elements(v) \subseteq Elements(h.undo) BY <1>2, <2>1, SubSeqElements
  <2> HIDE DEF v
  <2>4. Elements(Append(v, x)) \subseteq Elements(v) \cup {x}
    BY <1>2, <2>3, AppendElements
  <2>5. Entries(push(h, x)) = Elements(Append(v, x)) \cup {}
    BY <1>4, <2>2, EntriesAre
  <2> QED BY <2>3, <2>4, <2>5, EntriesAre
<1> QED BY <1>5, <1>6

\* Several pushes of one state bring in that state.
LEMMA PushEachEntries ==
    ASSUME NEW h, NEW x, NEW n \in Nat \ {0}, Bounded(h)
    PROVE Entries(pushEach(h, x, n)) \subseteq Entries(h) \cup {x}
<1>1. PICK S : Within(h, S) BY DEF Bounded
<1> DEFINE T == S \cup {x}
           copies == [i \in 1..n |-> x]
           all == h.undo \o copies
           m == IF Len(all) > maxDepth THEN Len(all) - maxDepth + 1 ELSE 1
           v == SubSeq(all, m, Len(all))
<1>2. h.undo \in Seq(T) /\ Len(h.undo) \in Nat /\ x \in T BY <1>1, Widen
<1>3. maxDepth \in Nat BY DepthAssumption
<1> HIDE DEF T
<1>4. copies \in Seq(T) /\ Len(copies) = n BY <1>2, Copies
<1>5. \A i \in 1..n : copies[i] = x OBVIOUS
<1>6. pushEach(h, x, n) = [undo |-> v, redo |-> << >>] BY DEF pushEach
<1> HIDE DEF copies
<1>7. /\ all \in Seq(T) /\ Len(all) = Len(h.undo) + n
      /\ \A i \in 1..Len(h.undo) : all[i] = h.undo[i]
      /\ \A i \in 1..Len(all) : i > Len(h.undo) => all[i] = copies[i - Len(h.undo)]
  <2>1. /\ all \in Seq(T) /\ Len(all) = Len(h.undo) + Len(copies)
        /\ \A i \in 1..(Len(h.undo) + Len(copies)) :
              all[i] = IF i <= Len(h.undo) THEN h.undo[i] ELSE copies[i - Len(h.undo)]
    BY <1>2, <1>4, Joined
  <2> HIDE DEF all
  <2> QED BY <1>2, <1>4, <2>1
<1>8. Elements(all) \subseteq Elements(h.undo) \cup {x}
  <2>1. \A i \in 1..Len(all) : i \in 1..Len(h.undo) \/ i - Len(h.undo) \in 1..n BY <1>2, <1>7
  <2>2. DOMAIN all = 1..Len(all) /\ DOMAIN h.undo = 1..Len(h.undo) BY <1>2, <1>7
  <2> HIDE DEF all
  <2> QED BY <1>2, <1>5, <1>7, <2>1, <2>2 DEF Elements
<1> HIDE DEF all
<1>9. m \in Nat \ {0} BY <1>2, <1>3, <1>7
<1> HIDE DEF m
<1>10. Elements(v) \subseteq Elements(all) BY <1>7, <1>9, SubSeqElements
<1> HIDE DEF v
<1>11. Entries(pushEach(h, x, n)) = Elements(v) \cup {}
  <2>1. Elements(<< >>) = {} BY DEF Elements
  <2>2. pushEach(h, x, n).undo = v /\ pushEach(h, x, n).redo = << >> BY <1>6
  <2> QED BY <2>1, <2>2, EntriesAre
<1> QED BY <1>8, <1>10, <1>11, EntriesAre

\* undo and redo bring in what is left.
LEMMA MoveEntries == ASSUME NEW h, NEW x, Bounded(h)
                     PROVE /\ Entries(undo(h, x)) \subseteq Entries(h) \cup {x}
                           /\ Entries(redo(h, x)) \subseteq Entries(h) \cup {x}
<1>1. PICK S : Within(h, S) BY DEF Bounded
<1> DEFINE T == S \cup {x}
<1>2. h.undo \in Seq(T) /\ h.redo \in Seq(T) /\ x \in T BY <1>1, Widen
<1> HIDE DEF T
<1>3. /\ Elements(Append(h.undo, x)) \subseteq Elements(h.undo) \cup {x}
      /\ Elements(Append(h.redo, x)) \subseteq Elements(h.redo) \cup {x}
      /\ Elements(Front(h.undo)) \subseteq Elements(h.undo)
      /\ Elements(Front(h.redo)) \subseteq Elements(h.redo)
  BY <1>2, AppendElements, FrontElements
<1> QED BY <1>3, EntriesAre DEF undo, redo

\* What a step leaves on the stacks was there, or is known.
LEMMA KeptEntries == ASSUME Bounded(hist), Kept
                     PROVE \/ Entries(hist') = {}
                           \/ layout' = layout /\ \A e \in Entries(hist') : e \in Entries(hist) \/ Known(e)
<1>1. CASE hist' = NoHistory
  BY <1>1 DEF Entries, NoHistory
<1>2. CASE layout' = layout /\ hist' = hist BY <1>2
<1>3. CASE layout' = layout /\ \E x : Known(x) /\ hist' = push(hist, x)
  BY <1>3, PushEntries
<1>4. CASE layout' = layout /\ \E x, y : Known(x) /\ Known(y) /\ hist' = push(push(hist, x), y)
  <2>1. PICK x, y : Known(x) /\ Known(y) /\ hist' = push(push(hist, x), y) BY <1>4
  <2>2. Entries(push(hist, x)) \subseteq Entries(hist) \cup {x} BY PushEntries
  <2>3. Entries(push(push(hist, x), y)) \subseteq Entries(push(hist, x)) \cup {y}
    BY PushEntries, PushBounded
  <2> QED BY <1>4, <2>1, <2>2, <2>3
<1>5. CASE layout' = layout /\ \E x : Known(x) /\ (hist' = undo(hist, x) \/ hist' = redo(hist, x))
  BY <1>5, MoveEntries
<1>6. CASE /\ layout' = layout
           /\ \E x : Known(x) /\ \E n \in Nat \ {0} : hist' = pushEach(hist, x, n)
  BY <1>6, PushEachEntries
<1> QED BY <1>1, <1>2, <1>3, <1>4, <1>5, <1>6 DEF Kept

\* Nothing of another layout gets on the stacks but by a drag or an image that
\* was begun before the load.
THEOREM HistoryOfLayoutAlways == Spec => HistoryOfLayout
<1>1. Init => Bounded(hist)
  BY NoHistoryBounded DEF Init
<1>2. Bounded(hist) /\ [Next]_vars => Bounded(hist)'
  <2> SUFFICES ASSUME Bounded(hist), [Next]_vars PROVE Bounded(hist') BY DEF Bounded, Within
  <2> QED BY NextKeeps, KeptBounded
<1> DEFINE Sourced ==
      \A e \in Entries(hist') :
          \/ e.of = layout'.of
          \/ layout' = layout /\ e \in Entries(hist) \cup {doc, keys.doc, dbl.doc}
          \/ hand.kind = "drag" /\ e = hand.start
          \/ loading.on /\ e = loading.seen
<1>3. Bounded(hist) /\ [Next]_vars => [Sourced]_vars
  <2> SUFFICES ASSUME Bounded(hist), [Next]_vars PROVE Sourced OBVIOUS
  <2>1. Kept BY NextKeeps
  <2>2. CASE Entries(hist') = {} BY <2>2
  <2>3. CASE layout' = layout /\ \A e \in Entries(hist') : e \in Entries(hist) \/ Known(e)
    BY <2>3 DEF Known, AtHand
  <2> QED BY <2>1, <2>2, <2>3, KeptEntries
<1>4. Spec => [][Sourced]_vars
  BY <1>1, <1>2, <1>3, PTL DEF Spec
<1> QED BY <1>4 DEF HistoryOfLayout

-----------------------------------------------------------------------------
(***************************************************************************)
(* The types, the selection and the locked walls                           *)
(***************************************************************************)

\* What a step that is well behaved leaves: its types, ...
Typed ==
    /\ layout' \in Doc /\ doc' \in Doc /\ scale' \in Places /\ dirty' \in BOOLEAN
    /\ ui' \in Ui /\ hand' \in Hand
    /\ keys' \in CanvasView /\ dbl' \in CanvasView
    /\ loading' \in Image
    /\ born' \in Born
    /\ edits' \in Nat /\ kit' \in Kits

\* ... a selection of which no more is gone than before, ...
Selects == \A d \in ui'.sel \ Live(doc') : d \in ui.sel \ Live(doc)

\* ... and the walls, unless they were or are free.
WallsLocked == doc.locked /\ doc'.locked => doc'.walls = doc.walls

Behaves == Typed /\ Selects /\ WallsLocked

\* A document with another part is a document, the other parts of which stay.
LEMMA DocWith ==
    ASSUME NEW d \in Doc
    PROVE  /\ \A desks \in [Desks -> Places \cup {Gone}] :
                 LET e == [d EXCEPT !.desks = desks]
                 IN  e \in Doc /\ e.desks = desks /\ e.walls = d.walls
           /\ \A walls \in [Walls -> Places \cup {Gone}] :
                 LET e == [d EXCEPT !.walls = walls]
                 IN  e \in Doc /\ e.desks = d.desks /\ e.locked = d.locked
           /\ \A locked \in BOOLEAN :
                 LET e == [d EXCEPT !.locked = locked]
                 IN  e \in Doc /\ e.desks = d.desks /\ e.walls = d.walls
           /\ \A group \in SUBSET Desks :
                 LET e == [d EXCEPT !.group = group]
                 IN  e \in Doc /\ e.desks = d.desks /\ e.walls = d.walls
           /\ \A zone \in Places \cup {Gone} :
                 LET e == [d EXCEPT !.zone = zone]
                 IN  e \in Doc /\ e.desks = d.desks /\ e.walls = d.walls
           /\ \A infra \in [layer: {"none", "shown", "hidden"}, lines: Nat] :
                 LET e == [d EXCEPT !.infra = infra]
                 IN  e \in Doc /\ e.desks = d.desks /\ e.walls = d.walls
           /\ \A bg \in [image: {0, 1}, at: Places, locked: BOOLEAN, look: Places] :
                 LET e == [d EXCEPT !.bg = bg]
                 IN  e \in Doc /\ e.desks = d.desks /\ e.walls = d.walls
BY DEF Doc

\* A view of typed parts is typed, and the renewed handlers are.
LEMMA RendersTyped ==
    ASSUME CanvasTypeOK, NEW k, NEW d, Renders(k, d), doc' \in Doc, ui' \in Ui
    PROVE  keys' \in CanvasView /\ dbl' \in CanvasView
<1>1. View(doc', ui') \in CanvasView
  BY DEF View, CanvasView, Ui
<1>. QED
  BY <1>1 DEF Renders, CanvasTypeOK

\* The usual shapes of a handler.
LEMMA ChangeTyped ==
    ASSUME CanvasTypeOK, NEW next \in Doc, NEW u \in Ui, NEW k, Change(next, u, k),
           hand' \in Hand, born' \in Born
    PROVE  Typed /\ doc' = next /\ ui' = u
<1>1. /\ doc' = next /\ ui' = u /\ dirty' = TRUE /\ edits' = edits + 1
      /\ layout' = layout /\ scale' = scale /\ loading' = loading /\ kit' = kit
      /\ Renders(k, FALSE)
  BY DEF Change
<1>2. keys' \in CanvasView /\ dbl' \in CanvasView
  BY <1>1, RendersTyped
<1>3. /\ edits' \in Nat /\ dirty' \in BOOLEAN /\ layout' \in Doc /\ scale' \in Places
      /\ loading' \in Image /\ kit' \in Kits
  BY <1>1 DEF CanvasTypeOK
<1>. QED
  BY <1>1, <1>2, <1>3 DEF Typed

\* ... of which the other changes nothing but what is shown.
LEMMA ShowsTyped ==
    ASSUME CanvasTypeOK, NEW u \in Ui, NEW k, NEW d, Shows(u, k, d), hand' \in Hand
    PROVE  Typed /\ doc' = doc /\ ui' = u
<1>1. /\ doc' = doc /\ ui' = u /\ dirty' = dirty /\ edits' = edits /\ born' = born
      /\ layout' = layout /\ scale' = scale /\ loading' = loading /\ kit' = kit
      /\ Renders(k, d)
  BY DEF Shows
<1>2. keys' \in CanvasView /\ dbl' \in CanvasView
  BY <1>1, RendersTyped DEF CanvasTypeOK
<1>. QED
  BY <1>1, <1>2 DEF Typed, CanvasTypeOK

\* What is shown may be anything, as long as no more is selected.
LEMMA ShowsBehaves ==
    ASSUME CanvasTypeOK, NEW u \in Ui, NEW k, NEW d, Shows(u, k, d), hand' \in Hand,
           u.sel \subseteq ui.sel \cup Live(doc)
    PROVE  Behaves
BY ShowsTyped DEF Behaves, Selects, WallsLocked

\* Another part of the document than desks and walls, with as much or nothing selected.
LEMMA ChangeBehaves ==
    ASSUME CanvasTypeOK, NEW next \in Doc, NEW u \in Ui, NEW k, Change(next, u, k),
           hand' = hand, born' = born, next.desks = doc.desks, u.sel \subseteq ui.sel,
           doc.locked /\ next.locked => next.walls = doc.walls
    PROVE  Behaves
<1>1. Typed /\ doc' = next /\ ui' = u
  BY ChangeTyped DEF CanvasTypeOK
<1>. QED
  BY <1>1 DEF Behaves, Selects, WallsLocked, Live

\* The other one of two places.
LEMMA OtherPlace == /\ \A place \in Places : Other(place) \in Places
                    /\ Gone \notin Places
BY DEF Other, Places, Gone

\* An edit of the desks leaves none selected that it takes away.
LEMMA DesksBehave ==
    ASSUME CanvasTypeOK, NEW seen, NEW desks \in [Desks -> Places \cup {Gone}], NEW u \in Ui,
           modifyDesks(seen, desks, u), born' \in Born,
           \A d \in u.sel : desks[d] = Gone => d \in ui.sel /\ doc.desks[d] = Gone
    PROVE  Behaves
<1>1. PICK next : next = [doc EXCEPT !.desks = desks]
  OBVIOUS
<1>2. Change(next, u, TRUE) /\ hand' = hand
  BY <1>1 DEF modifyDesks, Record
<1>3. next \in Doc /\ next.desks = desks /\ next.walls = doc.walls
  BY <1>1, DocWith DEF CanvasTypeOK
<1>4. Typed /\ doc' = next /\ ui' = u
  BY <1>2, <1>3, ChangeTyped DEF CanvasTypeOK
<1>5. Selects
  <2>1. u.sel \subseteq Desks
    BY DEF Ui
  <2>. QED
    BY <1>3, <1>4, <2>1 DEF Selects, Live
<1>. QED
  BY <1>3, <1>4, <1>5 DEF Behaves, WallsLocked

\* Aligned or nudged desks, one with another field, and those taken away.
LEMMA MovesBehave ==
    ASSUME CanvasTypeOK, NEW seen,
           MoveSelected(seen) \/ UpdateDesk \/ deleteSelected(seen)
    PROVE  Behaves
<1>1. ui \in Ui /\ doc.desks \in [Desks -> Places \cup {Gone}]
      /\ born \in Born
  BY DEF CanvasTypeOK, Doc
<1>2. CASE MoveSelected(seen)
  <2>1. PICK desks : desks = [d \in Desks |-> IF d \in ui.sel \cap Live(doc)
                                              THEN Other(doc.desks[d]) ELSE doc.desks[d]]
    OBVIOUS
  <2>2. \A d \in Desks : d \in Live(doc) => doc.desks[d] \in Places
    BY <1>1 DEF Live
  <2>3. \A d \in Desks : /\ desks[d] \in Places \cup {Gone}
                         /\ desks[d] = Gone => doc.desks[d] = Gone
    BY <1>1, <2>1, <2>2, OtherPlace
  <2>4. desks \in [Desks -> Places \cup {Gone}]
    BY <2>1, <2>3
  <2>5. modifyDesks(seen, desks, ui) /\ born' = born
    BY <1>2, <2>1 DEF MoveSelected
  <2>6. ui.sel \subseteq Desks
    BY <1>1 DEF Ui
  <2>. QED
    BY <1>1, <2>3, <2>4, <2>5, <2>6, DesksBehave
<1>3. CASE UpdateDesk
  <2>1. PICK d \in ui.sel \cap Live(doc), place \in Places :
            modifyDesks(Now, [doc.desks EXCEPT ![d] = place], ui) /\ born' = born
    BY <1>3 DEF UpdateDesk
  <2>2. PICK desks : desks = [doc.desks EXCEPT ![d] = place]
    OBVIOUS
  <2>3. /\ desks \in [Desks -> Places \cup {Gone}]
        /\ \A e \in Desks : desks[e] = Gone => doc.desks[e] = Gone
    BY <1>1, <2>2, OtherPlace
  <2>4. ui.sel \subseteq Desks
    BY <1>1 DEF Ui
  <2>. QED
    BY <1>1, <2>1, <2>2, <2>3, <2>4, DesksBehave
<1>4. CASE deleteSelected(seen)
  <2>1. PICK desks, u : /\ desks = [d \in Desks |-> IF d \in ui.sel THEN Gone ELSE doc.desks[d]]
                        /\ u = [ui EXCEPT !.sel = {}]
    OBVIOUS
  <2>2. desks \in [Desks -> Places \cup {Gone}] /\ u \in Ui /\ u.sel = {}
    BY <1>1, <2>1 DEF Ui
  <2>3. modifyDesks(seen, desks, u) /\ born' = born
    BY <1>4, <2>1 DEF deleteSelected
  <2>. QED
    BY <1>1, <2>2, <2>3, DesksBehave
<1>. QED
  BY <1>2, <1>3, <1>4

\* A new desk is there and selected.
LEMMA AddBehaves ==
    ASSUME CanvasTypeOK, NEW seen, NEW u \in Ui, AddDesk(seen, u)
    PROVE  Behaves
<1>1. PICK new : new = born.desk + 1
  OBVIOUS
<1>2. born \in Born /\ doc.desks \in [Desks -> Places \cup {Gone}]
  BY DEF CanvasTypeOK, Doc
<1>3. new \in Desks /\ new \in 0..MaxDesk
  BY <1>1, <1>2, DesksAssumption DEF AddDesk, Desks, Born
<1>4. PICK desks, next : /\ desks = [doc.desks EXCEPT ![new] = 1]
                         /\ next = [u EXCEPT !.sel = {new}]
  OBVIOUS
<1>5. /\ desks \in [Desks -> Places \cup {Gone}] /\ desks[new] # Gone
      /\ next \in Ui /\ next.sel = {new}
  BY <1>2, <1>3, <1>4 DEF Ui, Places, Gone
<1>6. modifyDesks(seen, desks, next) /\ born' = [born EXCEPT !.desk = new]
  BY <1>1, <1>4 DEF AddDesk
<1>7. born' \in Born
  BY <1>2, <1>3, <1>6 DEF Born
<1>. QED
  BY <1>5, <1>6, <1>7, DesksBehave

\* All selected desks, or all there are, get another value of a field.
LEMMA ManyBehave ==
    ASSUME CanvasTypeOK, CatalogueResizes \/ \E place \in Places : BulkUpdate(place)
    PROVE  Behaves
<1>1. PICK desks : /\ Change([doc EXCEPT !.desks = desks], ui, TRUE) /\ hand' = hand /\ born' = born
                   /\ desks \in [Desks -> Places \cup {Gone}]
                   /\ \A d \in Desks : desks[d] = Gone => doc.desks[d] = Gone
  <2>1. doc.desks \in [Desks -> Places \cup {Gone}]
    BY DEF CanvasTypeOK, Doc
  <2>2. CASE CatalogueResizes
    <3>1. PICK desks : desks = [d \in Desks |-> IF d \in Live(doc) THEN Other(doc.desks[d])
                                                ELSE Gone]
      OBVIOUS
    <3>2. \A d \in Desks : /\ d \in Live(doc) => doc.desks[d] \in Places
                           /\ d \notin Live(doc) => doc.desks[d] = Gone
      BY <2>1 DEF Live
    <3>3. \A d \in Desks : /\ desks[d] \in Places \cup {Gone}
                           /\ desks[d] = Gone => doc.desks[d] = Gone
      BY <2>1, <3>1, <3>2, OtherPlace
    <3>4. desks \in [Desks -> Places \cup {Gone}]
      BY <3>1, <3>3
    <3>5. Change([doc EXCEPT !.desks = desks], ui, TRUE) /\ hand' = hand /\ born' = born
      BY <2>2, <3>1 DEF CatalogueResizes, Unrecorded
    <3>. QED
      BY <3>3, <3>4, <3>5
  <2>3. ASSUME NEW place \in Places, BulkUpdate(place)
        PROVE  \E desks :
                   /\ Change([doc EXCEPT !.desks = desks], ui, TRUE) /\ hand' = hand /\ born' = born
                   /\ desks \in [Desks -> Places \cup {Gone}]
                   /\ \A d \in Desks : desks[d] = Gone => doc.desks[d] = Gone
    <3>1. PICK desks : desks = [d \in Desks |-> IF d \in ui.sel \cap Live(doc) THEN place
                                                ELSE doc.desks[d]]
      OBVIOUS
    <3>2. \A d \in Desks : /\ desks[d] \in Places \cup {Gone}
                           /\ desks[d] = Gone => doc.desks[d] = Gone
      BY <2>1, <3>1, OtherPlace
    <3>3. desks \in [Desks -> Places \cup {Gone}]
      BY <3>1, <3>2
    <3>4. Change([doc EXCEPT !.desks = desks], ui, TRUE) /\ hand' = hand /\ born' = born
      BY <2>3, <3>1 DEF BulkUpdate
    <3>. QED
      BY <3>2, <3>3, <3>4
  <2>. QED
    BY <2>2, <2>3
<1>2. PICK next : next = [doc EXCEPT !.desks = desks]
  OBVIOUS
<1>3. next \in Doc /\ next.desks = desks /\ next.walls = doc.walls
  BY <1>1, <1>2, DocWith DEF CanvasTypeOK
<1>4. Typed /\ doc' = next /\ ui' = ui
  BY <1>1, <1>2, <1>3, ChangeTyped DEF CanvasTypeOK
<1>5. ui.sel \subseteq Desks
  BY DEF CanvasTypeOK, Ui
<1>. QED
  BY <1>1, <1>3, <1>4, <1>5 DEF Behaves, Selects, WallsLocked, Live

\* A drawing given up.
LEMMA CancelTyped ==
    ASSUME NEW u \in Ui
    PROVE  cancelDraw(u) \in Ui /\ cancelDraw(u).sel = u.sel /\ cancelDraw(u).points = 0
BY DEF Ui, cancelDraw

\* Desks, groups and zones.
LEMMA ObjectsBehave ==
    ASSUME CanvasTypeOK, NEW seen \in Seen,
           \/ MoveSelected(seen) \/ deleteSelected(seen) \/ duplicateSelected(seen)
           \/ groupSelected(seen) \/ ungroupSelected(seen) \/ deleteZone(seen)
           \/ Copy \/ Paste \/ addDeskAt \/ insertObjects \/ CatalogueResizes \/ ToggleDesksLock
           \/ deleteGroup \/ selectGroup \/ updateZone
           \/ UpdateDesk \/ \E place \in Places : BulkUpdate(place)
    PROVE  Behaves \/ (Typed /\ selectGroup /\ WallsLocked)
<1>1. ui \in Ui /\ doc \in Doc
  BY DEF CanvasTypeOK
<1>2. ASSUME NEW s, NEW u \in Ui, NEW group \in SUBSET Desks, EditGroups(s, group, u),
             u.sel \subseteq ui.sel
      PROVE  Behaves
  <2>1. PICK next : next = [doc EXCEPT !.group = group]
    OBVIOUS
  <2>2. Change(next, u, FALSE) /\ hand' = hand /\ born' = born
    BY <1>2, <2>1 DEF EditGroups, Record
  <2>3. next \in Doc /\ next.desks = doc.desks /\ next.walls = doc.walls
    BY <1>1, <2>1, DocWith
  <2>. QED
    BY <1>2, <2>2, <2>3, ChangeBehaves
<1>3. ASSUME NEW s, NEW u \in Ui, NEW zone \in Places \cup {Gone}, EditZone(s, zone, u),
             u.sel \subseteq ui.sel
      PROVE  Behaves
  <2>1. PICK next : next = [doc EXCEPT !.zone = zone]
    OBVIOUS
  <2>2. Change(next, u, TRUE) /\ hand' = hand /\ born' = born
    BY <1>3, <2>1 DEF EditZone, Record
  <2>3. next \in Doc /\ next.desks = doc.desks /\ next.walls = doc.walls
    BY <1>1, <2>1, DocWith
  <2>. QED
    BY <1>3, <2>2, <2>3, ChangeBehaves
<1>4. CASE groupSelected(seen) \/ ungroupSelected(seen) \/ deleteGroup
  <2>1. NoGroup \in SUBSET Desks /\ ui.sel \in SUBSET Desks
    BY <1>1 DEF NoGroup, Ui
  <2>2. PICK group \in SUBSET Desks : \E s : EditGroups(s, group, ui)
    BY <1>4, <2>1 DEF groupSelected, ungroupSelected, deleteGroup
  <2>. QED
    BY <1>1, <1>2, <2>2
<1>5. CASE deleteZone(seen) \/ updateZone
  <2>1. PICK u : u = [ui EXCEPT !.zone = FALSE]
    OBVIOUS
  <2>2. u \in Ui /\ u.sel = ui.sel
    BY <1>1, <2>1 DEF Ui
  <2>3. Gone \in Places \cup {Gone} /\ (doc.zone # Gone => Other(doc.zone) \in Places)
    BY <1>1, OtherPlace DEF Doc
  <2>4. CASE deleteZone(seen)
    <3>1. EditZone(seen, Gone, u)
      BY <2>1, <2>4 DEF deleteZone
    <3>. QED
      BY <1>3, <2>2, <3>1
  <2>5. CASE updateZone
    <3>1. EditZone(Now, Other(doc.zone), ui) /\ doc.zone # Gone
      BY <2>5 DEF updateZone
    <3>. QED
      BY <1>1, <1>3, <2>3, <3>1
  <2>. QED
    BY <1>5, <2>4, <2>5
<1>6. CASE duplicateSelected(seen) \/ Paste \/ addDeskAt \/ insertObjects
  <2>1. PICK u : u = [ui EXCEPT !.struct = Gone]
    OBVIOUS
  <2>2. u \in Ui
    BY <1>1, <2>1 DEF Ui
  <2>3. PICK s : AddDesk(s, u) \/ AddDesk(s, ui)
    BY <1>6, <2>1 DEF duplicateSelected, Paste, addDeskAt, insertObjects
  <2>. QED
    BY <1>1, <2>2, <2>3, AddBehaves
<1>7. CASE Copy \/ ToggleDesksLock
  <2>1. PICK clip, lock : /\ clip = [ui EXCEPT !.clip = TRUE]
                          /\ lock = [ui EXCEPT !.desksLocked = ~@]
    OBVIOUS
  <2>2. clip \in Ui /\ clip.sel = ui.sel /\ lock \in Ui /\ lock.sel = ui.sel
    BY <1>1, <2>1 DEF Ui
  <2>3. hand' = hand /\ (Shows(clip, FALSE, FALSE) \/ Shows(lock, FALSE, FALSE))
    BY <1>7, <2>1 DEF Copy, ToggleDesksLock
  <2>4. hand' \in Hand
    BY <2>3 DEF CanvasTypeOK
  <2>5. clip.sel \subseteq ui.sel \cup Live(doc) /\ lock.sel \subseteq ui.sel \cup Live(doc)
    BY <2>2
  <2>6. CASE Shows(clip, FALSE, FALSE)
    BY <2>2, <2>4, <2>5, <2>6, ShowsBehaves
  <2>7. CASE Shows(lock, FALSE, FALSE)
    BY <2>2, <2>4, <2>5, <2>7, ShowsBehaves
  <2>. QED
    BY <2>3, <2>6, <2>7
<1>8. CASE selectGroup
  <2>1. PICK u : u = [ui EXCEPT !.sel = doc.group]
    OBVIOUS
  <2>2. u \in Ui
    BY <1>1, <2>1 DEF Ui, Doc
  <2>3. hand' \in Hand /\ Shows(u, TRUE, FALSE)
    BY <1>8, <2>1 DEF selectGroup, CanvasTypeOK
  <2>4. Typed /\ doc' = doc
    BY <2>2, <2>3, ShowsTyped
  <2>. QED
    BY <1>8, <2>4 DEF WallsLocked
<1>9. CASE MoveSelected(seen) \/ UpdateDesk \/ deleteSelected(seen)
  BY <1>9, MovesBehave
<1>10. CASE CatalogueResizes \/ \E place \in Places : BulkUpdate(place)
  BY <1>10, ManyBehave
<1>. QED
  BY <1>4, <1>5, <1>6, <1>7, <1>8, <1>9, <1>10

\* Structures.
LEMMA WallsBehave ==
    ASSUME CanvasTypeOK, NEW seen \in Seen,
           \/ deleteSelectedStruct(seen) \/ PatchStruct \/ splitStructureSegment
           \/ toggleStructureLock
    PROVE  Behaves
<1>1. ui \in Ui /\ doc \in Doc /\ doc.walls \in [Walls -> Places \cup {Gone}]
      /\ ui.struct \in Walls \cup {Gone} /\ hand' = hand /\ born' = born
  BY DEF CanvasTypeOK, Ui, Doc, deleteSelectedStruct, PatchStruct, splitStructureSegment,
         toggleStructureLock, EditWall
<1>2. ASSUME NEW w \in Walls, NEW place \in Places \cup {Gone}, NEW u \in Ui, NEW k,
             Change([doc EXCEPT !.walls[w] = place], u, k), u.sel = ui.sel, ~doc.locked
      PROVE  Behaves
  <2>1. PICK walls, next : /\ walls = [doc.walls EXCEPT ![w] = place]
                           /\ next = [doc EXCEPT !.walls = walls]
    OBVIOUS
  <2>2. walls \in [Walls -> Places \cup {Gone}] /\ next = [doc EXCEPT !.walls[w] = place]
    BY <1>1, <2>1
  <2>3. next \in Doc /\ next.desks = doc.desks
    BY <1>1, <2>1, <2>2, DocWith
  <2>. QED
    BY <1>1, <1>2, <2>2, <2>3, ChangeBehaves
<1>3. ASSUME ui.struct # Gone, doc.walls[ui.struct] # Gone
      PROVE  Other(doc.walls[ui.struct]) \in Places /\ ui.struct \in Walls
  BY <1>1, <1>3, OtherPlace
<1>4. CASE deleteSelectedStruct(seen)
  <2>1. PICK u : u = [ui EXCEPT !.struct = Gone]
    OBVIOUS
  <2>2. u \in Ui /\ u.sel = ui.sel
    BY <1>1, <2>1 DEF Ui
  <2>3. /\ Change([doc EXCEPT !.walls[ui.struct] = Gone], u, FALSE)
        /\ ~doc.locked /\ ui.struct \in Walls
    BY <1>1, <1>4, <2>1 DEF deleteSelectedStruct, EditWall, Record
  <2>. QED
    BY <1>2, <2>2, <2>3
<1>5. CASE PatchStruct
  <2>1. /\ Change([doc EXCEPT !.walls[ui.struct] = Other(doc.walls[ui.struct])], ui, FALSE)
        /\ ~doc.locked /\ ui.struct # Gone /\ doc.walls[ui.struct] # Gone
    BY <1>1, <1>5 DEF PatchStruct, Unrecorded, Doc
  <2>. QED
    BY <1>1, <1>2, <1>3, <2>1
<1>6. CASE splitStructureSegment
  <2>1. /\ Change([doc EXCEPT !.walls[ui.struct] = Other(doc.walls[ui.struct])], ui, FALSE)
        /\ ~doc.locked /\ ui.struct # Gone /\ doc.walls[ui.struct] # Gone
    BY <1>6 DEF splitStructureSegment, EditWall, Record
  <2>. QED
    BY <1>1, <1>2, <1>3, <2>1
<1>7. CASE toggleStructureLock
  <2>1. PICK locked \in BOOLEAN : locked = ~doc.locked
    OBVIOUS
  <2>2. PICK next : next = [doc EXCEPT !.locked = locked]
    OBVIOUS
  <2>3. /\ next \in Doc /\ next.desks = doc.desks /\ next.walls = doc.walls
    BY <1>1, <2>1, <2>2, DocWith
  <2>4. next = [doc EXCEPT !.locked = ~@]
    BY <1>1, <2>1, <2>2 DEF Doc
  <2>5. PICK freed, ended : /\ freed = [ui EXCEPT !.struct = Gone]
                            /\ ended = cancelDraw([ui EXCEPT !.struct = Gone, !.tool = "select"])
    OBVIOUS
  <2>6. freed \in Ui /\ freed.sel = ui.sel /\ ended \in Ui /\ ended.sel = ui.sel
    <3>1. PICK put : put = [ui EXCEPT !.struct = Gone, !.tool = "select"]
      OBVIOUS
    <3>2. put \in Ui /\ put.sel = ui.sel
      BY <1>1, <3>1 DEF Ui, Tools
    <3>3. ended \in Ui /\ ended.sel = put.sel
      BY <2>5, <3>1, <3>2, CancelTyped
    <3>4. freed \in Ui /\ freed.sel = ui.sel
      BY <1>1, <2>5 DEF Ui
    <3>. QED
      BY <3>2, <3>3, <3>4
  <2>7. PICK u \in {ui, freed, ended} : Change(next, u, TRUE)
    BY <1>7, <2>4, <2>5 DEF toggleStructureLock, Record
  <2>. QED
    BY <1>1, <2>3, <2>6, <2>7, ChangeBehaves
<1>. QED
  BY <1>4, <1>5, <1>6, <1>7

\* Layers of lines.
LEMMA LinesBehave ==
    ASSUME CanvasTypeOK, NEW seen \in Seen,
           \/ DeleteInfraItem(seen) \/ addInfraLayer \/ removeInfraLayer
           \/ toggleInfraLayerVisibility \/ ChooseInfraLayer \/ SelectInfraItem
    PROVE  Behaves
<1>1. /\ ui \in Ui /\ doc \in Doc
      /\ doc.infra \in [layer: {"none", "shown", "hidden"}, lines: Nat]
  BY DEF CanvasTypeOK, Doc
<1>2. hand' = hand
  BY DEF DeleteInfraItem, addInfraLayer, removeInfraLayer, toggleInfraLayerVisibility, Infra,
         ChooseInfraLayer, SelectInfraItem
<1>3. hand' \in Hand
  BY <1>2 DEF CanvasTypeOK
<1>4. ASSUME NEW u \in Ui, NEW infra \in [layer: {"none", "shown", "hidden"}, lines: Nat],
             Change([doc EXCEPT !.infra = infra], u, FALSE), born' = born, u.sel = ui.sel
      PROVE  Behaves
  <2>1. PICK next : next = [doc EXCEPT !.infra = infra]
    OBVIOUS
  <2>2. next \in Doc /\ next.desks = doc.desks /\ next.walls = doc.walls
    BY <1>1, <2>1, DocWith
  <2>. QED
    BY <1>2, <1>4, <2>1, <2>2, ChangeBehaves
<1>5. CASE DeleteInfraItem(seen)
  <2>1. PICK infra, u : /\ infra = [doc.infra EXCEPT !.lines = @ - 1]
                        /\ u = [ui EXCEPT !.line = FALSE]
    OBVIOUS
  <2>2. u \in Ui /\ u.sel = ui.sel
    BY <1>1, <2>1 DEF Ui
  <2>3. doc.infra.lines > 0 /\ born' = born /\ Change([doc EXCEPT !.infra.lines = @ - 1], u, FALSE)
    BY <1>5, <2>1 DEF DeleteInfraItem, Infra, Record
  <2>4. infra \in [layer: {"none", "shown", "hidden"}, lines: Nat]
    BY <1>1, <2>1, <2>3
  <2>5. [doc EXCEPT !.infra.lines = @ - 1] = [doc EXCEPT !.infra = infra]
    BY <1>1, <2>1 DEF Doc
  <2>. QED
    BY <1>4, <2>2, <2>3, <2>4, <2>5
<1>6. CASE addInfraLayer
  <2>1. PICK infra, u : /\ infra = [doc.infra EXCEPT !.layer = "shown"]
                        /\ u = [ui EXCEPT !.active = TRUE]
    OBVIOUS
  <2>2. u \in Ui /\ u.sel = ui.sel
    BY <1>1, <2>1 DEF Ui
  <2>3. born' = born /\ Change([doc EXCEPT !.infra.layer = "shown"], u, FALSE)
    BY <1>6, <2>1 DEF addInfraLayer, Infra, Unrecorded
  <2>4. infra \in [layer: {"none", "shown", "hidden"}, lines: Nat]
    BY <1>1, <2>1
  <2>5. [doc EXCEPT !.infra.layer = "shown"] = [doc EXCEPT !.infra = infra]
    BY <1>1, <2>1 DEF Doc
  <2>. QED
    BY <1>4, <2>2, <2>3, <2>4, <2>5
<1>7. CASE removeInfraLayer
  <2>1. PICK infra, u : /\ infra = [layer |-> "none", lines |-> 0]
                        /\ u = [ui EXCEPT !.active = FALSE]
    OBVIOUS
  <2>2. u \in Ui /\ u.sel = ui.sel
    BY <1>1, <2>1 DEF Ui
  <2>3. born' = born /\ Change([doc EXCEPT !.infra = infra], u, FALSE)
    BY <1>7, <2>1 DEF removeInfraLayer, Infra, Record
  <2>4. infra \in [layer: {"none", "shown", "hidden"}, lines: Nat]
    BY <2>1
  <2>. QED
    BY <1>4, <2>2, <2>3, <2>4
<1>8. CASE toggleInfraLayerVisibility
  <2>1. PICK layer : layer = IF doc.infra.layer = "shown" THEN "hidden" ELSE "shown"
    OBVIOUS
  <2>2. PICK infra, next : /\ infra = [doc.infra EXCEPT !.layer = layer]
                           /\ next = [doc EXCEPT !.infra = infra]
    OBVIOUS
  <2>3. infra \in [layer: {"none", "shown", "hidden"}, lines: Nat]
    BY <1>1, <2>1, <2>2
  <2>4. next \in Doc /\ next.desks = doc.desks /\ next.walls = doc.walls
    BY <1>1, <2>2, <2>3, DocWith
  <2>5. /\ edits' = edits + 1 /\ ui' = ui /\ dirty' = dirty /\ layout' = layout /\ scale' = scale
        /\ loading' = loading /\ kit' = kit /\ born' = born /\ Renders(FALSE, FALSE)
        /\ doc' = [doc EXCEPT !.infra.layer = IF @ = "shown" THEN "hidden" ELSE "shown"]
    BY <1>8 DEF toggleInfraLayerVisibility, Infra
  <2>6. doc' = next
    BY <1>1, <2>1, <2>2, <2>5 DEF Doc
  <2>7. keys' \in CanvasView /\ dbl' \in CanvasView
    BY <1>1, <2>4, <2>5, <2>6, RendersTyped
  <2>8. /\ edits' \in Nat /\ dirty' \in BOOLEAN /\ layout' \in Doc /\ scale' \in Places
        /\ loading' \in Image /\ kit' \in Kits /\ born' \in Born
    BY <2>5 DEF CanvasTypeOK
  <2>9. Typed
    BY <1>1, <1>3, <2>4, <2>5, <2>6, <2>7, <2>8 DEF Typed
  <2>. QED
    BY <2>4, <2>5, <2>6, <2>9 DEF Behaves, Selects, WallsLocked, Live
<1>9. CASE ChooseInfraLayer
  <2>1. PICK tool : tool = IF ui.tool = "draw_infra" THEN "select" ELSE ui.tool
    OBVIOUS
  <2>2. PICK off, on : /\ off = [ui EXCEPT !.active = FALSE, !.tool = tool]
                       /\ on = [ui EXCEPT !.active = TRUE, !.tool = "draw_infra"]
    OBVIOUS
  <2>3. tool \in Tools /\ "draw_infra" \in Tools
    BY <1>1, <2>1 DEF Ui, Tools
  <2>4. off \in Ui /\ off.sel = ui.sel /\ on \in Ui /\ on.sel = ui.sel
    BY <1>1, <2>2, <2>3 DEF Ui
  <2>5. cancelDraw(on) \in Ui /\ cancelDraw(on).sel = ui.sel
    BY <2>4, CancelTyped
  <2>6. off = [ui EXCEPT !.active = FALSE, !.tool = IF @ = "draw_infra" THEN "select" ELSE @]
    BY <1>1, <2>1, <2>2 DEF Ui
  <2>7. Shows(off, FALSE, FALSE) \/ Shows(cancelDraw(on), TRUE, TRUE)
    BY <1>9, <2>2, <2>6 DEF ChooseInfraLayer
  <2>8. CASE Shows(off, FALSE, FALSE)
    BY <1>3, <2>4, <2>8, ShowsBehaves
  <2>9. CASE Shows(cancelDraw(on), TRUE, TRUE)
    BY <1>3, <2>5, <2>9, ShowsBehaves
  <2>. QED
    BY <2>7, <2>8, <2>9
<1>10. CASE SelectInfraItem
  <2>1. PICK u : u = [ui EXCEPT !.line = TRUE, !.sel = {}, !.struct = Gone, !.zone = FALSE]
    OBVIOUS
  <2>2. u \in Ui /\ u.sel = {}
    BY <1>1, <2>1 DEF Ui
  <2>3. Shows(u, TRUE, FALSE)
    BY <1>10, <2>1 DEF SelectInfraItem
  <2>. QED
    BY <1>3, <2>2, <2>3, ShowsBehaves
<1>. QED
  BY <1>5, <1>6, <1>7, <1>8, <1>9, <1>10

\* The background.
LEMMA BackgroundBehaves ==
    ASSUME CanvasTypeOK,
           \/ fitBackgroundToCanvas \/ commitBackgroundTransform \/ toggleBackgroundLock
           \/ ToggleBackground \/ RemoveBackground \/ AdjustBackground
           \/ onBgFileChange \/ applyLoadedBackground
    PROVE  Behaves
<1>. DEFINE Bg == [image: {0, 1}, at: Places, locked: BOOLEAN, look: Places]
<1>1. ui \in Ui /\ doc \in Doc /\ doc.bg \in Bg
  BY DEF CanvasTypeOK, Doc
<1>2. hand' = hand /\ hand' \in Hand
  BY DEF CanvasTypeOK, fitBackgroundToCanvas, commitBackgroundTransform, toggleBackgroundLock,
         ToggleBackground, RemoveBackground, EditBackground, AdjustBackground, onBgFileChange,
         applyLoadedBackground
<1>3. ASSUME NEW u \in Ui, NEW bg \in Bg, Change([doc EXCEPT !.bg = bg], u, FALSE), born' = born,
             u.sel = ui.sel
      PROVE  Behaves
  <2>1. PICK next : next = [doc EXCEPT !.bg = bg]
    OBVIOUS
  <2>2. next \in Doc /\ next.desks = doc.desks /\ next.walls = doc.walls
    BY <1>1, <2>1, DocWith
  <2>. QED
    BY <1>2, <1>3, <2>1, <2>2, ChangeBehaves
<1>4. ASSUME NEW u \in Ui, NEW bg \in Bg, EditBackground(bg, u), u.sel = ui.sel
      PROVE  Behaves
  <2>1. Change([doc EXCEPT !.bg = bg], u, FALSE) /\ born' = born
    BY <1>4 DEF EditBackground, Record
  <2>. QED
    BY <1>3, <1>4, <2>1
<1>5. CASE fitBackgroundToCanvas \/ ToggleBackground \/ RemoveBackground
  <2>1. PICK fitted, seen, gone : /\ fitted = [doc.bg EXCEPT !.at = 1]
                                  /\ seen = [doc.bg EXCEPT !.look = Other(@)]
                                  /\ gone = [image |-> 0, at |-> 1, locked |-> FALSE,
                                             look |-> doc.bg.look]
    OBVIOUS
  <2>2. 1 \in Places /\ doc.bg.look \in Places /\ Other(doc.bg.look) \in Places
    BY <1>1, OtherPlace DEF Places
  <2>3. fitted \in Bg /\ seen \in Bg /\ gone \in Bg
    BY <1>1, <2>1, <2>2
  <2>4. \E bg \in {fitted, seen, gone} : EditBackground(bg, ui)
    BY <1>5, <2>1 DEF fitBackgroundToCanvas, ToggleBackground, RemoveBackground
  <2>. QED
    BY <1>1, <1>4, <2>3, <2>4
<1>6. CASE commitBackgroundTransform
  <2>1. PICK bg, u : /\ bg = [doc.bg EXCEPT !.at = Other(@)]
                     /\ u = [ui EXCEPT !.tool = "bg_edit"]
    OBVIOUS
  <2>2. bg \in Bg
    BY <1>1, <2>1, OtherPlace
  <2>3. u \in Ui /\ u.sel = ui.sel
    BY <1>1, <2>1 DEF Ui, Tools
  <2>4. EditBackground(bg, u)
    BY <1>6, <2>1 DEF commitBackgroundTransform
  <2>. QED
    BY <1>4, <2>2, <2>3, <2>4
<1>7. CASE toggleBackgroundLock
  <2>1. PICK locked \in BOOLEAN : locked = ~doc.bg.locked
    OBVIOUS
  <2>2. PICK tool : tool = IF ui.tool = "bg_edit" /\ ~doc.bg.locked THEN "select" ELSE ui.tool
    OBVIOUS
  <2>3. PICK bg, u : /\ bg = [doc.bg EXCEPT !.locked = locked]
                     /\ u = [ui EXCEPT !.tool = tool]
    OBVIOUS
  <2>4. bg \in Bg
    BY <1>1, <2>3
  <2>5. tool \in Tools
    BY <1>1, <2>2 DEF Ui, Tools
  <2>6. u \in Ui /\ u.sel = ui.sel
    BY <1>1, <2>3, <2>5 DEF Ui
  <2>7. bg = [doc.bg EXCEPT !.locked = ~@]
    BY <1>1, <2>1, <2>3
  <2>8. u = [ui EXCEPT !.tool = IF @ = "bg_edit" /\ ~doc.bg.locked THEN "select" ELSE @]
    BY <1>1, <2>2, <2>3 DEF Ui
  <2>9. EditBackground(bg, u)
    BY <1>7, <2>7, <2>8 DEF toggleBackgroundLock
  <2>. QED
    BY <1>4, <2>4, <2>6, <2>9
<1>8. CASE AdjustBackground
  <2>1. PICK bg : bg = [doc.bg EXCEPT !.look = Other(@)]
    OBVIOUS
  <2>2. bg \in Bg
    BY <1>1, <2>1, OtherPlace
  <2>3. [doc EXCEPT !.bg.look = Other(@)] = [doc EXCEPT !.bg = bg]
    BY <1>1, <2>1 DEF Doc
  <2>4. Change([doc EXCEPT !.bg.look = Other(@)], ui, FALSE) /\ born' = born
    BY <1>8 DEF AdjustBackground, Unrecorded
  <2>. QED
    BY <1>1, <1>3, <2>2, <2>3, <2>4
<1>9. CASE onBgFileChange
  <2>1. loading' \in Image
    BY <1>1, <1>9 DEF onBgFileChange, Image
  <2>2. Typed
    BY <1>9, <2>1 DEF onBgFileChange, Typed, CanvasTypeOK
  <2>. QED
    BY <1>9, <2>2 DEF onBgFileChange, Behaves, Selects, WallsLocked
<1>10. CASE applyLoadedBackground
  <2>1. PICK next : next = [doc EXCEPT !.bg = [image |-> 1, at |-> 1, locked |-> FALSE, look |-> 1]]
    OBVIOUS
  <2>2. [image |-> 1, at |-> 1, locked |-> FALSE, look |-> 1] \in Bg
    BY DEF Places
  <2>3. next \in Doc /\ next.desks = doc.desks /\ next.walls = doc.walls
    BY <1>1, <2>1, <2>2, DocWith
  <2>4. /\ edits' = edits + 1 /\ ui' = ui /\ dirty' = TRUE /\ layout' = layout /\ scale' = scale
        /\ loading' = NotLoading /\ kit' = kit /\ born' = born /\ Renders(FALSE, FALSE)
        /\ doc' = next
    BY <1>10, <2>1 DEF applyLoadedBackground
  <2>5. keys' \in CanvasView /\ dbl' \in CanvasView
    BY <1>1, <2>3, <2>4, RendersTyped
  <2>6. /\ edits' \in Nat /\ layout' \in Doc /\ scale' \in Places
        /\ kit' \in Kits /\ born' \in Born
    BY <2>4 DEF CanvasTypeOK
  <2>7. loading' \in Image
    BY <2>4 DEF Image
  <2>8. Typed
    BY <1>1, <1>2, <2>3, <2>4, <2>5, <2>6, <2>7 DEF Typed
  <2>. QED
    BY <2>3, <2>4, <2>8 DEF Behaves, Selects, WallsLocked, Live
<1>. QED
  BY <1>5, <1>6, <1>7, <1>8, <1>9, <1>10

\* The end of a drawing: a wall, a zone or a line more, and no point.
LEMMA FinishBehaves ==
    ASSUME CanvasTypeOK, NEW seen, finishDraw(seen)
    PROVE  Typed /\ Selects /\ ui.points >= 2 /\ ui'.points = 0
<1>1. /\ ui \in Ui /\ doc \in Doc /\ born \in Born
      /\ doc.walls \in [Walls -> Places \cup {Gone}]
      /\ doc.infra \in [layer: {"none", "shown", "hidden"}, lines: Nat]
  BY DEF CanvasTypeOK, Doc
<1>2. 1 \in Places /\ 2 \in Walls /\ 1 \in Walls
  BY DEF Places, Walls
<1>3. PICK drawn : drawn = [ui EXCEPT !.zone = TRUE, !.tool = "select"]
  OBVIOUS
<1>4. drawn \in Ui /\ drawn.sel = ui.sel
  BY <1>1, <1>3 DEF Ui, Tools
<1>5. \A u \in {ui, drawn} : /\ cancelDraw(u) \in Ui /\ cancelDraw(u).sel = ui.sel
                             /\ cancelDraw(u).points = 0
  BY <1>1, <1>4, CancelTyped
<1>6. PICK walls, infra : /\ walls = [doc.walls EXCEPT ![2] = 1]
                          /\ infra = [doc.infra EXCEPT !.lines = @ + 1]
  OBVIOUS
<1>7. /\ walls \in [Walls -> Places \cup {Gone}]
      /\ infra \in [layer: {"none", "shown", "hidden"}, lines: Nat]
  BY <1>1, <1>2, <1>6
<1>8. PICK walled, zoned, lined : /\ walled = [doc EXCEPT !.walls = walls]
                                  /\ zoned = [doc EXCEPT !.zone = 1]
                                  /\ lined = [doc EXCEPT !.infra = infra]
  OBVIOUS
<1>9. /\ walled \in Doc /\ walled.desks = doc.desks
      /\ zoned \in Doc /\ zoned.desks = doc.desks
      /\ lined \in Doc /\ lined.desks = doc.desks
  BY <1>1, <1>2, <1>7, <1>8, DocWith
<1>10. /\ walled = [doc EXCEPT !.walls[2] = 1]
       /\ lined = [doc EXCEPT !.infra.lines = @ + 1]
  BY <1>1, <1>6, <1>8 DEF Doc
<1>11. PICK born2 : born2 = [born EXCEPT !.wall = 2]
  OBVIOUS
<1>12. born2 \in Born
  BY <1>1, <1>2, <1>11 DEF Born
<1>13. doc' \in {doc, walled, zoned, lined}
  BY <1>8, <1>10 DEF finishDraw
<1>14. ui' \in {cancelDraw(ui), cancelDraw(drawn)}
  BY <1>3 DEF finishDraw
<1>15. born' \in {born, born2}
  BY <1>11 DEF finishDraw
<1>16. /\ edits' = edits + 1 /\ dirty' = TRUE /\ layout' = layout /\ scale' = scale
       /\ loading' = loading /\ kit' = kit /\ hand' = hand /\ Renders(TRUE, TRUE)
       /\ ui.points >= 2
  BY DEF finishDraw
<1>17. /\ doc' \in Doc /\ doc'.desks = doc.desks /\ ui' \in Ui /\ ui'.sel = ui.sel
       /\ ui'.points = 0 /\ born' \in Born
  BY <1>1, <1>5, <1>9, <1>12, <1>13, <1>14, <1>15
<1>18. keys' \in CanvasView /\ dbl' \in CanvasView
  BY <1>16, <1>17, RendersTyped
<1>19. Typed
  BY <1>16, <1>17, <1>18 DEF Typed, CanvasTypeOK
<1>. QED
  BY <1>16, <1>17, <1>19 DEF Selects, Live

\* Tools and drawing.
LEMMA DrawingBehaves ==
    ASSUME CanvasTypeOK,
           \/ \E t \in Tools : PickTool(t) \/ KeyTool(t)
           \/ SpaceDown \/ SpaceUp \/ EnterKey \/ DoubleClickDraw \/ DrawPoint \/ EscapeKey
    PROVE  Behaves \/ (Typed /\ Selects /\ ui.points >= 2 /\ ui'.points = 0)
<1>1. ui \in Ui /\ hand \in Hand
  BY DEF CanvasTypeOK
<1>2. ASSUME NEW tool \in Tools, NEW k, NEW d, hand' \in Hand,
             \/ Shows([ui EXCEPT !.tool = tool], k, d)
             \/ Shows(cancelDraw([ui EXCEPT !.tool = tool]), k, d)
      PROVE  Behaves
  <2>1. PICK u : u = [ui EXCEPT !.tool = tool]
    OBVIOUS
  <2>2. u \in Ui /\ u.sel = ui.sel
    BY <1>1, <2>1 DEF Ui
  <2>3. cancelDraw(u) \in Ui /\ cancelDraw(u).sel = ui.sel
    BY <2>2, CancelTyped
  <2>4. CASE Shows(u, k, d)
    BY <1>2, <2>2, <2>4, ShowsBehaves
  <2>5. CASE Shows(cancelDraw(u), k, d)
    BY <1>2, <2>3, <2>5, ShowsBehaves
  <2>. QED
    BY <1>2, <2>1, <2>4, <2>5
<1>3. ASSUME NEW t \in Tools, PickTool(t)
      PROVE  Behaves
  <2>1. /\ hand' = hand
        /\ \/ Shows([ui EXCEPT !.tool = t], FALSE, FALSE)
           \/ Shows(cancelDraw([ui EXCEPT !.tool = t]), TRUE, TRUE)
    BY <1>3 DEF PickTool
  <2>. QED
    BY <1>1, <1>2, <2>1
<1>4. ASSUME NEW t \in Tools, KeyTool(t)
      PROVE  Behaves
  <2>1. PICK tool : tool = IF t = ui.tool /\ t \in {"measure", "draw_infra"} THEN "select" ELSE t
    OBVIOUS
  <2>2. tool \in Tools
    BY <2>1 DEF Tools
  <2>3. [ui EXCEPT !.tool = tool]
          = [ui EXCEPT !.tool = IF t = @ /\ t \in {"measure", "draw_infra"} THEN "select" ELSE t]
    BY <1>1, <2>1 DEF Ui
  <2>4. hand' = hand /\ Shows(cancelDraw([ui EXCEPT !.tool = tool]), TRUE, TRUE)
    BY <1>4, <2>3 DEF KeyTool
  <2>. QED
    BY <1>1, <1>2, <2>2, <2>4
<1>5. CASE SpaceDown \/ SpaceUp
  <2>1. "pan" \in Tools /\ "select" \in Tools
    BY DEF Tools
  <2>2. /\ hand' = hand
        /\ \/ Shows([ui EXCEPT !.tool = "pan"], FALSE, FALSE)
           \/ Shows([ui EXCEPT !.tool = "select"], FALSE, FALSE)
    BY <1>5 DEF SpaceDown, SpaceUp
  <2>. QED
    BY <1>1, <1>2, <2>1, <2>2
<1>6. CASE EnterKey \/ DoubleClickDraw
  <2>1. finishDraw(keys) \/ finishDraw(dbl)
    BY <1>6 DEF EnterKey, DoubleClickDraw
  <2>. QED
    BY <2>1, FinishBehaves
<1>7. CASE DrawPoint
  <2>1. CASE finishDraw(Now)
    BY <2>1, FinishBehaves
  <2>2. CASE ui.points < 3 /\ Shows([ui EXCEPT !.points = @ + 1], TRUE, TRUE) /\ hand' = hand
    <3>1. PICK u : u = [ui EXCEPT !.points = @ + 1]
      OBVIOUS
    <3>2. ui.points + 1 \in 0..3
      BY <1>1, <2>2 DEF Ui
    <3>3. u \in Ui /\ u.sel = ui.sel
      BY <1>1, <3>1, <3>2 DEF Ui
    <3>. QED
      BY <1>1, <2>2, <3>1, <3>3, ShowsBehaves
  <2>. QED
    BY <1>7, <2>1, <2>2 DEF DrawPoint
<1>8. CASE EscapeKey
  <2>1. CASE ui.tool \in {"measure", "bg_edit"}
    <3>1. hand' = hand /\ Shows([ui EXCEPT !.tool = "select"], FALSE, FALSE) /\ "select" \in Tools
      BY <1>8, <2>1 DEF EscapeKey, Tools
    <3>. QED
      BY <1>1, <1>2, <3>1
  <2>2. CASE ui.tool \notin {"measure", "bg_edit"} /\ ui.points > 0
    <3>1. hand' = hand /\ Shows(cancelDraw(ui), TRUE, TRUE)
      BY <1>8, <2>2 DEF EscapeKey
    <3>. QED
      BY <1>1, <3>1, CancelTyped, ShowsBehaves
  <2>3. CASE ui.tool \notin {"measure", "bg_edit"} /\ ~(ui.points > 0)
    <3>1. PICK tool : tool = IF ui.tool = "place" \/ ui.tool \in DrawTools THEN "select" ELSE ui.tool
      OBVIOUS
    <3>2. tool \in Tools
      BY <1>1, <3>1 DEF Ui, Tools
    <3>3. PICK u : u = [ui EXCEPT !.sel = {}, !.struct = Gone, !.tool = tool]
      OBVIOUS
    <3>4. u \in Ui /\ u.sel = {}
      BY <1>1, <3>2, <3>3 DEF Ui
    <3>5. u = [ui EXCEPT !.sel = {}, !.struct = Gone,
                         !.tool = IF @ = "place" \/ @ \in DrawTools THEN "select" ELSE @]
      BY <1>1, <3>1, <3>3 DEF Ui
    <3>6. Shows(u, TRUE, FALSE) /\ hand' \in {hand, NoHand}
      BY <1>8, <2>3, <3>5 DEF EscapeKey
    <3>7. hand' \in Hand
      BY <1>1, <3>6 DEF Hand
    <3>. QED
      BY <3>4, <3>6, <3>7, ShowsBehaves
  <2>. QED
    BY <2>1, <2>2, <2>3
<1>. QED
  BY <1>3, <1>4, <1>5, <1>6, <1>7, <1>8

\* The pointer gesture that drags desks.
Drags == [kind: {"drag"}, ids: SUBSET Desks, moved: BOOLEAN, start: Doc]

\* It is one of the gestures, and the only one of that kind.
LEMMA DragIs ==
    /\ Drags \subseteq Hand /\ NoHand \in Hand
    /\ \A h \in Hand : h.kind = "drag" => h \in Drags
BY DEF Hand, Drags, NoHand

\* Presses, which select and may take hold of something.
LEMMA PressesBehave ==
    ASSUME CanvasTypeOK,
           \/ \E d \in Desks, shift \in BOOLEAN : PressDesk(d, shift)
           \/ \E w \in Walls : PressWall(w)
           \/ PressZone \/ \E shift \in BOOLEAN : PressEmpty(shift)
    PROVE  Behaves
<1>1. ui \in Ui /\ hand \in Hand /\ doc \in Doc /\ ui.sel \in SUBSET Desks
  BY DEF CanvasTypeOK, Ui
<1>2. ASSUME NEW d \in Desks, NEW shift \in BOOLEAN, PressDesk(d, shift)
      PROVE  Behaves
  <2>1. PICK sel, ids :
          /\ sel = IF ~shift THEN IF d \in ui.sel THEN ui.sel ELSE {d}
                   ELSE IF d \in ui.sel THEN ui.sel \ {d} ELSE ui.sel \cup {d}
          /\ ids = IF shift \/ d \in ui.sel THEN ui.sel ELSE {d}
    OBVIOUS
  <2>2. sel \in SUBSET Desks /\ sel \subseteq ui.sel \cup {d} /\ ids \in SUBSET Desks
    BY <1>1, <2>1
  <2>3. PICK u, drag : /\ u = [ui EXCEPT !.sel = sel, !.struct = Gone]
                       /\ drag = [kind |-> "drag", ids |-> ids, moved |-> FALSE, start |-> doc]
    OBVIOUS
  <2>4. u \in Ui /\ u.sel = sel
    BY <1>1, <2>2, <2>3 DEF Ui
  <2>5. Shows(u, TRUE, FALSE) /\ hand' \in {NoHand, drag} /\ d \in Live(doc)
    BY <1>2, <2>1, <2>3 DEF PressDesk
  <2>6. drag \in Drags
    BY <1>1, <2>2, <2>3 DEF Drags
  <2>7. u.sel \subseteq ui.sel \cup Live(doc)
    BY <2>2, <2>4, <2>5
  <2>8. hand' \in Hand
    BY <2>5, <2>6, DragIs
  <2>. QED
    BY <2>4, <2>5, <2>7, <2>8, ShowsBehaves
<1>3. ASSUME NEW w \in Walls, PressWall(w)
      PROVE  Behaves
  <2>1. PICK u : u = [ui EXCEPT !.sel = {}, !.struct = w]
    OBVIOUS
  <2>2. u \in Ui /\ u.sel = {}
    BY <1>1, <2>1 DEF Ui
  <2>3. Shows(u, TRUE, FALSE) /\ hand' = hand
    BY <1>3, <2>1 DEF PressWall
  <2>. QED
    BY <1>1, <2>2, <2>3, ShowsBehaves
<1>4. CASE PressZone
  <2>1. PICK u : u = [ui EXCEPT !.zone = TRUE, !.sel = {}, !.struct = Gone]
    OBVIOUS
  <2>2. u \in Ui /\ u.sel = {}
    BY <1>1, <2>1 DEF Ui
  <2>3. Shows(u, TRUE, FALSE) /\ hand' = hand
    BY <1>4, <2>1 DEF PressZone
  <2>. QED
    BY <1>1, <2>2, <2>3, ShowsBehaves
<1>5. ASSUME NEW shift \in BOOLEAN, PressEmpty(shift)
      PROVE  Behaves
  <2>1. PICK sel : sel = IF shift THEN ui.sel ELSE {}
    OBVIOUS
  <2>2. sel \in SUBSET Desks /\ sel \subseteq ui.sel
    BY <1>1, <2>1
  <2>3. PICK u : u = [ui EXCEPT !.sel = sel, !.struct = Gone, !.zone = FALSE, !.line = FALSE]
    OBVIOUS
  <2>4. u \in Ui /\ u.sel = sel
    BY <1>1, <2>2, <2>3 DEF Ui
  <2>5. u = [ui EXCEPT !.sel = IF shift THEN @ ELSE {}, !.struct = Gone, !.zone = FALSE,
                       !.line = FALSE]
    BY <1>1, <2>1, <2>3 DEF Ui
  <2>6. Shows(u, ~shift, FALSE) /\ hand' = [kind |-> "marquee", append |-> shift]
    BY <1>5, <2>5 DEF PressEmpty
  <2>7. hand' \in Hand
    BY <2>6 DEF Hand
  <2>8. u.sel \subseteq ui.sel \cup Live(doc)
    BY <2>2, <2>4
  <2>. QED
    BY <2>4, <2>6, <2>7, <2>8, ShowsBehaves
<1>. QED
  BY <1>2, <1>3, <1>4, <1>5

\* What a held pointer does to the document: nothing when it is pressed, ...
LEMMA GripBehaves ==
    ASSUME CanvasTypeOK, NEW what, Grip(what)
    PROVE  Behaves
<1>1. ui \in Ui /\ doc \in Doc /\ ui.sel \in SUBSET Desks
  BY DEF CanvasTypeOK, Ui
<1>2. \/ hand' = [kind |-> "desk", ids |-> ui.sel]
      \/ hand' = [kind |-> "vertex", wall |-> ui.struct] /\ ui.struct # Gone
      \/ hand' = [kind |-> "bg"]
  BY DEF Grip
<1>3. ui.struct # Gone => ui.struct \in Walls
  BY <1>1 DEF Ui
<1>4. hand' \in Hand
  BY <1>1, <1>2, <1>3 DEF Hand
<1>5. /\ edits' = edits + 1 /\ layout' = layout /\ doc' = doc /\ scale' = scale /\ dirty' = dirty
      /\ ui' = ui /\ loading' = loading /\ born' = born /\ kit' = kit /\ Renders(FALSE, FALSE)
  BY DEF Grip
<1>6. keys' \in CanvasView /\ dbl' \in CanvasView
  BY <1>1, <1>5, RendersTyped
<1>7. Typed
  BY <1>4, <1>5, <1>6 DEF Typed, CanvasTypeOK
<1>. QED
  BY <1>5, <1>7 DEF Behaves, Selects, WallsLocked

\* ... a place for what it holds when it is moved, ...
LEMMA MoveBehaves ==
    ASSUME CanvasTypeOK, NEW place \in Places, onSvgPointerMove(place)
    PROVE  Typed /\ Selects /\ (WallsLocked \/ hand.kind = "vertex")
<1>1. /\ ui \in Ui /\ doc \in Doc /\ hand \in Hand /\ ui.sel \in SUBSET Desks
      /\ doc.desks \in [Desks -> Places \cup {Gone}]
      /\ doc.walls \in [Walls -> Places \cup {Gone}]
      /\ doc.bg \in [image: {0, 1}, at: Places, locked: BOOLEAN, look: Places]
  BY DEF CanvasTypeOK, Ui, Doc
<1>2. born' = born /\ born' \in Born
  BY DEF onSvgPointerMove, CanvasTypeOK
<1>3. hand' \in Hand
  <2>1. CASE hand.kind = "drag"
    <3>1. hand \in Drags
      BY <1>1, <2>1, DragIs
    <3>2. hand' = [hand EXCEPT !.moved = TRUE]
      BY <2>1 DEF onSvgPointerMove
    <3>3. hand' \in Drags
      BY <3>1, <3>2 DEF Drags
    <3>. QED
      BY <3>3, DragIs
  <2>2. CASE hand.kind # "drag"
    BY <1>1, <2>2 DEF onSvgPointerMove
  <2>. QED
    BY <2>1, <2>2
<1>4. CASE hand.kind \in {"drag", "desk"}
  <2>1. PICK desks : desks = Placed(hand.ids, place)
    OBVIOUS
  <2>2. \A d \in Desks : /\ desks[d] \in Places \cup {Gone}
                         /\ desks[d] = Gone => doc.desks[d] = Gone
    BY <1>1, <2>1, OtherPlace DEF Placed
  <2>3. desks \in [Desks -> Places \cup {Gone}]
    BY <2>1, <2>2 DEF Placed
  <2>4. PICK next : next = [doc EXCEPT !.desks = desks]
    OBVIOUS
  <2>5. next \in Doc /\ next.desks = desks /\ next.walls = doc.walls
    BY <1>1, <2>3, <2>4, DocWith
  <2>6. Change(next, ui, TRUE)
    BY <1>4, <2>1, <2>4 DEF onSvgPointerMove, Unrecorded
  <2>7. Typed /\ doc' = next /\ ui' = ui
    BY <1>1, <1>2, <1>3, <2>5, <2>6, ChangeTyped
  <2>. QED
    BY <1>1, <2>2, <2>5, <2>7 DEF Selects, WallsLocked, Live
<1>5. CASE hand.kind = "vertex"
  <2>1. hand.wall \in Walls
    BY <1>1, <1>5 DEF Hand, NoHand
  <2>2. PICK at : at = IF doc.walls[hand.wall] = Gone THEN Gone ELSE place
    OBVIOUS
  <2>3. PICK walls : walls = [doc.walls EXCEPT ![hand.wall] = at]
    OBVIOUS
  <2>4. walls \in [Walls -> Places \cup {Gone}]
    BY <1>1, <2>1, <2>2, <2>3
  <2>5. PICK next : next = [doc EXCEPT !.walls = walls]
    OBVIOUS
  <2>6. next \in Doc /\ next.desks = doc.desks
    BY <1>1, <2>4, <2>5, DocWith
  <2>7. next = [doc EXCEPT !.walls[hand.wall] = IF @ = Gone THEN Gone ELSE place]
    BY <1>1, <2>1, <2>2, <2>3, <2>5 DEF Doc
  <2>8. Change(next, ui, FALSE)
    BY <1>5, <2>7 DEF onSvgPointerMove, Unrecorded
  <2>9. Typed /\ doc' = next /\ ui' = ui
    BY <1>1, <1>2, <1>3, <2>6, <2>8, ChangeTyped
  <2>. QED
    BY <1>5, <2>6, <2>9 DEF Selects, Live
<1>6. CASE hand.kind = "bg"
  <2>1. PICK bg : bg = [doc.bg EXCEPT !.at = place]
    OBVIOUS
  <2>2. bg \in [image: {0, 1}, at: Places, locked: BOOLEAN, look: Places]
    BY <1>1, <2>1
  <2>3. PICK next : next = [doc EXCEPT !.bg = bg]
    OBVIOUS
  <2>4. next \in Doc /\ next.desks = doc.desks /\ next.walls = doc.walls
    BY <1>1, <2>2, <2>3, DocWith
  <2>5. next = [doc EXCEPT !.bg.at = place]
    BY <1>1, <2>1, <2>3 DEF Doc
  <2>6. Change(next, ui, FALSE)
    BY <1>6, <2>5 DEF onSvgPointerMove, Unrecorded
  <2>7. Typed /\ doc' = next /\ ui' = ui
    BY <1>1, <1>2, <1>3, <2>4, <2>6, ChangeTyped
  <2>. QED
    BY <2>4, <2>7 DEF Selects, WallsLocked, Live
<1>. QED
  BY <1>4, <1>5, <1>6 DEF onSvgPointerMove

\* ... and nothing when it is let go, but the desks in the marquee are selected.
LEMMA ReleaseBehaves ==
    ASSUME CanvasTypeOK, onSvgPointerUp
    PROVE  Behaves
<1>1. ui \in Ui /\ doc \in Doc /\ hand \in Hand /\ ui.sel \in SUBSET Desks
  BY DEF CanvasTypeOK, Ui
<1>2. hand' = NoHand /\ hand' \in Hand
  BY DEF onSvgPointerUp, Hand
<1>3. CASE hand.kind = "marquee"
  <2>1. PICK hit \in SUBSET Live(doc) :
            Shows([ui EXCEPT !.sel = IF hand.append THEN @ \cup hit ELSE hit], TRUE, FALSE)
    BY <1>3 DEF onSvgPointerUp
  <2>2. PICK sel : sel = IF hand.append THEN ui.sel \cup hit ELSE hit
    OBVIOUS
  <2>3. sel \in SUBSET Desks /\ sel \subseteq ui.sel \cup Live(doc)
    BY <1>1, <2>2 DEF Live
  <2>4. PICK u : u = [ui EXCEPT !.sel = sel]
    OBVIOUS
  <2>5. u \in Ui /\ u.sel = sel
    BY <1>1, <2>3, <2>4 DEF Ui
  <2>6. u = [ui EXCEPT !.sel = IF hand.append THEN @ \cup hit ELSE hit]
    BY <1>1, <2>2, <2>4 DEF Ui
  <2>7. Shows(u, TRUE, FALSE)
    BY <2>1, <2>6
  <2>8. u.sel \subseteq ui.sel \cup Live(doc)
    BY <2>3, <2>5
  <2>. QED
    BY <1>2, <2>5, <2>7, <2>8, ShowsBehaves
<1>4. CASE hand.kind # "marquee"
  <2>1. /\ edits' = edits /\ layout' = layout /\ doc' = doc /\ scale' = scale /\ dirty' = dirty
        /\ ui' = ui /\ loading' = loading /\ born' = born /\ kit' = kit /\ Renders(FALSE, FALSE)
    BY <1>4 DEF onSvgPointerUp
  <2>2. keys' \in CanvasView /\ dbl' \in CanvasView
    BY <1>1, <2>1, RendersTyped
  <2>3. Typed
    BY <1>2, <2>1, <2>2 DEF Typed, CanvasTypeOK
  <2>. QED
    BY <2>1, <2>3 DEF Behaves, Selects, WallsLocked
<1>. QED
  BY <1>3, <1>4

\* What a load brings is a document.
LEMMA NewDocTyped == \A n \in Nat : NewDoc(n) \in Doc /\ [NewDoc(n) EXCEPT !.locked = TRUE] \in Doc
<1>. SUFFICES ASSUME NEW n \in Nat
              PROVE  NewDoc(n) \in Doc /\ [NewDoc(n) EXCEPT !.locked = TRUE] \in Doc
  OBVIOUS
<1>1. PICK desks, walls, infra, bg :
        /\ desks = [d \in Desks |-> IF d < MaxDesk THEN 1 ELSE Gone]
        /\ walls = [w \in Walls |-> IF w = 1 THEN 1 ELSE Gone]
        /\ infra = [layer |-> "none", lines |-> 0]
        /\ bg = [image |-> 0, at |-> 1, locked |-> FALSE, look |-> 1]
  OBVIOUS
<1>2. /\ desks \in [Desks -> Places \cup {Gone}] /\ walls \in [Walls -> Places \cup {Gone}]
      /\ infra \in [layer: {"none", "shown", "hidden"}, lines: Nat]
      /\ bg \in [image: {0, 1}, at: Places, locked: BOOLEAN, look: Places]
  BY <1>1 DEF Places
<1>3. NewDoc(n) = [of |-> n, desks |-> desks, walls |-> walls, locked |-> FALSE, group |-> {},
                   zone |-> Gone, infra |-> infra, bg |-> bg]
  BY <1>1 DEF NewDoc, NoGroup
<1>4. NewDoc(n) \in Doc
  BY <1>2, <1>3 DEF Doc
<1>. QED
  BY <1>4, DocWith

\* The canvas as it is opened is typed.
LEMMA InitTyped == ASSUME Init PROVE CanvasTypeOK
<1>1. layout \in Doc /\ doc \in Doc
  BY NewDocTyped DEF Init
<1>2. ui \in Ui
  BY DEF Init, NewUi, Ui, Tools
<1>3. keys \in CanvasView /\ dbl \in CanvasView
  BY <1>1, <1>2 DEF Init, View, CanvasView, Ui
<1>4. hist \in Histories(Doc)
  BY DEF Init, NoHistory, Histories
<1>5. born \in Born
  <2>1. MaxDesk - 1 \in 0..MaxDesk /\ 1 \in Walls
    BY DesksAssumption DEF Walls
  <2>. QED
    BY <2>1 DEF Init, Born
<1>6. hand \in Hand /\ loading \in Image
  BY DEF Init, Hand, Image
<1>7. scale \in Places /\ dirty \in BOOLEAN /\ edits \in Nat /\ kit \in Kits
  BY DEF Init, Places
<1>. QED
  BY <1>1, <1>2, <1>3, <1>4, <1>5, <1>6, <1>7 DEF CanvasTypeOK

\* Undo and redo bring back what is on their stack, and nothing is selected.
LEMMA RestoreTyped ==
    ASSUME CanvasTypeOK, NEW seen, Undo(seen) \/ Redo(seen)
    PROVE  Typed /\ Selects
<1>1. /\ ui \in Ui /\ hist.undo \in Seq(Doc) /\ hist.redo \in Seq(Doc)
  BY DEF CanvasTypeOK, Histories
<1>2. ASSUME NEW s \in Seq(Doc), s # << >>
      PROVE  Top(s) \in Doc
  BY <1>2 DEF Top
<1>3. PICK state \in Doc : onRestore(state)
  BY <1>1, <1>2 DEF Undo, Redo, canUndo, canRedo
<1>4. PICK u : u = [ui EXCEPT !.sel = {}, !.struct = Gone]
  OBVIOUS
<1>5. u \in Ui /\ u.sel = {}
  BY <1>1, <1>4 DEF Ui
<1>6. /\ edits' = edits + 1 /\ doc' = state /\ dirty' = TRUE /\ ui' = u /\ Renders(TRUE, FALSE)
      /\ layout' = layout /\ scale' = scale /\ hand' = hand /\ loading' = loading
      /\ born' = born /\ kit' = kit
  BY <1>3, <1>4 DEF onRestore
<1>7. keys' \in CanvasView /\ dbl' \in CanvasView
  BY <1>5, <1>6, RendersTyped
<1>8. Typed
  BY <1>5, <1>6, <1>7 DEF Typed, CanvasTypeOK
<1>. QED
  BY <1>5, <1>6, <1>8 DEF Selects

\* So do a load and a reset with what is loaded.
LEMMA LoadTyped ==
    ASSUME CanvasTypeOK, LoadLayout \/ resetChanges
    PROVE  Typed /\ Selects
<1>1. ui \in Ui /\ doc \in Doc /\ layout \in Doc /\ layout.of \in Nat
      /\ doc.infra \in [layer: {"none", "shown", "hidden"}, lines: Nat]
  BY DEF CanvasTypeOK, Doc
<1>2. PICK loaded, reset : /\ loaded = [ui EXCEPT !.sel = {}, !.struct = Gone]
                           /\ reset = [ui EXCEPT !.sel = {}]
  OBVIOUS
<1>3. loaded \in Ui /\ loaded.sel = {} /\ reset \in Ui /\ reset.sel = {}
  BY <1>1, <1>2 DEF Ui
<1>4. \A u \in {loaded, reset} : cancelDraw(u) \in Ui /\ cancelDraw(u).sel = {}
  BY <1>3, CancelTyped
<1>5. PICK next : next = [layout EXCEPT !.infra = doc.infra]
  OBVIOUS
<1>6. next \in Doc
  BY <1>1, <1>5, DocWith
<1>7. NewDoc(layout.of + 1) \in Doc
  <2>1. PICK n : n = layout.of + 1
    OBVIOUS
  <2>2. n \in Nat
    BY <1>1, <2>1
  <2>. QED
    BY <2>1, <2>2, NewDocTyped
<1>8. CASE LoadLayout
  <2>1. /\ layout' = NewDoc(layout.of + 1) /\ doc' = layout' /\ scale' = 1 /\ dirty' = FALSE
        /\ ui' = cancelDraw(loaded) /\ Renders(TRUE, TRUE)
        /\ hand' = hand /\ loading' = loading /\ born' = born /\ edits' = edits /\ kit' = kit
    BY <1>2, <1>8 DEF LoadLayout
  <2>2. layout' \in Doc /\ doc' \in Doc /\ ui' \in Ui /\ ui'.sel = {}
    BY <1>4, <1>7, <2>1
  <2>3. keys' \in CanvasView /\ dbl' \in CanvasView
    BY <2>1, <2>2, RendersTyped
  <2>4. scale' \in Places /\ dirty' \in BOOLEAN
    BY <2>1 DEF Places
  <2>5. Typed
    BY <2>1, <2>2, <2>3, <2>4 DEF Typed, CanvasTypeOK
  <2>. QED
    BY <2>2, <2>5 DEF Selects
<1>9. CASE resetChanges
  <2>1. /\ layout' = layout /\ doc' = next /\ scale' = scale /\ dirty' = FALSE
        /\ ui' = cancelDraw(reset) /\ Renders(TRUE, TRUE)
        /\ hand' = hand /\ loading' = loading /\ born' = born /\ edits' = edits /\ kit' = kit
    BY <1>2, <1>5, <1>9 DEF resetChanges
  <2>2. doc' \in Doc /\ ui' \in Ui /\ ui'.sel = {}
    BY <1>4, <1>6, <2>1
  <2>3. keys' \in CanvasView /\ dbl' \in CanvasView
    BY <2>1, <2>2, RendersTyped
  <2>4. Typed
    BY <2>1, <2>2, <2>3 DEF Typed, CanvasTypeOK
  <2>. QED
    BY <2>2, <2>4 DEF Selects
<1>. QED
  BY <1>8, <1>9

\* Another scale and a save leave the document.
LEMMA ScalesBehave ==
    ASSUME CanvasTypeOK, ChangeScale \/ Save \/ UNCHANGED vars
    PROVE  Behaves
<1>1. ui \in Ui /\ doc \in Doc /\ scale \in Places
  BY DEF CanvasTypeOK
<1>2. /\ layout' = layout /\ doc' = doc /\ ui' = ui /\ hand' = hand /\ loading' = loading
      /\ born' = born /\ kit' = kit
  BY DEF ChangeScale, Save, vars
<1>3. scale' \in {scale, Other(scale)} /\ dirty' \in {dirty, TRUE, FALSE}
      /\ edits' \in {edits, edits + 1}
  BY DEF ChangeScale, Save, vars
<1>4. scale' \in Places
  BY <1>1, <1>3, OtherPlace
<1>5. dirty' \in BOOLEAN /\ edits' \in Nat
  <2>1. dirty' \in BOOLEAN
    BY <1>3 DEF CanvasTypeOK
  <2>2. edits' \in Nat
    BY <1>3 DEF CanvasTypeOK
  <2>. QED
    BY <2>1, <2>2
<1>6. Renders(FALSE, FALSE) \/ (keys' = keys /\ dbl' = dbl)
  BY DEF ChangeScale, Save, vars
<1>7. keys' \in CanvasView /\ dbl' \in CanvasView
  BY <1>1, <1>2, <1>6, RendersTyped DEF CanvasTypeOK
<1>8. Typed
  BY <1>2, <1>4, <1>5, <1>7 DEF Typed, CanvasTypeOK
<1>. QED
  BY <1>2, <1>8 DEF Behaves, Selects, WallsLocked

\* The two ways a wall may change under the lock without being restored.
BegunBefore == (ui.points >= 2 /\ ui'.points = 0) \/ hand.kind = "vertex"

\* Every step: its types; what it selects is there, unless a group is chosen; and
\* the locked walls stay, but for the ways out.
LEMMA NextBehaves ==
    ASSUME CanvasTypeOK, [Next]_vars
    PROVE  /\ Typed
           /\ Selects \/ selectGroup
           /\ WallsLocked \/ Restores \/ BegunBefore
<1>1. CASE \E seen \in Seen :
               \/ MoveSelected(seen) \/ deleteSelected(seen) \/ duplicateSelected(seen)
               \/ groupSelected(seen) \/ ungroupSelected(seen) \/ deleteZone(seen)
  BY <1>1, ObjectsBehave DEF Behaves
<1>2. CASE \E seen \in Seen : Undo(seen) \/ Redo(seen)
  BY <1>2, RestoreTyped DEF Restores
<1>3. CASE \E seen \in Seen : deleteSelectedStruct(seen) \/ DeleteInfraItem(seen)
  BY <1>3, WallsBehave, LinesBehave DEF Behaves
<1>4. Now \in Seen
  BY DEF Seen
<1>5. CASE \/ Copy \/ Paste \/ addDeskAt \/ insertObjects \/ CatalogueResizes \/ ToggleDesksLock
           \/ deleteGroup \/ selectGroup \/ updateZone
           \/ UpdateDesk \/ \E place \in Places : BulkUpdate(place)
  BY <1>4, <1>5, ObjectsBehave, MovesBehave, ManyBehave DEF Behaves
<1>6. CASE \/ PatchStruct \/ splitStructureSegment \/ toggleStructureLock
           \/ addInfraLayer \/ removeInfraLayer \/ toggleInfraLayerVisibility
           \/ ChooseInfraLayer \/ SelectInfraItem
  BY <1>4, <1>6, WallsBehave, LinesBehave DEF Behaves
<1>7. CASE \/ fitBackgroundToCanvas \/ commitBackgroundTransform \/ toggleBackgroundLock
           \/ ToggleBackground \/ RemoveBackground \/ AdjustBackground
           \/ onBgFileChange \/ applyLoadedBackground
  BY <1>7, BackgroundBehaves DEF Behaves
<1>8. CASE \/ \E t \in Tools : PickTool(t) \/ KeyTool(t)
           \/ SpaceDown \/ SpaceUp \/ EnterKey \/ DoubleClickDraw \/ DrawPoint \/ EscapeKey
  BY <1>8, DrawingBehaves DEF Behaves, BegunBefore
<1>9. CASE \/ \E d \in Desks, shift \in BOOLEAN : PressDesk(d, shift)
           \/ \E w \in Walls : PressWall(w)
           \/ PressZone \/ \E shift \in BOOLEAN : PressEmpty(shift)
  BY <1>9, PressesBehave DEF Behaves
<1>10. CASE \/ \E what \in {"desk", "vertex", "bg"} : Grip(what)
            \/ \E place \in Places : onSvgPointerMove(place)
            \/ onSvgPointerUp
  BY <1>10, GripBehaves, MoveBehaves, ReleaseBehaves DEF Behaves, BegunBefore
<1>11. CASE LoadLayout \/ resetChanges
  BY <1>11, LoadTyped DEF Restores
<1>12. CASE ChangeScale \/ Save \/ UNCHANGED vars
  BY <1>12, ScalesBehave DEF Behaves
<1>. QED
  BY <1>1, <1>2, <1>3, <1>5, <1>6, <1>7, <1>8, <1>9, <1>10, <1>11, <1>12 DEF Next

\* Stacks of documents, once all they hold is one.
LEMMA SeqOfElements ==
    ASSUME NEW S, NEW T, NEW s \in Seq(S), Elements(s) \subseteq T
    PROVE  s \in Seq(T)
<1>1. \A i \in 1..Len(s) : s[i] \in T
  BY DEF Elements
<1>. QED
  BY <1>1

\* All that handlers know and push is documents.
LEMMA KnownTyped == ASSUME CanvasTypeOK, NEW x, Known(x) PROVE x \in Doc
<1>1. CASE x \in {doc, keys.doc, dbl.doc}
  BY <1>1 DEF CanvasTypeOK, CanvasView
<1>2. CASE loading.on /\ x = loading.seen
  <2>1. loading # NotLoading
    BY <1>2 DEF NotLoading
  <2>2. loading \in [on: {TRUE}, seen: Doc]
    BY <2>1 DEF CanvasTypeOK, Image
  <2>. QED
    BY <1>2, <2>2
<1>3. CASE hand.kind = "drag" /\ x = hand.start
  BY <1>3, DragIs DEF CanvasTypeOK, Drags
<1>. QED
  BY <1>1, <1>2, <1>3 DEF Known, AtHand

\* So the stacks keep their type.
LEMMA HistTyped == ASSUME CanvasTypeOK, Bounded(hist), [Next]_vars PROVE hist' \in Histories(Doc)
<1>1. Kept
  BY NextKeeps
<1>2. PICK S : Within(hist', S)
  BY <1>1, KeptBounded DEF Bounded
<1>3. PICK undos, redos : /\ undos \in Seq(S) /\ redos \in Seq(S)
                          /\ hist' = [undo |-> undos, redo |-> redos]
  BY <1>2 DEF Within, Histories
<1>4. Entries(hist) \subseteq Doc
  <2>1. hist.undo \in Seq(Doc) /\ hist.redo \in Seq(Doc)
    BY DEF CanvasTypeOK, Histories
  <2>. QED
    BY <2>1 DEF Entries
<1>5. Entries(hist') \subseteq Doc
  BY <1>1, <1>4, KeptEntries, KnownTyped
<1>6. Elements(undos) \subseteq Doc /\ Elements(redos) \subseteq Doc
  BY <1>3, <1>5, EntriesAre
<1>7. undos \in Seq(Doc) /\ redos \in Seq(Doc)
  BY <1>3, <1>6, SeqOfElements
<1>. QED
  BY <1>3, <1>7 DEF Histories

\* The canvas keeps its types: what the stacks and the handlers' views hold are
\* documents, whatever is edited, undone, loaded and reset in between.
THEOREM CanvasTyped == Spec => [](CanvasTypeOK /\ Bounded(hist))
<1>1. Init => CanvasTypeOK /\ Bounded(hist)
  <2>1. Init => Bounded(hist)
    BY NoHistoryBounded DEF Init
  <2>. QED
    BY <2>1, InitTyped
<1>2. CanvasTypeOK /\ Bounded(hist) /\ [Next]_vars => (CanvasTypeOK /\ Bounded(hist))'
  <2>. SUFFICES ASSUME CanvasTypeOK, Bounded(hist), [Next]_vars
                PROVE  CanvasTypeOK' /\ Bounded(hist')
    BY DEF Bounded, Within
  <2>1. Bounded(hist')
    BY NextKeeps, KeptBounded
  <2>2. CanvasTypeOK'
    BY NextBehaves, HistTyped DEF Typed, CanvasTypeOK
  <2>. QED
    BY <2>1, <2>2
<1>. QED
  BY <1>1, <1>2, PTL DEF Spec

\* What is selected exists: no step leaves more gone desks in the selection than
\* there were, whichever handler deletes, undoes or selects; but for a group that
\* is chosen after a desk of it is gone.
THEOREM SelectionAlwaysLive == Spec => SelectionLive
<1>. DEFINE Lives == \A d \in ui'.sel \ Live(doc') : d \in ui.sel \ Live(doc) \/ selectGroup
<1>1. CanvasTypeOK /\ [Next]_vars => [Lives]_vars
  BY NextBehaves DEF Selects
<1>2. Spec => [][Lives]_vars
  BY <1>1, CanvasTyped, PTL DEF Spec
<1>. QED
  BY <1>2 DEF SelectionLive

\* Locked walls stay: no step changes one while the lock is on, but for those that
\* replace the document, the end of a drawing and a vertex that is held.
THEOREM LocksAlwaysStay == Spec => LockedStays
<1>. DEFINE Stays == doc.locked /\ doc'.locked /\ doc'.walls # doc.walls =>
                       \/ Restores
                       \/ ui.points >= 2 /\ ui'.points = 0
                       \/ hand.kind = "vertex"
<1>1. CanvasTypeOK /\ [Next]_vars => [Stays]_vars
  BY NextBehaves DEF WallsLocked, BegunBefore
<1>2. Spec => [][Stays]_vars
  BY <1>1, CanvasTyped, PTL DEF Spec
<1>. QED
  BY <1>2 DEF LockedStays

-----------------------------------------------------------------------------
(***************************************************************************)
(* Edits and gestures leave their entry                                    *)
(***************************************************************************)

\* Every step but the choice of an image renews the handlers that missed something.
Rendered == (\E k, d : Renders(k, d)) \/ UNCHANGED <<doc, keys, dbl>>

\* Handlers that were kept missed none of what they depend on.
LEMMA FreshStays == ASSUME Fresh, Rendered PROVE Fresh'
<1>1. CASE UNCHANGED <<doc, keys, dbl>> BY <1>1 DEF Fresh
<1>2. ASSUME NEW k, NEW d, Renders(k, d) PROVE Fresh'
  <2>1. View(doc', ui').doc = doc' BY DEF View
  <2>2. keys' = View(doc', ui') \/ (keys' = keys /\ KeyDeps(doc', ui') = KeyDeps(doc, ui))
    BY <1>2 DEF Renders
  <2>3. dbl' = View(doc', ui') \/ (dbl' = dbl /\ DblDeps(doc', ui') = DblDeps(doc, ui))
    BY <1>2 DEF Renders
  <2>4. KeyDeps(doc', ui') = KeyDeps(doc, ui) =>
           doc'.desks = doc.desks /\ doc'.zone = doc.zone /\ doc'.locked = doc.locked
    BY DEF KeyDeps
  <2>5. DblDeps(doc', ui') = DblDeps(doc, ui) => doc'.locked = doc.locked
    BY DEF DblDeps
  <2> QED BY <2>1, <2>2, <2>3, <2>4, <2>5 DEF Fresh
<1> QED BY <1>1, <1>2 DEF Rendered

\* The shapes of a handler end with a rendering, and all but presses and
\* releases leave the gesture alone.
LEMMA UsualRendered ==
    ASSUME NEW seen, NEW next, NEW u, NEW k, NEW d
    PROVE  /\ Record(seen, next, u, k) => Rendered
           /\ Unrecorded(next, u, k) => Rendered
           /\ Change(next, u, k) => Rendered
           /\ Shows(u, k, d) => Rendered
BY DEF Record, Unrecorded, Change, Shows, Rendered

\* What is done to objects, lines and the background.
LEMMA EditsRendered ==
    ASSUME NEW seen \in Seen,
           \/ MoveSelected(seen) \/ deleteSelected(seen) \/ duplicateSelected(seen)
           \/ groupSelected(seen) \/ ungroupSelected(seen) \/ deleteZone(seen)
           \/ deleteSelectedStruct(seen) \/ DeleteInfraItem(seen)
           \/ Copy \/ Paste \/ addDeskAt \/ insertObjects \/ CatalogueResizes \/ ToggleDesksLock
           \/ deleteGroup \/ selectGroup \/ updateZone
           \/ UpdateDesk \/ (\E place \in Places : BulkUpdate(place))
           \/ PatchStruct \/ splitStructureSegment \/ toggleStructureLock
           \/ addInfraLayer \/ removeInfraLayer \/ toggleInfraLayerVisibility
           \/ ChooseInfraLayer \/ SelectInfraItem
           \/ fitBackgroundToCanvas \/ commitBackgroundTransform \/ toggleBackgroundLock
           \/ ToggleBackground \/ RemoveBackground \/ AdjustBackground
           \/ onBgFileChange \/ applyLoadedBackground
    PROVE  Rendered /\ hand' = hand
<1>1. ASSUME MoveSelected(seen) \/ deleteSelected(seen) \/ duplicateSelected(seen)
             \/ groupSelected(seen) \/ ungroupSelected(seen) \/ deleteZone(seen)
      PROVE  Rendered /\ hand' = hand
  BY <1>1, UsualRendered DEF MoveSelected, deleteSelected, duplicateSelected,
       groupSelected, ungroupSelected, deleteZone, AddDesk, modifyDesks, EditGroups, EditZone
<1>2. ASSUME Paste \/ addDeskAt \/ insertObjects \/ deleteGroup \/ updateZone \/ UpdateDesk
             \/ CatalogueResizes
      PROVE  Rendered /\ hand' = hand
  BY <1>2, UsualRendered DEF UpdateDesk, Paste, addDeskAt, insertObjects, deleteGroup, updateZone,
       AddDesk, modifyDesks, EditGroups, EditZone, CatalogueResizes
<1>3. ASSUME Copy \/ ToggleDesksLock \/ selectGroup \/ ChooseInfraLayer \/ SelectInfraItem
      PROVE  Rendered /\ hand' = hand
  BY <1>3, UsualRendered DEF Copy, ToggleDesksLock, selectGroup, ChooseInfraLayer, SelectInfraItem
<1>4. ASSUME NEW place \in Places, BulkUpdate(place) PROVE Rendered /\ hand' = hand
  BY <1>4, UsualRendered DEF BulkUpdate
<1>5. ASSUME deleteSelectedStruct(seen) \/ PatchStruct \/ splitStructureSegment
             \/ toggleStructureLock
      PROVE  Rendered /\ hand' = hand
  BY <1>5, UsualRendered DEF deleteSelectedStruct, PatchStruct, splitStructureSegment,
       toggleStructureLock, EditWall
<1>6. ASSUME DeleteInfraItem(seen) \/ addInfraLayer \/ removeInfraLayer
      PROVE  Rendered /\ hand' = hand
  BY <1>6, UsualRendered DEF DeleteInfraItem, addInfraLayer, removeInfraLayer, Infra
<1>7. ASSUME toggleInfraLayerVisibility PROVE Rendered /\ hand' = hand
  BY <1>7 DEF toggleInfraLayerVisibility, Infra, Rendered
<1>8. ASSUME \/ fitBackgroundToCanvas \/ commitBackgroundTransform \/ toggleBackgroundLock
             \/ ToggleBackground \/ RemoveBackground \/ AdjustBackground
      PROVE  Rendered /\ hand' = hand
  BY <1>8, UsualRendered DEF fitBackgroundToCanvas, commitBackgroundTransform,
       toggleBackgroundLock, ToggleBackground, RemoveBackground, AdjustBackground, EditBackground
<1>9. ASSUME onBgFileChange \/ applyLoadedBackground PROVE Rendered /\ hand' = hand
  BY <1>9 DEF onBgFileChange, applyLoadedBackground, Rendered
<1> QED BY <1>1, <1>2, <1>3, <1>4, <1>5, <1>6, <1>7, <1>8, <1>9

\* Tools, drawing, history, loads and saves; only Escape lets go.
LEMMA ToolsRendered ==
    ASSUME \/ \E t \in Tools : PickTool(t) \/ KeyTool(t)
           \/ SpaceDown \/ SpaceUp \/ EnterKey \/ DoubleClickDraw \/ DrawPoint \/ EscapeKey
           \/ \E seen \in Seen : Undo(seen) \/ Redo(seen)
           \/ LoadLayout \/ resetChanges \/ ChangeScale \/ Save
    PROVE  Rendered /\ (hand' = hand \/ (EscapeKey /\ hand' = NoHand))
<1>1. ASSUME NEW t \in Tools, PickTool(t) \/ KeyTool(t) PROVE Rendered /\ hand' = hand
  BY <1>1, UsualRendered DEF PickTool, KeyTool
<1>2. ASSUME SpaceDown \/ SpaceUp PROVE Rendered /\ hand' = hand
  BY <1>2, UsualRendered DEF SpaceDown, SpaceUp
<1>3. ASSUME NEW seen, finishDraw(seen) PROVE Rendered /\ hand' = hand
  BY <1>3 DEF finishDraw, Rendered
<1>4. ASSUME EnterKey \/ DoubleClickDraw \/ DrawPoint PROVE Rendered /\ hand' = hand
  BY <1>3, <1>4, UsualRendered DEF EnterKey, DoubleClickDraw, DrawPoint
<1>5. ASSUME EscapeKey PROVE Rendered /\ (hand' = hand \/ hand' = NoHand)
  BY <1>5, UsualRendered DEF EscapeKey
<1>6. ASSUME NEW seen \in Seen, Undo(seen) \/ Redo(seen) PROVE Rendered /\ hand' = hand
  BY <1>6 DEF Undo, Redo, onRestore, Rendered
<1>7. ASSUME LoadLayout \/ resetChanges \/ ChangeScale \/ Save PROVE Rendered /\ hand' = hand
  BY <1>7 DEF LoadLayout, resetChanges, ChangeScale, Save, Rendered
<1> QED BY <1>1, <1>2, <1>4, <1>5, <1>6, <1>7

\* A gesture that goes on is pushed at its end.
LEMMA HandKept == ASSUME hand' = hand PROVE GesturePushed
BY DEF GesturePushed

\* Presses, handles, moves and releases.
LEMMA GesturesPushed ==
    ASSUME CanvasTypeOK, Bounded(hist),
           \/ \E d \in Desks, shift \in BOOLEAN : PressDesk(d, shift)
           \/ \E w \in Walls : PressWall(w)
           \/ PressZone \/ \E shift \in BOOLEAN : PressEmpty(shift)
           \/ \E what \in {"desk", "vertex", "bg"} : Grip(what)
           \/ \E place \in Places : onSvgPointerMove(place)
           \/ onSvgPointerUp
    PROVE  Rendered /\ GesturePushed /\ (Moved => MovesInHand \/ doc' = doc)
<1>1. hand \in Hand BY DEF CanvasTypeOK
<1>2. ASSUME NEW d \in Desks, NEW shift \in BOOLEAN, PressDesk(d, shift)
      PROVE  Rendered /\ GesturePushed /\ doc' = doc
  <2>1. hand.kind # "drag" BY <1>2 DEF PressDesk, Selecting, NoHand
  <2>2. PICK ids : hand' = NoHand \/ hand' = [kind |-> "drag", ids |-> ids, moved |-> FALSE, start |-> doc]
    BY <1>2 DEF PressDesk
  <2> QED BY <1>2, <2>1, <2>2, UsualRendered, UsualUndoable DEF PressDesk, GesturePushed, NoHand
<1>3. ASSUME NEW w \in Walls, PressWall(w) PROVE Rendered /\ GesturePushed /\ doc' = doc
  BY <1>3, HandKept, UsualRendered, UsualUndoable DEF PressWall
<1>4. ASSUME PressZone PROVE Rendered /\ GesturePushed /\ doc' = doc
  BY <1>4, HandKept, UsualRendered, UsualUndoable DEF PressZone
<1>5. ASSUME NEW shift \in BOOLEAN, PressEmpty(shift)
      PROVE  Rendered /\ GesturePushed /\ doc' = doc
  <2>1. hand.kind # "drag" BY <1>5 DEF PressEmpty, Selecting, NoHand
  <2>2. hand'.kind = "marquee" BY <1>5 DEF PressEmpty
  <2> QED BY <1>5, <2>1, <2>2, UsualRendered, UsualUndoable DEF PressEmpty, GesturePushed
<1>6. ASSUME NEW what \in {"desk", "vertex", "bg"}, Grip(what)
      PROVE  Rendered /\ GesturePushed /\ doc' = doc
  <2>1. hand.kind # "drag" BY <1>6 DEF Grip, Selecting, NoHand
  <2>2. hand'.kind # "drag" BY <1>6 DEF Grip
  <2>3. Pushed(doc) BY <1>6, PushTop DEF Grip, Pushed
  <2> QED BY <1>6, <2>1, <2>2, <2>3 DEF Grip, GesturePushed, Rendered
<1>7. ASSUME NEW place \in Places, onSvgPointerMove(place)
      PROVE  Rendered /\ GesturePushed /\ MovesInHand
  <2>1. Rendered BY <1>7, UsualRendered DEF onSvgPointerMove
  <2>2. CASE hand.kind = "drag"
    <3>1. hand \in Drags BY <1>1, <2>2, DragIs
    <3>2. hand' = [hand EXCEPT !.moved = TRUE] BY <1>7, <2>2 DEF onSvgPointerMove
    <3>3. hand'.kind = "drag" /\ (hand.moved => hand' = hand) BY <3>1, <3>2 DEF Drags
    <3>4. MovesInHand BY <1>7, <2>2, <3>2 DEF MovesInHand
    <3> QED BY <2>1, <2>2, <3>3, <3>4 DEF GesturePushed
  <2>3. CASE hand.kind # "drag"
    <3>1. hand' = hand BY <1>7, <2>3 DEF onSvgPointerMove
    <3>2. hand.kind \in {"desk", "vertex", "bg"} BY <1>7, <2>3 DEF onSvgPointerMove
    <3> QED BY <1>7, <2>1, <3>1, <3>2, HandKept DEF MovesInHand
  <2> QED BY <2>2, <2>3
<1>8. ASSUME onSvgPointerUp PROVE Rendered /\ GesturePushed /\ doc' = doc
  <2>1. hand' = NoHand BY <1>8 DEF onSvgPointerUp
  <2>2. hand'.kind = "none" BY <2>1 DEF NoHand
  <2>3. Rendered /\ doc' = doc
    <3>1. CASE hand.kind = "marquee"
      BY <1>8, <3>1, UsualRendered, UsualUndoable DEF onSvgPointerUp
    <3>2. CASE hand.kind # "marquee"
      BY <1>8, <3>2 DEF onSvgPointerUp, Rendered
    <3> QED BY <3>1, <3>2
  <2>4. hand.kind = "drag" /\ hand.moved => hist' = push(hist, hand.start)
    BY <1>8 DEF onSvgPointerUp
  <2>5. hand.kind = "drag" /\ hand.moved => Pushed(hand.start)
    BY <2>4, PushTop DEF Pushed
  <2> QED BY <2>1, <2>2, <2>3, <2>5 DEF GesturePushed
<1> QED BY <1>2, <1>3, <1>4, <1>5, <1>6, <1>7, <1>8

\* Every step.
LEMMA NextPushes == ASSUME CanvasTypeOK, Bounded(hist), Next
                    PROVE  Rendered /\ GesturePushed /\ (Moved => MovesInHand \/ doc' = doc)
<1>1. Seen # {} BY DEF Seen
<1>2. Moved => MovesInHand \/ doc' = doc BY GesturesPushed DEF Moved
<1>3. ASSUME hand' = hand \/ (EscapeKey /\ hand' = NoHand) PROVE GesturePushed
  BY <1>3, HandKept DEF GesturePushed, NoHand
<1> QED BY <1>1, <1>2, <1>3, EditsRendered, ToolsRendered, GesturesPushed DEF Next

\* Every change of the document has its entry: the step pushes it, of the document
\* as its handler knows it, or it is a move of a gesture that pushes its own when it
\* begins or ends; but for a drag that Escape drops and the operations that the
\* code records nowhere.
THEOREM EditsUndoableAlways == Spec => EditsUndoable
<1>1. Init => Fresh
  BY DEF Init, Fresh, View
<1>2. Fresh /\ CanvasTypeOK /\ Bounded(hist) /\ [Next]_vars => Fresh'
  <2>1. UNCHANGED vars => Rendered BY DEF vars, Rendered
  <2> QED BY <2>1, FreshStays, NextPushes
<1> DEFINE Edits == /\ doc' # doc /\ ~Restores => EditPushed \/ MovesInHand \/ Unrecordable
                    /\ GesturePushed
<1>3. Fresh /\ CanvasTypeOK /\ Bounded(hist) /\ [Next]_vars => [Edits]_vars
  BY NextUndoable, NextPushes, RecordedPushed DEF Undoable
<1>4. Spec => [][Edits]_vars
  BY <1>1, <1>2, <1>3, CanvasTyped, PTL DEF Spec
<1> QED BY <1>4 DEF EditsUndoable
=============================================================================
