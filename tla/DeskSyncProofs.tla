--------------------------- MODULE DeskSyncProofs ---------------------------
(***************************************************************************)
(* Proofs about DeskSync, for all rows, labels, forms and layouts: rows    *)
(* keep their types, no synchronisation makes a second row for a label, a  *)
(* desk keeps its row unless another spelling is new, and what a           *)
(* synchronisation leaves behind is what was drawn.                        *)
(***************************************************************************)
EXTENDS DeskSync, TLAPS

-----------------------------------------------------------------------------
Listed(r) == sync.existing[r] \notin {Free, Gone}

\* A row belongs to one desk of the layout.
MatchedOnce ==
    \A k, l \in Label : k # l /\ Seen(k) => sync.got[k] # sync.got[l]

\* It bears that desk's label, or DELETE was faster.
MatchedLabelled ==
    \A l \in Label : Seen(l) =>
        \/ rows[sync.got[l]] = l
        \/ rows[sync.got[l]] = Gone /\ sync.got[l] \in sync.removed

\* A listed row that was matched had the desk's label or its form.
MatchedByForm ==
    \A l \in Label : Seen(l) /\ sync.existing[sync.got[l]] \in Label =>
        \/ sync.existing[sync.got[l]] = l
        \/ normal[sync.existing[sync.got[l]]] = normal[l] /\ normal[l] # NoForm

\* What is in the table was listed or has been matched; what was listed and
\* not matched is as it was listed, but for PATCH and DELETE.
RowsAccounted ==
    sync.step = "desks" => \A r \in Row :
        /\ Live(r) => r \in Used \/ Listed(r)
        /\ r \notin Used /\ Live(r) => r \in renamed \/ sync.existing[r] = rows[r]
        /\ Listed(r) => Live(r) \/ (rows[r] = Gone /\ r \in sync.removed)
        /\ r \in sync.removed => rows[r] = Gone

ListedDistinct ==
    \A r, q \in Row : /\ r # q
                      /\ sync.existing[r] = sync.existing[q]
                      /\ sync.existing[r] \in Label
                      => r \in renamed \/ q \in renamed

\* Between two synchronisations nothing is matched.
AtRest == sync.step = "idle" => \A l \in Label : ~Seen(l)

\* Nobody who is drawn is forgotten.
DrawnSeen ==
    sync.step = "desks" =>
        sync.drawn = {l \in Label : Seen(l)} \cup Workplaces(sync.layout)

SyncInvariant ==
    /\ DeskTypeOK
    /\ MatchedOnce /\ MatchedLabelled /\ MatchedByForm
    /\ RowsAccounted /\ ListedDistinct /\ AtRest /\ DrawnSeen
    /\ LabelsDistinct /\ KeepsItsDesk

-----------------------------------------------------------------------------
(***************************************************************************)
(* Layouts                                                                 *)
(***************************************************************************)

\* What is left of a layout after its first desk.
LEMMA WorkplacesTail ==
    ASSUME NEW layout \in Seq(Desk), layout # <<>>
    PROVE /\ Tail(layout) \in Seq(Desk)
          /\ Head(layout) \in Desk
          /\ Workplaces(layout) =
               Workplaces(Tail(layout)) \cup
                 (IF /\ Head(layout).assetType = "workplace"
                     /\ Head(layout).label # NoLabel
                  THEN {Head(layout).label} ELSE {})
<1> DEFINE n == Len(layout)
           rest == Tail(layout)
           Works(d) == d.assetType = "workplace" /\ d.label # NoLabel
<1>1. n \in Nat /\ n >= 1 /\ DOMAIN layout = 1..n OBVIOUS
<1>2. /\ rest \in Seq(Desk) /\ Len(rest) = n - 1 /\ DOMAIN rest = 1..(n - 1)
      /\ \A i \in 1..(n - 1) : rest[i] = layout[i + 1]
  OBVIOUS
<1>3. Head(layout) = layout[1] /\ layout[1] \in Desk BY <1>1
<1> HIDE DEF n, rest
<1>4. Workplaces(layout) = {layout[i].label : i \in {j \in 1..n : Works(layout[j])}}
  BY <1>1 DEF Workplaces
<1>5. Workplaces(rest) = {rest[i].label : i \in {j \in 1..(n - 1) : Works(rest[j])}}
  BY <1>2 DEF Workplaces
<1>6. \A x : x \in Workplaces(layout) <=> \E i \in 1..n : Works(layout[i]) /\ x = layout[i].label
  BY <1>4
<1>7. \A x : x \in Workplaces(rest) <=>
          \E i \in 1..(n - 1) : Works(layout[i + 1]) /\ x = layout[i + 1].label
  BY <1>2, <1>5
<1> HIDE DEF Works
<1>8. \A x : x \in Workplaces(layout) <=>
          x \in Workplaces(rest) \/ (Works(layout[1]) /\ x = layout[1].label)
  <2> TAKE x
  <2>1. ASSUME x \in Workplaces(layout)
        PROVE x \in Workplaces(rest) \/ (Works(layout[1]) /\ x = layout[1].label)
    <3>1. PICK i \in 1..n : Works(layout[i]) /\ x = layout[i].label BY <1>6, <2>1
    <3>2. CASE i = 1 BY <3>1, <3>2
    <3>3. CASE i # 1
      <4>1. i - 1 \in 1..(n - 1) /\ (i - 1) + 1 = i BY <1>1, <3>3
      <4> QED BY <1>7, <3>1, <4>1
    <3> QED BY <3>2, <3>3
  <2>2. ASSUME x \in Workplaces(rest) PROVE x \in Workplaces(layout)
    <3>1. PICK i \in 1..(n - 1) : Works(layout[i + 1]) /\ x = layout[i + 1].label
      BY <1>7, <2>2
    <3>2. i + 1 \in 1..n BY <1>1
    <3> QED BY <1>6, <3>1, <3>2
  <2>3. ASSUME Works(layout[1]), x = layout[1].label PROVE x \in Workplaces(layout)
    BY <1>1, <1>6, <2>3
  <2> QED BY <2>1, <2>2, <2>3
<1>9. Workplaces(layout) = Workplaces(rest) \cup (IF Works(layout[1]) THEN {layout[1].label} ELSE {})
  BY <1>8
<1> QED BY <1>2, <1>3, <1>9 DEF Works, rest

\* The workplaces of a layout are labels, and an empty one has none.
LEMMA WorkplacesLabelled ==
    /\ \A layout \in Seq(Desk) : Workplaces(layout) \subseteq Label
    /\ Workplaces(<<>>) = {}
<1>1. ASSUME NEW layout \in Seq(Desk), NEW i \in DOMAIN layout, layout[i].label # NoLabel
      PROVE layout[i].label \in Label
  <2>1. layout[i] \in Desk OBVIOUS
  <2> QED BY <1>1, <2>1 DEF Desk
<1>2. \A layout \in Seq(Desk) : Workplaces(layout) \subseteq Label
  BY <1>1 DEF Workplaces
<1>3. DOMAIN <<>> = {} OBVIOUS
<1> QED BY <1>2, <1>3 DEF Workplaces

-----------------------------------------------------------------------------
(***************************************************************************)
(* The start                                                               *)
(***************************************************************************)

\* Between two synchronisations nothing is matched.
LEMMA NothingMatched == ASSUME sync = Idle
                        PROVE /\ \A l \in Label : ~Seen(l)
                              /\ \A r \in Row : sync.existing[r] = Free
                              /\ sync.step = "idle"
BY DEF Idle, Seen

\* The table the server starts on.
LEMMA InitInvariant == Init => SyncInvariant
<1> SUFFICES ASSUME Init PROVE SyncInvariant OBVIOUS
<1>1. DeskTypeOK
  BY DeskAssumption DEF Init, DeskTypeOK, Idle, Transaction
<1>2. LabelsDistinct BY DEF Init, LabelsDistinct
<1>3. /\ \A l \in Label : ~Seen(l)
      /\ \A r \in Row : sync.existing[r] = Free
      /\ sync.step = "idle"
  BY NothingMatched DEF Init
<1>4. MatchedOnce /\ MatchedLabelled /\ MatchedByForm
  BY <1>3 DEF MatchedOnce, MatchedLabelled, MatchedByForm
<1>5. RowsAccounted /\ AtRest /\ DrawnSeen BY <1>3 DEF RowsAccounted, AtRest, DrawnSeen
<1>6. ListedDistinct BY <1>3, DeskAssumption DEF ListedDistinct
<1>7. KeepsItsDesk BY <1>3 DEF KeepsItsDesk
<1> QED BY <1>1, <1>2, <1>4, <1>5, <1>6, <1>7 DEF SyncInvariant

-----------------------------------------------------------------------------
(***************************************************************************)
(* The steps                                                               *)
(***************************************************************************)

\* A synchronisation begins with the table as it is, and nothing matched.
LEMMA BeginStep == ASSUME SyncInvariant,
                          NEW layout \in Layouts, NEW cleanup \in BOOLEAN,
                          SyncBegin(layout, cleanup)
                   PROVE SyncInvariant'
<1>1. /\ rows' = rows /\ renamed' = renamed
      /\ sync'.step = "desks" /\ sync'.layout = layout /\ sync'.cleanup = cleanup
      /\ sync'.existing = rows /\ sync'.drawn = Workplaces(layout)
      /\ sync'.got = [l \in Label |-> NoRow] /\ sync'.removed = {}
  BY DEF SyncBegin, Idle
<1>2. layout \in Seq(Desk) BY DeskAssumption
<1>3. DeskTypeOK'
  <2>1. Workplaces(layout) \subseteq Label BY <1>2, WorkplacesLabelled
  <2>2. sync' \in Transaction
    BY <1>2, <2>1, DeskAssumption DEF SyncBegin, Idle, Transaction, SyncInvariant, DeskTypeOK
  <2> QED BY <1>1, <2>2 DEF SyncInvariant, DeskTypeOK
<1>4. \A l \in Label : ~Seen(l)' BY <1>1 DEF Seen
<1>5. MatchedOnce' /\ MatchedLabelled' /\ MatchedByForm' /\ KeepsItsDesk'
  BY <1>4 DEF MatchedOnce, MatchedLabelled, MatchedByForm, KeepsItsDesk
<1>6. RowsAccounted' /\ AtRest' BY <1>1, <1>4 DEF RowsAccounted, AtRest, Live, Listed
<1>7. LabelsDistinct' /\ ListedDistinct'
  BY <1>1 DEF SyncInvariant, LabelsDistinct, ListedDistinct
<1>8. DrawnSeen' BY <1>1, <1>4 DEF DrawnSeen
<1> QED BY <1>3, <1>5, <1>6, <1>7, <1>8 DEF SyncInvariant

\* The desk that is passed over has no label, or one that was seen.
LEMMA SkipStep == ASSUME SyncInvariant, SkipDesk
                  PROVE SyncInvariant'
<1>1. /\ rows' = rows /\ renamed' = renamed
      /\ sync' = [sync EXCEPT !.layout = Tail(sync.layout)]
      /\ sync.step = "desks" /\ sync.layout # <<>> /\ \A l \in Label : ~Turn(l)
  BY DEF SkipDesk
<1>2. sync \in Transaction BY DEF SyncInvariant, DeskTypeOK
<1>3. /\ sync'.step = sync.step /\ sync'.layout = Tail(sync.layout)
      /\ sync'.existing = sync.existing /\ sync'.got = sync.got
      /\ sync'.drawn = sync.drawn /\ sync'.removed = sync.removed
  BY <1>1, <1>2 DEF Transaction
<1>4. sync.layout \in Seq(Desk) BY <1>2 DEF Transaction
<1>5. /\ Tail(sync.layout) \in Seq(Desk)
      /\ Head(sync.layout) \in Desk
      /\ Workplaces(sync.layout) =
           Workplaces(Tail(sync.layout)) \cup
             (IF /\ Head(sync.layout).assetType = "workplace"
                 /\ Head(sync.layout).label # NoLabel
              THEN {Head(sync.layout).label} ELSE {})
  BY <1>1, <1>4, WorkplacesTail
<1>6. DeskTypeOK'
  <2>1. sync' \in Transaction BY <1>1, <1>2, <1>5 DEF Transaction
  <2> QED BY <1>1, <2>1 DEF SyncInvariant, DeskTypeOK
<1>7. /\ \A l \in Label : Seen(l)' = Seen(l) /\ byExact(l)' = byExact(l)
      /\ Used' = Used
  BY <1>3 DEF Seen, byExact, Used
<1>8. DrawnSeen'
  <2>1. ASSUME Head(sync.layout).assetType = "workplace", Head(sync.layout).label # NoLabel
        PROVE Head(sync.layout).label \in {l \in Label : Seen(l)}
    <3>1. Head(sync.layout).label \in Label BY <1>5, <2>1 DEF Desk
    <3>2. Head(sync.layout) =
            [assetType |-> "workplace", label |-> Head(sync.layout).label]
      BY <1>5, <2>1 DEF Desk
    <3> QED BY <1>1, <3>1, <3>2 DEF Turn
  <2>2. sync.drawn = {l \in Label : Seen(l)} \cup Workplaces(sync.layout)
    BY <1>1 DEF SyncInvariant, DrawnSeen
  <2>3. sync.drawn = {l \in Label : Seen(l)} \cup Workplaces(Tail(sync.layout))
    BY <1>5, <2>1, <2>2
  <2> QED BY <1>3, <1>7, <2>3 DEF DrawnSeen
<1>9. MatchedOnce' /\ MatchedLabelled' /\ MatchedByForm'
  BY <1>1, <1>3, <1>7 DEF SyncInvariant, MatchedOnce, MatchedLabelled, MatchedByForm
<1>10. RowsAccounted' /\ ListedDistinct' /\ LabelsDistinct'
  BY <1>1, <1>3, <1>7
  DEF SyncInvariant, RowsAccounted, ListedDistinct, LabelsDistinct, Live, Listed
<1>11. KeepsItsDesk' /\ AtRest'
  BY <1>3, <1>7 DEF SyncInvariant, KeepsItsDesk, AtRest
<1> QED BY <1>6, <1>8, <1>9, <1>10, <1>11 DEF SyncInvariant

\* PATCH may label a row as it likes; it cannot touch one that was matched.
LEMMA PatchStep == ASSUME SyncInvariant,
                          NEW r \in Row, NEW l \in Label \cup {NoLabel}, UpdateDesk(r, l)
                   PROVE SyncInvariant'
<1>1. /\ rows' = [rows EXCEPT ![r] = l] /\ renamed' = renamed \cup {r}
      /\ sync' = sync /\ Live(r) /\ r \notin Used
  BY DEF UpdateDesk
<1>2. rows \in [Row -> Label \cup {NoLabel, Free, Gone}] BY DEF SyncInvariant, DeskTypeOK
<1>3. /\ rows'[r] = l /\ l # Free /\ l # Gone
      /\ \A q \in Row : q # r => rows'[q] = rows[q]
  BY <1>1, <1>2, DeskAssumption
<1>4. DeskTypeOK' BY <1>1, <1>2 DEF SyncInvariant, DeskTypeOK
<1>5. /\ \A k \in Label : Seen(k)' = Seen(k) /\ byExact(k)' = byExact(k)
      /\ Used' = Used
  BY <1>1 DEF Seen, byExact, Used
<1>6. MatchedOnce' /\ MatchedByForm' /\ KeepsItsDesk' /\ AtRest' /\ DrawnSeen'
  BY <1>1, <1>5
  DEF SyncInvariant, MatchedOnce, MatchedByForm, KeepsItsDesk, AtRest, DrawnSeen
<1>7. MatchedLabelled'
  <2>1. ASSUME NEW k \in Label, Seen(k) PROVE sync.got[k] # r /\ sync.got[k] \in Row
    <3>1. sync.got[k] \in Used BY <2>1 DEF Used
    <3>2. sync.got[k] \in Row
      BY <2>1 DEF SyncInvariant, DeskTypeOK, Transaction, Seen
    <3> QED BY <1>1, <3>1, <3>2
  <2> QED BY <1>1, <1>3, <1>5, <2>1 DEF SyncInvariant, MatchedLabelled
<1>8. RowsAccounted'
  BY <1>1, <1>3, <1>5 DEF SyncInvariant, RowsAccounted, Live, Listed
<1>9. LabelsDistinct' /\ ListedDistinct'
  BY <1>1, <1>3 DEF SyncInvariant, LabelsDistinct, ListedDistinct
<1> QED BY <1>4, <1>6, <1>7, <1>8, <1>9 DEF SyncInvariant

\* DELETE leaves a mark while a synchronisation is under way.
LEMMA DeleteStep == ASSUME SyncInvariant, NEW r \in Row, DeleteDesk(r)
                    PROVE SyncInvariant'
<1>1. /\ rows' = [rows EXCEPT ![r] = Gone] /\ renamed' = renamed
      /\ sync' = [sync EXCEPT !.removed = IF sync.step = "idle" THEN {} ELSE @ \cup {r}]
      /\ Live(r) /\ r \notin Used
  BY DEF DeleteDesk
<1>2. /\ rows \in [Row -> Label \cup {NoLabel, Free, Gone}]
      /\ sync \in Transaction
  BY DEF SyncInvariant, DeskTypeOK
<1>3. /\ sync'.step = sync.step /\ sync'.layout = sync.layout
      /\ sync'.existing = sync.existing /\ sync'.got = sync.got
      /\ sync'.drawn = sync.drawn
      /\ sync'.removed = IF sync.step = "idle" THEN {} ELSE sync.removed \cup {r}
  BY <1>1, <1>2 DEF Transaction
<1>4. /\ rows'[r] = Gone
      /\ \A q \in Row : q # r => rows'[q] = rows[q]
  BY <1>1, <1>2
<1>5. DeskTypeOK'
  <2>1. sync' \in Transaction BY <1>1, <1>2 DEF Transaction
  <2> QED BY <1>1, <1>2, <2>1 DEF SyncInvariant, DeskTypeOK
<1>6. /\ \A k \in Label : Seen(k)' = Seen(k) /\ byExact(k)' = byExact(k)
      /\ Used' = Used
  BY <1>3 DEF Seen, byExact, Used
<1>7. MatchedOnce' /\ MatchedByForm' /\ KeepsItsDesk' /\ AtRest' /\ DrawnSeen'
  BY <1>3, <1>6
  DEF SyncInvariant, MatchedOnce, MatchedByForm, KeepsItsDesk, AtRest, DrawnSeen
<1>8. MatchedLabelled'
  <2>1. ASSUME NEW k \in Label, Seen(k)
        PROVE sync.got[k] # r /\ sync.got[k] \in Row /\ sync.step = "desks"
    <3>1. sync.got[k] \in Used BY <2>1 DEF Used
    <3>2. sync.got[k] \in Row BY <1>2, <2>1 DEF Transaction, Seen
    <3>3. sync.step = "desks"
      BY <1>2, <2>1 DEF SyncInvariant, AtRest, Transaction
    <3> QED BY <1>1, <3>1, <3>2, <3>3
  <2> QED BY <1>3, <1>4, <1>6, <2>1 DEF SyncInvariant, MatchedLabelled
<1>9. RowsAccounted'
  BY <1>1, <1>3, <1>4, <1>6 DEF SyncInvariant, RowsAccounted, Live, Listed
<1>10. LabelsDistinct' /\ ListedDistinct'
  BY <1>1, <1>3, <1>4, DeskAssumption DEF SyncInvariant, LabelsDistinct, ListedDistinct
<1> QED BY <1>5, <1>7, <1>8, <1>9, <1>10 DEF SyncInvariant

\* The end: what stays was matched, or was not listed, or nobody cleans up.
LEMMA EndStep == ASSUME SyncInvariant, SyncEnd
                 PROVE SyncInvariant'
<1>1. /\ sync' = Idle /\ renamed' = renamed
      /\ rows' = [r \in Row |-> IF sync.cleanup /\ r \in Unmatched THEN Gone ELSE rows[r]]
  BY DEF SyncEnd
<1>2. /\ \A l \in Label : ~Seen(l)'
      /\ \A r \in Row : sync'.existing[r] = Free
      /\ sync'.step = "idle"
  BY <1>1 DEF Idle, Seen
<1>3. DeskTypeOK'
  BY <1>1, DeskAssumption DEF SyncInvariant, DeskTypeOK, Idle, Transaction
<1>4. MatchedOnce' /\ MatchedLabelled' /\ MatchedByForm' /\ KeepsItsDesk'
  BY <1>2 DEF MatchedOnce, MatchedLabelled, MatchedByForm, KeepsItsDesk
<1>5. RowsAccounted' /\ AtRest' /\ DrawnSeen'
  BY <1>2 DEF RowsAccounted, AtRest, DrawnSeen
<1>6. ListedDistinct' BY <1>2, DeskAssumption DEF ListedDistinct
<1>7. LabelsDistinct'
  BY <1>1, DeskAssumption DEF SyncInvariant, LabelsDistinct
<1> QED BY <1>3, <1>4, <1>5, <1>6, <1>7 DEF SyncInvariant

\* Whether a desk gets a listed row or a new one, it gets one of its own, and
\* no other row bears its label then unless PATCH gave it.
LEMMA MatchStep ==
    ASSUME SyncInvariant, NEW l \in Label, NEW r \in Row,
           UpdateDeskForSync(l, r) \/ InsertDeskForSync(l, r)
    PROVE SyncInvariant'
<1>1. /\ sync' = Matched(l, r) /\ renamed' = renamed
      /\ Turn(l)
      /\ \/ r \in Candidates(l) /\ rows' = IF Live(r) THEN [rows EXCEPT ![r] = l] ELSE rows
         \/ Candidates(l) = {} /\ rows[r] = Free /\ rows' = [rows EXCEPT ![r] = l]
  BY DEF UpdateDeskForSync, InsertDeskForSync
<1>2. /\ rows \in [Row -> Label \cup {NoLabel, Free, Gone}]
      /\ sync \in Transaction
  BY DEF SyncInvariant, DeskTypeOK
<1>3. /\ sync'.step = "desks" /\ sync'.layout = Tail(sync.layout)
      /\ sync'.existing = sync.existing /\ sync'.drawn = sync.drawn
      /\ sync'.removed = sync.removed
      /\ sync'.got = [sync.got EXCEPT ![l] = r]
      /\ sync.step = "desks" /\ sync.layout # <<>> /\ ~Seen(l)
      /\ Head(sync.layout) = [assetType |-> "workplace", label |-> l]
  BY <1>1, <1>2 DEF Transaction, Matched, Turn
<1>4. /\ sync.got \in [Label -> Row \cup {NoRow}] /\ sync.layout \in Seq(Desk)
      /\ \A k \in Label : Seen(k) => sync.got[k] \in Row /\ sync.got[k] \in Used
      /\ \A q \in Used : \E k \in Label : Seen(k) /\ sync.got[k] = q
  BY <1>2 DEF Transaction, Seen, Used
<1>5. /\ \A k \in Label : Seen(k)' <=> k = l \/ Seen(k)
      /\ sync'.got[l] = r /\ \A k \in Label \ {l} : sync'.got[k] = sync.got[k]
      /\ \A k \in Label : byExact(k)' = byExact(k)
  <2>1. r # NoRow BY DeskAssumption
  <2>2. sync'.got[l] = r /\ \A k \in Label \ {l} : sync'.got[k] = sync.got[k]
    BY <1>3, <1>4
  <2>3. \A k \in Label : byExact(k)' = byExact(k) BY <1>3 DEF byExact
  <2> QED BY <2>1, <2>2, <2>3 DEF Seen
<1>6. Used' = Used \cup {r}
  BY <1>3, <1>5 DEF Used
<1>7. /\ \A q \in Row : q # r => rows'[q] = rows[q]
      /\ rows'[r] = l \/ (rows'[r] = Gone /\ r \in sync.removed)
      /\ rows[r] = Gone => rows'[r] = Gone
  <2>1. CASE r \in Candidates(l) /\ rows' = IF Live(r) THEN [rows EXCEPT ![r] = l] ELSE rows
    <3>1. Listed(r)
      BY <2>1, DeskAssumption DEF Candidates, byExact, byNorm, Listed
    <3>2. Live(r) \/ (rows[r] = Gone /\ r \in sync.removed)
      BY <1>3, <3>1 DEF SyncInvariant, RowsAccounted
    <3> QED BY <1>2, <2>1, <3>2 DEF Live
  <2>2. CASE Candidates(l) = {} /\ rows[r] = Free /\ rows' = [rows EXCEPT ![r] = l]
    BY <1>2, <2>2, DeskAssumption
  <2> QED BY <1>1, <2>1, <2>2
<1>8. r \notin Used
  <2>1. CASE r \in Candidates(l) BY <2>1 DEF Candidates
  <2>2. CASE rows[r] = Free
    BY <1>4, <2>2, DeskAssumption DEF SyncInvariant, MatchedLabelled
  <2> QED BY <1>1, <2>1, <2>2
<1>9. DeskTypeOK'
  <2>1. sync' \in Transaction
    <3>1. Tail(sync.layout) \in Seq(Desk) BY <1>3, <1>4, WorkplacesTail
    <3> QED BY <1>1, <1>2, <3>1 DEF Transaction, Matched
  <2>2. rows' \in [Row -> Label \cup {NoLabel, Free, Gone}]
    BY <1>1, <1>2
  <2> QED BY <1>1, <2>1, <2>2 DEF SyncInvariant, DeskTypeOK
<1>10. MatchedOnce'
  <2>1. ASSUME NEW k \in Label, k # l PROVE sync.got[k] # r
    <3>1. CASE Seen(k) BY <1>4, <1>8, <3>1
    <3>2. CASE ~Seen(k) BY <3>2, DeskAssumption DEF Seen
    <3> QED BY <3>1, <3>2
  <2>2. ASSUME NEW k \in Label, NEW m \in Label, k # m, Seen(k)'
        PROVE sync'.got[k] # sync'.got[m]
    <3>1. CASE k = l \/ m = l BY <1>5, <2>1, <2>2, <3>1
    <3>2. CASE k # l /\ m # l
      BY <1>5, <2>2, <3>2 DEF SyncInvariant, MatchedOnce
    <3> QED BY <3>1, <3>2
  <2> QED BY <2>2 DEF MatchedOnce
<1>11. MatchedLabelled'
  BY <1>3, <1>4, <1>5, <1>7, <1>8 DEF SyncInvariant, MatchedLabelled
<1>12. MatchedByForm'
  <2>1. sync.existing[r] \in Label =>
           \/ sync.existing[r] = l
           \/ normal[sync.existing[r]] = normal[l] /\ normal[l] # NoForm
    <3>1. CASE r \in Candidates(l) BY <3>1 DEF Candidates, byExact, byNorm
    <3>2. CASE rows[r] = Free
      BY <1>3, <1>8, <3>2, DeskAssumption DEF SyncInvariant, RowsAccounted, Listed, Live
    <3> QED BY <1>1, <3>1, <3>2
  <2> QED BY <1>3, <1>5, <2>1 DEF SyncInvariant, MatchedByForm
<1>13. RowsAccounted'
  BY <1>1, <1>3, <1>6, <1>7, DeskAssumption DEF SyncInvariant, RowsAccounted, Live, Listed
<1>14. ListedDistinct' BY <1>1, <1>3 DEF SyncInvariant, ListedDistinct
<1>15. AtRest' BY <1>3 DEF AtRest
<1>16. DrawnSeen'
  <2>1. Workplaces(sync.layout) = Workplaces(Tail(sync.layout)) \cup {l}
    <3>1. l # NoLabel BY DeskAssumption
    <3> QED BY <1>3, <1>4, <3>1, WorkplacesTail
  <2>2. sync.drawn = {k \in Label : Seen(k)} \cup Workplaces(sync.layout)
    BY <1>3 DEF SyncInvariant, DrawnSeen
  <2>3. {k \in Label : Seen(k)'} = {k \in Label : Seen(k)} \cup {l} BY <1>5
  <2> QED BY <1>3, <2>1, <2>2, <2>3 DEF DrawnSeen
\* A row outside the matched ones with the label would have been taken.
<1>17. ASSUME NEW q \in Row, q # r, rows[q] = l, q \notin renamed
       PROVE sync.existing[q] = l /\ q \notin Used
  <2>1. Live(q) BY <1>17, DeskAssumption DEF Live
  <2>2. q \notin Used
    BY <1>3, <1>4, <1>17, DeskAssumption DEF SyncInvariant, MatchedLabelled
  <2> QED BY <1>3, <1>17, <2>1, <2>2 DEF SyncInvariant, RowsAccounted
<1>18. LabelsDistinct'
  <2>1. ASSUME NEW q \in Row, q # r, rows'[q] = rows'[r], rows'[r] \in Label
        PROVE q \in renamed \/ r \in renamed
    <3>1. rows[q] = l BY <1>7, <2>1, DeskAssumption
    <3>2. SUFFICES ASSUME q \notin renamed PROVE r \in renamed OBVIOUS
    <3>3. sync.existing[q] = l /\ q \in byExact(l) \ Used
      BY <1>17, <2>1, <3>1, <3>2 DEF byExact
    <3>4. r \in byExact(l) BY <1>1, <3>3 DEF Candidates
    <3> QED BY <2>1, <3>2, <3>3, <3>4 DEF SyncInvariant, ListedDistinct, byExact
  <2> QED BY <1>1, <1>7, <2>1 DEF SyncInvariant, LabelsDistinct
\* Whoever has taken the last row of the label had none of its own.
<1>19. ASSUME byExact(l) # {}, r \notin byExact(l)
       PROVE \E k \in Label : /\ Seen(k) /\ byExact(k) = {}
                              /\ normal[k] = normal[l] /\ normal[l] # NoForm
  <2>1. PICK q \in Row : sync.existing[q] = l BY <1>19 DEF byExact
  <2>2. q \in Used
    BY <1>1, <1>19, <2>1 DEF Candidates, byExact
  <2>3. PICK k \in Label : Seen(k) /\ sync.got[k] = q BY <1>4, <2>2
  <2>4. k # l /\ normal[k] = normal[l] /\ normal[l] # NoForm
    BY <1>3, <2>1, <2>3 DEF SyncInvariant, MatchedByForm
  <2>5. CASE byExact(k) = {} BY <2>3, <2>4, <2>5
  <2>6. CASE byExact(k) # {}
    <3>1. q \notin byExact(k) BY <2>1, <2>4 DEF byExact
    <3> QED BY <2>3, <2>4, <2>6, <3>1 DEF SyncInvariant, KeepsItsDesk
  <2> QED BY <2>5, <2>6
<1>20. KeepsItsDesk'
  <2> SUFFICES ASSUME NEW m \in Label, Seen(m)', byExact(m)' # {},
                      sync'.got[m] \notin byExact(m)'
               PROVE \E k \in Label : /\ Seen(k)' /\ byExact(k)' = {}
                                      /\ normal[k] = normal[m] /\ normal[m] # NoForm
    BY DEF KeepsItsDesk
  <2>1. \E k \in Label : /\ Seen(k) /\ byExact(k) = {}
                         /\ normal[k] = normal[m] /\ normal[m] # NoForm
    <3>1. CASE m = l BY <1>5, <1>19, <3>1
    <3>2. CASE m # l BY <1>5, <3>2 DEF SyncInvariant, KeepsItsDesk
    <3> QED BY <3>1, <3>2
  <2> QED BY <1>5, <2>1
<1> QED BY <1>9, <1>10, <1>11, <1>12, <1>13, <1>14, <1>15, <1>16, <1>18, <1>20
        DEF SyncInvariant

\* The inductive invariant is kept by every step.
LEMMA StepInvariant == SyncInvariant /\ [Next]_vars => SyncInvariant'
<1> SUFFICES ASSUME SyncInvariant, [Next]_vars PROVE SyncInvariant' OBVIOUS
<1>1. CASE \E layout \in Layouts, cleanup \in BOOLEAN : SyncBegin(layout, cleanup)
  BY <1>1, BeginStep
<1>2. CASE SkipDesk BY <1>2, SkipStep
<1>3. CASE \E l \in Label, r \in Row : UpdateDeskForSync(l, r) \/ InsertDeskForSync(l, r)
  BY <1>3, MatchStep
<1>4. CASE SyncEnd BY <1>4, EndStep
<1>5. CASE \E r \in Row, l \in Label \cup {NoLabel} : UpdateDesk(r, l) BY <1>5, PatchStep
<1>6. CASE \E r \in Row : DeleteDesk(r) BY <1>6, DeleteStep
<1>7. CASE UNCHANGED vars
  BY <1>7 DEF vars, SyncInvariant, DeskTypeOK, MatchedOnce, MatchedLabelled,
     MatchedByForm, RowsAccounted, ListedDistinct, AtRest, DrawnSeen, LabelsDistinct,
     KeepsItsDesk, Seen, Used, Live, Listed, byExact
<1> QED BY <1>1, <1>2, <1>3, <1>4, <1>5, <1>6, <1>7 DEF Next

\* What a synchronisation leaves behind, read off the invariant.
LEMMA EndMirrors ==
    ASSUME SyncInvariant, SyncEnd
    PROVE LET live == {r \in Row : rows'[r] \notin {Free, Gone}}
              kept == {l \in sync.drawn : sync.got[l] \notin sync.removed}
          IN  /\ \A l \in kept : \E r \in live : rows'[r] = l
              /\ sync.cleanup =>
                   /\ \A r \in live : rows'[r] \in kept
                   /\ \A r, q \in live : rows'[r] = rows'[q] => r = q
<1> DEFINE live == {r \in Row : rows'[r] \notin {Free, Gone}}
           kept == {l \in sync.drawn : sync.got[l] \notin sync.removed}
<1>1. /\ sync.step = "desks" /\ sync.layout = <<>>
      /\ rows' = [r \in Row |-> IF sync.cleanup /\ r \in Unmatched THEN Gone ELSE rows[r]]
  BY DEF SyncEnd
<1>2. \A l \in Label : Seen(l) => sync.got[l] \in Row /\ sync.got[l] \in Used
  BY DEF SyncInvariant, DeskTypeOK, Transaction, Seen, Used
<1>3. sync.drawn = {l \in Label : Seen(l)}
  BY <1>1, WorkplacesLabelled DEF SyncInvariant, DrawnSeen
<1>4. ASSUME NEW l \in kept
      PROVE l \in Label /\ sync.got[l] \in live /\ rows'[sync.got[l]] = l
  <2>1. l \in Label /\ Seen(l) /\ sync.got[l] \notin sync.removed BY <1>3
  <2>2. rows[sync.got[l]] = l BY <2>1 DEF SyncInvariant, MatchedLabelled
  <2>3. rows'[sync.got[l]] = l BY <1>1, <1>2, <2>1, <2>2 DEF Unmatched
  <2> QED BY <1>2, <2>1, <2>3, DeskAssumption
<1>5. ASSUME sync.cleanup, NEW r \in live
      PROVE rows'[r] \in kept /\ r = sync.got[rows'[r]]
  <2>1. r \in Row /\ rows'[r] = rows[r] /\ Live(r) /\ r \notin Unmatched
    BY <1>1, <1>5 DEF Live
  <2>2. r \in Used
    BY <1>1, <2>1 DEF SyncInvariant, RowsAccounted, Listed, Unmatched
  <2>3. PICK l \in Label : Seen(l) /\ sync.got[l] = r BY <2>2 DEF Used
  <2>4. rows[r] = l /\ ~(rows[r] = Gone)
    BY <2>1, <2>3 DEF SyncInvariant, MatchedLabelled, Live
  <2>5. r \notin sync.removed
    BY <1>1, <2>1, <2>4 DEF SyncInvariant, RowsAccounted
  <2> QED BY <1>3, <2>1, <2>3, <2>4, <2>5
<1>6. \A l \in kept : \E r \in live : rows'[r] = l BY <1>4
<1>7. ASSUME sync.cleanup
      PROVE /\ \A r \in live : rows'[r] \in kept
            /\ \A r, q \in live : rows'[r] = rows'[q] => r = q
  BY <1>5, <1>7
<1> QED BY <1>6, <1>7

-----------------------------------------------------------------------------
(***************************************************************************)
(* The theorems                                                            *)
(***************************************************************************)

\* The inductive invariant of the synchronisation, for any table the server
\* starts on.
THEOREM SyncInvariantAlways == Spec => []SyncInvariant
<1>1. Init => SyncInvariant BY InitInvariant
<1>2. SyncInvariant /\ [Next]_vars => SyncInvariant' BY StepInvariant
<1> QED BY <1>1, <1>2, PTL DEF Spec

\* No synchronisation makes a second row for a label.
THEOREM LabelsAlwaysDistinct == Spec => []LabelsDistinct
<1>1. SyncInvariant => LabelsDistinct BY DEF SyncInvariant
<1> QED BY <1>1, SyncInvariantAlways, PTL

\* A desk keeps its row unless a new spelling of its label is drawn.
THEOREM DesksKeepTheirRows == Spec => []KeepsItsDesk
<1>1. SyncInvariant => KeepsItsDesk BY DEF SyncInvariant
<1> QED BY <1>1, SyncInvariantAlways, PTL

\* Only SyncEnd ends a synchronisation.
LEMMA OnlyEndEnds ==
    ASSUME SyncInvariant, [Next]_vars, sync.step = "desks", sync'.step = "idle"
    PROVE SyncEnd
<1>1. sync \in Transaction BY DEF SyncInvariant, DeskTypeOK
<1>2. CASE \E layout \in Layouts, cleanup \in BOOLEAN : SyncBegin(layout, cleanup)
  BY <1>2 DEF SyncBegin
<1>3. CASE SkipDesk BY <1>1, <1>3 DEF SkipDesk, Transaction
<1>4. CASE \E l \in Label, r \in Row : UpdateDeskForSync(l, r) \/ InsertDeskForSync(l, r)
  BY <1>1, <1>4 DEF UpdateDeskForSync, InsertDeskForSync, Matched, Transaction
<1>5. CASE \E r \in Row, l \in Label \cup {NoLabel} : UpdateDesk(r, l)
  BY <1>5 DEF UpdateDesk
<1>6. CASE \E r \in Row : DeleteDesk(r) BY <1>1, <1>6 DEF DeleteDesk, Transaction
<1>7. CASE UNCHANGED vars BY <1>7 DEF vars
<1> QED BY <1>2, <1>3, <1>4, <1>5, <1>6, <1>7 DEF Next

\* What a synchronisation leaves behind is what was drawn.
THEOREM TableMirrored == Spec => Mirrored
<1>1. SyncInvariant /\ [Next]_vars =>
        [sync.step = "desks" /\ sync'.step = "idle" =>
           LET live == {r \in Row : rows'[r] \notin {Free, Gone}}
               kept == {l \in sync.drawn : sync.got[l] \notin sync.removed}
           IN  /\ \A l \in kept : \E r \in live : rows'[r] = l
               /\ sync.cleanup =>
                    /\ \A r \in live : rows'[r] \in kept
                    /\ \A r, q \in live : rows'[r] = rows'[q] => r = q]_vars
  BY OnlyEndEnds, EndMirrors
<1> QED BY <1>1, SyncInvariantAlways, PTL DEF Spec, Mirrored
=============================================================================
