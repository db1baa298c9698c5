-------------------------- MODULE FloorLayoutProofs --------------------------
(***************************************************************************)
(* Proofs about FloorLayout, for every set of floors, revisions, layouts   *)
(* and versions: the store's invariant; the life of a revision (a          *)
(* published map never changes, a rendering is of its own document); what  *)
(* the history tells; and that the tables implement the slots of MapSlots. *)
(***************************************************************************)
EXTENDS FloorLayout, TLAPS

-----------------------------------------------------------------------------
\* Rows of the right shape, whatever their ids: the facts about record updates
\* the type proof rests on.
LEMMA NoRowType ==
    ASSUME NEW status \in {"free", "deleted"}
    PROVE  NoRow(status) \in RevisionRow
BY DEF NoRow, RevisionRow, NoSvg, Rendering

\* Overwriting a row's document leaves a row of a revision.
LEMMA OverwrittenType ==
    ASSUME NEW row \in RevisionRow, NEW layout \in Layout \cup {NoLayout}
    PROVE  OverwrittenRow(row, layout) \in RevisionRow
BY DEF OverwrittenRow, RevisionRow, NoSvg, Rendering

\* ArchiveRevision changes the status of a row and nothing else.
LEMMA ArchivedRowFields ==
    ASSUME NEW row \in RevisionRow
    PROVE  /\ ArchivedRow(row) \in RevisionRow
           /\ ArchivedRow(row).status = "archived"
           /\ ArchivedRow(row).floor = row.floor
           /\ ArchivedRow(row).version = row.version
           /\ ArchivedRow(row).layout = row.layout
           /\ ArchivedRow(row).svg = row.svg
BY DEF ArchivedRow, RevisionRow

\* The row new is what PublishRevision makes of row: it sets the status and stores
\* some rendering of the document.
Issue(row, new) ==
    \E components \in Library \cup {Own} :
        new = PublishedRow(row, Drawn(row.layout, components))

\* It keeps everything else.
LEMMA IssueFields ==
    ASSUME NEW row \in RevisionRow, NEW new, Issue(row, new)
    PROVE  /\ new \in RevisionRow
           /\ new.status = "published"
           /\ new.floor = row.floor
           /\ new.version = row.version
           /\ new.layout = row.layout
           /\ new.svg.layout = row.layout
<1>1. PICK components \in Library \cup {Own} :
         new = PublishedRow(row, Drawn(row.layout, components))
  BY DEF Issue
<1>2. row.layout \in Layout \cup {NoLayout}
  BY DEF RevisionRow
<1>3. /\ Drawn(row.layout, components) \in Rendering
      /\ Drawn(row.layout, components).layout = row.layout
  BY <1>2 DEF Drawn, Rendering
<1>4. QED
  BY <1>1, <1>3 DEF PublishedRow, RevisionRow

\* Publish issues the draft's row and archives that of the published revision.
LEMMA PublishRows ==
    ASSUME NEW f \in Floor, Publish(f)
    PROVE  /\ revisions' \in [Revision -> {revisions'[r] : r \in Revision}]
           /\ \A r \in Revision :
                /\ r = floors[f].draft => Issue(revisions[r], revisions'[r])
                /\ (r = floors[f].published /\ r # floors[f].draft) =>
                      revisions'[r] = ArchivedRow(revisions[r])
                /\ r \notin {floors[f].draft, floors[f].published} =>
                      revisions'[r] = revisions[r]
<1> DEFINE d == floors[f].draft
           p == floors[f].published
<1>1. PICK components \in Library \cup {Own} :
         revisions' = [r \in Revision |->
              CASE r = d -> PublishedRow(revisions[d], Drawn(revisions[d].layout, components))
                [] r = p /\ r # d -> ArchivedRow(revisions[p])
                [] OTHER -> revisions[r]]
  BY DEF Publish
<1>2. ASSUME NEW r \in Revision, r = d PROVE Issue(revisions[r], revisions'[r])
  BY <1>1, <1>2 DEF Issue
<1>3. ASSUME NEW r \in Revision, r = p, r # d
      PROVE  revisions'[r] = ArchivedRow(revisions[r])
  BY <1>1, <1>3
<1>4. ASSUME NEW r \in Revision, r \notin {d, p} PROVE revisions'[r] = revisions[r]
  BY <1>1, <1>4
<1>5. revisions' \in [Revision -> {revisions'[r] : r \in Revision}]
  BY <1>1
<1>6. QED
  BY <1>2, <1>3, <1>4, <1>5

\* A floor that holds no map is a row of floors.
LEMMA NoMapType ==
    ASSUME NEW status \in {"absent", "live", "deleted"}
    PROVE  NoMap(status) \in FloorRow
BY DEF NoMap, FloorRow

\* A draft is numbered by a natural number, one or more.
LEMMA DraftVersionType ==
    ASSUME TypeOK, NEW f \in Floor
    PROVE  DraftVersion(f) \in Nat \ {0}
<1>1. CASE HasPublished(f)
  <2>1. floors[f].published \in Revision
    BY <1>1 DEF HasPublished, TypeOK, FloorRow
  <2>2. revisions[floors[f].published].version \in Nat
    BY <2>1 DEF TypeOK, RevisionRow
  <2>3. QED
    BY <1>1, <2>2 DEF DraftVersion
<1>2. CASE ~HasPublished(f)
  BY <1>2 DEF DraftVersion
<1>3. QED
  BY <1>1, <1>2

\* Deleting rows leaves a table of revisions.
LEMMA WithoutType ==
    ASSUME TypeOK, NEW rows
    PROVE  Without(rows) \in [Revision -> RevisionRow]
BY NoRowType DEF Without, TypeOK

\* InsertDraft leaves tables of floors and revisions.
LEMMA InsertDraftType ==
    ASSUME TypeOK, NEW f \in Floor, NEW r \in Revision, NEW layout \in Layout \cup {NoLayout},
           InsertDraft(f, r, layout)
    PROVE  /\ floors' \in [Floor -> FloorRow]
           /\ revisions' \in [Revision -> RevisionRow]
<1>1. DraftVersion(f) \in Nat /\ NoSvg \in Rendering
  BY DraftVersionType DEF NoSvg, Rendering
<1>2. [status |-> "draft", floor |-> f, version |-> DraftVersion(f),
       layout |-> layout, svg |-> NoSvg] \in RevisionRow
  BY <1>1 DEF RevisionRow
<1>3. revisions' \in [Revision -> RevisionRow]
  BY <1>2 DEF InsertDraft, TypeOK
<1>4. [floors[f] EXCEPT !.draft = r] \in FloorRow
  BY DEF TypeOK, FloorRow
<1>5. floors' \in [Floor -> FloorRow]
  BY <1>4 DEF InsertDraft, TypeOK
<1>6. QED
  BY <1>3, <1>5

-----------------------------------------------------------------------------
\* Type correctness: one step per operation of the store.
LEMMA TypeInit == Init => TypeOK
<1>1. SUFFICES ASSUME Init PROVE TypeOK
  OBVIOUS
<1>2. floors \in [Floor -> FloorRow]
  BY <1>1, NoMapType DEF Init, FloorRow
<1>3. LegacyMap \subseteq RevisionRow
  <2>1. NoSvg \in Rendering
    BY DEF NoSvg, Rendering
  <2>2. QED
    BY <2>1, LayoutAssumption DEF LegacyMap, RevisionRow
<1>4. revisions \in [Revision -> RevisionRow]
  BY <1>1, <1>3, NoRowType DEF Init
<1>5. audit \subseteq AuditEntry /\ desks \in [Floor -> DeskSyncMark]
  BY <1>1 DEF Init, NeverSynced, DeskSyncMark
<1>6. QED
  BY <1>2, <1>4, <1>5 DEF TypeOK

\* Every step of the store leaves rows of the columns' types.
LEMMA TypeStep == TypeOK /\ [Next]_vars => TypeOK'
<1> SUFFICES ASSUME TypeOK, [Next]_vars PROVE TypeOK'
  OBVIOUS
<1>1. ASSUME NEW f \in Floor, CreateFloor(f) PROVE TypeOK'
  BY <1>1, NoMapType DEF TypeOK, CreateFloor
<1>2. ASSUME NEW f \in Floor, DeleteFloor(f) PROVE TypeOK'
  <2>1. floors' \in [Floor -> FloorRow]
    BY <1>2, NoMapType DEF TypeOK, DeleteFloor
  <2>2. revisions' \in [Revision -> RevisionRow]
    BY <1>2, WithoutType DEF DeleteFloor
  <2>3. audit' \subseteq AuditEntry /\ desks' \in [Floor -> DeskSyncMark]
    BY <1>2 DEF TypeOK, DeleteFloor, NeverSynced, DeskSyncMark
  <2>4. QED
    BY <2>1, <2>2, <2>3 DEF TypeOK
<1>3. ASSUME NEW f \in Floor, NEW version \in Version, NEW layout \in Layout,
             UpdateDraft(f, version, layout)
      PROVE  TypeOK'
  <2>1. floors[f].draft \in Revision
    BY <1>3 DEF TypeOK, UpdateDraft, HasDraft, FloorRow
  <2>2. revisions' \in [Revision -> RevisionRow]
    <3>1. OverwrittenRow(revisions[floors[f].draft], layout) \in RevisionRow
      BY <2>1, OverwrittenType DEF TypeOK
    <3>2. QED
      BY <1>3, <2>1, <3>1 DEF TypeOK, UpdateDraft
  <2>3. audit' \subseteq AuditEntry
    BY <1>3, <2>1 DEF TypeOK, UpdateDraft, Entry, AuditEntry
  <2>4. QED
    BY <1>3, <2>2, <2>3 DEF TypeOK, UpdateDraft
<1>4. ASSUME NEW f \in Floor, NEW version \in Version, NEW layout \in Layout,
             NEW r \in Revision, SaveNewDraft(f, r, version, layout)
      PROVE  TypeOK'
  <2>1. floors' \in [Floor -> FloorRow] /\ revisions' \in [Revision -> RevisionRow]
    BY <1>4, InsertDraftType DEF SaveNewDraft
  <2>2. audit' \subseteq AuditEntry
    BY <1>4 DEF TypeOK, SaveNewDraft, Entry, AuditEntry
  <2>3. QED
    BY <1>4, <2>1, <2>2 DEF TypeOK, SaveNewDraft
<1>5. ASSUME NEW f \in Floor, Publish(f) PROVE TypeOK'
  <2>1. floors[f].draft \in Revision
    BY <1>5 DEF TypeOK, Publish, HasDraft, FloorRow
  <2>2. floors' \in [Floor -> FloorRow]
    <3>1. floors' = [floors EXCEPT ![f] =
             [@ EXCEPT !.published = floors[f].draft, !.draft = NoRevision]]
      BY <1>5 DEF Publish
    <3>2. QED
      BY <2>1, <3>1 DEF TypeOK, FloorRow
  <2>3. revisions' \in [Revision -> RevisionRow]
    <3>1. ASSUME NEW r \in Revision PROVE revisions'[r] \in RevisionRow
      <4>1. revisions[r] \in RevisionRow
        BY DEF TypeOK
      <4>2. CASE r = floors[f].draft
        BY <1>5, <4>1, <4>2, PublishRows, IssueFields
      <4>3. CASE r = floors[f].published /\ r # floors[f].draft
        BY <1>5, <4>1, <4>3, PublishRows, ArchivedRowFields
      <4>4. CASE r \notin {floors[f].draft, floors[f].published}
        BY <1>5, <4>1, <4>4, PublishRows
      <4>5. QED
        BY <4>2, <4>3, <4>4
    <3>2. QED
      BY <1>5, <3>1, PublishRows
  <2>4. audit' \subseteq AuditEntry
    BY <1>5, <2>1 DEF TypeOK, Publish, Entry, AuditEntry
  <2>5. desks' \in [Floor -> DeskSyncMark]
    BY <1>5, <2>1 DEF TypeOK, Publish, DeskSyncMark, RevisionRow
  <2>6. QED
    BY <2>2, <2>3, <2>4, <2>5 DEF TypeOK
<1>6. ASSUME NEW f \in Floor, DiscardDraft(f) PROVE TypeOK'
  <2>1. floors' \in [Floor -> FloorRow]
    BY <1>6 DEF TypeOK, DiscardDraft, FloorRow
  <2>2. revisions' \in [Revision -> RevisionRow]
    BY <1>6, WithoutType DEF TypeOK, DiscardDraft
  <2>3. audit' \subseteq AuditEntry
    BY <1>6 DEF TypeOK, DiscardDraft, Entry, AuditEntry
  <2>4. QED
    BY <1>6, <2>1, <2>2, <2>3 DEF TypeOK, DiscardDraft
<1>7. ASSUME NEW f \in Floor, NEW s \in Revision, RestoreOverDraft(f, s)
      PROVE  TypeOK'
  <2>1. floors[f].draft \in Revision
    BY <1>7 DEF TypeOK, RestoreOverDraft, HasDraft, FloorRow
  <2>2. revisions' \in [Revision -> RevisionRow]
    <3>1. revisions[s].layout \in Layout \cup {NoLayout}
      BY DEF TypeOK, RevisionRow
    <3>2. OverwrittenRow(revisions[floors[f].draft], revisions[s].layout)
            \in RevisionRow
      BY <2>1, <3>1, OverwrittenType DEF TypeOK
    <3>3. QED
      BY <1>7, <2>1, <3>2 DEF TypeOK, RestoreOverDraft
  <2>3. audit' \subseteq AuditEntry
    BY <1>7, <2>1 DEF TypeOK, RestoreOverDraft, Entry, AuditEntry
  <2>4. QED
    BY <1>7, <2>2, <2>3 DEF TypeOK, RestoreOverDraft
<1>8. ASSUME NEW f \in Floor, NEW s \in Revision, NEW r \in Revision,
             RestoreToNewDraft(f, s, r)
      PROVE  TypeOK'
  <2>1. revisions[s].layout \in Layout \cup {NoLayout}
    BY DEF TypeOK, RevisionRow
  <2>2. floors' \in [Floor -> FloorRow] /\ revisions' \in [Revision -> RevisionRow]
    BY <1>8, <2>1, InsertDraftType DEF RestoreToNewDraft
  <2>3. audit' \subseteq AuditEntry
    BY <1>8 DEF TypeOK, RestoreToNewDraft, Entry, AuditEntry
  <2>4. QED
    BY <1>8, <2>2, <2>3 DEF TypeOK, RestoreToNewDraft
<1>9. ASSUME NEW f \in Floor, NEW source \in {"draft", "published"},
             SyncDesks(f, source)
      PROVE  TypeOK'
  <2> DEFINE useDraft == source = "draft" /\ HasDraft(f)
             r == IF useDraft THEN floors[f].draft ELSE floors[f].published
  <2>1. r \in Revision
    BY <1>9 DEF TypeOK, SyncDesks, HasDraft, FloorRow
  <2>2. revisions[r].layout \in Layout \cup {NoLayout}
    BY <2>1 DEF TypeOK, RevisionRow
  <2>3. desks' \in [Floor -> DeskSyncMark]
    BY <1>9, <2>2 DEF TypeOK, SyncDesks, DeskSyncMark
  <2>4. audit' \subseteq AuditEntry
    BY <1>9, <2>1 DEF TypeOK, SyncDesks, Entry, AuditEntry
  <2>5. QED
    BY <1>9, <2>3, <2>4 DEF TypeOK, SyncDesks
<1>10. ASSUME NEW rows \in SUBSET Revision, Cleanup(rows) PROVE TypeOK'
  BY <1>10, WithoutType DEF TypeOK, Cleanup
<1>11. ASSUME NEW r \in Revision, CacheSemanticSVG(r) PROVE TypeOK'
  <2>1. Drawn(revisions[r].layout, Own) \in Rendering
    BY DEF TypeOK, RevisionRow, Drawn, Rendering
  <2>2. QED
    BY <1>11, <2>1 DEF TypeOK, CacheSemanticSVG, RevisionRow
<1>12. CASE UNCHANGED vars
  BY <1>12 DEF vars, TypeOK
<1>13. QED
  BY <1>1, <1>2, <1>3, <1>4, <1>5, <1>6, <1>7, <1>8, <1>9, <1>10, <1>11, <1>12
     DEF Next, Write, SaveDraft, Restore

\* The tables always hold rows of the columns' types.
THEOREM TypeCorrect == Spec => []TypeOK
BY TypeInit, TypeStep, PTL DEF Spec

-----------------------------------------------------------------------------
(***************************************************************************)
(* Pointers and status columns.  PointersAgree is not inductive by itself: *)
(* that a cascade leaves no pointer to a row it deletes needs the floor of *)
(* every row in use, which is what RowsBelong adds.                        *)
(***************************************************************************)

\* The row a pointer names is the only one of its floor with that status.
LEMMA PointedFrom ==
    ASSUME Consistent, NEW r \in Revision
    PROVE  /\ revisions[r].status = "draft" =>
                 /\ revisions[r].floor \in Floor
                 /\ floors[revisions[r].floor].draft = r
           /\ revisions[r].status = "published" =>
                 /\ revisions[r].floor \in Floor
                 /\ floors[revisions[r].floor].published = r
BY LayoutAssumption
   DEF Consistent, PointersAgree, PointersNameTheirRow, NoOrphanRevision,
       HasDraft, HasPublished

\* The databases the server starts on are consistent.
LEMMA ConsistentInit == Init => Consistent
<1>1. SUFFICES ASSUME Init PROVE PointersAgree /\ RowsBelong
  BY TypeInit DEF Consistent
<1>2. \A f \in Floor : ~HasDraft(f) /\ (~Live(f) => ~HasPublished(f))
  <2>1. ASSUME NEW f \in Floor
        PROVE  /\ floors[f].draft = NoRevision
               /\ \/ floors[f].status = "live"
                  \/ floors[f].published = NoRevision
    <3> DEFINE LiveRow == [status: {"live"}, published: Revision \cup {NoRevision},
                           draft: {NoRevision}]
    <3>1. floors \in [Floor -> {NoMap("absent")} \cup LiveRow]
      BY <1>1 DEF Init
    <3>2. floors[f] = NoMap("absent") \/ floors[f] \in LiveRow
      BY <3>1
    <3>3. QED
      BY <3>2 DEF NoMap
  <2>2. QED
    BY <2>1 DEF HasDraft, HasPublished, Live
<1>3. \A r \in Revision :
         \/ revisions[r].status = "free" /\ revisions[r].floor = NoFloor
               /\ revisions[r].svg = NoSvg
         \/ /\ revisions[r].status = "published"
            /\ revisions[r].floor \in Floor
            /\ revisions[r].layout \in Layout
            /\ floors[revisions[r].floor].published = r
  BY <1>1 DEF Init, NoRow, LegacyMap
<1>4. \A f \in Floor : HasPublished(f) =>
         /\ floors[f].published \in Revision
         /\ revisions[floors[f].published].floor = f
  BY <1>1, TypeInit DEF Init, HasPublished, TypeOK, FloorRow
<1>5. PointersNameTheirRow
  <2>1. \A f \in Floor : HasPublished(f) =>
           revisions[floors[f].published].status = "published"
    BY <1>3, <1>4, LayoutAssumption
  <2>2. QED
    BY <1>2, <1>4, <2>1 DEF PointersNameTheirRow
<1>6. NoOrphanRevision
  BY <1>3 DEF NoOrphanRevision
<1>7. RowsBelong
  BY <1>2, <1>3, LayoutAssumption DEF RowsBelong, HasPublished
<1>8. QED
  BY <1>5, <1>6, <1>7 DEF PointersAgree

\* Deleting every row of a floor together with the floor.
LEMMA ConsistentDeleteFloor ==
    ASSUME Consistent, NEW f \in Floor, DeleteFloor(f)
    PROVE  PointersAgree' /\ RowsBelong'
<1>1. \A g \in Floor : floors'[g] = IF g = f THEN NoMap("deleted") ELSE floors[g]
  BY DEF DeleteFloor, Consistent, TypeOK
<1>2. \A r \in Revision :
         revisions'[r] = IF revisions[r].floor = f THEN NoRow("deleted")
                         ELSE revisions[r]
  BY DEF DeleteFloor, Without
<1>3. PointersNameTheirRow'
  BY <1>1, <1>2
     DEF Consistent, TypeOK, FloorRow, PointersAgree, PointersNameTheirRow,
         Live, HasDraft, HasPublished, NoMap
<1>4. NoOrphanRevision'
  <2>1. \A r \in Revision : revisions'[r].status \in {"draft", "published"} =>
           revisions'[r] = revisions[r] /\ revisions[r].floor # f
    BY <1>2 DEF NoRow
  <2>2. QED
    BY <1>1, <2>1, PointedFrom DEF NoOrphanRevision
<1>5. RowsBelong'
  BY <1>1, <1>2 DEF Consistent, RowsBelong, Live, NoRow
<1>6. QED
  BY <1>3, <1>4, <1>5 DEF PointersAgree

\* Overwriting the draft's content, by a save or a restore.
LEMMA ConsistentOverwrite ==
    ASSUME Consistent, NEW f \in Floor, HasDraft(f), NEW layout \in Layout,
           floors' = floors,
           revisions' = [revisions EXCEPT ![floors[f].draft] =
                            OverwrittenRow(@, layout)]
    PROVE  PointersAgree' /\ RowsBelong'
<1>1. floors[f].draft \in Revision /\ revisions[floors[f].draft].status = "draft"
  BY DEF Consistent, TypeOK, FloorRow, HasDraft, PointersAgree,
         PointersNameTheirRow
<1>2. \A r \in Revision :
         /\ revisions'[r].status = revisions[r].status
         /\ revisions'[r].floor = revisions[r].floor
         /\ r # floors[f].draft => revisions'[r] = revisions[r]
         /\ r = floors[f].draft => revisions'[r].layout = layout
  BY <1>1 DEF Consistent, TypeOK, RevisionRow, OverwrittenRow
<1>3. PointersNameTheirRow'
  BY <1>2 DEF Consistent, TypeOK, FloorRow, PointersAgree, PointersNameTheirRow,
              Live, HasDraft, HasPublished
<1>4. NoOrphanRevision'
  BY <1>2 DEF Consistent, PointersAgree, NoOrphanRevision
<1>5. RowsBelong'
  BY <1>1, <1>2 DEF Consistent, RowsBelong, Live
<1>6. QED
  BY <1>3, <1>4, <1>5 DEF PointersAgree

\* Inserting a draft where there was none.
LEMMA ConsistentInsert ==
    ASSUME Consistent, NEW f \in Floor, Live(f), ~HasDraft(f),
           NEW r \in Revision, NEW layout \in Layout, InsertDraft(f, r, layout)
    PROVE  PointersAgree' /\ RowsBelong'
<1>1. \A g \in Floor : /\ floors'[g].status = floors[g].status
                       /\ floors'[g].published = floors[g].published
                       /\ floors'[g].draft = IF g = f THEN r ELSE floors[g].draft
  BY DEF InsertDraft, Consistent, TypeOK, FloorRow
<1>2. \A s \in Revision : s # r => revisions'[s] = revisions[s]
  BY DEF InsertDraft, Consistent, TypeOK
<1>3. /\ revisions[r].status = "free"
      /\ revisions'[r].status = "draft"
      /\ revisions'[r].floor = f
      /\ revisions'[r].layout = layout
  BY DEF InsertDraft, Consistent, TypeOK
<1>4. PointersNameTheirRow'
  BY <1>1, <1>2, <1>3
     DEF Consistent, TypeOK, FloorRow, PointersAgree, PointersNameTheirRow,
         Live, HasDraft, HasPublished
<1>5. NoOrphanRevision'
  <2>1. \A s \in Revision : s # r /\ revisions[s].status = "draft" =>
           revisions[s].floor \in Floor \ {f}
    BY PointedFrom, LayoutAssumption DEF HasDraft
  <2>2. QED
    BY <1>1, <1>2, <1>3, <2>1, PointedFrom DEF NoOrphanRevision
<1>6. RowsBelong'
  BY <1>1, <1>2, <1>3 DEF Consistent, RowsBelong, Live
<1>7. QED
  BY <1>4, <1>5, <1>6 DEF PointersAgree

\* Publishing: the draft and the published row change places and status.
LEMMA ConsistentPublish ==
    ASSUME Consistent, NEW f \in Floor, Publish(f)
    PROVE  PointersAgree' /\ RowsBelong'
<1> DEFINE d == floors[f].draft
           p == floors[f].published
<1>1. /\ Live(f)
      /\ d \in Revision
      /\ revisions[d].status = "draft"
      /\ revisions[d].floor = f
      /\ p # NoRevision => p \in Revision /\ revisions[p].status = "published"
  BY DEF Publish, Consistent, TypeOK, FloorRow, PointersAgree,
         PointersNameTheirRow, HasDraft, HasPublished
<1>2. \A g \in Floor : /\ floors'[g].status = floors[g].status
                       /\ g # f => floors'[g] = floors[g]
  BY DEF Publish, Consistent, TypeOK, FloorRow
<1>3. floors'[f].published = d /\ floors'[f].draft = NoRevision
  BY DEF Publish, Consistent, TypeOK, FloorRow
<1>4. \A r \in Revision :
         /\ revisions'[r].floor = revisions[r].floor
         /\ revisions'[r].layout = revisions[r].layout
         /\ r \notin {d, p} => revisions'[r] = revisions[r]
         /\ r = d => revisions'[r].status = "published"
         /\ r = p => revisions'[r].status = "archived"
  <2>1. d # p
    BY <1>1, LayoutAssumption
  <2>2. \A r \in Revision :
           /\ r = d => Issue(revisions[r], revisions'[r])
           /\ r = p => revisions'[r] = ArchivedRow(revisions[r])
           /\ r \notin {d, p} => revisions'[r] = revisions[r]
    BY <2>1, PublishRows
  <2>3. \A r \in Revision : revisions[r] \in RevisionRow
    BY DEF Consistent, TypeOK
  <2>4. QED
    BY <2>2, <2>3, ArchivedRowFields, IssueFields
<1>5. PointersNameTheirRow'
  <2>1. ASSUME NEW g \in Floor
        PROVE  /\ ~Live(g)' => ~HasDraft(g)' /\ ~HasPublished(g)'
               /\ HasDraft(g)' => /\ revisions'[floors'[g].draft].status = "draft"
                                  /\ revisions'[floors'[g].draft].floor = g
               /\ HasPublished(g)' =>
                     /\ revisions'[floors'[g].published].status = "published"
                     /\ revisions'[floors'[g].published].floor = g
    <3>1. CASE g = f
      BY <1>1, <1>2, <1>3, <1>4, <3>1 DEF Live, HasDraft, HasPublished
    <3>2. CASE g # f
      <4>1. /\ floors'[g] = floors[g]
            /\ HasDraft(g) => floors[g].draft \in Revision \ {d, p}
            /\ HasPublished(g) => floors[g].published \in Revision \ {d, p}
        BY <1>1, <1>2, <3>2
           DEF Consistent, TypeOK, FloorRow, PointersAgree, PointersNameTheirRow,
               HasDraft, HasPublished
      <4>2. QED
        BY <1>4, <4>1 DEF Consistent, PointersAgree, PointersNameTheirRow,
                          Live, HasDraft, HasPublished
    <3>3. QED
      BY <3>1, <3>2
  <2>2. QED
    BY <2>1 DEF PointersNameTheirRow
<1>6. NoOrphanRevision'
  <2>1. ASSUME NEW r \in Revision, revisions'[r].status = "draft"
        PROVE  \E g \in Floor : floors'[g].draft = r
    <3>1. r \notin {d, p} /\ revisions[r].status = "draft"
      BY <1>4, <2>1
    <3>2. revisions[r].floor \in Floor /\ floors[revisions[r].floor].draft = r
      BY <3>1, PointedFrom
    <3>3. QED
      BY <1>2, <3>1, <3>2
  <2>2. ASSUME NEW r \in Revision, revisions'[r].status = "published"
        PROVE  \E g \in Floor : floors'[g].published = r
    <3>1. CASE r = d
      BY <1>3, <3>1
    <3>2. CASE r # d
      <4>1. r # p /\ revisions[r].status = "published"
        BY <1>4, <2>2, <3>2
      <4>2. revisions[r].floor \in Floor /\ floors[revisions[r].floor].published = r
        BY <4>1, PointedFrom
      <4>3. QED
        BY <1>2, <4>1, <4>2
    <3>3. QED
      BY <3>1, <3>2
  <2>3. QED
    BY <2>1, <2>2 DEF NoOrphanRevision
<1>7. RowsBelong'
  <2>1. ASSUME NEW r \in Revision
        PROVE  IF revisions'[r].status \in {"free", "deleted"}
               THEN revisions'[r].floor = NoFloor /\ revisions'[r].svg = NoSvg
               ELSE /\ revisions'[r].floor \in Floor
                    /\ floors'[revisions'[r].floor].status = "live"
                    /\ revisions'[r].layout \in Layout
    <3>1. CASE r \in {d, p}
      <4>1. revisions[r].status \in {"draft", "published"}
        BY <1>1, <3>1, LayoutAssumption
      <4>2. /\ revisions[r].floor \in Floor
            /\ Live(revisions[r].floor)
            /\ revisions[r].layout \in Layout
        BY <4>1 DEF Consistent, RowsBelong
      <4>3. revisions'[r].status \in {"published", "archived"}
        BY <1>4, <3>1
      <4>4. QED
        BY <1>2, <1>4, <4>2, <4>3 DEF Live
    <3>2. CASE r \notin {d, p}
      BY <1>2, <1>4, <3>2 DEF Consistent, RowsBelong, Live
    <3>3. QED
      BY <3>1, <3>2
  <2>2. QED
    BY <2>1 DEF RowsBelong, Live
<1>8. QED
  BY <1>5, <1>6, <1>7 DEF PointersAgree

\* Deleting rows no floor points to any more.
LEMMA ConsistentDelete ==
    ASSUME Consistent, NEW rows \in SUBSET Revision,
           revisions' = Without(rows),
           \A f \in Floor : /\ floors'[f].status = floors[f].status
                            /\ floors'[f].published = floors[f].published
                            /\ floors'[f].published \notin rows
                            /\ floors'[f].draft \notin rows
                            /\ floors'[f].draft = floors[f].draft
                                  \/ /\ floors'[f].draft = NoRevision
                                     /\ floors[f].draft \in rows
    PROVE  PointersAgree' /\ RowsBelong'
<1>1. \A r \in Revision :
         revisions'[r] = IF r \in rows THEN NoRow("deleted") ELSE revisions[r]
  BY DEF Without
<1>2. PointersNameTheirRow'
  BY <1>1 DEF Consistent, TypeOK, FloorRow, PointersAgree, PointersNameTheirRow,
              Live, HasDraft, HasPublished
<1>3. \A r \in Revision : revisions'[r].status \in {"draft", "published"} =>
         r \notin rows /\ revisions'[r] = revisions[r]
  BY <1>1 DEF NoRow
<1>4. NoOrphanRevision'
  BY <1>3, PointedFrom DEF NoOrphanRevision
<1>5. RowsBelong'
  BY <1>1 DEF Consistent, RowsBelong, Live, NoRow
<1>6. QED
  BY <1>2, <1>4, <1>5 DEF PointersAgree

\* Storing a rendering touches no pointer and no status.
LEMMA ConsistentCacheSVG ==
    ASSUME Consistent, NEW r \in Revision, CacheSemanticSVG(r)
    PROVE  PointersAgree' /\ RowsBelong'
<1>1. \A s \in Revision : /\ revisions'[s].status = revisions[s].status
                          /\ revisions'[s].floor = revisions[s].floor
                          /\ revisions'[s].layout = revisions[s].layout
                          /\ s # r => revisions'[s] = revisions[s]
  BY DEF CacheSemanticSVG, Consistent, TypeOK, RevisionRow
<1>2. floors' = floors /\ revisions[r].status \in {"published", "archived"}
  BY DEF CacheSemanticSVG
<1>3. PointersNameTheirRow' /\ NoOrphanRevision'
  BY <1>1, <1>2 DEF Consistent, TypeOK, FloorRow, PointersAgree,
     PointersNameTheirRow, NoOrphanRevision, Live, HasDraft, HasPublished
<1>4. RowsBelong'
  BY <1>1, <1>2 DEF Consistent, RowsBelong, Live
<1>5. QED
  BY <1>3, <1>4 DEF PointersAgree

\* A row of a floor that exists is in use and holds a document.
LEMMA RowInUse ==
    ASSUME Consistent, NEW r \in Revision, revisions[r].floor \in Floor
    PROVE  /\ revisions[r].status \in {"draft", "published", "archived"}
           /\ revisions[r].layout \in Layout
BY LayoutAssumption DEF Consistent, TypeOK, RevisionRow, RowsBelong

\* Every step of the store keeps the tables consistent.
LEMMA ConsistentStep == Consistent /\ [Next]_vars => Consistent'
<1> SUFFICES ASSUME Consistent, [Next]_vars PROVE PointersAgree' /\ RowsBelong'
  BY TypeStep DEF Consistent
<1>1. ASSUME NEW f \in Floor, CreateFloor(f) PROVE PointersAgree' /\ RowsBelong'
  <2>1. \A g \in Floor :
           floors'[g] = IF g = f THEN NoMap("live") ELSE floors[g]
    BY <1>1 DEF CreateFloor, Consistent, TypeOK
  <2>2. ~Live(f) /\ revisions' = revisions
    BY <1>1 DEF CreateFloor, Live
  <2>3. PointersNameTheirRow'
    BY <2>1, <2>2 DEF Consistent, PointersAgree, PointersNameTheirRow,
                      Live, HasDraft, HasPublished, NoMap
  <2>4. NoOrphanRevision'
    BY <2>1, <2>2, PointedFrom, LayoutAssumption
       DEF Consistent, PointersAgree, PointersNameTheirRow, NoOrphanRevision,
           Live, HasDraft, HasPublished
  <2>5. RowsBelong'
    BY <2>1, <2>2 DEF Consistent, RowsBelong, Live, NoMap
  <2>6. QED
    BY <2>3, <2>4, <2>5 DEF PointersAgree
<1>2. ASSUME NEW f \in Floor, DeleteFloor(f) PROVE PointersAgree' /\ RowsBelong'
  BY <1>2, ConsistentDeleteFloor
<1>3. ASSUME NEW f \in Floor, NEW version \in Version, NEW layout \in Layout,
             UpdateDraft(f, version, layout)
      PROVE  PointersAgree' /\ RowsBelong'
  BY <1>3, ConsistentOverwrite DEF UpdateDraft
<1>4. ASSUME NEW f \in Floor, NEW version \in Version, NEW layout \in Layout,
             NEW r \in Revision, SaveNewDraft(f, r, version, layout)
      PROVE  PointersAgree' /\ RowsBelong'
  BY <1>4, ConsistentInsert DEF SaveNewDraft
<1>5. ASSUME NEW f \in Floor, Publish(f) PROVE PointersAgree' /\ RowsBelong'
  BY <1>5, ConsistentPublish
<1>6. ASSUME NEW f \in Floor, DiscardDraft(f) PROVE PointersAgree' /\ RowsBelong'
  <2>1. CASE HasDraft(f)
    <3> DEFINE d == floors[f].draft
    <3>1. d \in Revision /\ revisions[d].status = "draft" /\ revisions[d].floor = f
      BY <2>1 DEF Consistent, TypeOK, FloorRow, HasDraft, PointersAgree,
                  PointersNameTheirRow
    <3>2. revisions' = Without({d})
      BY <1>6, <2>1 DEF DiscardDraft
    <3>3. \A g \in Floor : /\ floors'[g].status = floors[g].status
                           /\ floors'[g].published = floors[g].published
                           /\ floors'[g].draft = IF g = f THEN NoRevision
                                                 ELSE floors[g].draft
      BY <1>6, <2>1 DEF DiscardDraft, Consistent, TypeOK, FloorRow
    <3>4. \A g \in Floor : /\ floors[g].published # d
                           /\ floors[g].draft = d => g = f
      BY <3>1, LayoutAssumption
         DEF Consistent, PointersAgree, PointersNameTheirRow, HasDraft, HasPublished
    <3>5. QED
      BY <3>1, <3>2, <3>3, <3>4, ConsistentDelete, LayoutAssumption
  <2>2. CASE ~HasDraft(f)
    <3>1. floors' = floors /\ revisions' = revisions
      BY <1>6, <2>2 DEF DiscardDraft
    <3>2. QED
      BY <3>1 DEF Consistent, PointersAgree, PointersNameTheirRow,
         NoOrphanRevision, RowsBelong, Live, HasDraft, HasPublished
  <2>3. QED
    BY <2>1, <2>2
<1>7. ASSUME NEW f \in Floor, NEW s \in Revision, RestoreOverDraft(f, s)
      PROVE  PointersAgree' /\ RowsBelong'
  BY <1>7, RowInUse, ConsistentOverwrite DEF RestoreOverDraft
<1>8. ASSUME NEW f \in Floor, NEW s \in Revision, NEW r \in Revision,
             RestoreToNewDraft(f, s, r)
      PROVE  PointersAgree' /\ RowsBelong'
  BY <1>8, RowInUse, ConsistentInsert DEF RestoreToNewDraft
<1>9. ASSUME floors' = floors, revisions' = revisions
      PROVE  PointersAgree' /\ RowsBelong'
  BY <1>9 DEF Consistent, PointersAgree, PointersNameTheirRow,
     NoOrphanRevision, RowsBelong, Live, HasDraft, HasPublished
<1>10. ASSUME NEW rows \in SUBSET Revision, Cleanup(rows)
       PROVE  PointersAgree' /\ RowsBelong'
  <2> DEFINE current == {floors[f].published : f \in Floor}
                          \cup {floors[f].draft : f \in Floor}
  <2>1. revisions' = Without(rows \ current) /\ floors' = floors
    BY <1>10 DEF Cleanup
  <2>2. \A f \in Floor : floors[f].published \in current /\ floors[f].draft \in current
    OBVIOUS
  <2>3. QED
    BY <2>1, <2>2, ConsistentDelete
<1>11. ASSUME NEW r \in Revision, CacheSemanticSVG(r)
       PROVE  PointersAgree' /\ RowsBelong'
  BY <1>11, ConsistentCacheSVG
<1>12. QED
  BY <1>1, <1>2, <1>3, <1>4, <1>5, <1>6, <1>7, <1>8, <1>9, <1>10, <1>11
     DEF Next, Write, SaveDraft, Restore, SyncDesks, vars

\* The pointers of floors and the statuses of revisions agree in every
\* reachable database.
THEOREM ConsistentAlways == Spec => []Consistent
BY ConsistentInit, ConsistentStep, PTL DEF Spec

\* A floor's pointers and the statuses of its revisions agree, always.
THEOREM PointersAlwaysAgree == Spec => []PointersAgree
BY ConsistentAlways, PTL DEF Consistent

-----------------------------------------------------------------------------
(***************************************************************************)
(* Versions.  Only SaveDraft, Restore and Publish number anything; every   *)
(* other step removes rows or leaves their numbers alone.                  *)
(***************************************************************************)
\* At the start each floor has at most one revision, its published one.
LEMMA VersionsInit == Init => VersionsIdentify
<1>1. SUFFICES ASSUME Init PROVE VersionsIdentify
  OBVIOUS
<1>2. Consistent
  BY <1>1, ConsistentInit
<1>3. \A r \in Revision :
         \/ revisions[r].status = "free" /\ revisions[r].floor = NoFloor
         \/ revisions[r].status = "published"
  BY <1>1 DEF Init, NoRow, LegacyMap
<1>4. \A f \in Floor : ~HasDraft(f)
  BY <1>2, <1>3 DEF Consistent, PointersAgree, PointersNameTheirRow, HasDraft,
     TypeOK, FloorRow
<1>5. VersionsDistinct
  BY <1>2, <1>3, PointedFrom DEF VersionsDistinct
<1>6. QED
  BY <1>3, <1>4, <1>5 DEF VersionsIdentify, DraftIsNext, ArchiveIsOlder

\* Rows that stay keep their number and no published pointer moves.
LEMMA VersionsKept ==
    ASSUME Consistent, Consistent', VersionsIdentify,
           \A r \in Revision :
               \/ revisions'[r].status \in {"free", "deleted"}
               \/ /\ revisions'[r].status = revisions[r].status
                  /\ revisions'[r].version = revisions[r].version
                  /\ revisions'[r].floor = revisions[r].floor,
           \A f \in Floor : floors'[f].status = "live" =>
               /\ floors'[f].published = floors[f].published
               /\ floors'[f].draft \in {floors[f].draft, NoRevision}
    PROVE  VersionsIdentify'
<1>1. \A r \in Revision : revisions'[r].floor # NoFloor =>
         /\ revisions'[r].status \notin {"free", "deleted"}
         /\ revisions'[r].floor \in Floor
         /\ floors'[revisions'[r].floor].status = "live"
         /\ revisions[r].floor = revisions'[r].floor
         /\ revisions[r].version = revisions'[r].version
  BY DEF Consistent, RowsBelong, Live
<1>2. VersionsDistinct'
  BY <1>1 DEF VersionsIdentify, VersionsDistinct
<1>3. \A f \in Floor : floors'[f].published # NoRevision =>
         /\ floors'[f].published \in Revision
         /\ floors'[f].published = floors[f].published
         /\ revisions'[floors'[f].published].version
               = revisions[floors'[f].published].version
  BY DEF Consistent, TypeOK, FloorRow, PointersAgree, PointersNameTheirRow,
         Live, HasPublished
<1>4. \A f \in Floor : floors'[f].draft # NoRevision =>
         /\ floors'[f].draft \in Revision
         /\ floors'[f].draft = floors[f].draft
         /\ floors'[f].published = floors[f].published
         /\ revisions'[floors'[f].draft].version
               = revisions[floors'[f].draft].version
  BY DEF Consistent, TypeOK, FloorRow, PointersAgree, PointersNameTheirRow,
         Live, HasDraft
<1>5. DraftIsNext'
  BY <1>3, <1>4 DEF VersionsIdentify, DraftIsNext, DraftVersion, HasDraft,
                    HasPublished
<1>6. ArchiveIsOlder'
  <2>1. ASSUME NEW r \in Revision, revisions'[r].status = "archived"
        PROVE  /\ floors'[revisions'[r].floor].published # NoRevision
               /\ revisions'[r].version <
                    revisions'[floors'[revisions'[r].floor].published].version
    <3> DEFINE f == revisions[r].floor
    <3>1. /\ revisions[r].status = "archived"
          /\ revisions'[r].floor = f
          /\ revisions'[r].version = revisions[r].version
      BY <2>1
    <3>2. f \in Floor /\ floors'[f].status = "live"
      BY <2>1, <3>1 DEF Consistent, RowsBelong, Live
    <3>3. /\ floors[f].published # NoRevision
          /\ revisions[r].version < revisions[floors[f].published].version
      BY <3>1 DEF VersionsIdentify, ArchiveIsOlder, HasPublished
    <3>4. QED
      BY <1>3, <3>1, <3>2, <3>3
  <2>2. QED
    BY <2>1 DEF ArchiveIsOlder, HasPublished
<1>7. QED
  BY <1>2, <1>5, <1>6 DEF VersionsIdentify

\* A draft numbered after the published revision is a new number.
LEMMA VersionsInsert ==
    ASSUME Consistent, Consistent', VersionsIdentify, NEW f \in Floor, Live(f),
           ~HasDraft(f), NEW r \in Revision, NEW layout, InsertDraft(f, r, layout)
    PROVE  VersionsIdentify'
<1>1. \A g \in Floor : /\ floors'[g].published = floors[g].published
                       /\ floors'[g].draft = IF g = f THEN r ELSE floors[g].draft
  BY DEF InsertDraft, Consistent, TypeOK, FloorRow
<1>2. \A s \in Revision : s # r => revisions'[s] = revisions[s]
  BY DEF InsertDraft, Consistent, TypeOK
<1>3. /\ revisions[r].status = "free"
      /\ revisions'[r].status = "draft"
      /\ revisions'[r].floor = f
      /\ revisions'[r].version = DraftVersion(f)
  BY DEF InsertDraft, Consistent, TypeOK
<1>4. \A g \in Floor : /\ floors[g].published # r
                       /\ floors[g].published # NoRevision =>
                             floors[g].published \in Revision
                       /\ floors[g].draft # r
  BY <1>3, LayoutAssumption
     DEF Consistent, TypeOK, FloorRow, PointersAgree, PointersNameTheirRow,
         HasDraft, HasPublished
<1>5. \A g \in Floor : DraftVersion(g)' = DraftVersion(g)
  BY <1>1, <1>2, <1>4 DEF DraftVersion, HasPublished
<1>6. \A s \in Revision : revisions[s].floor = f =>
         revisions[s].version < DraftVersion(f)
  <2>1. SUFFICES ASSUME NEW s \in Revision, revisions[s].floor = f
                 PROVE  revisions[s].version < DraftVersion(f)
    OBVIOUS
  <2>2. revisions[s].status \in {"published", "archived"}
    BY <2>1, RowInUse, PointedFrom, LayoutAssumption DEF HasDraft
  <2>3. CASE revisions[s].status = "published"
    <3>1. floors[f].published = s /\ s # NoRevision
      BY <2>1, <2>3, PointedFrom, LayoutAssumption
    <3>2. revisions[s].version \in Nat
      BY DEF Consistent, TypeOK, RevisionRow
    <3>3. QED
      BY <3>1, <3>2 DEF DraftVersion, HasPublished
  <2>4. CASE revisions[s].status = "archived"
    <3>1. HasPublished(f) /\ revisions[s].version
                                < revisions[floors[f].published].version
      BY <2>1, <2>4 DEF VersionsIdentify, ArchiveIsOlder
    <3>2. revisions[s].version \in Nat
            /\ revisions[floors[f].published].version \in Nat
      BY <3>1, <1>4 DEF Consistent, TypeOK, RevisionRow, HasPublished
    <3>3. QED
      BY <3>1, <3>2 DEF DraftVersion
  <2>5. QED
    BY <2>2, <2>3, <2>4
<1>7. DraftIsNext'
  BY <1>1, <1>2, <1>3, <1>4, <1>5, LayoutAssumption
     DEF VersionsIdentify, DraftIsNext, HasDraft, Consistent, TypeOK, FloorRow
<1>8. ArchiveIsOlder'
  <2>1. ASSUME NEW s \in Revision, revisions'[s].status = "archived"
        PROVE  /\ s # r
               /\ revisions[s].status = "archived"
               /\ revisions[s].floor \in Floor
    BY <1>2, <1>3, <2>1 DEF Consistent, RowsBelong
  <2>2. QED
    BY <1>1, <1>2, <1>4, <2>1
       DEF VersionsIdentify, ArchiveIsOlder, HasPublished
<1>9. VersionsDistinct'
  <2>1. \A s \in Revision : revisions[s].version \in Nat
    BY DEF Consistent, TypeOK, RevisionRow
  <2>2. DraftVersion(f) \in Nat
    BY DraftVersionType DEF Consistent
  <2>3. \A s \in Revision : s # r /\ revisions'[s].floor = f =>
           revisions'[s].version # DraftVersion(f)
    BY <1>2, <1>6, <2>1, <2>2
  <2>4. QED
    BY <1>2, <1>3, <2>3 DEF VersionsIdentify, VersionsDistinct
<1>10. QED
  BY <1>7, <1>8, <1>9 DEF VersionsIdentify

\* What Publish does to the rows of the two pointers and to everything else.
LEMMA PublishEffect ==
    ASSUME Consistent, NEW f \in Floor, Publish(f),
           NEW d, d = floors[f].draft, NEW p, p = floors[f].published
    PROVE  /\ Live(f)
           /\ d \in Revision /\ revisions[d].status = "draft" /\ revisions[d].floor = f
           /\ p # d
           /\ p # NoRevision => /\ p \in Revision
                                /\ revisions[p].status = "published"
                                /\ revisions[p].floor = f
           /\ Issue(revisions[d], revisions'[d])
           /\ p # NoRevision => revisions'[p] = ArchivedRow(revisions[p])
           /\ \A r \in Revision \ {d, p} : revisions'[r] = revisions[r]
           /\ \A g \in Floor : g # f => floors'[g] = floors[g]
           /\ floors'[f].published = d
           /\ floors'[f].draft = NoRevision
           /\ floors'[f].status = "live"
<1>1. /\ Live(f)
      /\ d \in Revision
      /\ revisions[d].status = "draft"
      /\ revisions[d].floor = f
      /\ p # NoRevision => /\ p \in Revision
                           /\ revisions[p].status = "published"
                           /\ revisions[p].floor = f
  BY DEF Publish, Consistent, TypeOK, FloorRow, PointersAgree,
         PointersNameTheirRow, HasDraft, HasPublished
<1>2. p # d
  BY <1>1, LayoutAssumption
<1>3. /\ Issue(revisions[d], revisions'[d])
      /\ p # NoRevision => revisions'[p] = ArchivedRow(revisions[p])
      /\ \A r \in Revision \ {d, p} : revisions'[r] = revisions[r]
  BY <1>1, <1>2, PublishRows
<1>4. /\ \A g \in Floor : g # f => floors'[g] = floors[g]
      /\ floors'[f].published = d
      /\ floors'[f].draft = NoRevision
      /\ floors'[f].status = "live"
  BY <1>1 DEF Publish, Consistent, TypeOK, FloorRow, Live
<1>5. QED
  BY <1>1, <1>2, <1>3, <1>4

\* Publishing archives the old number and issues the draft's.
LEMMA VersionsPublish ==
    ASSUME Consistent, Consistent', VersionsIdentify, NEW f \in Floor, Publish(f)
    PROVE  VersionsIdentify'
<1> DEFINE d == floors[f].draft
           p == floors[f].published
<1>1. /\ d \in Revision /\ p # d
      /\ revisions[d].floor = f
      /\ revisions[d].status = "draft"
      /\ p # NoRevision => /\ p \in Revision
                           /\ revisions[p].status = "published"
                           /\ revisions[p].floor = f
      /\ \A g \in Floor : g # f => floors'[g] = floors[g]
      /\ floors'[f].published = d
      /\ floors'[f].draft = NoRevision
  BY PublishEffect
<1>2. \A r \in Revision :
         /\ revisions[r].version \in Nat
         /\ revisions'[r].version = revisions[r].version
         /\ revisions'[r].floor = revisions[r].floor
         /\ r \notin {d, p} => revisions'[r].status = revisions[r].status
         /\ r = d => revisions'[r].status = "published"
  <2>1. \A r \in Revision : revisions[r] \in RevisionRow
    BY DEF Consistent, TypeOK
  <2>2. \A r \in Revision : /\ r = d => Issue(revisions[r], revisions'[r])
                            /\ r = p => revisions'[r] = ArchivedRow(revisions[r])
                            /\ r \notin {d, p} => revisions'[r] = revisions[r]
    BY PublishEffect, LayoutAssumption
  <2>3. \A r \in Revision : revisions[r].version \in Nat
    BY <2>1 DEF RevisionRow
  <2>4. QED
    BY <2>1, <2>2, <2>3, IssueFields, ArchivedRowFields
<1>3. VersionsDistinct'
  BY <1>2 DEF VersionsIdentify, VersionsDistinct
<1>4. \A g \in Floor \ {f} :
         /\ g \in Floor
         /\ floors'[g] = floors[g]
         /\ floors[g].published # NoRevision => floors[g].published \in Revision
         /\ floors[g].draft # NoRevision => floors[g].draft \in Revision
  BY <1>1 DEF Consistent, TypeOK, FloorRow
<1>5. DraftIsNext'
  <2>1. \A g \in Floor \ {f} : DraftVersion(g)' = DraftVersion(g)
    BY <1>2, <1>4 DEF DraftVersion, HasPublished
  <2>2. QED
    BY <1>1, <1>2, <1>4, <2>1 DEF VersionsIdentify, DraftIsNext, HasDraft
<1>6. p # NoRevision => revisions[d].version = revisions[p].version + 1
  BY <1>1, LayoutAssumption
     DEF VersionsIdentify, DraftIsNext, DraftVersion, HasDraft, HasPublished
<1>7. ArchiveIsOlder'
  <2>1. ASSUME NEW r \in Revision, revisions'[r].status = "archived"
        PROVE  /\ floors'[revisions'[r].floor].published # NoRevision
               /\ revisions'[r].version <
                    revisions'[floors'[revisions'[r].floor].published].version
    <3>1. CASE r = p
      BY <1>1, <1>2, <1>6, <3>1, LayoutAssumption
    <3>2. CASE r # p
      <4>1. revisions[r].status = "archived" /\ revisions[r].floor \in Floor
        BY <1>1, <1>2, <2>1, <3>2 DEF Consistent, RowsBelong
      <4>2. /\ floors[revisions[r].floor].published # NoRevision
            /\ revisions[r].version <
                 revisions[floors[revisions[r].floor].published].version
        BY <4>1 DEF VersionsIdentify, ArchiveIsOlder, HasPublished
      <4>3. CASE revisions[r].floor = f
        <5>1. revisions[r].version < revisions[d].version
          BY <1>1, <1>2, <1>6, <4>2, <4>3
        <5>2. QED
          BY <1>1, <1>2, <4>3, <5>1, LayoutAssumption
      <4>4. CASE revisions[r].floor # f
        BY <1>2, <1>4, <4>1, <4>2, <4>4
      <4>5. QED
        BY <4>3, <4>4
    <3>3. QED
      BY <3>1, <3>2
  <2>2. QED
    BY <2>1 DEF ArchiveIsOlder, HasPublished
<1>8. QED
  BY <1>3, <1>5, <1>7 DEF VersionsIdentify

\* Every step of the store keeps the numbers of a floor in order.
LEMMA VersionsStep ==
    Consistent /\ Consistent' /\ VersionsIdentify /\ [Next]_vars
        => VersionsIdentify'
<1> SUFFICES ASSUME Consistent, Consistent', VersionsIdentify, [Next]_vars
             PROVE  VersionsIdentify'
  OBVIOUS
<1>1. ASSUME NEW f \in Floor, CreateFloor(f) PROVE VersionsIdentify'
  <2>1. floors[f].published = NoRevision /\ floors[f].draft = NoRevision
    BY <1>1 DEF CreateFloor, Consistent, PointersAgree, PointersNameTheirRow,
                Live, HasDraft, HasPublished
  <2>2. \A g \in Floor : floors'[g] = IF g = f THEN NoMap("live") ELSE floors[g]
    BY <1>1 DEF CreateFloor, Consistent, TypeOK
  <2>3. revisions' = revisions
    BY <1>1 DEF CreateFloor
  <2>4. QED
    BY <2>1, <2>2, <2>3, VersionsKept DEF NoMap
<1>2. ASSUME NEW f \in Floor, DeleteFloor(f) PROVE VersionsIdentify'
  <2>1. \A g \in Floor : floors'[g] = IF g = f THEN NoMap("deleted") ELSE floors[g]
    BY <1>2 DEF DeleteFloor, Consistent, TypeOK
  <2>2. \A r \in Revision : \/ revisions'[r].status = "deleted"
                            \/ revisions'[r] = revisions[r]
    BY <1>2 DEF DeleteFloor, Without, NoRow
  <2>3. QED
    BY <2>1, <2>2, VersionsKept DEF NoMap
<1>3. ASSUME NEW f \in Floor, HasDraft(f), NEW layout \in Layout \cup {NoLayout},
             floors' = floors,
             revisions' = [revisions EXCEPT ![floors[f].draft] =
                              OverwrittenRow(@, layout)]
      PROVE  VersionsIdentify'
  <2>1. floors[f].draft \in Revision /\ revisions[floors[f].draft].status = "draft"
    BY <1>3 DEF Consistent, TypeOK, FloorRow, HasDraft, PointersAgree,
                PointersNameTheirRow
  <2>2. \A r \in Revision : /\ revisions'[r].status = revisions[r].status
                            /\ revisions'[r].floor = revisions[r].floor
                            /\ revisions'[r].version = revisions[r].version
    BY <1>3, <2>1 DEF Consistent, TypeOK, RevisionRow, OverwrittenRow
  <2>3. QED
    BY <1>3, <2>2, VersionsKept
<1>4. ASSUME NEW f \in Floor, NEW version \in Version, NEW layout \in Layout,
             UpdateDraft(f, version, layout)
      PROVE  VersionsIdentify'
  BY <1>3, <1>4 DEF UpdateDraft
<1>5. ASSUME NEW f \in Floor, NEW version \in Version, NEW layout \in Layout,
             NEW r \in Revision, SaveNewDraft(f, r, version, layout)
      PROVE  VersionsIdentify'
  BY <1>5, VersionsInsert DEF SaveNewDraft
<1>6. ASSUME NEW f \in Floor, Publish(f) PROVE VersionsIdentify'
  BY <1>6, VersionsPublish
<1>7. ASSUME NEW f \in Floor, DiscardDraft(f) PROVE VersionsIdentify'
  <2>1. \A r \in Revision : \/ revisions'[r].status = "deleted"
                            \/ revisions'[r] = revisions[r]
    BY <1>7 DEF DiscardDraft, Without, NoRow
  <2>2. \A g \in Floor : /\ floors'[g].published = floors[g].published
                         /\ floors'[g].draft \in {floors[g].draft, NoRevision}
    BY <1>7 DEF DiscardDraft, Consistent, TypeOK, FloorRow
  <2>3. QED
    BY <2>1, <2>2, VersionsKept
<1>8. ASSUME NEW f \in Floor, NEW s \in Revision, RestoreOverDraft(f, s)
      PROVE  VersionsIdentify'
  BY <1>3, <1>8, RowInUse DEF RestoreOverDraft
<1>9. ASSUME NEW f \in Floor, NEW s \in Revision, NEW r \in Revision,
             RestoreToNewDraft(f, s, r)
      PROVE  VersionsIdentify'
  BY <1>9, VersionsInsert DEF RestoreToNewDraft
<1>10. ASSUME floors' = floors, revisions' = revisions PROVE VersionsIdentify'
  BY <1>10, VersionsKept
<1>11. ASSUME NEW rows \in SUBSET Revision, Cleanup(rows) PROVE VersionsIdentify'
  <2>1. \A r \in Revision : \/ revisions'[r].status = "deleted"
                            \/ revisions'[r] = revisions[r]
    BY <1>11 DEF Cleanup, Without, NoRow
  <2>2. QED
    BY <1>11, <2>1, VersionsKept DEF Cleanup
<1>12. ASSUME NEW r \in Revision, CacheSemanticSVG(r) PROVE VersionsIdentify'
  <2>1. \A s \in Revision : /\ revisions'[s].status = revisions[s].status
                            /\ revisions'[s].floor = revisions[s].floor
                            /\ revisions'[s].version = revisions[s].version
    BY <1>12 DEF CacheSemanticSVG, Consistent, TypeOK, RevisionRow
  <2>2. QED
    BY <1>12, <2>1, VersionsKept DEF CacheSemanticSVG
<1>13. QED
  BY <1>1, <1>2, <1>4, <1>5, <1>6, <1>7, <1>8, <1>9, <1>10, <1>11, <1>12
     DEF Next, Write, SaveDraft, Restore, SyncDesks, vars

\* No two revisions of a floor ever share a version number, and the archive
\* only holds older ones.
THEOREM VersionsAlwaysIdentify == Spec => []VersionsIdentify
<1>1. Init => Consistent /\ VersionsIdentify
  BY ConsistentInit, VersionsInit
<1>2. Consistent /\ VersionsIdentify /\ [Next]_vars
        => (Consistent /\ VersionsIdentify)'
  BY ConsistentStep, VersionsStep
<1>3. QED
  BY <1>1, <1>2, PTL DEF Spec

-----------------------------------------------------------------------------
(***************************************************************************)
(* The life of a revision: what one step may do to a row.                  *)
(***************************************************************************)
Kept(r) == revisions'[r] = revisions[r]

Removed(r) ==
    /\ revisions'[r] = NoRow("deleted")
    /\ revisions[r].status = "published" => floors'[revisions[r].floor].status = "deleted"

Inserted(r) ==
    /\ revisions[r].status = "free"
    /\ \E f \in Floor, layout \in Layout :
          revisions'[r] = [status |-> "draft", floor |-> f, version |-> DraftVersion(f),
                           layout |-> layout, svg |-> NoSvg]

Rewritten(r) ==
    /\ revisions[r].status = "draft"
    /\ \E layout \in Layout : revisions'[r] = OverwrittenRow(revisions[r], layout)

Issued(r) == revisions[r].status = "draft" /\ Issue(revisions[r], revisions'[r])

Archived(r) == revisions[r].status = "published" /\ revisions'[r] = ArchivedRow(revisions[r])

Rendered(r) ==
    /\ revisions[r].status \in {"published", "archived"}
    /\ revisions[r].svg \in {NoSvg, Drawn(revisions[r].layout, Own)}
    /\ revisions'[r] = [revisions[r] EXCEPT !.svg = Drawn(revisions[r].layout, Own)]

Lives(r) ==
    \/ Kept(r) \/ Removed(r) \/ Inserted(r) \/ Rewritten(r)
    \/ Issued(r) \/ Archived(r) \/ Rendered(r)

\* A draft's row, and no other, is overwritten by a save or a restore.
LEMMA OverwriteEffect ==
    ASSUME Consistent, NEW f \in Floor, HasDraft(f), NEW layout \in Layout,
           revisions' = [revisions EXCEPT ![floors[f].draft] = OverwrittenRow(@, layout)]
    PROVE  /\ floors[f].draft \in Revision
           /\ revisions[floors[f].draft].status = "draft"
           /\ revisions[floors[f].draft].floor = f
           /\ revisions'[floors[f].draft] = OverwrittenRow(revisions[floors[f].draft], layout)
           /\ \A r \in Revision : r # floors[f].draft => Kept(r)
<1>1. /\ floors[f].draft \in Revision
      /\ revisions[floors[f].draft].status = "draft"
      /\ revisions[floors[f].draft].floor = f
  BY DEF Consistent, TypeOK, FloorRow, PointersAgree, PointersNameTheirRow, HasDraft
<1> QED BY <1>1 DEF Consistent, TypeOK, Kept

\* A new draft takes a fresh row and the floor's draft pointer, and nothing else.
LEMMA InsertEffect ==
    ASSUME Consistent, NEW f \in Floor, NEW r \in Revision, NEW layout \in Layout,
           InsertDraft(f, r, layout)
    PROVE  /\ revisions[r].status = "free"
           /\ revisions'[r] = [status |-> "draft", floor |-> f, version |-> DraftVersion(f),
                               layout |-> layout, svg |-> NoSvg]
           /\ \A q \in Revision : q # r => Kept(q)
           /\ floors'[f] = [floors[f] EXCEPT !.draft = r]
           /\ \A g \in Floor : g # f => floors'[g] = floors[g]
BY DEF InsertDraft, Consistent, TypeOK, Kept

\* In the life of a revision the first is a rewriting, the second an insertion.
LEMMA OverwriteLives ==
    ASSUME Consistent, NEW f \in Floor, HasDraft(f), NEW layout \in Layout,
           revisions' = [revisions EXCEPT ![floors[f].draft] = OverwrittenRow(@, layout)],
           NEW r \in Revision
    PROVE  Kept(r) \/ Rewritten(r)
<1>1. CASE r = floors[f].draft
  <2>1. /\ revisions[floors[f].draft].status = "draft"
        /\ revisions'[floors[f].draft] = OverwrittenRow(revisions[floors[f].draft], layout)
    BY OverwriteEffect
  <2> QED BY <1>1, <2>1 DEF Rewritten
<1>2. CASE r # floors[f].draft BY <1>2, OverwriteEffect
<1> QED BY <1>1, <1>2

\* The row an insertion fills is new, and no other row is.
LEMMA InsertLives ==
    ASSUME Consistent, NEW f \in Floor, NEW q \in Revision, NEW layout \in Layout,
           InsertDraft(f, q, layout), NEW r \in Revision
    PROVE  Kept(r) \/ (Inserted(r) /\ r = q)
<1>1. CASE r = q
  <2>1. /\ revisions[r].status = "free"
        /\ revisions'[r] = [status |-> "draft", floor |-> f, version |-> DraftVersion(f),
                            layout |-> layout, svg |-> NoSvg]
    BY <1>1, InsertEffect
  <2> QED BY <1>1, <2>1 DEF Inserted
<1>2. CASE r # q BY <1>2, InsertEffect
<1> QED BY <1>1, <1>2

\* A row that is kept is not one that is inserted.
LEMMA KeptNotInserted == ASSUME NEW r, Inserted(r) PROVE ~Kept(r)
BY DEF Kept, Inserted

\* The draft and the published revision change places; other rows stay.
LEMMA PublishedLives ==
    ASSUME Consistent, NEW f \in Floor, Publish(f), NEW r \in Revision
    PROVE  Kept(r) \/ Issued(r) \/ Archived(r)
BY PublishEffect, LayoutAssumption DEF Kept, Issued, Archived

\* Discarding removes the draft's row, if there is one.
LEMMA DiscardEffect ==
    ASSUME Consistent, NEW f \in Floor, DiscardDraft(f)
    PROVE  /\ \A r \in Revision : \/ Kept(r)
                                  \/ /\ revisions'[r] = NoRow("deleted")
                                     /\ revisions[r].status = "draft" /\ revisions[r].floor = f
           /\ floors'[f] = [floors[f] EXCEPT !.draft = NoRevision]
           /\ \A g \in Floor : g # f => floors'[g] = floors[g]
<1>1. CASE HasDraft(f)
  <2>1. /\ floors[f].draft \in Revision
        /\ revisions[floors[f].draft].status = "draft"
        /\ revisions[floors[f].draft].floor = f
    BY <1>1 DEF Consistent, TypeOK, FloorRow, PointersAgree, PointersNameTheirRow, HasDraft
  <2>2. /\ floors' = [floors EXCEPT ![f].draft = NoRevision]
        /\ revisions' = Without({floors[f].draft})
    BY <1>1 DEF DiscardDraft
  <2> QED BY <2>1, <2>2 DEF Without, Kept, Consistent, TypeOK
<1>2. CASE ~HasDraft(f)
  <2>1. floors' = floors /\ revisions' = revisions BY <1>2 DEF DiscardDraft
  <2>2. floors[f] \in FloorRow BY DEF Consistent, TypeOK
  <2>3. floors[f] = [floors[f] EXCEPT !.draft = NoRevision]
    BY <1>2, <2>2 DEF HasDraft, FloorRow
  <2> QED BY <2>1, <2>3 DEF Kept
<1> QED BY <1>1, <1>2

\* The life of a revision has no other steps, whatever operation it is.
LEMMA RowLife == ASSUME Consistent, [Next]_vars, NEW r \in Revision PROVE Lives(r)
<1>1. ASSUME revisions' = revisions PROVE Lives(r)
  BY <1>1 DEF Lives, Kept
<1>2. ASSUME NEW f \in Floor, DeleteFloor(f) PROVE Lives(r)
  <2>1. /\ revisions'[r] = IF revisions[r].floor = f THEN NoRow("deleted") ELSE revisions[r]
        /\ floors'[f] = NoMap("deleted")
    BY <1>2 DEF DeleteFloor, Without, Consistent, TypeOK
  <2> QED BY <2>1 DEF Lives, Kept, Removed, NoMap
<1>3. ASSUME NEW f \in Floor, NEW version \in Version, NEW layout \in Layout,
             UpdateDraft(f, version, layout)
      PROVE  Lives(r)
  BY <1>3, OverwriteLives DEF UpdateDraft, Lives
<1>4. ASSUME NEW f \in Floor, NEW version \in Version, NEW layout \in Layout,
             NEW q \in Revision, SaveNewDraft(f, q, version, layout)
      PROVE  Lives(r)
  BY <1>4, InsertLives DEF SaveNewDraft, Lives
<1>5. ASSUME NEW f \in Floor, Publish(f) PROVE Lives(r)
  BY <1>5, PublishedLives DEF Lives
<1>6. ASSUME NEW f \in Floor, DiscardDraft(f) PROVE Lives(r)
  BY <1>6, DiscardEffect DEF Lives, Removed
<1>7. ASSUME NEW f \in Floor, NEW s \in Revision, RestoreOverDraft(f, s) PROVE Lives(r)
  <2>1. revisions[s].layout \in Layout BY <1>7, RowInUse DEF RestoreOverDraft
  <2> QED BY <1>7, <2>1, OverwriteLives DEF RestoreOverDraft, Lives
<1>8. ASSUME NEW f \in Floor, NEW s \in Revision, NEW q \in Revision,
             RestoreToNewDraft(f, s, q)
      PROVE  Lives(r)
  <2>1. revisions[s].layout \in Layout BY <1>8, RowInUse DEF RestoreToNewDraft
  <2> QED BY <1>8, <2>1, InsertLives DEF RestoreToNewDraft, Lives
<1>9. ASSUME NEW rows \in SUBSET Revision, Cleanup(rows) PROVE Lives(r)
  BY <1>9 DEF Cleanup, Without, Lives, Kept, Removed
<1>10. ASSUME NEW q \in Revision, CacheSemanticSVG(q) PROVE Lives(r)
  BY <1>10 DEF CacheSemanticSVG, Lives, Kept, Rendered, Consistent, TypeOK
<1> QED
  BY <1>1, <1>2, <1>3, <1>4, <1>5, <1>6, <1>7, <1>8, <1>9, <1>10
     DEF Next, Write, SaveDraft, Restore, CreateFloor, SyncDesks, vars

\* What SvgMatchesLayout says of one row, and what one step may do to a rendering.
SvgMatches(row) == row.svg = NoSvg \/ row.svg.layout = row.layout

SvgKept(r) ==
    (/\ revisions[r].status \in {"published", "archived"}
     /\ revisions[r].svg # NoSvg) =>
        \/ revisions'[r].svg = revisions[r].svg
        \/ revisions'[r].status = "deleted"

\* A step of its life leaves a row's rendering one of its own document, and the
\* rendering of what was published as it is.
LEMMA SvgStep ==
    ASSUME Consistent, NEW r \in Revision, SvgMatches(revisions[r]), Lives(r)
    PROVE  SvgMatches(revisions'[r]) /\ SvgKept(r)
<1>1. revisions[r] \in RevisionRow BY DEF Consistent, TypeOK
<1>2. CASE Kept(r) BY <1>1, <1>2 DEF Kept, SvgMatches, SvgKept
<1>3. CASE Removed(r) BY <1>3 DEF Removed, NoRow, SvgMatches, SvgKept
<1>4. CASE Inserted(r) BY <1>4 DEF Inserted, SvgMatches, SvgKept
<1>5. CASE Rewritten(r)
  BY <1>1, <1>5 DEF Rewritten, OverwrittenRow, RevisionRow, SvgMatches, SvgKept
<1>6. CASE Issued(r) BY <1>1, <1>6, IssueFields DEF Issued, SvgMatches, SvgKept
<1>7. CASE Archived(r) BY <1>1, <1>7, ArchivedRowFields DEF Archived, SvgMatches, SvgKept
<1>8. CASE Rendered(r)
  <2>1. Drawn(revisions[r].layout, Own).layout = revisions[r].layout BY DEF Drawn
  <2> QED BY <1>1, <1>8, <2>1 DEF Rendered, RevisionRow, SvgMatches, SvgKept
<1> QED BY <1>2, <1>3, <1>4, <1>5, <1>6, <1>7, <1>8 DEF Lives

\* A step of the store does as much for every row.
LEMMA SvgSteps ==
    ASSUME Consistent, SvgMatchesLayout, [Next]_vars
    PROVE  SvgMatchesLayout' /\ \A r \in Revision : SvgKept(r)
<1>1. ASSUME NEW r \in Revision PROVE SvgMatches(revisions'[r]) /\ SvgKept(r)
  <2>1. SvgMatches(revisions[r]) BY DEF SvgMatchesLayout, SvgMatches
  <2> QED BY <2>1, RowLife, SvgStep
<1>2. SvgMatchesLayout' BY <1>1 DEF SvgMatchesLayout, SvgMatches
<1> QED BY <1>1, <1>2

\* semantic_svg is a rendering of the map its revision holds, and a rendering of a
\* publication is never replaced by the plainer one a reader makes, although a
\* reader may write it long after it read the document.
THEOREM RenderingsAlwaysKept == Spec => RenderingsKept
<1>1. Init => SvgMatchesLayout
  BY DEF Init, LegacyMap, NoRow, SvgMatchesLayout
<1>2. Consistent /\ SvgMatchesLayout /\ [Next]_vars => SvgMatchesLayout'
  BY SvgSteps
<1>3. Consistent /\ SvgMatchesLayout /\ [Next]_vars =>
        [\A r \in Revision :
             (/\ revisions[r].status \in {"published", "archived"}
              /\ revisions[r].svg # NoSvg) =>
                 \/ revisions'[r].svg = revisions[r].svg
                 \/ revisions'[r].status = "deleted"]_vars
  BY SvgSteps DEF SvgKept
<1> QED BY <1>1, <1>2, <1>3, ConsistentAlways, PTL DEF Spec, RenderingsKept

\* What PublishedIsFrozen says of one row and one step.
Frozen(r) ==
    LET old == revisions[r]
        new == revisions'[r]
    IN old.status \in {"published", "archived"} =>
          \/ /\ new.layout = old.layout
             /\ new.version = old.version
             /\ new.floor = old.floor
             /\ \/ new.status = old.status
                \/ new.status = "archived"
          \/ /\ new.status = "deleted"
             /\ \/ old.status = "archived"
                \/ floors'[old.floor].status = "deleted"

\* A step of its life leaves a published or archived row as it is, but for the
\* rendering, archives it or removes it.
LEMMA LifeFrozen == ASSUME Consistent, NEW r \in Revision, Lives(r) PROVE Frozen(r)
<1>1. revisions[r] \in RevisionRow BY DEF Consistent, TypeOK
<1>2. SUFFICES ASSUME revisions[r].status \in {"published", "archived"} PROVE Frozen(r)
  BY DEF Frozen
<1>3. CASE Kept(r) BY <1>3 DEF Kept, Frozen
<1>4. CASE Removed(r) BY <1>2, <1>4 DEF Removed, NoRow, Frozen
<1>5. CASE Archived(r) BY <1>1, <1>5, ArchivedRowFields DEF Archived, Frozen
<1>6. CASE Rendered(r) BY <1>1, <1>6 DEF Rendered, RevisionRow, Frozen
<1> QED BY <1>2, <1>3, <1>4, <1>5, <1>6 DEF Lives, Inserted, Rewritten, Issued

\* A published map is immutable, through archiving, restoring and cleaning up.
THEOREM PublishedAlwaysFrozen == Spec => PublishedIsFrozen
<1>1. Consistent /\ [Next]_vars =>
        [\A r \in Revision :
          LET old == revisions[r]
              new == revisions'[r]
          IN old.status \in {"published", "archived"} =>
                \/ /\ new.layout = old.layout
                   /\ new.version = old.version
                   /\ new.floor = old.floor
                   /\ \/ new.status = old.status
                      \/ new.status = "archived"
                \/ /\ new.status = "deleted"
                   /\ \/ old.status = "archived"
                      \/ floors'[old.floor].status = "deleted"]_vars
  BY RowLife, LifeFrozen DEF Frozen
<1> QED BY <1>1, ConsistentAlways, PTL DEF Spec, PublishedIsFrozen

-----------------------------------------------------------------------------
(***************************************************************************)
(* The history.  That its entries name revisions is needed besides: a row  *)
(* of no id has no status.                                                 *)
(***************************************************************************)
PublishedEntriesName ==
    \A a \in audit : a.action = "published" => a.revision \in Revision

\* A row that becomes a draft is inserted, one that stays one keeps its floor.
LEMMA DraftLife ==
    ASSUME Consistent, NEW r \in Revision, Lives(r), revisions'[r].status = "draft"
    PROVE  \/ Inserted(r)
           \/ revisions[r].status = "draft" /\ revisions'[r].floor = revisions[r].floor
<1>1. revisions[r] \in RevisionRow BY DEF Consistent, TypeOK
<1>2. CASE Kept(r) BY <1>2 DEF Kept
<1>3. CASE Removed(r) BY <1>3 DEF Removed, NoRow
<1>4. CASE Rewritten(r) BY <1>1, <1>4 DEF Rewritten, OverwrittenRow, RevisionRow
<1>5. CASE Issued(r) BY <1>1, <1>5, IssueFields DEF Issued
<1>6. CASE Archived(r) BY <1>1, <1>6, ArchivedRowFields DEF Archived
<1>7. CASE Rendered(r) BY <1>1, <1>7 DEF Rendered, RevisionRow
<1> QED BY <1>2, <1>3, <1>4, <1>5, <1>6, <1>7 DEF Lives

\* What was published never becomes a draft again.
LEMMA PublishedLife ==
    ASSUME Consistent, NEW r \in Revision, Lives(r),
           revisions[r].status \in {"published", "archived", "deleted"}
    PROVE  revisions'[r].status \in {"published", "archived", "deleted"}
<1>1. revisions[r] \in RevisionRow BY DEF Consistent, TypeOK
<1>2. CASE Kept(r) BY <1>2 DEF Kept
<1>3. CASE Removed(r) BY <1>3 DEF Removed, NoRow
<1>4. CASE Archived(r) BY <1>1, <1>4, ArchivedRowFields DEF Archived
<1>5. CASE Rendered(r) BY <1>1, <1>5 DEF Rendered, RevisionRow
<1> QED BY <1>2, <1>3, <1>4, <1>5 DEF Lives, Inserted, Rewritten, Issued

\* An entry is added for a floor that exists; a publication's is about the row
\* it has published, and a row that was inserted has one.
LEMMA AuditGrows ==
    ASSUME AuditAccounts, PublishedEntriesName, Consistent,
           \A r \in Revision : Lives(r),
           \A g \in Floor : Live(g) => Live(g)',
           audit \subseteq audit',
           \A a \in audit' \ audit :
              /\ Live(a.floor)'
              /\ a.action = "published" =>
                    a.revision \in Revision /\ revisions'[a.revision].status = "published",
           \A r \in Revision : Inserted(r) =>
              \E a \in audit' : /\ a.action \in {"saved", "rolled_back"}
                                /\ a.revision = r /\ a.floor = revisions'[r].floor
    PROVE  AuditAccounts' /\ PublishedEntriesName'
<1>1. ASSUME NEW r \in Revision, revisions'[r].status = "draft"
      PROVE  \E a \in audit' : /\ a.action \in {"saved", "rolled_back"}
                               /\ a.revision = r /\ a.floor = revisions'[r].floor
  <2>1. CASE Inserted(r) BY <2>1
  <2>2. CASE revisions[r].status = "draft" /\ revisions'[r].floor = revisions[r].floor
    BY <2>2 DEF AuditAccounts
  <2> QED BY <1>1, <2>1, <2>2, DraftLife
<1>2. ASSUME NEW a \in audit' PROVE Live(a.floor)'
  BY <1>2 DEF AuditAccounts, Consistent, TypeOK, AuditEntry
<1>3. ASSUME NEW a \in audit', a.action = "published"
      PROVE  /\ a.revision \in Revision
             /\ revisions'[a.revision].status \in {"published", "archived", "deleted"}
  <2>1. CASE a \in audit
    BY <1>3, <2>1, PublishedLife DEF AuditAccounts, PublishedEntriesName
  <2>2. CASE a \notin audit BY <1>3, <2>2
  <2> QED BY <2>1, <2>2
<1> QED BY <1>1, <1>2, <1>3 DEF AuditAccounts, PublishedEntriesName

\* Overwriting, inserting and publishing leave floors that exist.
LEMMA FloorsStay ==
    ASSUME Consistent, NEW f \in Floor, NEW r,
           \/ floors' = floors
           \/ floors' = [floors EXCEPT ![f].draft = r]
           \/ floors' = [floors EXCEPT ![f] = [@ EXCEPT !.published = r, !.draft = NoRevision]]
    PROVE  \A g \in Floor : Live(g)' <=> Live(g)
<1>1. floors \in [Floor -> FloorRow] BY DEF Consistent, TypeOK
<1>2. CASE floors' = floors BY <1>2 DEF Live
<1>3. CASE floors' = [floors EXCEPT ![f].draft = r] BY <1>1, <1>3 DEF FloorRow, Live
<1>4. CASE floors' = [floors EXCEPT ![f] = [@ EXCEPT !.published = r, !.draft = NoRevision]]
  <2>1. floors'[f] = [floors[f] EXCEPT !.published = r, !.draft = NoRevision]
    BY <1>1, <1>4
  <2>2. floors'[f].status = floors[f].status BY <1>1, <2>1 DEF FloorRow
  <2>3. \A g \in Floor : g # f => floors'[g] = floors[g] BY <1>1, <1>4
  <2> QED BY <2>2, <2>3 DEF Live
<1> QED BY <1>2, <1>3, <1>4

\* Deleting a floor takes its entries and its rows together.
LEMMA AuditDeleteFloor ==
    ASSUME AuditAccounts, PublishedEntriesName, Consistent, NEW f \in Floor, DeleteFloor(f)
    PROVE  AuditAccounts' /\ PublishedEntriesName'
<1>1. /\ audit' = {a \in audit : a.floor # f}
      /\ \A g \in Floor : g # f => floors'[g] = floors[g]
      /\ \A r \in Revision : revisions'[r] = IF revisions[r].floor = f THEN NoRow("deleted")
                                             ELSE revisions[r]
  BY DEF DeleteFloor, Without, Consistent, TypeOK
<1>2. \A a \in audit : a.floor \in Floor BY DEF Consistent, TypeOK, AuditEntry
<1> QED BY <1>1, <1>2 DEF AuditAccounts, PublishedEntriesName, Live, NoRow

\* Every step of the store keeps the history true.
LEMMA AuditStep ==
    ASSUME Consistent, AuditAccounts, PublishedEntriesName, [Next]_vars
    PROVE  AuditAccounts' /\ PublishedEntriesName'
<1> DEFINE Goal == AuditAccounts' /\ PublishedEntriesName'
<1>0. \A r \in Revision : Lives(r) BY RowLife
<1>1. ASSUME NEW f \in Floor, CreateFloor(f) PROVE Goal
  <2>1. /\ revisions' = revisions /\ audit' = audit
        /\ \A g \in Floor : Live(g) => Live(g)'
    BY <1>1 DEF CreateFloor, Consistent, TypeOK, Live
  <2> QED BY <2>1 DEF AuditAccounts, PublishedEntriesName, Consistent, TypeOK, AuditEntry
<1>2. ASSUME NEW f \in Floor, DeleteFloor(f) PROVE Goal
  BY <1>2, AuditDeleteFloor
<1>3. ASSUME NEW f \in Floor, NEW action \in {"saved", "rolled_back"}, NEW layout \in Layout,
             Live(f), HasDraft(f), floors' = floors,
             revisions' = [revisions EXCEPT ![floors[f].draft] = OverwrittenRow(@, layout)],
             audit' = audit \cup {Entry(f, action, floors[f].draft)}
      PROVE  Goal
  <2>1. \A g \in Floor : Live(g) => Live(g)' BY <1>3 DEF Live
  <2>2. \A r \in Revision : ~Inserted(r)
    BY <1>3, OverwriteLives, KeptNotInserted DEF Rewritten, Inserted
  <2> QED BY <1>0, <1>3, <2>1, <2>2, AuditGrows DEF Entry
<1>4. ASSUME NEW f \in Floor, NEW action \in {"saved", "rolled_back"}, NEW layout \in Layout,
             NEW q \in Revision, Live(f), InsertDraft(f, q, layout),
             audit' = audit \cup {Entry(f, action, q)}
      PROVE  Goal
  <2>1. \A g \in Floor : Live(g) => Live(g)' BY <1>4, FloorsStay DEF InsertDraft
  <2>2. \A r \in Revision : Inserted(r) => r = q /\ revisions'[r].floor = f
    <3>1. \A r \in Revision : Inserted(r) => r = q
      BY <1>4, InsertLives, KeptNotInserted
    <3>2. revisions'[q] = [status |-> "draft", floor |-> f, version |-> DraftVersion(f),
                           layout |-> layout, svg |-> NoSvg]
      BY <1>4, InsertEffect
    <3> QED BY <3>1, <3>2
  <2>3. /\ Entry(f, action, q) \in audit'
        /\ Entry(f, action, q).action = action /\ Entry(f, action, q).revision = q
        /\ Entry(f, action, q).floor = f
    BY <1>4 DEF Entry
  <2>4. \A r \in Revision : Inserted(r) =>
          \E a \in audit' : /\ a.action \in {"saved", "rolled_back"}
                            /\ a.revision = r /\ a.floor = revisions'[r].floor
    BY <2>2, <2>3
  <2>5. /\ audit \subseteq audit'
        /\ \A a \in audit' \ audit : Live(a.floor)' /\ a.action # "published"
    BY <1>4, <2>1, <2>3
  <2> QED BY <1>0, <2>1, <2>4, <2>5, AuditGrows
<1>5. ASSUME NEW f \in Floor, Publish(f) PROVE Goal
  <2>1. \A g \in Floor : Live(g) => Live(g)' BY <1>5, FloorsStay DEF Publish
  <2>2. \A r \in Revision : ~Inserted(r)
    BY <1>5, PublishedLives, KeptNotInserted DEF Inserted, Issued, Archived
  <2>3. /\ Live(f) /\ floors[f].draft \in Revision
        /\ revisions'[floors[f].draft].status = "published"
    BY <1>5, PublishEffect, IssueFields DEF Consistent, TypeOK
  <2>4. audit' = audit \cup {Entry(f, "published", floors[f].draft)} BY <1>5 DEF Publish
  <2> QED BY <1>0, <2>1, <2>2, <2>3, <2>4, AuditGrows DEF Entry
<1>6. ASSUME NEW f \in Floor, DiscardDraft(f) PROVE Goal
  <2>1. \A g \in Floor : Live(g) => Live(g)' BY <1>6, FloorsStay DEF DiscardDraft
  <2>2. \A r \in Revision : ~Inserted(r)
    BY <1>6, DiscardEffect, KeptNotInserted DEF Inserted
  <2>3. Live(f) /\ audit' = audit \cup {Entry(f, "discarded", NoRevision)}
    BY <1>6 DEF DiscardDraft
  <2> QED BY <1>0, <2>1, <2>2, <2>3, AuditGrows DEF Entry
<1>7. ASSUME NEW f \in Floor, NEW source, SyncDesks(f, source) PROVE Goal
  <2>1. /\ Live(f) /\ floors' = floors /\ revisions' = revisions
        /\ \E r : audit' = audit \cup {Entry(f, "desks_synced", r)}
    BY <1>7 DEF SyncDesks
  <2>2. \A g \in Floor : Live(g) => Live(g)' BY <2>1 DEF Live
  <2>3. \A r \in Revision : ~Inserted(r) BY <2>1, KeptNotInserted DEF Kept
  <2> QED BY <1>0, <2>1, <2>2, <2>3, AuditGrows DEF Entry
<1>8. ASSUME floors' = floors, audit' = audit, \A r \in Revision : ~Inserted(r) PROVE Goal
  <2>1. \A g \in Floor : Live(g) => Live(g)' BY <1>8 DEF Live
  <2> QED BY <1>0, <1>8, <2>1, AuditGrows
<1>9. ASSUME NEW rows \in SUBSET Revision, Cleanup(rows) PROVE Goal
  <2>1. \A r \in Revision : Kept(r) \/ revisions[r].status = "archived"
    BY <1>9 DEF Cleanup, Without, Kept
  <2>2. \A r \in Revision : ~Inserted(r) BY <2>1, KeptNotInserted DEF Inserted
  <2> QED BY <1>8, <1>9, <2>2 DEF Cleanup
<1>10. ASSUME NEW q \in Revision, CacheSemanticSVG(q) PROVE Goal
  <2>1. \A r \in Revision : Kept(r) \/ revisions[r].status \in {"published", "archived"}
    BY <1>10 DEF CacheSemanticSVG, Kept, Consistent, TypeOK
  <2>2. \A r \in Revision : ~Inserted(r) BY <2>1, KeptNotInserted DEF Inserted
  <2> QED BY <1>8, <1>10, <2>2 DEF CacheSemanticSVG
<1>11. ASSUME UNCHANGED vars PROVE Goal
  <2>1. \A r \in Revision : ~Inserted(r) BY <1>11, KeptNotInserted DEF vars, Kept
  <2> QED BY <1>8, <1>11, <2>1 DEF vars
<1>12. ASSUME NEW f \in Floor, SaveDraft(f) PROVE Goal
  BY <1>3, <1>4, <1>12 DEF SaveDraft, UpdateDraft, SaveNewDraft
<1>13. ASSUME NEW f \in Floor, Restore(f) PROVE Goal
  BY <1>3, <1>4, <1>13, RowInUse DEF Restore, RestoreOverDraft, RestoreToNewDraft
<1> QED
  BY <1>1, <1>2, <1>5, <1>6, <1>7, <1>9, <1>10, <1>11, <1>12, <1>13 DEF Next, Write

\* The history tells of every draft who made it, calls nothing published that
\* is a draft, and tells nothing of a floor that is gone.
THEOREM AuditAlwaysAccounts == Spec => []AuditAccounts
<1>1. Init => AuditAccounts /\ PublishedEntriesName
  BY DEF Init, LegacyMap, NoRow, AuditAccounts, PublishedEntriesName
<1>2. /\ Consistent /\ AuditAccounts /\ PublishedEntriesName /\ [Next]_vars
        => AuditAccounts' /\ PublishedEntriesName'
  BY AuditStep
<1> QED BY <1>1, <1>2, ConsistentAlways, PTL DEF Spec

-----------------------------------------------------------------------------
(***************************************************************************)
(* The slots: what one operation does to what is shown and worked on.      *)
(***************************************************************************)
ShownKept(g) ==
    /\ Shown'[g] = Shown[g] /\ Edition'[g] = Edition[g]
    /\ HasPublished(g)' <=> HasPublished(g)

WorkingKept(g) == Working'[g] = Working[g]
LiveKept == \A g \in Floor : Live(g)' <=> Live(g)

\* The published row of a floor that keeps its pointer keeps its document.
LEMMA ShownStays ==
    ASSUME Consistent, NEW g \in Floor, floors'[g].published = floors[g].published,
           floors'[g].status # "deleted",
           \A r \in Revision : Lives(r)
    PROVE  ShownKept(g)
<1>1. CASE HasPublished(g)
  <2> DEFINE p == floors[g].published
  <2>1. p \in Revision /\ revisions[p].status = "published" /\ revisions[p].floor = g
    BY <1>1 DEF Consistent, TypeOK, FloorRow, PointersAgree, PointersNameTheirRow, HasPublished
  <2>2. revisions'[p].layout = revisions[p].layout /\ revisions'[p].version = revisions[p].version
    BY <2>1, LifeFrozen DEF Frozen
  <2> QED BY <1>1, <2>2 DEF ShownKept, Shown, Edition, HasPublished
<1>2. CASE ~HasPublished(g)
  BY <1>2 DEF ShownKept, Shown, Edition, HasPublished
<1> QED BY <1>1, <1>2

\* The working copy of a floor whose draft row is kept, or that has none.
LEMMA WorkingStays ==
    ASSUME Consistent, NEW g \in Floor, floors'[g].draft = floors[g].draft,
           \A r \in Revision : revisions[r].status = "draft" /\ revisions[r].floor = g => Kept(r)
    PROVE  WorkingKept(g)
<1>1. CASE HasDraft(g)
  <2>1. /\ floors[g].draft \in Revision
        /\ revisions[floors[g].draft].status = "draft" /\ revisions[floors[g].draft].floor = g
    BY <1>1 DEF Consistent, TypeOK, FloorRow, PointersAgree, PointersNameTheirRow, HasDraft
  <2> QED BY <1>1, <2>1 DEF WorkingKept, Working, HasDraft, Kept
<1>2. CASE ~HasDraft(g) BY <1>2 DEF WorkingKept, Working, HasDraft
<1> QED BY <1>1, <1>2

\* A draft is written where there was one.
LEMMA OverwriteSlot ==
    ASSUME Consistent, NEW f \in Floor, HasDraft(f), NEW layout \in Layout,
           floors' = floors, \A r \in Revision : Lives(r),
           revisions' = [revisions EXCEPT ![floors[f].draft] = OverwrittenRow(@, layout)]
    PROVE  /\ LiveKept /\ \A g \in Floor : ShownKept(g)
           /\ Working'[f] = layout
           /\ \A g \in Floor \ {f} : WorkingKept(g)
<1>1. LiveKept BY DEF LiveKept, Live
<1>2. \A g \in Floor : floors[g].status = "deleted" => ~HasPublished(g)
  BY DEF Consistent, PointersAgree, PointersNameTheirRow, Live
<1>3. ASSUME NEW g \in Floor PROVE ShownKept(g)
  <2>1. CASE floors[g].status = "deleted"
    BY <1>2, <2>1 DEF ShownKept, Shown, Edition, HasPublished
  <2> QED BY <2>1, ShownStays
<1>4. Working'[f] = layout
  <2>1. revisions[floors[f].draft] \in RevisionRow BY OverwriteEffect DEF Consistent, TypeOK
  <2>2. revisions'[floors[f].draft] = OverwrittenRow(revisions[floors[f].draft], layout)
    BY OverwriteEffect
  <2>3. revisions'[floors[f].draft].layout = layout
    BY <2>1, <2>2 DEF OverwrittenRow, RevisionRow
  <2> QED BY <2>3 DEF Working, HasDraft
<1>5. ASSUME NEW g \in Floor \ {f} PROVE WorkingKept(g)
  BY <1>5, WorkingStays, OverwriteEffect
<1> QED BY <1>1, <1>3, <1>4, <1>5

\* A draft is written where there was none.
LEMMA InsertSlot ==
    ASSUME Consistent, NEW f \in Floor, Live(f), NEW q \in Revision, NEW layout \in Layout,
           InsertDraft(f, q, layout), \A r \in Revision : Lives(r)
    PROVE  /\ LiveKept /\ \A g \in Floor : ShownKept(g)
           /\ Working'[f] = layout
           /\ \A g \in Floor \ {f} : WorkingKept(g)
<1>1. LiveKept BY FloorsStay DEF InsertDraft, LiveKept
<1>2. \A g \in Floor : floors'[g].published = floors[g].published
  BY DEF InsertDraft, Consistent, TypeOK, FloorRow
<1>3. \A g \in Floor : floors[g].status = "deleted" => ~HasPublished(g)
  BY DEF Consistent, PointersAgree, PointersNameTheirRow, Live
<1>4. ASSUME NEW g \in Floor PROVE ShownKept(g)
  <2>1. CASE floors[g].status = "deleted"
    BY <1>2, <1>3, <2>1 DEF ShownKept, Shown, Edition, HasPublished
  <2>2. CASE floors[g].status # "deleted"
    <3>1. floors'[g].status = floors[g].status
      BY DEF InsertDraft, Consistent, TypeOK, FloorRow
    <3> QED BY <1>2, <2>2, <3>1, ShownStays
  <2> QED BY <2>1, <2>2
<1>5. Working'[f] = layout
  <2>1. floors'[f].draft = q /\ q # NoRevision
    <3>1. floors'[f] = [floors[f] EXCEPT !.draft = q] BY InsertEffect
    <3>2. floors[f] \in FloorRow BY DEF Consistent, TypeOK
    <3> QED BY <3>1, <3>2, LayoutAssumption DEF FloorRow
  <2>2. revisions'[q].layout = layout
    <3>1. revisions'[q] = [status |-> "draft", floor |-> f, version |-> DraftVersion(f),
                           layout |-> layout, svg |-> NoSvg]
      BY InsertEffect
    <3> QED BY <3>1
  <2> QED BY <2>1, <2>2 DEF Working, HasDraft
<1>6. ASSUME NEW g \in Floor \ {f} PROVE WorkingKept(g)
  <2>1. floors'[g] = floors[g] BY <1>6, InsertEffect
  <2>2. \A r \in Revision : revisions[r].status = "draft" => Kept(r) BY InsertEffect
  <2> QED BY <2>1, <2>2, WorkingStays
<1> QED BY <1>1, <1>4, <1>5, <1>6

\* The working copy becomes what is shown, one edition on.
LEMMA PublishSlot ==
    ASSUME Consistent, VersionsIdentify, NEW f \in Floor, Publish(f),
           \A r \in Revision : Lives(r)
    PROVE  /\ LiveKept /\ \A g \in Floor \ {f} : ShownKept(g) /\ WorkingKept(g)
           /\ Working[f] \in Layout /\ Working'[f] = NoLayout
           /\ Shown'[f] = Working[f] /\ Edition'[f] = Edition[f] + 1
           /\ HasPublished(f)'
<1> DEFINE d == floors[f].draft
           p == floors[f].published
<1>1. /\ d \in Revision /\ revisions[d].status = "draft" /\ revisions[d].floor = f
      /\ p # d
      /\ p # NoRevision => p \in Revision /\ revisions[p].floor = f
      /\ Issue(revisions[d], revisions'[d])
      /\ \A r \in Revision \ {d, p} : revisions'[r] = revisions[r]
      /\ \A g \in Floor : g # f => floors'[g] = floors[g]
      /\ floors'[f].published = d /\ floors'[f].draft = NoRevision
  BY PublishEffect
<1>2. LiveKept BY FloorsStay DEF Publish, LiveKept
<1>3. d # NoRevision BY <1>1, LayoutAssumption
<1>4. /\ revisions'[d].layout = revisions[d].layout
      /\ revisions'[d].version = revisions[d].version
  BY <1>1, IssueFields DEF Consistent, TypeOK
<1>5. /\ Working[f] = revisions[d].layout /\ Working[f] \in Layout
      /\ Shown'[f] = revisions'[d].layout /\ Edition'[f] = revisions'[d].version
      /\ HasPublished(f)' /\ Working'[f] = NoLayout
  BY <1>1, <1>3, RowInUse DEF Working, Shown, Edition, HasDraft, HasPublished
<1>6. revisions[d].version = Edition[f] + 1
  BY <1>3 DEF VersionsIdentify, DraftIsNext, DraftVersion, HasDraft, Edition
<1>7. ASSUME NEW g \in Floor \ {f} PROVE ShownKept(g) /\ WorkingKept(g)
  <2>1. floors'[g] = floors[g] BY <1>1, <1>7
  <2>2. ASSUME NEW r \in Revision, revisions[r].floor = g PROVE Kept(r)
    <3>1. r # d /\ r # p BY <1>1, <1>7, <2>2, LayoutAssumption
    <3> QED BY <1>1, <3>1 DEF Kept
  <2>3. WorkingKept(g) BY <2>1, <2>2, WorkingStays
  <2>4. ShownKept(g)
    <3>1. floors[g].published \in Revision \cup {NoRevision} /\
            (HasPublished(g) => revisions[floors[g].published].floor = g)
      BY DEF Consistent, TypeOK, FloorRow, PointersAgree, PointersNameTheirRow
    <3> QED BY <2>1, <2>2, <3>1 DEF ShownKept, Shown, Edition, HasPublished, Kept
  <2> QED BY <2>3, <2>4
<1> QED BY <1>2, <1>4, <1>5, <1>6, <1>7

\* The working copy is gone.
LEMMA DiscardSlot ==
    ASSUME Consistent, NEW f \in Floor, DiscardDraft(f), \A r \in Revision : Lives(r)
    PROVE  /\ LiveKept /\ \A g \in Floor : ShownKept(g)
           /\ Working'[f] = NoLayout
           /\ \A g \in Floor \ {f} : WorkingKept(g)
<1>1. /\ floors'[f] = [floors[f] EXCEPT !.draft = NoRevision]
      /\ \A g \in Floor : g # f => floors'[g] = floors[g]
      /\ \A r \in Revision : revisions[r].status = "draft" /\ revisions[r].floor # f => Kept(r)
  BY DiscardEffect
<1>2. \A g \in Floor : /\ floors'[g].published = floors[g].published
                       /\ floors'[g].status = floors[g].status
  BY <1>1 DEF Consistent, TypeOK, FloorRow
<1>3. LiveKept BY <1>2 DEF LiveKept, Live
<1>4. ASSUME NEW g \in Floor PROVE ShownKept(g)
  <2>1. CASE Live(g) BY <1>2, <2>1, ShownStays DEF Live
  <2>2. CASE ~Live(g)
    BY <1>2, <2>2
       DEF Consistent, PointersAgree, PointersNameTheirRow, ShownKept, Shown, Edition,
           HasPublished
  <2> QED BY <2>1, <2>2
<1>5. Working'[f] = NoLayout
  BY <1>1 DEF Working, HasDraft, Consistent, TypeOK, FloorRow
<1>6. ASSUME NEW g \in Floor \ {f} PROVE WorkingKept(g)
  BY <1>1, <1>6, WorkingStays
<1> QED BY <1>3, <1>4, <1>5, <1>6

\* A floor goes with all it has, and no other loses anything.
LEMMA DeleteSlot ==
    ASSUME Consistent, NEW f \in Floor, DeleteFloor(f)
    PROVE  /\ \A g \in Floor \ {f} : ShownKept(g) /\ WorkingKept(g) /\ (Live(g)' <=> Live(g))
           /\ ~Live(f)' /\ Shown'[f] = NoLayout /\ Working'[f] = NoLayout /\ Edition'[f] = 0
<1>1. /\ floors'[f] = NoMap("deleted")
      /\ \A g \in Floor : g # f => floors'[g] = floors[g]
      /\ \A r \in Revision : revisions[r].floor # f => Kept(r)
  BY DEF DeleteFloor, Without, Kept, Consistent, TypeOK
<1>2. /\ ~Live(f)' /\ Shown'[f] = NoLayout /\ Working'[f] = NoLayout /\ Edition'[f] = 0
  BY <1>1 DEF NoMap, Live, Shown, Working, Edition, HasPublished, HasDraft
<1>3. ASSUME NEW g \in Floor \ {f}
      PROVE  ShownKept(g) /\ WorkingKept(g) /\ (Live(g)' <=> Live(g))
  <2>1. floors'[g] = floors[g] BY <1>1, <1>3
  <2>2. WorkingKept(g) BY <1>1, <1>3, <2>1, WorkingStays
  <2>3. ShownKept(g)
    <3>1. HasPublished(g) => /\ floors[g].published \in Revision
                             /\ revisions[floors[g].published].floor = g
      BY DEF Consistent, TypeOK, FloorRow, PointersAgree, PointersNameTheirRow, HasPublished
    <3> QED BY <1>1, <1>3, <2>1, <3>1 DEF ShownKept, Shown, Edition, HasPublished, Kept
  <2> QED BY <2>1, <2>2, <2>3 DEF Live
<1> QED BY <1>2, <1>3

\* What touches no pointer and no draft touches no slot.
LEMMA OtherSlots ==
    ASSUME Consistent, floors' = floors, \A r \in Revision : Lives(r),
           \A r \in Revision : revisions[r].status = "draft" => Kept(r)
    PROVE  LiveKept /\ \A g \in Floor : ShownKept(g) /\ WorkingKept(g)
<1>1. LiveKept BY DEF LiveKept, Live
<1>2. ASSUME NEW g \in Floor PROVE ShownKept(g) /\ WorkingKept(g)
  <2>1. WorkingKept(g) BY WorkingStays
  <2>2. CASE Live(g) BY <2>1, <2>2, ShownStays DEF Live
  <2>3. CASE ~Live(g)
    BY <2>1, <2>3
       DEF Consistent, PointersAgree, PointersNameTheirRow, ShownKept, Shown, Edition,
           HasPublished
  <2> QED BY <2>2, <2>3
<1> QED BY <1>1, <1>2

-----------------------------------------------------------------------------
(***************************************************************************)
(* The steps of the slots.                                                 *)
(***************************************************************************)

\* The slots, and those of the next state, are functions of the floors.
LEMMA SlotFunctions ==
    /\ Shown = [g \in Floor |-> Shown[g]] /\ Shown' = [g \in Floor |-> Shown'[g]]
    /\ Working = [g \in Floor |-> Working[g]] /\ Working' = [g \in Floor |-> Working'[g]]
    /\ Edition = [g \in Floor |-> Edition[g]] /\ Edition' = [g \in Floor |-> Edition'[g]]
    /\ Open = {g \in Floor : Live(g)} /\ Open' = {g \in Floor : Live(g)'}
BY DEF Shown, Working, Edition, Open

\* One floor's working copy changes, and nothing else.
LEMMA WorkingStep ==
    ASSUME LiveKept, \A g \in Floor : ShownKept(g),
           NEW f \in Floor, \A g \in Floor \ {f} : WorkingKept(g),
           NEW layout, Working'[f] = layout
    PROVE  /\ Working' = [Working EXCEPT ![f] = layout]
           /\ UNCHANGED <<Open, Shown, Edition>>
<1>1. Open' = Open BY SlotFunctions DEF LiveKept
<1>2. Shown' = Shown /\ Edition' = Edition BY SlotFunctions DEF ShownKept
<1>3. Working' = [Working EXCEPT ![f] = layout]
  BY SlotFunctions DEF WorkingKept
<1> QED BY <1>1, <1>2, <1>3

\* A draft that is written is a working copy that is written.
LEMMA WriteStep ==
    ASSUME NEW f \in Floor, Live(f), NEW layout \in Layout,
           LiveKept, \A g \in Floor : ShownKept(g), Working'[f] = layout,
           \A g \in Floor \ {f} : WorkingKept(g)
    PROVE  Slots!Next
<1>1. f \in Open BY DEF Open
<1>2. Slots!Write(f, layout) BY <1>1, WorkingStep DEF Slots!Write
<1> QED BY <1>2 DEF Slots!Next

\* No slot changes: a stutter.
LEMMA StutterStep ==
    ASSUME LiveKept, \A g \in Floor : ShownKept(g) /\ WorkingKept(g)
    PROVE  UNCHANGED Slots!vars
BY SlotFunctions DEF LiveKept, ShownKept, WorkingKept, Slots!vars

\* Publishing issues the working copy.
LEMMA IssueStep ==
    ASSUME Consistent, VersionsIdentify, NEW f \in Floor, Publish(f),
           \A r \in Revision : Lives(r)
    PROVE  Slots!Next
<1>1. f \in Open BY DEF Open, Publish
<1>2. Working[f] # NoLayout BY PublishSlot, LayoutAssumption
<1>3. Open' = Open BY PublishSlot, SlotFunctions DEF LiveKept
<1>4. Shown' = [Shown EXCEPT ![f] = Working[f]]
  BY PublishSlot, SlotFunctions DEF ShownKept
<1>5. Working' = [Working EXCEPT ![f] = NoLayout]
  BY PublishSlot, SlotFunctions DEF WorkingKept
<1>6. Edition' = [Edition EXCEPT ![f] = Edition[f] + 1]
  BY PublishSlot, SlotFunctions DEF ShownKept
<1>7. Slots!Issue(f) BY <1>1, <1>2, <1>3, <1>4, <1>5, <1>6 DEF Slots!Issue
<1> QED BY <1>7 DEF Slots!Next

\* A floor that is deleted is closed.
LEMMA CloseStep ==
    ASSUME Consistent, NEW f \in Floor, DeleteFloor(f)
    PROVE  Slots!Next
<1>1. f \in Open BY DEF Open, DeleteFloor
<1>2. Open' = Open \ {f} BY DeleteSlot, SlotFunctions
<1>3. Shown' = [Shown EXCEPT ![f] = NoLayout]
  BY DeleteSlot, SlotFunctions DEF ShownKept
<1>4. Working' = [Working EXCEPT ![f] = NoLayout]
  BY DeleteSlot, SlotFunctions DEF WorkingKept
<1>5. Edition' = [Edition EXCEPT ![f] = 0]
  BY DeleteSlot, SlotFunctions DEF ShownKept
<1>6. Slots!CloseFloor(f) BY <1>1, <1>2, <1>3, <1>4, <1>5 DEF Slots!CloseFloor
<1> QED BY <1>6 DEF Slots!Next

\* A floor that is created is opened, with nothing in its slots.
LEMMA CreateSlot ==
    ASSUME Consistent, NEW f \in Floor, CreateFloor(f)
    PROVE  /\ \A g \in Floor : ShownKept(g) /\ WorkingKept(g)
           /\ ~Live(f) /\ Live(f)' /\ \A g \in Floor \ {f} : Live(g)' <=> Live(g)
<1>1. /\ revisions' = revisions /\ floors'[f] = NoMap("live") /\ ~Live(f)
      /\ \A g \in Floor : g # f => floors'[g] = floors[g]
  BY DEF CreateFloor, Live, Consistent, TypeOK
<1>2. ~HasPublished(f) /\ ~HasDraft(f)
  BY <1>1 DEF Consistent, PointersAgree, PointersNameTheirRow
<1> QED
  BY <1>1, <1>2
     DEF NoMap, Live, ShownKept, WorkingKept, Shown, Working, Edition, HasPublished, HasDraft

\* So it is a step of the slots.
LEMMA OpenStep ==
    ASSUME Consistent, NEW f \in Floor, CreateFloor(f)
    PROVE  Slots!Next
<1>1. f \notin Open BY CreateSlot DEF Open
<1>2. Open' = Open \cup {f} BY CreateSlot, SlotFunctions
<1>3. UNCHANGED <<Shown, Working, Edition>>
  BY CreateSlot, SlotFunctions DEF ShownKept, WorkingKept
<1>4. Slots!OpenFloor(f) BY <1>1, <1>2, <1>3 DEF Slots!OpenFloor
<1> QED BY <1>4 DEF Slots!Next

\* Rows that are not drafts: what deletes or renders them touches no slot.
LEMMA ArchiveSlots ==
    ASSUME Consistent, \A r \in Revision : Lives(r),
           \/ \E rows \in SUBSET Revision : Cleanup(rows)
           \/ \E r \in Revision : CacheSemanticSVG(r)
           \/ \E f \in Floor, source \in {"draft", "published"} : SyncDesks(f, source)
           \/ UNCHANGED vars
    PROVE  LiveKept /\ \A g \in Floor : ShownKept(g) /\ WorkingKept(g)
<1>1. floors' = floors
  BY DEF Cleanup, CacheSemanticSVG, SyncDesks, vars
<1>2. \A r \in Revision : revisions[r].status = "draft" => Kept(r)
  BY DEF Cleanup, Without, CacheSemanticSVG, SyncDesks, vars, Kept, Consistent, TypeOK
<1> QED BY <1>1, <1>2, OtherSlots

\* Every step of the store is one of the slots or a stutter.
LEMMA SlotStep ==
    ASSUME Consistent, VersionsIdentify, [Next]_vars
    PROVE  [Slots!Next]_(Slots!vars)
<1>0. \A r \in Revision : Lives(r) BY RowLife
<1>1. ASSUME NEW f \in Floor, SaveDraft(f) PROVE Slots!Next
  <2>1. Live(f) BY <1>1 DEF SaveDraft, UpdateDraft, SaveNewDraft
  <2>2. ASSUME NEW version \in Version, NEW layout \in Layout, UpdateDraft(f, version, layout)
        PROVE  Slots!Next
    BY <1>0, <2>1, <2>2, OverwriteSlot, WriteStep DEF UpdateDraft
  <2>3. ASSUME NEW version \in Version, NEW layout \in Layout, NEW r \in Revision,
               SaveNewDraft(f, r, version, layout)
        PROVE  Slots!Next
    BY <1>0, <2>1, <2>3, InsertSlot, WriteStep DEF SaveNewDraft
  <2> QED BY <1>1, <2>2, <2>3 DEF SaveDraft
<1>2. ASSUME NEW f \in Floor, Restore(f) PROVE Slots!Next
  <2>1. Live(f) BY <1>2 DEF Restore, RestoreOverDraft, RestoreToNewDraft
  <2>2. ASSUME NEW s \in Revision, RestoreOverDraft(f, s) PROVE Slots!Next
    <3>1. revisions[s].layout \in Layout BY <2>2, RowInUse DEF RestoreOverDraft
    <3> QED BY <1>0, <2>1, <2>2, <3>1, OverwriteSlot, WriteStep DEF RestoreOverDraft
  <2>3. ASSUME NEW s \in Revision, NEW r \in Revision, RestoreToNewDraft(f, s, r)
        PROVE  Slots!Next
    <3>1. revisions[s].layout \in Layout BY <2>3, RowInUse DEF RestoreToNewDraft
    <3> QED BY <1>0, <2>1, <2>3, <3>1, InsertSlot, WriteStep DEF RestoreToNewDraft
  <2> QED BY <1>2, <2>2, <2>3 DEF Restore
<1>3. ASSUME NEW f \in Floor, DiscardDraft(f) PROVE Slots!Next
  <2>1. f \in Open BY <1>3 DEF DiscardDraft, Open
  <2>2. Slots!Drop(f) BY <1>0, <1>3, <2>1, DiscardSlot, WorkingStep DEF Slots!Drop
  <2> QED BY <2>2 DEF Slots!Next
<1>4. ASSUME NEW f \in Floor, CreateFloor(f) PROVE Slots!Next BY <1>4, OpenStep
<1>5. ASSUME NEW f \in Floor, DeleteFloor(f) PROVE Slots!Next BY <1>5, CloseStep
<1>6. ASSUME NEW f \in Floor, Publish(f) PROVE Slots!Next BY <1>0, <1>6, IssueStep
<1>7. ASSUME \/ \E rows \in SUBSET Revision : Cleanup(rows)
             \/ \E r \in Revision : CacheSemanticSVG(r)
             \/ \E f \in Floor, source \in {"draft", "published"} : SyncDesks(f, source)
             \/ UNCHANGED vars
      PROVE  UNCHANGED Slots!vars
  BY <1>0, <1>7, ArchiveSlots, StutterStep
<1> QED BY <1>1, <1>2, <1>3, <1>4, <1>5, <1>6, <1>7 DEF Next, Write

\* A database the server starts on has nothing in work, and shows what is of an
\* earlier release.
LEMMA SlotInit == Init => Slots!Init
<1> SUFFICES ASSUME Init PROVE Slots!Init
  OBVIOUS
<1>1. \A f \in Floor : /\ floors[f].draft = NoRevision
                       /\ floors[f].status = "live" \/ ~HasPublished(f)
  BY DEF Init, NoMap, HasPublished
<1>2. ASSUME NEW f \in Floor, HasPublished(f)
      PROVE  revisions[floors[f].published] \in LegacyMap
  <2>1. floors[f].published \in Revision BY <1>2 DEF Init, NoMap, HasPublished
  <2>2. revisions[floors[f].published].floor = f BY <1>2 DEF Init
  <2> QED BY <2>1, <2>2, LayoutAssumption DEF Init, NoRow
<1>3. \A f \in Floor : HasPublished(f) =>
         /\ Shown[f] \in Layout /\ Shown[f] # NoLayout
         /\ Edition[f] \in LegacyVersion /\ Edition[f] # 0
  BY <1>2, LayoutAssumption DEF LegacyMap, Shown, Edition
<1>4. \A f \in Floor : ~HasPublished(f) => Shown[f] = NoLayout /\ Edition[f] = 0
  BY DEF Shown, Edition
<1>5. Working = [f \in Floor |-> NoLayout] BY <1>1 DEF Working, HasDraft
<1>6. Shown \in [Floor -> Layout \cup {NoLayout}] BY <1>3, <1>4, SlotFunctions
<1>7. Edition \in [Floor -> LegacyVersion \cup {0}] BY <1>3, <1>4, SlotFunctions
<1>8. \A f \in Floor : /\ Shown[f] = NoLayout <=> Edition[f] = 0
                       /\ f \notin Open => Shown[f] = NoLayout
  BY <1>1, <1>3, <1>4 DEF Open, Live
<1>9. Open \in SUBSET Floor BY DEF Open
<1> QED BY <1>5, <1>6, <1>7, <1>8, <1>9 DEF Slots!Init

\* The tables, with their pointers, statuses and cascades, implement the slots:
\* readers see one map per floor, which only publishing replaces, by the working
\* copy, one edition on.
THEOREM StoreImplementsSlots == Spec => ImplementsSlots
<1>1. Consistent /\ VersionsIdentify /\ [Next]_vars => [Slots!Next]_(Slots!vars)
  BY SlotStep
<1> QED
  BY <1>1, SlotInit, ConsistentAlways, VersionsAlwaysIdentify, PTL
     DEF Spec, ImplementsSlots, Slots!Spec

-----------------------------------------------------------------------------
\* Desk rows made from the published map are made from what is shown.
LEMMA DesksOfShown ==
    DesksMatchPublished <=>
        \A f \in Floor : desks[f].source = "published" =>
            HasPublished(f) /\ desks[f].layout = Shown[f]
BY DEF DesksMatchPublished, Shown

\* The desk rows of a floor and what it shows change together.
LEMMA DesksStep ==
    ASSUME Consistent, VersionsIdentify, DesksMatchPublished, [Next]_vars, NEW g \in Floor,
           desks'[g].source = "published"
    PROVE  HasPublished(g)' /\ desks'[g].layout = Shown'[g]
<1> DEFINE Goal == HasPublished(g)' /\ desks'[g].layout = Shown'[g]
<1>0. \A r \in Revision : Lives(r) BY RowLife
<1>1. ASSUME desks'[g] = desks[g], ShownKept(g) PROVE Goal
  BY <1>1, DesksOfShown DEF ShownKept
<1>2. ASSUME NEW f \in Floor, CreateFloor(f) PROVE Goal
  BY <1>1, <1>2, CreateSlot DEF CreateFloor
<1>3. ASSUME NEW f \in Floor, DeleteFloor(f) PROVE Goal
  <2>1. f # g BY <1>3 DEF DeleteFloor, NeverSynced, Consistent, TypeOK
  <2>2. desks'[g] = desks[g] BY <1>3, <2>1 DEF DeleteFloor, Consistent, TypeOK
  <2> QED BY <1>1, <1>3, <2>1, <2>2, DeleteSlot
<1>4. ASSUME NEW f \in Floor, SaveDraft(f) PROVE Goal
  <2>1. desks' = desks BY <1>4 DEF SaveDraft, UpdateDraft, SaveNewDraft
  <2>2. ShownKept(g)
    BY <1>0, <1>4, OverwriteSlot, InsertSlot DEF SaveDraft, UpdateDraft, SaveNewDraft
  <2> QED BY <1>1, <2>1, <2>2
<1>5. ASSUME NEW f \in Floor, Restore(f) PROVE Goal
  <2>1. desks' = desks BY <1>5 DEF Restore, RestoreOverDraft, RestoreToNewDraft
  <2>2. ShownKept(g)
    BY <1>0, <1>5, RowInUse, OverwriteSlot, InsertSlot
       DEF Restore, RestoreOverDraft, RestoreToNewDraft
  <2> QED BY <1>1, <2>1, <2>2
<1>6. ASSUME NEW f \in Floor, Publish(f) PROVE Goal
  <2>1. CASE f = g
    <3>1. desks'[f].layout = revisions[floors[f].draft].layout
      BY <1>6 DEF Publish, Consistent, TypeOK
    <3>2. Working[f] = revisions[floors[f].draft].layout
      BY <1>6 DEF Publish, Working
    <3> QED BY <1>0, <1>6, <2>1, <3>1, <3>2, PublishSlot
  <2>2. CASE f # g
    <3>1. desks'[g] = desks[g] BY <1>6, <2>2 DEF Publish, Consistent, TypeOK
    <3> QED BY <1>0, <1>1, <1>6, <2>2, <3>1, PublishSlot
  <2> QED BY <2>1, <2>2
<1>7. ASSUME NEW f \in Floor, DiscardDraft(f) PROVE Goal
  BY <1>0, <1>1, <1>7, DiscardSlot DEF DiscardDraft
<1>8. ASSUME NEW f \in Floor, NEW source \in {"draft", "published"}, SyncDesks(f, source)
      PROVE  Goal
  <2>1. ShownKept(g) BY <1>0, <1>8, ArchiveSlots
  <2>2. CASE f # g
    <3>1. desks'[g] = desks[g] BY <1>8, <2>2 DEF SyncDesks, Consistent, TypeOK
    <3> QED BY <1>1, <2>1, <3>1
  <2>3. CASE f = g
    <3>1. /\ floors[f].published # NoRevision
          /\ desks'[f].layout = revisions[floors[f].published].layout
      BY <1>8, <2>3 DEF SyncDesks, Consistent, TypeOK
    <3>2. HasPublished(f) /\ Shown[f] = revisions[floors[f].published].layout
      BY <3>1 DEF HasPublished, Shown
    <3> QED BY <2>1, <2>3, <3>1, <3>2 DEF ShownKept
  <2> QED BY <2>2, <2>3
<1>9. ASSUME \/ \E rows \in SUBSET Revision : Cleanup(rows)
             \/ \E r \in Revision : CacheSemanticSVG(r)
             \/ UNCHANGED vars
      PROVE  Goal
  <2>1. ShownKept(g) BY <1>0, <1>9, ArchiveSlots
  <2>2. desks' = desks BY <1>9 DEF Cleanup, CacheSemanticSVG, vars
  <2> QED BY <1>1, <2>1, <2>2
<1> QED
  BY <1>2, <1>3, <1>4, <1>5, <1>6, <1>7, <1>8, <1>9 DEF Next, Write

\* Unless they were made from a draft since, the desk rows of a floor are those
\* of the map it shows.
THEOREM DesksAlwaysMatch == Spec => []DesksMatchPublished
<1>1. Init => DesksMatchPublished BY DEF Init, NeverSynced, DesksMatchPublished
<1>2. Consistent /\ VersionsIdentify /\ DesksMatchPublished /\ [Next]_vars
        => DesksMatchPublished'
  <2> SUFFICES ASSUME Consistent, VersionsIdentify, DesksMatchPublished, [Next]_vars
               PROVE  DesksMatchPublished'
    OBVIOUS
  <2>1. DesksMatchPublished' <=>
          \A f \in Floor : desks'[f].source = "published" =>
              HasPublished(f)' /\ desks'[f].layout = Shown'[f]
    BY DEF DesksMatchPublished, Shown
  <2> QED BY <2>1, DesksStep
<1> QED BY <1>1, <1>2, ConsistentAlways, VersionsAlwaysIdentify, PTL DEF Spec
=============================================================================
