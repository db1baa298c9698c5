------------------------- MODULE LayoutReadsProofs -------------------------
(***************************************************************************)
(* Proofs about LayoutReads, for every number of requests and whatever the  *)
(* writers of FloorLayout do between their statements.                     *)
(***************************************************************************)
EXTENDS LayoutReads, FloorLayoutProofs

-----------------------------------------------------------------------------
(***************************************************************************)
(* What one step does to the pointers of a floor and to a row.             *)
(***************************************************************************)

\* A floor keeps its published map, publishes its draft or goes.
LEMMA PointersMove ==
    ASSUME Consistent, [Next]_vars, NEW f \in Floor
    PROVE  \/ /\ floors'[f].published = floors[f].published
              /\ HasDraft(f) => floors'[f].draft \in {floors[f].draft, NoRevision}
           \/ /\ HasDraft(f)
              /\ floors'[f].published = floors[f].draft
              /\ floors'[f].draft = NoRevision
           \/ floors'[f] = NoMap("deleted")
<1> DEFINE Goal == \/ /\ floors'[f].published = floors[f].published
                      /\ HasDraft(f) => floors'[f].draft \in {floors[f].draft, NoRevision}
                   \/ /\ HasDraft(f)
                      /\ floors'[f].published = floors[f].draft
                      /\ floors'[f].draft = NoRevision
                   \/ floors'[f] = NoMap("deleted")
<1>1. floors \in [Floor -> FloorRow]
  BY DEF Consistent, TypeOK
<1>2. CASE UNCHANGED floors
  BY <1>2
<1>3. ASSUME NEW g \in Floor, CreateFloor(g) PROVE Goal
  <2>1. floors' = [floors EXCEPT ![g] = NoMap("live")] /\ floors[g].status = "absent"
    BY <1>3 DEF CreateFloor
  <2>2. floors[g].published = NoRevision /\ ~HasDraft(g)
    BY <2>1 DEF Consistent, PointersAgree, PointersNameTheirRow, Live, HasPublished
  <2>3. CASE f = g
    BY <1>1, <2>1, <2>2, <2>3 DEF NoMap
  <2>4. CASE f # g
    BY <1>1, <2>1, <2>4
  <2>5. QED
    BY <2>3, <2>4
<1>4. ASSUME NEW g \in Floor, DeleteFloor(g) PROVE Goal
  BY <1>1, <1>4 DEF DeleteFloor
<1>5. ASSUME NEW g \in Floor, NEW r \in Revision, NEW layout, InsertDraft(g, r, layout),
             ~HasDraft(g)
      PROVE  Goal
  <2>1. floors' = [floors EXCEPT ![g].draft = r]
    BY <1>5 DEF InsertDraft
  <2>2. CASE f = g
    BY <1>1, <1>5, <2>1, <2>2 DEF FloorRow
  <2>3. CASE f # g
    BY <1>1, <2>1, <2>3
  <2>4. QED
    BY <2>2, <2>3
<1>6. ASSUME NEW g \in Floor, Publish(g) PROVE Goal
  <2>1. /\ \A e \in Floor : e # g => floors'[e] = floors[e]
        /\ floors'[g].published = floors[g].draft
        /\ floors'[g].draft = NoRevision
    BY <1>6, PublishEffect
  <2>. HasDraft(g)
    BY <1>6 DEF Publish
  <2>2. CASE f = g
    BY <2>1, <2>2
  <2>3. CASE f # g
    BY <2>1, <2>3
  <2>4. QED
    BY <2>2, <2>3
<1>7. ASSUME NEW g \in Floor, DiscardDraft(g) PROVE Goal
  <2>1. /\ floors'[g] = [floors[g] EXCEPT !.draft = NoRevision]
        /\ \A e \in Floor : e # g => floors'[e] = floors[e]
    BY <1>7, DiscardEffect
  <2>2. CASE f = g
    BY <1>1, <2>1, <2>2 DEF FloorRow
  <2>3. CASE f # g
    BY <2>1, <2>3
  <2>4. QED
    BY <2>2, <2>3
<1>8. ASSUME NEW g \in Floor, SaveDraft(g) PROVE Goal
  <2>1. ASSUME NEW version, NEW layout, UpdateDraft(g, version, layout) PROVE Goal
    BY <1>2, <2>1 DEF UpdateDraft
  <2>2. ASSUME NEW version, NEW layout, NEW r \in Revision,
               SaveNewDraft(g, r, version, layout)
        PROVE  Goal
    BY <1>5, <2>2 DEF SaveNewDraft
  <2>3. QED
    BY <1>8, <2>1, <2>2 DEF SaveDraft
<1>9. ASSUME NEW g \in Floor, Restore(g) PROVE Goal
  <2>1. ASSUME NEW s, RestoreOverDraft(g, s) PROVE Goal
    BY <1>2, <2>1 DEF RestoreOverDraft
  <2>2. ASSUME NEW s, NEW r \in Revision, RestoreToNewDraft(g, s, r) PROVE Goal
    BY <1>5, <2>2 DEF RestoreToNewDraft
  <2>3. QED
    BY <1>9, <2>1, <2>2 DEF Restore
<1>10. ASSUME NEW g \in Floor, NEW source, SyncDesks(g, source) PROVE Goal
  BY <1>2, <1>10 DEF SyncDesks
<1>11. ASSUME NEW rows, Cleanup(rows) PROVE Goal
  BY <1>2, <1>11 DEF Cleanup
<1>12. ASSUME NEW r \in Revision, CacheSemanticSVG(r) PROVE Goal
  BY <1>2, <1>12 DEF CacheSemanticSVG
<1>13. CASE UNCHANGED vars
  BY <1>2, <1>13 DEF vars
<1>14. ASSUME Write PROVE Goal
  BY <1>3, <1>4, <1>6, <1>7, <1>8, <1>9, <1>10, <1>11, <1>14 DEF Write
<1>15. CASE Next
  BY <1>12, <1>14, <1>15 DEF Next
<1>16. QED
  BY <1>13, <1>15 DEF vars

\* A row that was published keeps its document or is removed; a draft stays one,
\* is published as it is or is removed; a removed row stays removed.
LEMMA RowFate ==
    ASSUME Consistent, NEW r \in Revision, Lives(r)
    PROVE  /\ revisions[r].status = "deleted" => revisions'[r].status = "deleted"
           /\ revisions[r].status \in {"published", "archived"} =>
                \/ /\ revisions'[r].status \in {"published", "archived"}
                   /\ revisions'[r].layout = revisions[r].layout
                   /\ revisions'[r].floor = revisions[r].floor
                \/ /\ revisions'[r].status = "deleted"
                   /\ \/ revisions[r].status = "archived"
                      \/ floors'[revisions[r].floor].status = "deleted"
           /\ revisions[r].status = "draft" =>
                \/ revisions'[r].status = "deleted"
                \/ /\ revisions'[r].status = "draft"
                   /\ revisions'[r].floor = revisions[r].floor
                \/ /\ revisions'[r].status = "published"
                   /\ revisions'[r].layout = revisions[r].layout
                   /\ revisions'[r].floor = revisions[r].floor
<1>1. revisions[r] \in RevisionRow
  BY DEF Consistent, TypeOK
<1>2. CASE Kept(r)
  BY <1>1, <1>2 DEF Kept, RevisionRow
<1>3. CASE Removed(r)
  BY <1>1, <1>3 DEF Removed, NoRow, RevisionRow
<1>4. CASE Inserted(r)
  BY <1>4 DEF Inserted
<1>5. CASE Rewritten(r)
  BY <1>1, <1>5 DEF Rewritten, OverwrittenRow, RevisionRow
<1>6. CASE Issued(r)
  BY <1>1, <1>6, IssueFields DEF Issued
<1>7. CASE Archived(r)
  BY <1>1, <1>7, ArchivedRowFields DEF Archived
<1>8. CASE Rendered(r)
  BY <1>1, <1>8 DEF Rendered, RevisionRow
<1>9. QED
  BY <1>2, <1>3, <1>4, <1>5, <1>6, <1>7, <1>8 DEF Lives

\* The rendering of a row that was published stays, or is made by a reader.
LEMMA RenderingFate ==
    ASSUME Consistent, NEW r \in Revision, Lives(r),
           revisions[r].status \in {"published", "archived"},
           revisions'[r].status # "deleted"
    PROVE  revisions'[r].svg \in {revisions[r].svg, Drawn(revisions[r].layout, Own)}
<1>1. revisions[r] \in RevisionRow
  BY DEF Consistent, TypeOK
<1>2. CASE Kept(r)
  BY <1>2 DEF Kept
<1>3. CASE Removed(r)
  BY <1>3 DEF Removed, NoRow
<1>4. CASE Archived(r)
  BY <1>1, <1>4, ArchivedRowFields DEF Archived
<1>5. CASE Rendered(r)
  BY <1>1, <1>5 DEF Rendered, RevisionRow
<1>6. QED
  BY <1>2, <1>3, <1>4, <1>5 DEF Lives, Inserted, Rewritten, Issued

\* What an instantaneous answer is made of, after a step.
LEMMA RightAnswerAfter ==
    ASSUME Consistent', NEW f \in Floor, NEW op
    PROVE  RightAnswer(op, f, floors', revisions') \in Doc \cup {NoDoc}
<1>1. ASSUME NEW r \in Revision \cup {NoRevision},
             r # NoRevision => revisions'[r].status \in {"draft", "published"}
      PROVE  DocAt(revisions', r) \in Doc \cup {NoDoc}
  BY <1>1 DEF Consistent, RowsBelong, DocAt, Doc
<1>2. floors'[f].draft # NoRevision => /\ floors'[f].draft \in Revision
                                       /\ revisions'[floors'[f].draft].status = "draft"
  BY DEF Consistent, TypeOK, FloorRow, PointersAgree, PointersNameTheirRow, HasDraft
<1>3. /\ floors'[f].published \in Revision \cup {NoRevision}
      /\ floors'[f].published # NoRevision =>
            revisions'[floors'[f].published].status = "published"
  BY DEF Consistent, TypeOK, FloorRow, PointersAgree, PointersNameTheirRow, HasPublished
<1>4. QED
  BY <1>1, <1>2, <1>3 DEF RightAnswer

\* What an instantaneous answer is made of.
LEMMA RightAnswerIsDoc ==
    ASSUME Consistent, NEW f \in Floor, NEW op
    PROVE  RightAnswer(op, f, floors, revisions) \in Doc \cup {NoDoc}
<1>1. ASSUME NEW r \in Revision \cup {NoRevision},
             r # NoRevision => revisions[r].status \in {"draft", "published"}
      PROVE  DocAt(revisions, r) \in Doc \cup {NoDoc}
  BY <1>1 DEF Consistent, RowsBelong, DocAt, Doc
<1>2. floors[f].draft # NoRevision => /\ floors[f].draft \in Revision
                                      /\ revisions[floors[f].draft].status = "draft"
  BY DEF Consistent, TypeOK, FloorRow, PointersAgree, PointersNameTheirRow, HasDraft
<1>3. /\ floors[f].published \in Revision \cup {NoRevision}
      /\ floors[f].published # NoRevision =>
            revisions[floors[f].published].status = "published"
  BY DEF Consistent, TypeOK, FloorRow, PointersAgree, PointersNameTheirRow, HasPublished
<1>4. QED
  BY <1>1, <1>2, <1>3 DEF RightAnswer

-----------------------------------------------------------------------------
(***************************************************************************)
(* A request in progress while the tables change.                          *)
(***************************************************************************)

\* A floor that is not live after a step shows nothing, and whoever holds pointers
\* to it finds no map.
LEMMA GoneAfter ==
    ASSUME Consistent', NEW q \in Request, reads'[q] \in Read, PointersKnown(q)',
           floors'[reads'[q].floor].status # "live"
    PROVE  /\ PublishedAnswer(q)' = NoDoc
           /\ \A op : RightAnswer(op, reads'[q].floor, floors', revisions') = NoDoc
<1>1. PICK f \in Floor : f = reads'[q].floor
  BY DEF PointersKnown
<1>2. floors'[f].draft = NoRevision /\ floors'[f].published = NoRevision
  BY <1>1 DEF Consistent, PointersAgree, PointersNameTheirRow, Live, HasDraft, HasPublished
<1>3. \A op : RightAnswer(op, f, floors', revisions') = NoDoc
  BY <1>2 DEF RightAnswer, DocAt
<1>4. PublishedAnswer(q)' = NoDoc
  <2>1. SUFFICES ASSUME reads'[q].published \in Revision
                 PROVE  revisions'[reads'[q].published].status = "deleted"
    BY DEF PublishedAnswer, Read
  <2>2. PICK p \in Revision : p = reads'[q].published
    BY <2>1
  <2>3. revisions'[p].status # "free"
    BY <2>2 DEF PointersKnown
  <2>4. revisions'[p].status # "deleted" => revisions'[p].floor = f
    BY <1>1, <2>2 DEF PointersKnown
  <2>5. QED
    BY <1>1, <2>2, <2>3, <2>4 DEF Consistent, RowsBelong, Live
<1>5. QED
  BY <1>1, <1>3, <1>4

\* After a step that leaves the floor with the published pointer a request has,
\* following it finds the floor's map.
LEMMA PublishedAfter ==
    ASSUME Consistent', NEW q \in Request, PointersKnown(q)',
           reads'[q].published = floors'[reads'[q].floor].published
    PROVE  PublishedAnswer(q)' = DocAt(revisions', floors'[reads'[q].floor].published)
<1>1. PICK f \in Floor : f = reads'[q].floor
  BY DEF PointersKnown
<1>2. floors'[f].published # NoRevision =>
         revisions'[floors'[f].published].status = "published"
  BY DEF Consistent, PointersAgree, PointersNameTheirRow, HasPublished
<1>3. QED
  BY <1>1, <1>2 DEF PublishedAnswer, DocAt

\* The step takes request q no further, but may add right answers to its histories,
\* and removes no archived row it may still ask for.
Watched(q) ==
    /\ [Next]_vars
    /\ \E C, S : /\ reads[q].current \subseteq C /\ reads[q].shown \subseteq S
                 /\ reads'[q] = [reads[q] EXCEPT !.current = C, !.shown = S]
                 /\ RightAnswer(reads[q].op, reads[q].floor, floors', revisions') \in C
                 /\ RightAnswer("show", reads[q].floor, floors', revisions') \in S
    /\ floors'[reads[q].floor].status = "live" =>
          \A r \in {reads[q].draft, reads[q].published} \cap Revision :
             revisions[r].status = "archived" => revisions'[r].status = "archived"

\* What stays of a request that is watched.
LEMMA WatchedFields ==
    ASSUME NEW q \in Request, reads[q] \in Read, Watched(q)
    PROVE  /\ reads'[q].op = reads[q].op /\ reads'[q].step = reads[q].step
           /\ reads'[q].floor = reads[q].floor /\ reads'[q].layout = reads[q].layout
           /\ reads'[q].draft = reads[q].draft /\ reads'[q].published = reads[q].published
           /\ reads'[q].answer = reads[q].answer /\ reads'[q].failed = reads[q].failed
           /\ reads[q].current \subseteq reads'[q].current
           /\ reads[q].shown \subseteq reads'[q].shown
           /\ RightAnswer(reads[q].op, reads[q].floor, floors', revisions')
                 \in reads'[q].current
           /\ RightAnswer("show", reads[q].floor, floors', revisions') \in reads'[q].shown
BY DEF Watched, Read

\* The rows it has pointers to.
LEMMA WatchedRow ==
    ASSUME Consistent, NEW q \in Request, reads[q] \in Read, Watched(q),
           PointersKnown(q),
           NEW r \in {reads[q].draft, reads[q].published} \cap Revision
    PROVE  /\ revisions'[r].status # "free"
           /\ revisions'[r].status # "deleted" => revisions'[r].floor = reads[q].floor
           /\ revisions[r].status = "deleted" => revisions'[r].status = "deleted"
           /\ revisions[r].status \in {"published", "archived"} =>
                 \/ /\ revisions'[r].status \in {"published", "archived"}
                    /\ revisions'[r].layout = revisions[r].layout
                 \/ /\ revisions'[r].status = "deleted"
                    /\ floors'[reads[q].floor].status # "live"
           /\ revisions[r].status = "draft" =>
                 \/ revisions'[r].status \in {"deleted", "draft"}
                 \/ /\ revisions'[r].status = "published"
                    /\ revisions'[r].layout = revisions[r].layout
<1>1. Lives(r)
  BY RowLife DEF Watched
<1>2. /\ revisions[r].status # "free"
      /\ revisions[r].status # "deleted" => revisions[r].floor = reads[q].floor
  BY DEF PointersKnown
<1>3. revisions[r].status \in {"draft", "published", "archived", "deleted"}
  BY <1>2 DEF Consistent, TypeOK, RevisionRow
<1>4. floors'[reads[q].floor].status = "live" =>
         (revisions[r].status = "archived" => revisions'[r].status = "archived")
  BY DEF Watched
<1>5. CASE revisions[r].status = "draft"
  BY <1>1, <1>2, <1>5, RowFate
<1>6. CASE revisions[r].status \in {"published", "archived"}
  BY <1>1, <1>2, <1>4, <1>6, RowFate
<1>7. CASE revisions[r].status = "deleted"
  BY <1>1, <1>7, RowFate
<1>8. QED
  BY <1>3, <1>5, <1>6, <1>7

\* The pointers keep naming rows of the floor.
LEMMA WatchedPointers ==
    ASSUME Consistent, NEW q \in Request, reads[q] \in Read, Watched(q),
           PointersKnown(q)
    PROVE  PointersKnown(q)'
<1>1. /\ reads'[q].floor = reads[q].floor
      /\ reads'[q].draft = reads[q].draft /\ reads'[q].published = reads[q].published
  BY WatchedFields
<1>2. \A r \in {reads[q].draft, reads[q].published} \cap Revision :
          /\ revisions'[r].status # "free"
          /\ revisions'[r].status # "deleted" => revisions'[r].floor = reads[q].floor
  BY WatchedRow
<1>3. reads[q].published \in Revision => revisions'[reads[q].published].status # "draft"
  <2>1. SUFFICES ASSUME reads[q].published \in Revision
                 PROVE  revisions'[reads[q].published].status # "draft"
    OBVIOUS
  <2>2. /\ revisions[reads[q].published].status \notin {"draft", "free"}
        /\ revisions[reads[q].published] \in RevisionRow
    BY <2>1 DEF PointersKnown, Consistent, TypeOK
  <2>3. QED
    BY <2>1, <2>2, WatchedRow DEF RevisionRow
<1>4. QED
  BY <1>1, <1>2, <1>3 DEF PointersKnown

\* What following the published pointer would answer stays the same, until the
\* floor is gone and nothing is right any more.
LEMMA WatchedPublished ==
    ASSUME Consistent, Consistent', NEW q \in Request, reads[q] \in Read, reads'[q] \in Read,
           Watched(q), PointersKnown(q)
    PROVE  \/ PublishedAnswer(q)' = PublishedAnswer(q)
           \/ /\ PublishedAnswer(q)' = NoDoc
              /\ \A op : RightAnswer(op, reads[q].floor, floors', revisions') = NoDoc
<1>1. PICK p \in Revision \cup {NoRevision} : p = reads[q].published
  BY DEF Read
<1>2. reads'[q].floor = reads[q].floor /\ reads'[q].published = p
  BY <1>1, WatchedFields
<1>3. CASE p = NoRevision
  BY <1>1, <1>2, <1>3 DEF PublishedAnswer
<1>4. CASE floors'[reads[q].floor].status # "live"
  <2>1. PointersKnown(q)'
    BY WatchedPointers
  <2>2. QED
    BY <1>2, <1>4, <2>1, GoneAfter
<1>5. CASE p \in Revision /\ floors'[reads[q].floor].status = "live"
  <2>1. revisions[p].status \in {"published", "archived", "deleted"}
    BY <1>1, <1>5 DEF PointersKnown, Consistent, TypeOK, RevisionRow
  <2>2. CASE revisions[p].status = "deleted"
    <3>1. revisions'[p].status = "deleted"
      BY <1>1, <1>5, <2>2, WatchedRow
    <3>2. QED
      BY <1>1, <1>2, <2>2, <3>1 DEF PublishedAnswer
  <2>3. CASE revisions[p].status \in {"published", "archived"}
    <3>1. /\ revisions'[p].status \in {"published", "archived"}
          /\ revisions'[p].layout = revisions[p].layout
      BY <1>1, <1>5, <2>3, WatchedRow
    <3>2. QED
      BY <1>1, <1>2, <2>3, <3>1 DEF PublishedAnswer, DocAt
  <2>4. QED
    BY <2>1, <2>2, <2>3
<1>6. QED
  BY <1>3, <1>4, <1>5

\* So it stays right, whichever history it is compared with.
LEMMA WatchedHistories ==
    ASSUME Consistent, Consistent', NEW q \in Request, reads[q] \in Read, reads'[q] \in Read,
           Watched(q), PointersKnown(q)
    PROVE  /\ PublishedAnswer(q) \in reads[q].current =>
                 PublishedAnswer(q)' \in reads'[q].current
           /\ PublishedAnswer(q) \in reads[q].shown =>
                 PublishedAnswer(q)' \in reads'[q].shown
<1>1. /\ reads[q].current \subseteq reads'[q].current
      /\ reads[q].shown \subseteq reads'[q].shown
      /\ RightAnswer(reads[q].op, reads[q].floor, floors', revisions') \in reads'[q].current
      /\ RightAnswer("show", reads[q].floor, floors', revisions') \in reads'[q].shown
  BY WatchedFields
<1>2. CASE PublishedAnswer(q)' = PublishedAnswer(q)
  BY <1>1, <1>2
<1>3. CASE /\ PublishedAnswer(q)' = NoDoc
           /\ \A op : RightAnswer(op, reads[q].floor, floors', revisions') = NoDoc
  BY <1>1, <1>3
<1>4. QED
  BY <1>2, <1>3, WatchedPublished

\* A request on its way to the draft: the draft may be saved, published,
\* discarded or gone with its floor by the time it is read.
LEMMA WatchedDraft ==
    ASSUME Consistent, Consistent', NEW q \in Request, reads[q] \in Read, reads'[q] \in Read,
           Watched(q), PointersKnown(q), DraftAhead(q)
    PROVE  DraftAhead(q)'
<1>1. PICK f \in Floor : f = reads[q].floor
  BY DEF PointersKnown
<1>2. PICK d \in Revision : d = reads[q].draft
  BY DEF DraftAhead
<1>3. PICK p \in Revision \cup {NoRevision} : p = reads[q].published
  BY DEF Read
<1>4. /\ reads[q].op = "load" /\ reads'[q].op = "load"
      /\ reads'[q].floor = f /\ reads'[q].draft = d /\ reads'[q].published = p
      /\ reads[q].current \subseteq reads'[q].current
      /\ RightAnswer("load", f, floors', revisions') \in reads'[q].current
  BY <1>1, <1>2, <1>3, WatchedFields DEF DraftAhead
<1>5. PointersKnown(q)'
  BY WatchedPointers
<1>15. PublishedAnswer(q)' \in reads'[q].shown
  BY WatchedHistories DEF DraftAhead
<1>6. DEFINE Goal == /\ revisions'[d].status = "draft" => floors'[f].published = p
                     /\ IF revisions'[d].status = "deleted"
                        THEN PublishedAnswer(q)' \in reads'[q].current
                        ELSE DocAt(revisions', d) \in reads'[q].current
<1>7. SUFFICES Goal
  BY <1>4, <1>15 DEF DraftAhead
<1>8. revisions'[d].status = "draft" => floors'[f].draft = d
  <2>1. revisions'[d].status = "draft" => revisions'[d].floor = f
    BY <1>1, <1>2, WatchedRow
  <2>2. revisions'[d].status = "draft" =>
           \E g \in Floor : floors'[g].draft = d /\ revisions'[d].floor = g
    BY LayoutAssumption
    DEF Consistent, PointersAgree, PointersNameTheirRow, NoOrphanRevision, HasDraft
  <2>3. QED
    BY <2>1, <2>2
<1>9. CASE floors'[f].status # "live"
  <2>1. /\ PublishedAnswer(q)' = NoDoc
        /\ RightAnswer("load", f, floors', revisions') = NoDoc
    BY <1>4, <1>5, <1>9, GoneAfter
  <2>2. revisions'[d].status = "deleted"
    <3>1. /\ revisions'[d].status # "free"
          /\ revisions'[d].status # "deleted" => revisions'[d].floor = f
      BY <1>1, <1>2, WatchedRow
    <3>2. QED
      BY <1>9, <3>1 DEF Consistent, RowsBelong, Live
  <2>3. QED
    BY <1>4, <2>1, <2>2
<1>10. CASE floors'[f].status = "live" /\ revisions[d].status = "deleted"
  <2>1. revisions'[d].status = "deleted"
    BY <1>2, <1>10, WatchedRow
  <2>2. PublishedAnswer(q) \in reads[q].current
    BY <1>2, <1>10 DEF DraftAhead
  <2>3. PublishedAnswer(q)' \in reads'[q].current
    BY <2>2, WatchedHistories
  <2>4. QED
    BY <2>1, <2>3
<1>11. CASE floors'[f].status = "live" /\ revisions[d].status \in {"published", "archived"}
  <2>1. /\ revisions'[d].status \in {"published", "archived"}
        /\ revisions'[d].layout = revisions[d].layout
    BY <1>1, <1>2, <1>11, WatchedRow
  <2>2. DocAt(revisions, d) \in reads[q].current
    BY <1>2, <1>11 DEF DraftAhead
  <2>3. DocAt(revisions', d) = DocAt(revisions, d)
    BY <2>1 DEF DocAt
  <2>4. QED
    BY <1>4, <2>1, <2>2, <2>3
<1>12. CASE floors'[f].status = "live" /\ revisions[d].status = "draft"
  <2>1. /\ floors[f].draft = d /\ floors[f].published = p
        /\ p # d
    <3>1. revisions[d].floor = f
      BY <1>1, <1>2, <1>12 DEF PointersKnown
    <3>2. floors[f].draft = d
      BY <1>12, <3>1, PointedFrom
    <3>3. floors[f].published = p
      BY <1>1, <1>2, <1>3, <1>12 DEF DraftAhead
    <3>4. p # d
      BY <1>3, <1>12 DEF PointersKnown
    <3>5. QED
      BY <3>2, <3>3, <3>4
  <2>2. [Next]_vars
    BY DEF Watched
  <2>3. d # NoRevision
    BY LayoutAssumption
  <2>4. CASE floors'[f].published = p /\ floors'[f].draft = d
    <3>1. revisions'[d].status = "draft"
      BY <2>3, <2>4 DEF Consistent, PointersAgree, PointersNameTheirRow, HasDraft
    <3>2. RightAnswer("load", f, floors', revisions') = DocAt(revisions', d)
      BY <2>3, <2>4 DEF RightAnswer
    <3>3. QED
      BY <1>4, <2>4, <3>1, <3>2
  <2>5. CASE floors'[f].published = p /\ floors'[f].draft = NoRevision
    <3>1. revisions'[d].status # "draft"
      BY <1>8, <2>3, <2>5
    <3>2. revisions'[d].status # "published"
      <4>1. revisions'[d].floor = f \/ revisions'[d].status = "deleted"
        BY <1>1, <1>2, WatchedRow
      <4>2. revisions'[d].status = "published" =>
               \E g \in Floor : floors'[g].published = d /\ revisions'[d].floor = g
        BY <2>3
        DEF Consistent, PointersAgree, PointersNameTheirRow, NoOrphanRevision, HasPublished
      <4>3. QED
        BY <2>1, <2>5, <4>1, <4>2
    <3>3. revisions'[d].status = "deleted"
      BY <1>2, <1>12, <3>1, <3>2, WatchedRow
    <3>4. RightAnswer("load", f, floors', revisions') = DocAt(revisions', p)
      BY <2>5 DEF RightAnswer
    <3>5. PublishedAnswer(q)' = DocAt(revisions', p)
      BY <1>4, <1>5, <2>5, PublishedAfter
    <3>6. QED
      BY <1>4, <3>3, <3>4, <3>5
  <2>6. CASE floors'[f].published = d /\ floors'[f].draft = NoRevision
    <3>1. revisions'[d].status = "published"
      BY <2>3, <2>6 DEF Consistent, PointersAgree, PointersNameTheirRow, HasPublished
    <3>2. RightAnswer("load", f, floors', revisions') = DocAt(revisions', d)
      BY <2>6 DEF RightAnswer
    <3>3. QED
      BY <1>4, <3>1, <3>2
  <2>7. floors'[f] # NoMap("deleted")
    BY <1>12 DEF NoMap
  <2>8. QED
    BY <2>1, <2>2, <2>3, <2>4, <2>5, <2>6, <2>7, PointersMove DEF HasDraft
<1>13. revisions[d].status \in {"draft", "published", "archived", "deleted"}
  BY <1>2 DEF PointersKnown, Consistent, TypeOK, RevisionRow
<1>14. QED
  BY <1>9, <1>10, <1>11, <1>12, <1>13

\* A request on its way to store a rendering: the row it has read is frozen.
LEMMA WatchedRendering ==
    ASSUME Consistent, NEW q \in Request, reads[q] \in Read, reads'[q] \in Read,
           Watched(q), PointersKnown(q), RenderingAhead(q)
    PROVE  RenderingAhead(q)'
<1>1. PICK p \in Revision : p = reads[q].published
  BY DEF RenderingAhead
<1>2. /\ reads'[q].published = p /\ reads'[q].layout = reads[q].layout
      /\ reads[q].current \subseteq reads'[q].current
  BY <1>1, WatchedFields
<1>3. revisions[p].status \in {"published", "archived", "deleted"}
  BY <1>1 DEF PointersKnown, Consistent, TypeOK, RevisionRow
<1>4. revisions'[p].status # "deleted" =>
         /\ revisions'[p].layout = reads[q].layout
         /\ revisions'[p].svg \in {NoSvg, Drawn(reads[q].layout, Own)}
  <2>1. SUFFICES ASSUME revisions'[p].status # "deleted"
                 PROVE  /\ revisions'[p].layout = reads[q].layout
                        /\ revisions'[p].svg \in {NoSvg, Drawn(reads[q].layout, Own)}
    OBVIOUS
  <2>2. revisions'[p].layout = revisions[p].layout /\ revisions[p].status # "deleted"
    BY <1>1, <1>3, <2>1, WatchedRow
  <2>3. revisions'[p].svg \in {revisions[p].svg, Drawn(revisions[p].layout, Own)}
    <3>1. Lives(p)
      BY RowLife DEF Watched
    <3>2. QED
      BY <1>3, <2>1, <2>2, <3>1, RenderingFate
  <2>4. /\ revisions[p].layout = reads[q].layout
        /\ revisions[p].svg \in {NoSvg, Drawn(reads[q].layout, Own)}
    BY <1>1, <2>2 DEF RenderingAhead
  <2>5. QED
    BY <2>2, <2>3, <2>4
<1>5. [revision |-> p, layout |-> reads[q].layout] \in reads[q].current
  BY <1>1 DEF RenderingAhead
<1>6. reads'[q].op = "draw"
  BY WatchedFields DEF RenderingAhead
<1>7. QED
  BY <1>2, <1>4, <1>5, <1>6 DEF RenderingAhead

\* A request that is watched stays on its way to a right answer.
LEMMA WatchedAhead ==
    ASSUME Consistent, Consistent', NEW q \in Request, reads[q] \in Read, reads'[q] \in Read,
           Watched(q), PointersKnown(q), RightAhead(q)
    PROVE  PointersKnown(q)' /\ RightAhead(q)'
<1>1. /\ reads'[q].op = reads[q].op /\ reads'[q].step = reads[q].step
      /\ reads'[q].floor = reads[q].floor /\ reads'[q].failed = reads[q].failed
      /\ RightAnswer(reads[q].op, reads[q].floor, floors', revisions') \in reads'[q].current
      /\ RightAnswer("show", reads[q].floor, floors', revisions') \in reads'[q].shown
  BY WatchedFields
<1>2. reads[q].step = "draft" => DraftAhead(q)'
  BY WatchedDraft DEF RightAhead
<1>3. reads[q].step = "published" => PublishedAhead(q)'
  BY <1>1, WatchedHistories DEF RightAhead, PublishedAhead, Rightful
<1>4. reads[q].step = "store" => RenderingAhead(q)'
  BY WatchedRendering DEF RightAhead
<1>5. FailedSoFar(q)'
  BY <1>1 DEF RightAhead, FailedSoFar
<1>6. QED
  BY <1>1, <1>2, <1>3, <1>4, <1>5, WatchedPointers DEF RightAhead

-----------------------------------------------------------------------------
(***************************************************************************)
(* A request's own steps.                                                  *)
(***************************************************************************)

\* A request goes on with state next; the others stay where they are.
LEMMA ReadGoesOn ==
    ASSUME reads \in [Request -> Read], NEW q \in Request, NEW next \in Read,
           reads' = [reads EXCEPT ![q] = next]
    PROVE  /\ reads' \in [Request -> Read]
           /\ reads'[q] = next
           /\ \A o \in Request : o # q => reads'[o] = reads[o]
OBVIOUS

\* A request that has not begun is one.
LEMMA IdleIsRead == Idle \in Read
BY DEF Idle, Read

\* What a reader may say of its own step.
Sound(q) ==
    /\ Active(q) => PointersKnown(q) /\ RightAhead(q)
    /\ reads[q].step = "done" => AnsweredRight(q)

\* What a request may be answered after its statements failed went wrong.
RightAfter(q, doc, failed) ==
    \/ doc \in IF "draft" \in failed THEN reads[q].shown ELSE reads[q].current
    \/ IF reads[q].op = "load" /\ "refs" \notin failed
       THEN "published" \in failed /\ doc = NoDoc
       ELSE failed # {} /\ doc = Failure

\* An answer that is right when it is given is kept as such.
LEMMA RespondsRight ==
    ASSUME reads \in [Request -> Read], NEW q \in Request,
           NEW failed \in SUBSET {"refs", "draft", "published", "store"}, NEW doc,
           RightAfter(q, doc, failed), Respond(q, doc, failed)
    PROVE  /\ reads' \in [Request -> Read]
           /\ Sound(q)'
           /\ \A o \in Request : o # q => reads'[o] = reads[o]
<1>1. DEFINE next == [reads[q] EXCEPT !.step = "done", !.answer = doc, !.failed = failed]
<1>2. reads[q] \in Read
  OBVIOUS
<1>3. doc \in Doc \cup {NoDoc, Failure}
  BY <1>2 DEF Read, RightAfter
<1>4. /\ next \in Read /\ next.step = "done" /\ next.answer = doc /\ next.failed = failed
      /\ next.op = reads[q].op
      /\ next.current = reads[q].current /\ next.shown = reads[q].shown
  BY <1>2, <1>3 DEF Read
<1>5. reads' = [reads EXCEPT ![q] = next]
  BY DEF Respond
<1>6. HIDE DEF next
<1>7. /\ reads' \in [Request -> Read] /\ reads'[q] = next
      /\ \A o \in Request : o # q => reads'[o] = reads[o]
  BY <1>4, <1>5, ReadGoesOn
<1>8. AnsweredRight(q)'
  BY <1>4, <1>7 DEF RightAfter, AnsweredRight, Rightful, ToldOfFailure
<1>9. QED
  BY <1>4, <1>7, <1>8 DEF Sound, Active

\* Where no statement but the draft's has failed, what could have been answered
\* without delay is right.
LEMMA AnswersRight ==
    ASSUME reads \in [Request -> Read], NEW q \in Request, FailedSoFar(q),
           NEW doc \in Rightful(q), Answer(q, doc)
    PROVE  /\ reads' \in [Request -> Read]
           /\ Sound(q)'
           /\ \A o \in Request : o # q => reads'[o] = reads[o]
<1>1. /\ reads[q].failed \in SUBSET {"refs", "draft", "published", "store"}
      /\ Respond(q, doc, reads[q].failed)
  BY DEF Read, Answer
<1>2. RightAfter(q, doc, reads[q].failed)
  BY DEF RightAfter, Rightful
<1>3. QED
  BY <1>1, <1>2, RespondsRight

\* A request begins.
LEMMA BeginSound ==
    ASSUME ReadsInvariant, NEW q \in Request, NEW op \in {"load", "show", "draw"},
           NEW f \in Floor, Begin(q, op, f)
    PROVE  /\ reads' \in [Request -> Read]
           /\ Sound(q)'
           /\ \A o \in Request : o # q => reads'[o] = reads[o]
<1>1. DEFINE now == RightAnswer(op, f, floors, revisions)
             public == RightAnswer("show", f, floors, revisions)
             next == [Idle EXCEPT !.op = op, !.step = "refs", !.floor = f,
                                  !.current = {now}, !.shown = {public}]
<1>2. now \in Doc \cup {NoDoc} /\ public \in Doc \cup {NoDoc}
  BY RightAnswerIsDoc DEF ReadsInvariant
<1>3. HIDE DEF now, public
<1>4. /\ next \in Read /\ next.step = "refs" /\ next.op = op /\ next.floor = f
      /\ next.draft = NoRevision /\ next.published = NoRevision /\ next.current = {now}
      /\ next.shown = {public} /\ next.failed = {}
  BY <1>2, IdleIsRead DEF Read, Idle
<1>5. reads' = [reads EXCEPT ![q] = next] /\ UNCHANGED vars
  BY DEF Begin, now, public
<1>6. HIDE DEF next
<1>7. /\ reads' \in [Request -> Read] /\ reads'[q] = next
      /\ \A o \in Request : o # q => reads'[o] = reads[o]
  BY <1>4, <1>5, ReadGoesOn DEF ReadsInvariant
<1>8. PointersKnown(q)'
  BY <1>4, <1>7, LayoutAssumption DEF PointersKnown
<1>9. RightAhead(q)'
  BY <1>4, <1>5, <1>7 DEF RightAhead, FailedSoFar, now, public, vars
<1>10. QED
  BY <1>4, <1>7, <1>8, <1>9 DEF Sound

\* The pointers are read: they name the rows an instantaneous answer would.
LEMMA RefsReadSound ==
    ASSUME ReadsInvariant, NEW q \in Request, ReadRefs(q), ~Respond(q, Failure, {"refs"})
    PROVE  /\ reads' \in [Request -> Read]
           /\ Sound(q)'
           /\ \A o \in Request : o # q => reads'[o] = reads[o]
<1>1. /\ reads[q] \in Read /\ reads[q].step = "refs" /\ Consistent
      /\ PointersKnown(q) /\ RightAhead(q)
  BY DEF ReadsInvariant, ReadRefs, Active
<1>2. PICK f \in Floor : f = reads[q].floor
  BY <1>1 DEF PointersKnown
<1>3. PICK d \in Revision \cup {NoRevision}, p \in Revision \cup {NoRevision} :
         d = floors[f].draft /\ p = floors[f].published
  BY <1>1 DEF Consistent, TypeOK, FloorRow
<1>4. DEFINE toDraft == reads[q].op = "load" /\ d # NoRevision
             step == IF toDraft THEN "draft" ELSE "published"
             next == [reads[q] EXCEPT !.draft = d, !.published = p, !.step = step]
<1>5. reads' = [reads EXCEPT ![q] = next] /\ UNCHANGED vars
  BY <1>2, <1>3 DEF ReadRefs
<1>6. /\ next \in Read /\ next.draft = d /\ next.published = p
      /\ next.op = reads[q].op /\ next.floor = f /\ next.current = reads[q].current
      /\ next.shown = reads[q].shown /\ next.failed = {}
      /\ next.step = IF toDraft THEN "draft" ELSE "published"
  <2>1. step \in {"draft", "published"}
    OBVIOUS
  <2>2. HIDE DEF step
  <2>3. /\ next \in Read /\ next.draft = d /\ next.published = p
        /\ next.op = reads[q].op /\ next.floor = f /\ next.current = reads[q].current
        /\ next.shown = reads[q].shown /\ next.failed = reads[q].failed
        /\ next.step = step
    BY <1>1, <1>2, <1>3, <2>1 DEF Read
  <2>4. reads[q].failed = {}
    BY <1>1 DEF RightAhead, FailedSoFar
  <2>5. QED
    BY <2>3, <2>4 DEF step
<1>7. HIDE DEF next
<1>8. /\ reads' \in [Request -> Read] /\ reads'[q] = next
      /\ \A o \in Request : o # q => reads'[o] = reads[o]
  BY <1>5, <1>6, ReadGoesOn DEF ReadsInvariant
<1>9. UNCHANGED <<floors, revisions>>
  BY <1>5 DEF vars
<1>10. /\ d # NoRevision => revisions[d].status = "draft" /\ revisions[d].floor = f
       /\ p # NoRevision => revisions[p].status = "published" /\ revisions[p].floor = f
  BY <1>1, <1>3 DEF Consistent, PointersAgree, PointersNameTheirRow, HasDraft, HasPublished
<1>11. PointersKnown(q)'
  BY <1>6, <1>8, <1>9, <1>10, LayoutAssumption DEF PointersKnown
<1>12. /\ RightAnswer(reads[q].op, f, floors, revisions) \in reads[q].current
       /\ RightAnswer("show", f, floors, revisions) \in reads[q].shown
  BY <1>1, <1>2 DEF RightAhead
<1>13. RightAnswer(reads[q].op, f, floors, revisions) =
          IF toDraft THEN DocAt(revisions, d) ELSE DocAt(revisions, p)
  BY <1>3 DEF RightAnswer
<1>14. RightAhead(q)'
  <2>1. /\ RightAnswer(reads'[q].op, reads'[q].floor, floors', revisions')
              \in reads'[q].current
        /\ RightAnswer("show", reads'[q].floor, floors', revisions') \in reads'[q].shown
        /\ FailedSoFar(q)'
    BY <1>6, <1>8, <1>9, <1>12 DEF FailedSoFar
  <2>2. PublishedAnswer(q)' = DocAt(revisions, p)
    BY <1>6, <1>8, <1>9, <1>10 DEF PublishedAnswer, DocAt
  <2>3. CASE toDraft
    <3>1. RightAnswer("show", f, floors, revisions) = DocAt(revisions, p)
      BY <1>3 DEF RightAnswer
    <3>2. PublishedAnswer(q)' \in reads'[q].shown
      BY <1>6, <1>8, <1>12, <2>2, <3>1
    <3>3. DraftAhead(q)'
      BY <1>3, <1>6, <1>8, <1>9, <1>10, <1>12, <1>13, <2>3, <3>2 DEF DraftAhead
    <3>4. QED
      BY <1>6, <1>8, <2>1, <2>3, <3>3 DEF RightAhead
  <2>4. CASE ~toDraft
    <3>1. PublishedAnswer(q)' \in reads'[q].current
      BY <1>6, <1>8, <1>12, <1>13, <2>2, <2>4
    <3>2. PublishedAhead(q)'
      BY <1>6, <1>8, <3>1 DEF PublishedAhead, Rightful
    <3>3. QED
      BY <1>6, <1>8, <2>1, <2>4, <3>2 DEF RightAhead
  <2>5. QED
    BY <2>3, <2>4
<1>15. reads'[q].step # "done"
  BY <1>6, <1>8
<1>16. QED
  BY <1>8, <1>11, <1>14, <1>15 DEF Sound

\* Or the statement fails.
LEMMA ReadRefsSound ==
    ASSUME ReadsInvariant, NEW q \in Request, ReadRefs(q)
    PROVE  /\ reads' \in [Request -> Read]
           /\ Sound(q)'
           /\ \A o \in Request : o # q => reads'[o] = reads[o]
<1>1. CASE Respond(q, Failure, {"refs"})
  <2>1. RightAfter(q, Failure, {"refs"})
    BY DEF RightAfter
  <2>2. QED
    BY <1>1, <2>1, RespondsRight DEF ReadsInvariant
<1>2. CASE ~Respond(q, Failure, {"refs"})
  BY <1>2, RefsReadSound
<1>3. QED
  BY <1>1, <1>2

\* The request turns to the published map, the draft being gone or unread.
LEMMA TriesPublished ==
    ASSUME ReadsInvariant, NEW q \in Request, reads[q].step = "draft",
           NEW failed \in {{}, {"draft"}}, TryPublished(q, failed),
           UNCHANGED <<floors, revisions>>,
           failed = {} => revisions[reads[q].draft].status = "deleted"
    PROVE  /\ reads' \in [Request -> Read]
           /\ Sound(q)'
           /\ \A o \in Request : o # q => reads'[o] = reads[o]
<1>1. /\ reads[q] \in Read /\ reads \in [Request -> Read]
      /\ PointersKnown(q) /\ RightAhead(q) /\ DraftAhead(q)
  BY DEF ReadsInvariant, Active, RightAhead
<1>2. DEFINE next == [reads[q] EXCEPT !.step = "published", !.draft = NoRevision,
                                      !.failed = failed]
<1>3. reads' = [reads EXCEPT ![q] = next]
  BY DEF TryPublished
<1>4. /\ next \in Read /\ next.step = "published" /\ next.draft = NoRevision
      /\ next.published = reads[q].published /\ next.floor = reads[q].floor
      /\ next.op = reads[q].op /\ next.failed = failed
      /\ next.current = reads[q].current /\ next.shown = reads[q].shown
  BY <1>1 DEF Read
<1>5. HIDE DEF next
<1>6. /\ reads' \in [Request -> Read] /\ reads'[q] = next
      /\ \A o \in Request : o # q => reads'[o] = reads[o]
  BY <1>1, <1>3, <1>4, ReadGoesOn
<1>7. PointersKnown(q)'
  BY <1>1, <1>4, <1>6, LayoutAssumption DEF PointersKnown
<1>8. PublishedAnswer(q)' = PublishedAnswer(q)
  BY <1>4, <1>6 DEF PublishedAnswer
<1>9. /\ PublishedAnswer(q) \in reads[q].shown /\ reads[q].op = "load"
      /\ failed = {} => PublishedAnswer(q) \in reads[q].current
  BY <1>1 DEF DraftAhead
<1>10. PublishedAhead(q)'
  BY <1>4, <1>6, <1>8, <1>9 DEF PublishedAhead, Rightful
<1>11. FailedSoFar(q)'
  BY <1>4, <1>6, <1>9 DEF FailedSoFar
<1>12. RightAhead(q)'
  <2>1. /\ RightAnswer(reads[q].op, reads[q].floor, floors, revisions) \in reads[q].current
        /\ RightAnswer("show", reads[q].floor, floors, revisions) \in reads[q].shown
    BY <1>1 DEF RightAhead
  <2>2. /\ RightAnswer(reads'[q].op, reads'[q].floor, floors', revisions')
              = RightAnswer(reads[q].op, reads[q].floor, floors, revisions)
        /\ RightAnswer("show", reads'[q].floor, floors', revisions')
              = RightAnswer("show", reads[q].floor, floors, revisions)
    BY <1>4, <1>6
  <2>3. /\ reads'[q].current = reads[q].current /\ reads'[q].shown = reads[q].shown
        /\ reads'[q].step = "published"
    BY <1>4, <1>6
  <2>4. QED
    BY <1>10, <1>11, <2>1, <2>2, <2>3 DEF RightAhead
<1>13. QED
  BY <1>4, <1>6, <1>7, <1>12 DEF Sound

\* The draft is read, or the request turns to the published map.
LEMMA ReadDraftSound ==
    ASSUME ReadsInvariant, NEW q \in Request, ReadDraft(q)
    PROVE  /\ reads' \in [Request -> Read]
           /\ Sound(q)'
           /\ \A o \in Request : o # q => reads'[o] = reads[o]
<1>1. /\ reads[q] \in Read /\ reads[q].step = "draft"
      /\ PointersKnown(q) /\ RightAhead(q) /\ DraftAhead(q)
  BY DEF ReadsInvariant, ReadDraft, Active, RightAhead
<1>2. PICK d \in Revision : d = reads[q].draft
  BY <1>1 DEF DraftAhead
<1>3. UNCHANGED <<floors, revisions>> /\ reads \in [Request -> Read]
  BY DEF ReadDraft, vars, ReadsInvariant
<1>4. CASE TryPublished(q, {}) /\ revisions[d].status = "deleted"
  BY <1>1, <1>2, <1>3, <1>4, TriesPublished
<1>5. CASE Answer(q, DocAt(revisions, d)) /\ revisions[d].status # "deleted"
  <2>1. DocAt(revisions, d) \in reads[q].current
    BY <1>1, <1>2, <1>5 DEF DraftAhead
  <2>2. reads[q].failed = {} /\ FailedSoFar(q)
    BY <1>1 DEF RightAhead, FailedSoFar
  <2>3. DocAt(revisions, d) \in Rightful(q)
    BY <2>1, <2>2 DEF Rightful
  <2>4. QED
    BY <1>3, <1>5, <2>2, <2>3, AnswersRight
<1>6. CASE TryPublished(q, {"draft"})
  BY <1>1, <1>3, <1>6, TriesPublished
<1>7. QED
  BY <1>2, <1>4, <1>5, <1>6 DEF ReadDraft

\* The published map is found: its document is answered, or its rendering, or it is
\* going to be drawn.
LEMMA FoundPublishedSound ==
    ASSUME ReadsInvariant, NEW q \in Request, reads[q].step = "published",
           UNCHANGED <<floors, revisions>>,
           NEW p \in Revision, p = reads[q].published, revisions[p].status # "deleted",
           FoundPublished(q, p)
    PROVE  /\ reads' \in [Request -> Read]
           /\ Sound(q)'
           /\ \A o \in Request : o # q => reads'[o] = reads[o]
<1>1. /\ reads[q] \in Read /\ Consistent /\ reads \in [Request -> Read]
      /\ PointersKnown(q) /\ RightAhead(q) /\ PublishedAhead(q) /\ FailedSoFar(q)
  BY DEF ReadsInvariant, Active, RightAhead
<1>2. DEFINE doc == DocAt(revisions, p)
<1>3. doc \in Rightful(q)
  BY <1>1, LayoutAssumption DEF PublishedAhead, PublishedAnswer
<1>4. doc = [revision |-> p, layout |-> revisions[p].layout]
  BY LayoutAssumption DEF DocAt
<1>5. CASE reads[q].op # "draw"
  <2>1. Answer(q, doc)
    BY <1>5 DEF FoundPublished
  <2>2. HIDE DEF doc
  <2>3. QED
    BY <1>1, <1>3, <2>1, AnswersRight
<1>6. CASE reads[q].op = "draw" /\ revisions[p].svg # NoSvg
  <2>1. revisions[p].svg.layout = revisions[p].layout
    BY <1>6 DEF ReadsInvariant, SvgMatchesLayout
  <2>2. Answer(q, doc)
    BY <1>4, <1>6, <2>1 DEF FoundPublished
  <2>3. HIDE DEF doc
  <2>4. QED
    BY <1>1, <1>3, <2>2, AnswersRight
<1>7. CASE reads[q].op = "draw" /\ revisions[p].svg = NoSvg
  <2>1. DEFINE next == [reads[q] EXCEPT !.step = "store", !.layout = revisions[p].layout]
  <2>2. reads' = [reads EXCEPT ![q] = next]
    BY <1>7 DEF FoundPublished
  <2>3. revisions[p].layout \in Layout \cup {NoLayout}
    BY <1>1 DEF Consistent, TypeOK, RevisionRow
  <2>4. reads[q].failed = {}
    BY <1>1, <1>7 DEF FailedSoFar
  <2>5. /\ next \in Read /\ next.step = "store" /\ next.layout = revisions[p].layout
        /\ next.draft = reads[q].draft
        /\ next.published = p /\ next.floor = reads[q].floor
        /\ next.op = reads[q].op /\ next.failed = {}
        /\ next.current = reads[q].current /\ next.shown = reads[q].shown
    BY <1>1, <2>3, <2>4 DEF Read
  <2>6. HIDE DEF next
  <2>7. /\ reads' \in [Request -> Read] /\ reads'[q] = next
        /\ \A o \in Request : o # q => reads'[o] = reads[o]
    BY <1>1, <2>2, <2>5, ReadGoesOn
  <2>8. PointersKnown(q)'
    BY <1>1, <2>5, <2>7 DEF PointersKnown
  <2>9. [revision |-> p, layout |-> revisions[p].layout] \in reads[q].current
    BY <1>3, <1>4, <2>4 DEF Rightful
  <2>10. RenderingAhead(q)'
    BY <1>7, <2>5, <2>7, <2>9 DEF RenderingAhead
  <2>11. RightAhead(q)'
    <3>1. /\ RightAnswer(reads[q].op, reads[q].floor, floors, revisions) \in reads[q].current
          /\ RightAnswer("show", reads[q].floor, floors, revisions) \in reads[q].shown
      BY <1>1 DEF RightAhead
    <3>2. /\ RightAnswer(reads'[q].op, reads'[q].floor, floors', revisions')
                = RightAnswer(reads[q].op, reads[q].floor, floors, revisions)
          /\ RightAnswer("show", reads'[q].floor, floors', revisions')
                = RightAnswer("show", reads[q].floor, floors, revisions)
      BY <2>5, <2>7
    <3>3. /\ reads'[q].current = reads[q].current /\ reads'[q].shown = reads[q].shown
          /\ reads'[q].step = "store" /\ FailedSoFar(q)'
      BY <2>5, <2>7 DEF FailedSoFar
    <3>4. QED
      BY <2>10, <3>1, <3>2, <3>3 DEF RightAhead
  <2>12. QED
    BY <2>5, <2>7, <2>8, <2>11 DEF Sound
<1>8. QED
  BY <1>5, <1>6, <1>7

\* The published map is read, is not there, or cannot be read.
LEMMA ReadPublishedSound ==
    ASSUME ReadsInvariant, NEW q \in Request, ReadPublished(q)
    PROVE  /\ reads' \in [Request -> Read]
           /\ Sound(q)'
           /\ \A o \in Request : o # q => reads'[o] = reads[o]
<1>1. /\ reads[q] \in Read /\ reads[q].step = "published" /\ reads \in [Request -> Read]
      /\ RightAhead(q) /\ PublishedAhead(q) /\ FailedSoFar(q)
  BY DEF ReadsInvariant, ReadPublished, Active, RightAhead
<1>2. PICK p \in Revision \cup {NoRevision} : p = reads[q].published
  BY <1>1 DEF Read
<1>3. UNCHANGED <<floors, revisions>>
  BY DEF ReadPublished, vars
<1>4. CASE (p = NoRevision \/ revisions[p].status = "deleted") /\ Answer(q, NoDoc)
  <2>1. NoDoc \in Rightful(q)
    BY <1>1, <1>2, <1>4 DEF PublishedAhead, PublishedAnswer
  <2>2. QED
    BY <1>1, <1>4, <2>1, AnswersRight
<1>5. CASE /\ ~(p = NoRevision \/ revisions[p].status = "deleted")
           /\ FoundPublished(q, p)
  BY <1>1, <1>2, <1>3, <1>5, FoundPublishedSound
<1>6. CASE Respond(q, IF reads[q].op = "load" THEN NoDoc ELSE Failure,
                   reads[q].failed \cup {"published"})
  <2>1. PICK failed : failed = reads[q].failed \cup {"published"}
    OBVIOUS
  <2>2. failed \in SUBSET {"refs", "draft", "published", "store"}
    BY <1>1, <2>1 DEF Read
  <2>3. "published" \in failed /\ "refs" \notin failed
    BY <1>1, <2>1 DEF FailedSoFar
  <2>4. CASE reads[q].op = "load"
    <3>1. Respond(q, NoDoc, failed)
      BY <1>6, <2>1, <2>4
    <3>2. RightAfter(q, NoDoc, failed)
      BY <2>3, <2>4 DEF RightAfter
    <3>3. QED
      BY <1>1, <2>2, <3>1, <3>2, RespondsRight
  <2>5. CASE reads[q].op # "load"
    <3>1. Respond(q, Failure, failed)
      BY <1>6, <2>1, <2>5
    <3>2. RightAfter(q, Failure, failed)
      BY <2>3, <2>5 DEF RightAfter
    <3>3. QED
      BY <1>1, <2>2, <3>1, <3>2, RespondsRight
  <2>6. QED
    BY <2>4, <2>5
<1>7. QED
  BY <1>2, <1>4, <1>5, <1>6 DEF ReadPublished

\* The rendering is stored, if there is still a row for it, or that fails.
LEMMA StoreSvgSound ==
    ASSUME ReadsInvariant, NEW q \in Request, StoreSvg(q)
    PROVE  /\ reads' \in [Request -> Read]
           /\ Sound(q)'
           /\ \A o \in Request : o # q => reads'[o] = reads[o]
<1>1. /\ reads[q].step = "store" /\ RightAhead(q) /\ reads \in [Request -> Read]
      /\ RenderingAhead(q) /\ FailedSoFar(q)
  BY DEF ReadsInvariant, StoreSvg, Active, RightAhead
<1>2. DEFINE doc == [revision |-> reads[q].published, layout |-> reads[q].layout]
<1>3. CASE Answer(q, doc)
  <2>1. doc \in reads[q].current /\ reads[q].failed = {}
    BY <1>1 DEF RenderingAhead, FailedSoFar
  <2>2. doc \in Rightful(q)
    BY <2>1 DEF Rightful
  <2>3. HIDE DEF doc
  <2>4. QED
    BY <1>1, <1>3, <2>2, AnswersRight
<1>4. CASE Respond(q, Failure, {"store"})
  <2>1. RightAfter(q, Failure, {"store"})
    BY <1>1 DEF RightAfter, RenderingAhead
  <2>2. QED
    BY <1>1, <1>4, <2>1, RespondsRight
<1>5. QED
  BY <1>3, <1>4 DEF StoreSvg

\* The request ends.
LEMMA EndSound ==
    ASSUME ReadsInvariant, NEW q \in Request, End(q)
    PROVE  /\ reads' \in [Request -> Read]
           /\ Sound(q)'
           /\ \A o \in Request : o # q => reads'[o] = reads[o]
<1>1. /\ reads' \in [Request -> Read] /\ reads'[q] = Idle
      /\ \A o \in Request : o # q => reads'[o] = reads[o]
  BY IdleIsRead, ReadGoesOn DEF End, ReadsInvariant
<1>2. QED
  BY <1>1 DEF Sound, Active, Idle

\* Whichever it is.
LEMMA ReadStepSound ==
    ASSUME ReadsInvariant, NEW q \in Request, ReadStep(q)
    PROVE  /\ reads' \in [Request -> Read]
           /\ Sound(q)'
           /\ \A o \in Request : o # q => reads'[o] = reads[o]
BY BeginSound, ReadRefsSound, ReadDraftSound, ReadPublishedSound, StoreSvgSound, EndSound
   DEF ReadStep

-----------------------------------------------------------------------------
(***************************************************************************)
(* To the tables a reader's step is one of the store's, or none.           *)
(***************************************************************************)

\* A rendering that is stored is CacheSemanticSVG, unless it is there already.
LEMMA ReadStepTables ==
    ASSUME ReadsInvariant, NEW q \in Request, ReadStep(q)
    PROVE  UNCHANGED vars \/ \E r \in Revision : CacheSemanticSVG(r)
<1>1. CASE ~StoreSvg(q)
  BY <1>1 DEF ReadStep, Begin, ReadRefs, ReadDraft, ReadPublished, End
<1>2. CASE StoreSvg(q)
  <2>1. /\ reads[q] \in Read /\ PointersKnown(q) /\ RenderingAhead(q) /\ Consistent
    BY <1>2 DEF ReadsInvariant, StoreSvg, Active, RightAhead
  <2>2. PICK p \in Revision : p = reads[q].published
    BY <2>1 DEF RenderingAhead
  <2>3. /\ \/ revisions' = revisions
           \/ revisions' = IF revisions[p].status = "deleted" THEN revisions
                           ELSE [revisions EXCEPT ![p].svg = Drawn(reads[q].layout, Own)]
        /\ UNCHANGED <<floors, audit, desks>>
    BY <1>2, <2>2 DEF StoreSvg
  <2>4. CASE revisions[p].status = "deleted" \/ revisions' = revisions
    BY <2>3, <2>4 DEF vars
  <2>5. CASE /\ revisions[p].status # "deleted" /\ revisions' # revisions
             /\ revisions[p].svg = NoSvg
    <3>1. revisions[p].status \in {"published", "archived"}
      BY <2>1, <2>2, <2>5 DEF PointersKnown, Consistent, TypeOK, RevisionRow
    <3>2. reads[q].layout = revisions[p].layout
      BY <2>1, <2>2, <2>5 DEF RenderingAhead
    <3>3. CacheSemanticSVG(p)
      BY <2>3, <2>5, <3>1, <3>2 DEF CacheSemanticSVG
    <3>4. QED
      BY <3>3
  <2>6. CASE /\ revisions[p].status # "deleted" /\ revisions' # revisions
             /\ revisions[p].svg # NoSvg
    <3>1. revisions[p].svg = Drawn(reads[q].layout, Own)
      BY <2>1, <2>2, <2>6 DEF RenderingAhead
    <3>2. revisions' = revisions
      BY <2>1, <2>3, <2>6, <3>1 DEF Consistent, TypeOK, RevisionRow
    <3>3. QED
      BY <2>3, <3>2 DEF vars
  <2>7. QED
    BY <2>4, <2>5, <2>6
<1>3. QED
  BY <1>1, <1>2

\* The other requests can go on as if nothing had happened.
LEMMA OthersWatched ==
    ASSUME ReadsInvariant, NEW q \in Request, ReadStep(q), NEW o \in Request,
           Active(o), reads'[o] = reads[o]
    PROVE  Watched(o)
<1>1. /\ reads[o] \in Read /\ Consistent /\ PointersKnown(o) /\ RightAhead(o)
  BY DEF ReadsInvariant
<1>2. PICK f \in Floor : f = reads[o].floor
  BY <1>1 DEF PointersKnown
<1>3. /\ floors' = floors
      /\ \A r \in Revision : /\ revisions'[r].status = revisions[r].status
                             /\ revisions'[r].layout = revisions[r].layout
  <2>1. CASE UNCHANGED vars
    BY <2>1 DEF vars
  <2>2. ASSUME NEW s \in Revision, CacheSemanticSVG(s)
        PROVE  /\ floors' = floors
               /\ \A r \in Revision : /\ revisions'[r].status = revisions[r].status
                                      /\ revisions'[r].layout = revisions[r].layout
    BY <1>1, <2>2 DEF CacheSemanticSVG, Consistent, TypeOK, RevisionRow
  <2>3. QED
    BY <2>1, <2>2, ReadStepTables
<1>4. [Next]_vars
  BY ReadStepTables DEF Next, vars
<1>5. \A r \in Revision \cup {NoRevision} : DocAt(revisions', r) = DocAt(revisions, r)
  BY <1>3 DEF DocAt
<1>6. floors[f].draft \in Revision \cup {NoRevision}
      /\ floors[f].published \in Revision \cup {NoRevision}
  BY <1>1 DEF Consistent, TypeOK, FloorRow
<1>7. \A op : RightAnswer(op, f, floors', revisions') = RightAnswer(op, f, floors, revisions)
  BY <1>3, <1>5, <1>6 DEF RightAnswer
<1>8. reads[o] = [reads[o] EXCEPT !.current = reads[o].current, !.shown = reads[o].shown]
  BY <1>1 DEF Read
<1>9. /\ RightAnswer(reads[o].op, reads[o].floor, floors', revisions') \in reads[o].current
      /\ RightAnswer("show", reads[o].floor, floors', revisions') \in reads[o].shown
  BY <1>1, <1>2, <1>7 DEF RightAhead
<1>10. \E C, S : /\ reads[o].current \subseteq C /\ reads[o].shown \subseteq S
                 /\ reads'[o] = [reads[o] EXCEPT !.current = C, !.shown = S]
                 /\ RightAnswer(reads[o].op, reads[o].floor, floors', revisions') \in C
                 /\ RightAnswer("show", reads[o].floor, floors', revisions') \in S
  <2>1. WITNESS reads[o].current, reads[o].shown
  <2>2. QED
    BY <1>8, <1>9
<1>11. \A r \in {reads[o].draft, reads[o].published} \cap Revision :
          revisions[r].status = "archived" => revisions'[r].status = "archived"
  BY <1>3
<1>12. QED
  BY <1>4, <1>10, <1>11 DEF Watched

-----------------------------------------------------------------------------
(***************************************************************************)
(* The invariant.                                                          *)
(***************************************************************************)

\* What the invariant says, request by request.
LEMMA InvariantBySound ==
    ReadsInvariant <=> /\ Consistent
                       /\ SvgMatchesLayout
                       /\ reads \in [Request -> Read]
                       /\ \A q \in Request : Sound(q)
BY DEF ReadsInvariant, Sound, AnswersCurrent

\* The tables stay consistent, and renderings those of their documents.
LEMMA TablesKept ==
    ASSUME ReadsInvariant, [Next]_vars
    PROVE  Consistent' /\ SvgMatchesLayout'
<1>1. Consistent'
  BY ConsistentStep DEF ReadsInvariant
<1>2. SvgMatchesLayout'
  BY SvgSteps DEF ReadsInvariant
<1>3. QED
  BY <1>1, <1>2

\* A request that is watched, or at rest, stays sound.
LEMMA WatchedSound ==
    ASSUME ReadsInvariant, [Next]_vars, NEW q \in Request, reads'[q] \in Read,
           Active(q) => Watched(q),
           ~Active(q) => reads'[q] = reads[q]
    PROVE  Sound(q)'
<1>1. Consistent /\ Consistent' /\ reads[q] \in Read
  BY TablesKept DEF ReadsInvariant
<1>2. CASE Active(q)
  <2>1. PointersKnown(q)' /\ RightAhead(q)'
    BY <1>1, <1>2, WatchedAhead DEF ReadsInvariant
  <2>2. reads'[q].step = reads[q].step
    BY <1>1, <1>2, WatchedFields
  <2>3. QED
    BY <1>2, <2>1, <2>2 DEF Sound, Active
<1>3. CASE ~Active(q)
  BY <1>3 DEF Sound, Active, ReadsInvariant, AnswersCurrent, AnsweredRight, Rightful,
              ToldOfFailure
<1>4. QED
  BY <1>2, <1>3

\* Another endpoint's step is the one the requests in progress watch.
LEMMA ElsewhereKeeps ==
    ASSUME ReadsInvariant, Elsewhere
    PROVE  ReadsInvariant'
<1>1. [Next]_vars
  BY DEF Elsewhere, Next
<1>2. Consistent' /\ SvgMatchesLayout'
  BY <1>1, TablesKept
<1>3. ASSUME NEW q \in Request PROVE reads'[q] \in Read /\ Sound(q)'
  <2>1. reads[q] \in Read /\ (Active(q) => PointersKnown(q))
    BY DEF ReadsInvariant
  <2>2. CASE ~Active(q)
    <3>1. reads'[q] = reads[q]
      BY <2>2 DEF Elsewhere
    <3>2. QED
      BY <1>1, <2>1, <2>2, <3>1, WatchedSound
  <2>3. CASE Active(q)
    <3>1. PICK f \in Floor : f = reads[q].floor
      BY <2>1, <2>3 DEF PointersKnown
    <3>2. DEFINE now == RightAnswer(reads[q].op, reads[q].floor, floors', revisions')
                 public == RightAnswer("show", reads[q].floor, floors', revisions')
    <3>3. now \in Doc \cup {NoDoc} /\ public \in Doc \cup {NoDoc}
      BY <1>2, <3>1, RightAnswerAfter
    <3>4. reads'[q] = [reads[q] EXCEPT !.current = reads[q].current \cup {now},
                                       !.shown = reads[q].shown \cup {public}]
      BY <2>3 DEF Elsewhere
    <3>5. reads'[q] \in Read
      <4>1. HIDE DEF now, public
      <4>2. PICK C \in SUBSET (Doc \cup {NoDoc}), S \in SUBSET (Doc \cup {NoDoc}) :
               C = reads[q].current \cup {now} /\ S = reads[q].shown \cup {public}
        BY <2>1, <3>3 DEF Read
      <4>3. reads'[q] = [reads[q] EXCEPT !.current = C, !.shown = S]
        BY <3>4, <4>2
      <4>4. QED
        BY <2>1, <4>3 DEF Read
    <3>6. \E C, S : /\ reads[q].current \subseteq C /\ reads[q].shown \subseteq S
                    /\ reads'[q] = [reads[q] EXCEPT !.current = C, !.shown = S]
                    /\ now \in C
                    /\ public \in S
      <4>1. HIDE DEF now, public
      <4>2. WITNESS reads[q].current \cup {now}, reads[q].shown \cup {public}
      <4>3. QED
        BY <3>4
    <3>7. floors'[reads[q].floor].status = "live" =>
             \A r \in {reads[q].draft, reads[q].published} \cap Revision :
                revisions[r].status = "archived" => revisions'[r].status = "archived"
      BY <2>3 DEF Elsewhere
    <3>8. Watched(q)
      BY <1>1, <3>6, <3>7 DEF Watched
    <3>9. QED
      BY <1>1, <2>3, <3>5, <3>8, WatchedSound
  <2>4. QED
    BY <2>2, <2>3
<1>4. reads' \in [Request -> Read]
  BY <1>3 DEF Elsewhere
<1>5. QED
  BY <1>2, <1>3, <1>4 DEF ReadsInvariant, Sound, AnswersCurrent

\* A request's own step.
LEMMA ReadStepKeeps ==
    ASSUME ReadsInvariant, NEW q \in Request, ReadStep(q)
    PROVE  ReadsInvariant'
<1>1. [Next]_vars
  BY ReadStepTables DEF Next, vars
<1>2. Consistent' /\ SvgMatchesLayout'
  BY <1>1, TablesKept
<1>3. /\ reads' \in [Request -> Read]
      /\ Sound(q)'
      /\ \A o \in Request : o # q => reads'[o] = reads[o]
  BY ReadStepSound
<1>4. ASSUME NEW o \in Request, o # q PROVE Sound(o)'
  <2>1. reads'[o] = reads[o] /\ reads'[o] \in Read
    BY <1>3, <1>4
  <2>2. Active(o) => Watched(o)
    BY <2>1, OthersWatched
  <2>3. QED
    BY <1>1, <2>1, <2>2, WatchedSound
<1>5. \A o \in Request : Sound(o)'
  BY <1>3, <1>4
<1>6. QED
  BY <1>2, <1>3, <1>5 DEF ReadsInvariant, Sound, AnswersCurrent

\* Every step keeps every request on its way to a right answer.
LEMMA ReadsInvariantStep == ReadsInvariant /\ [ReadsNext]_readVars => ReadsInvariant'
<1> SUFFICES ASSUME ReadsInvariant, [ReadsNext]_readVars PROVE ReadsInvariant'
  OBVIOUS
<1>1. CASE Elsewhere
  BY <1>1, ElsewhereKeeps
<1>2. ASSUME NEW q \in Request, ReadStep(q) PROVE ReadsInvariant'
  BY <1>2, ReadStepKeeps
<1>3. CASE UNCHANGED readVars
  <2>1. [Next]_vars /\ reads' = reads
    BY <1>3 DEF readVars
  <2>2. Consistent' /\ SvgMatchesLayout'
    BY <2>1, TablesKept
  <2>3. \A q \in Request : Sound(q)'
    BY <1>3
    DEF readVars, vars, ReadsInvariant, AnswersCurrent, Sound, Active, PointersKnown,
        RightAhead, DraftAhead, RenderingAhead, PublishedAhead, PublishedAnswer,
        FailedSoFar, AnsweredRight, Rightful, ToldOfFailure
  <2>4. QED
    BY <2>1, <2>2, <2>3 DEF ReadsInvariant, Sound, AnswersCurrent
<1>4. QED
  BY <1>1, <1>2, <1>3 DEF ReadsNext

\* No request is in progress when the server starts.
LEMMA ReadsInvariantInit == ReadsInit => ReadsInvariant
<1>1. SUFFICES ASSUME ReadsInit PROVE ReadsInvariant
  OBVIOUS
<1>2. Consistent
  BY <1>1, ConsistentInit DEF ReadsInit
<1>3. SvgMatchesLayout
  BY <1>1 DEF ReadsInit, Init, LegacyMap, NoRow, SvgMatchesLayout
<1>4. reads \in [Request -> Read] /\ \A q \in Request : reads[q].step = "idle"
  BY <1>1, IdleIsRead DEF ReadsInit, Idle
<1>5. QED
  BY <1>2, <1>3, <1>4 DEF ReadsInvariant, Active, AnswersCurrent

\* Requests in progress follow pointers of their floor and are on their way to an
\* answer that has been right, whatever was written in the meantime.
THEOREM ReadsInvariantAlways == ReadsSpec => []ReadsInvariant
BY ReadsInvariantInit, ReadsInvariantStep, PTL DEF ReadsSpec

\* No reader gets a map that was not, at some moment of its request, the one an
\* instantaneous reader would have got, or, if a statement of it failed, what
\* AnswersCurrent says of that failure.
THEOREM AnswersAlwaysCurrent == ReadsSpec => []AnswersCurrent
<1>1. ReadsInvariant => AnswersCurrent
  BY DEF ReadsInvariant
<1>2. QED
  BY <1>1, ReadsInvariantAlways, PTL

\* With its readers the store is still the store: the only thing they write is
\* CacheSemanticSVG, although they read the document and store its rendering in
\* separate statements, and all that is proved of Spec holds of ReadsSpec.
THEOREM ReadsImplementStore == ReadsSpec => Spec
<1>1. ReadsInit => Init
  BY DEF ReadsInit
<1>2. ReadsInvariant /\ [ReadsNext]_readVars => [Next]_vars
  <2>1. SUFFICES ASSUME ReadsInvariant, [ReadsNext]_readVars PROVE [Next]_vars
    OBVIOUS
  <2>2. ASSUME NEW q \in Request, ReadStep(q) PROVE [Next]_vars
    BY <2>1, <2>2, ReadStepTables DEF Next, vars
  <2>3. CASE Elsewhere
    BY <2>3 DEF Elsewhere, Next
  <2>4. CASE UNCHANGED readVars
    BY <2>4 DEF readVars
  <2>5. QED
    BY <2>1, <2>2, <2>3, <2>4 DEF ReadsNext
<1>3. QED
  BY <1>1, <1>2, ReadsInvariantAlways, PTL DEF ReadsSpec, Spec

\* A rendering stored by a reader is of its own revision's document, and never takes
\* the place of the one stored by the publication.
THEOREM ReadersKeepRenderings == ReadsSpec => RenderingsKept
BY ReadsImplementStore, RenderingsAlwaysKept, PTL
=============================================================================
