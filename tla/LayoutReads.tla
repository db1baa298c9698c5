---------------------------- MODULE LayoutReads ----------------------------
(***************************************************************************)
(* The reading endpoints of the layout store, which run outside a          *)
(* transaction: GetDraftOrPublished, GetPublished and                      *)
(* GetPublishedSemanticSVG read the floor's pointers, then the row a       *)
(* pointer named, and the last one also writes: it stores the rendering of *)
(* a map that has none.  Between any two of these statements every writer  *)
(* of FloorLayout may run, and other readers too; and any of them may fail *)
(* (no connection left in the pool, a request that is given up).           *)
(***************************************************************************)
EXTENDS FloorLayout

CONSTANTS Request,  \* requests the server answers at the same time
          Failure   \* the answer that is an error

VARIABLE reads     \* the requests in progress

readVars == <<vars, reads>>

\* The document of an answer, with the revision it was taken from; NoDoc is the
\* answer "not found".
Doc == [revision: Revision, layout: Layout]
NoDoc == [revision |-> NoRevision, layout |-> NoLayout]

ASSUME FailureAssumption == Failure \notin Doc \cup {NoDoc}

Read == [op: {"load", "show", "draw"},
         step: {"idle", "refs", "draft", "published", "store", "done"},
         floor: Floor \cup {NoFloor},
         draft: Revision \cup {NoRevision},      \* the pointers read from floors
         published: Revision \cup {NoRevision},
         layout: Layout \cup {NoLayout},         \* the document read from its row
         answer: Doc \cup {NoDoc, Failure},
         failed: SUBSET {"refs", "draft", "published", "store"},
         \* History: the right answers so far, to this request and to "show".
         current: SUBSET (Doc \cup {NoDoc}),
         shown: SUBSET (Doc \cup {NoDoc})]

Idle == [op |-> "load", step |-> "idle", floor |-> NoFloor,
         draft |-> NoRevision, published |-> NoRevision, layout |-> NoLayout,
         answer |-> NoDoc, failed |-> {}, current |-> {}, shown |-> {}]

-----------------------------------------------------------------------------
\* The document that tables fs and rs hold under pointer r.
DocAt(rs, r) ==
    IF r = NoRevision THEN NoDoc
    ELSE [revision |-> r, layout |-> rs[r].layout]

\* What an instantaneous answer to op would be: the draft if op shows drafts
\* and there is one, the published map otherwise.
RightAnswer(op, f, fs, rs) ==
    IF op = "load" /\ fs[f].draft # NoRevision
    THEN DocAt(rs, fs[f].draft)
    ELSE DocAt(rs, fs[f].published)

Active(q) == reads[q].step \notin {"idle", "done"}

\* The request is answered with doc, after its statements failed went wrong.
Respond(q, doc, failed) ==
    reads' = [reads EXCEPT ![q].step = "done", ![q].answer = doc, ![q].failed = failed]

Answer(q, doc) == Respond(q, doc, reads[q].failed)

\* A request for a floor that may or may not exist by now.
Begin(q, op, f) ==
    /\ reads[q].step = "idle"
    /\ reads' = [reads EXCEPT ![q] =
           [Idle EXCEPT !.op = op, !.step = "refs", !.floor = f,
                        !.current = {RightAnswer(op, f, floors, revisions)},
                        !.shown = {RightAnswer("show", f, floors, revisions)}]]
    /\ UNCHANGED vars

\* getFloorRefs.  A floor that does not exist has no pointers, and the answer
\* is an error like that of a floor without a map.
ReadRefs(q) ==
    LET row == floors[reads[q].floor] IN
    /\ reads[q].step = "refs"
    /\ \/ reads' = [reads EXCEPT
              ![q].draft = row.draft,
              ![q].published = row.published,
              ![q].step = IF reads[q].op = "load" /\ row.draft # NoRevision
                          THEN "draft" ELSE "published"]
       \/ Respond(q, Failure, {"refs"})
    /\ UNCHANGED vars

\* Request q goes on to the published map, the draft being gone or unread.
TryPublished(q, failed) ==
    reads' = [reads EXCEPT ![q].step = "published", ![q].draft = NoRevision,
                           ![q].failed = failed]

\* A mutant of ReadDraft: a draft that is gone ends the request.
ReadDraftOnly(q) ==
    LET d == reads[q].draft IN
    /\ reads[q].step = "draft"
    /\ Answer(q, IF revisions[d].status = "deleted" THEN NoDoc ELSE DocAt(revisions, d))
    /\ UNCHANGED vars

\* getLayoutRevision of the draft.  GetDraftOrPublished takes every error for the
\* draft being gone, and tries the published map.
ReadDraft(q) ==
    LET d == reads[q].draft IN
    /\ reads[q].step = "draft"
    /\ \/ IF revisions[d].status = "deleted"
          THEN TryPublished(q, {})
          ELSE Answer(q, DocAt(revisions, d))
       \/ TryPublished(q, {"draft"})
    /\ UNCHANGED vars

\* A mutant of FoundPublished: it never looks for a stored rendering.
RenderedAnew(q, p) ==
    IF reads[q].op # "draw" THEN Answer(q, DocAt(revisions, p))
    ELSE reads' = [reads EXCEPT ![q].step = "store",
                                ![q].layout = revisions[p].layout]

\* The published map p of request q is read.  To draw a map without a rendering
\* takes one statement more.
FoundPublished(q, p) ==
    CASE reads[q].op # "draw" -> Answer(q, DocAt(revisions, p))
      [] reads[q].op = "draw" /\ revisions[p].svg # NoSvg ->
             Answer(q, [revision |-> p, layout |-> revisions[p].svg.layout])
      [] OTHER -> reads' = [reads EXCEPT ![q].step = "store",
                                         ![q].layout = revisions[p].layout]

\* getLayoutRevision of the published map.  To GetDraftOrPublished an error is no
\* map; the other two report it.
ReadPublished(q) ==
    LET p == reads[q].published IN
    /\ reads[q].step = "published"
    /\ \/ IF p = NoRevision \/ revisions[p].status = "deleted"
          THEN Answer(q, NoDoc)
          ELSE FoundPublished(q, p)
       \/ /\ p # NoRevision
          /\ Respond(q, IF reads[q].op = "load" THEN NoDoc ELSE Failure,
                     reads[q].failed \cup {"published"})
    /\ UNCHANGED vars

\* UpdateSemanticSVG with a rendering of the document read before, made without
\* the component catalogue; if the row is gone no row is updated.  The document
\* may be one that cannot be drawn, and the statement may be carried out and still
\* be reported as failed.
StoreSvg(q) ==
    LET p == reads[q].published
        stored == IF revisions[p].status = "deleted" THEN revisions
                  ELSE [revisions EXCEPT ![p].svg = Drawn(reads[q].layout, Own)]
    IN
    /\ reads[q].step = "store"
    /\ \/ /\ revisions' = stored
          /\ Answer(q, [revision |-> p, layout |-> reads[q].layout])
       \/ /\ revisions' \in {revisions, stored}
          /\ Respond(q, Failure, {"store"})
    /\ UNCHANGED <<floors, audit, desks>>

\* The response has been sent.
End(q) ==
    /\ reads[q].step = "done"
    /\ reads' = [reads EXCEPT ![q] = Idle]
    /\ UNCHANGED vars

\* Some other endpoint changes the tables.  A revision a request has the id of
\* is not cleaned up: it was current when the request read the pointers, an
\* archived one is kept for a day at least (CleanupRevisionsHandler), and
\* requests end within a day.
Elsewhere ==
    /\ Write
    /\ \A q \in Request : (Active(q) /\ floors'[reads[q].floor].status = "live") =>
          \A r \in {reads[q].draft, reads[q].published} \cap Revision :
             revisions[r].status = "archived" => revisions'[r].status = "archived"
    /\ reads' = [q \in Request |->
           IF Active(q)
           THEN [reads[q] EXCEPT
                    !.current = @ \cup
                       {RightAnswer(reads[q].op, reads[q].floor, floors', revisions')},
                    !.shown = @ \cup
                       {RightAnswer("show", reads[q].floor, floors', revisions')}]
           ELSE reads[q]]

ReadsInit == Init /\ reads = [q \in Request |-> Idle]

ReadStep(q) ==
    \/ \E op \in {"load", "show", "draw"}, f \in Floor : Begin(q, op, f)
    \/ ReadRefs(q)
    \/ ReadDraft(q)
    \/ ReadPublished(q)
    \/ StoreSvg(q)
    \/ End(q)

ReadsNext == Elsewhere \/ \E q \in Request : ReadStep(q)

ReadsSpec == ReadsInit /\ [][ReadsNext]_readVars

-----------------------------------------------------------------------------
\* What a request could have been answered without delay.  GetDraftOrPublished
\* swallows a failure to read the draft: it shows the published map in its place.
Rightful(q) ==
    IF "draft" \in reads[q].failed THEN reads[q].shown ELSE reads[q].current

\* The request has been told of a statement that failed; GetDraftOrPublished tells
\* of a failure to read the published map as if there were none.
ToldOfFailure(q) ==
    IF reads[q].op = "load" /\ "refs" \notin reads[q].failed
    THEN "published" \in reads[q].failed /\ reads[q].answer = NoDoc
    ELSE reads[q].failed # {} /\ reads[q].answer = Failure

AnsweredRight(q) == reads[q].answer \in Rightful(q) \/ ToldOfFailure(q)

\* A reader never gets a map that was not, at some moment of its request, the
\* one an instantaneous reader would have got: neither a draft discarded before
\* nor a map replaced before, nor an error while the floor had a map all along
\* and every statement succeeded, although the pointers it follows may be stale.
\* Two failures are not told as such: one that hides a draft shows the map the
\* floor showed during the request, one that hides that map too shows none.
AnswersCurrent ==
    \A q \in Request : reads[q].step = "done" => AnsweredRight(q)

\* What a request that follows the published pointer it has read would answer now.
PublishedAnswer(q) ==
    LET p == reads[q].published IN
    IF p = NoRevision \/ revisions[p].status = "deleted" THEN NoDoc
    ELSE DocAt(revisions, p)

\* The pointers of a request in progress name rows of its floor that are, or were,
\* in use.
PointersKnown(q) ==
    /\ reads[q].floor \in Floor
    /\ \A r \in {reads[q].draft, reads[q].published} \cap Revision :
          /\ revisions[r].status # "free"
          /\ revisions[r].status # "deleted" => revisions[r].floor = reads[q].floor
    /\ reads[q].published \in Revision => revisions[reads[q].published].status # "draft"

\* Wherever a request is, what it would answer now has been right.
DraftAhead(q) ==
    LET d == reads[q].draft IN
    /\ reads[q].op = "load"
    /\ d \in Revision
    /\ revisions[d].status = "draft" =>
          floors[reads[q].floor].published = reads[q].published
    /\ PublishedAnswer(q) \in reads[q].shown
    /\ IF revisions[d].status = "deleted" THEN PublishedAnswer(q) \in reads[q].current
       ELSE DocAt(revisions, d) \in reads[q].current

PublishedAhead(q) == PublishedAnswer(q) \in Rightful(q)

RenderingAhead(q) ==
    LET p == reads[q].published IN
    /\ reads[q].op = "draw"
    /\ p \in Revision
    /\ [revision |-> p, layout |-> reads[q].layout] \in reads[q].current
    /\ revisions[p].status # "deleted" =>
          /\ revisions[p].layout = reads[q].layout
          /\ revisions[p].svg \in {NoSvg, Drawn(reads[q].layout, Own)}

\* The one failure a request outlives.
FailedSoFar(q) ==
    \/ reads[q].failed = {}
    \/ reads[q].op = "load" /\ reads[q].step = "published" /\ reads[q].failed = {"draft"}

RightAhead(q) ==
    /\ FailedSoFar(q)
    /\ RightAnswer(reads[q].op, reads[q].floor, floors, revisions) \in reads[q].current
    /\ RightAnswer("show", reads[q].floor, floors, revisions) \in reads[q].shown
    /\ reads[q].step = "draft" => DraftAhead(q)
    /\ reads[q].step = "published" => PublishedAhead(q)
    /\ reads[q].step = "store" => RenderingAhead(q)

\* The inductive invariant behind AnswersCurrent.
ReadsInvariant ==
    /\ Consistent
    /\ SvgMatchesLayout
    /\ reads \in [Request -> Read]
    /\ \A q \in Request : Active(q) => PointersKnown(q) /\ RightAhead(q)
    /\ AnswersCurrent
=============================================================================
