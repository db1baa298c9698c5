---------------------------- MODULE FloorLayout ----------------------------
(***************************************************************************)
(* The layout store of the Go backend (internal/store/layouts.go): the     *)
(* tables floors, floor_map_revisions and map_audit_log, and the           *)
(* operations that change them.                                            *)
(*                                                                         *)
(* Every writer opens a transaction whose first statement locks the floor  *)
(* row (SELECT ... FOR UPDATE), so the writers of one floor run one after  *)
(* the other and each is one atomic action here.  An operation that ends   *)
(* in an error rolls its transaction back and changes nothing: it is a     *)
(* stuttering step.  The statements that run outside a transaction are     *)
(* taken apart in LayoutReads.                                             *)
(*                                                                         *)
(* A layout document is an opaque value.  The desk table of a floor is     *)
(* abstracted to the layout it was last synchronised from: not which row   *)
(* belongs to which desk of the layout, but whether the rows are those of  *)
(* the map the floor shows.                                                *)
(***************************************************************************)
EXTENDS Integers, FiniteSets

CONSTANTS Floor,          \* floor ids (a serial column: never reused)
          Revision,       \* revision ids (a serial column: never reused)
          Layout,         \* layout documents
          Version,        \* the version numbers clients send with a draft
          LegacyVersion,  \* versions of maps published before semantic_svg
          Library,        \* contents of the component catalogue
          Own,            \* in its place: the components the document holds itself
          NoFloor, NoRevision, NoLayout

ASSUME LayoutAssumption ==
    /\ NoFloor \notin Floor
    /\ NoRevision \notin Revision
    /\ NoLayout \notin Layout
    /\ Own \notin Library
    /\ Version \subseteq Nat
    /\ LegacyVersion \subseteq Nat \ {0}

VARIABLES floors,     \* the floors table
          revisions,  \* the floor_map_revisions table
          audit,      \* the entries of map_audit_log, without their order
          desks       \* the last synchronisation of each floor's desk rows

vars == <<floors, revisions, audit, desks>>

FloorRow == [status: {"absent", "live", "deleted"},
             published: Revision \cup {NoRevision},
             draft: Revision \cup {NoRevision}]

\* semantic_svg: the layout drawn and the components its furniture is drawn with.
Rendering == [layout: Layout \cup {NoLayout}, components: Library \cup {Own}]
NoSvg == [layout |-> NoLayout, components |-> Own]

\* A "free" id has not been handed out yet; a "deleted" one never will be again.
RevisionRow == [status: {"free", "draft", "published", "archived", "deleted"},
                floor: Floor \cup {NoFloor},
                version: Nat,
                layout: Layout \cup {NoLayout},
                svg: Rendering]

AuditEntry == [floor: Floor,
               action: {"saved", "published", "discarded", "rolled_back",
                        "desks_synced"},
               revision: Revision \cup {NoRevision}]

DeskSyncMark == [source: {"none", "draft", "published"},
                 layout: Layout \cup {NoLayout}]

TypeOK ==
    /\ floors \in [Floor -> FloorRow]
    /\ revisions \in [Revision -> RevisionRow]
    /\ audit \subseteq AuditEntry
    /\ desks \in [Floor -> DeskSyncMark]

-----------------------------------------------------------------------------
Live(f) == floors[f].status = "live"
HasDraft(f) == floors[f].draft # NoRevision
HasPublished(f) == floors[f].published # NoRevision

NoMap(status) ==
    [status |-> status, published |-> NoRevision, draft |-> NoRevision]

NoRow(status) == [status |-> status, floor |-> NoFloor, version |-> 0,
                  layout |-> NoLayout, svg |-> NoSvg]

NeverSynced == [source |-> "none", layout |-> NoLayout]

Entry(f, action, r) == [floor |-> f, action |-> action, revision |-> r]

\* A mutant of DraftVersion: it forgets the increment.
SameVersion(f) ==
    IF HasPublished(f) THEN revisions[floors[f].published].version ELSE 1

\* A mutant of DraftVersion: it counts the floor's rows.
CountedVersion(f) ==
    1 + Cardinality({r \in Revision : revisions[r].floor = f})

\* The version a new draft of the floor gets.
DraftVersion(f) ==
    IF HasPublished(f) THEN revisions[floors[f].published].version + 1 ELSE 1

\* A mutant of Without: a soft delete, with a status outside the table's CHECK.
SoftDeleted(rows) ==
    [r \in Revision |-> IF r \in rows THEN NoRow("removed") ELSE revisions[r]]

\* Rows of revisions are deleted, by an operation or by ON DELETE CASCADE.
Without(rows) ==
    [r \in Revision |-> IF r \in rows THEN NoRow("deleted") ELSE revisions[r]]

-----------------------------------------------------------------------------
\* Databases the server starts on: floors that do not exist yet, floors with
\* no map, and floors whose map was published before EnsureSchema added the
\* column semantic_svg.
LegacyMap == [status: {"published"}, floor: Floor, version: LegacyVersion,
              layout: Layout, svg: {NoSvg}]

Init ==
    /\ floors \in [Floor -> {NoMap("absent")} \cup
                      [status: {"live"}, published: Revision \cup {NoRevision},
                       draft: {NoRevision}]]
    /\ revisions \in [Revision -> {NoRow("free")} \cup LegacyMap]
    /\ \A r \in Revision : revisions[r] \in LegacyMap =>
          floors[revisions[r].floor].published = r
    /\ \A f \in Floor : HasPublished(f) =>
          revisions[floors[f].published].floor = f
    /\ audit = {}
    /\ desks = [f \in Floor |-> NeverSynced]

\* POST /offices/{id}/floors inserts a row with both pointers NULL.
CreateFloor(f) ==
    /\ floors[f].status = "absent"
    /\ floors' = [floors EXCEPT ![f] = NoMap("live")]
    /\ UNCHANGED <<revisions, audit, desks>>

\* DELETE /floors/{id}; revisions, audit entries and desks go with it.
DeleteFloor(f) ==
    /\ Live(f)
    /\ floors' = [floors EXCEPT ![f] = NoMap("deleted")]
    /\ revisions' = Without({r \in Revision : revisions[r].floor = f})
    /\ audit' = {a \in audit : a.floor # f}
    /\ desks' = [desks EXCEPT ![f] = NeverSynced]

\* UpdateDraftLayout and UpdateDraftForRestore: the row keeps its version.
OverwrittenRow(row, layout) ==
    [row EXCEPT !.layout = layout, !.svg = NoSvg, !.status = "draft"]

\* SaveDraft on a floor that has a draft: the draft is overwritten in
\* place.
UpdateDraft(f, version, layout) ==
    LET d == floors[f].draft IN
    /\ Live(f)
    /\ HasDraft(f)
    /\ version = revisions[d].version
    /\ revisions' = [revisions EXCEPT ![d] =
           OverwrittenRow(@, layout)]
    /\ audit' = audit \cup {Entry(f, "saved", d)}
    /\ UNCHANGED <<floors, desks>>

\* A draft row is inserted for floor f and becomes its draft.
InsertDraft(f, r, layout) ==
    /\ revisions[r].status = "free"
    /\ revisions' = [revisions EXCEPT ![r] =
           [status |-> "draft", floor |-> f, version |-> DraftVersion(f),
            layout |-> layout, svg |-> NoSvg]]
    /\ floors' = [floors EXCEPT ![f].draft = r]

\* SaveDraft on a floor without a draft.
SaveNewDraft(f, r, version, layout) ==
    /\ Live(f)
    /\ ~HasDraft(f)
    /\ version \in {DraftVersion(f) - 1, DraftVersion(f)}
    /\ InsertDraft(f, r, layout)
    /\ audit' = audit \cup {Entry(f, "saved", r)}
    /\ UNCHANGED desks

\* A mutant of ArchivedRow: the previous revision keeps its status.
UntouchedRow(row) == row

\* ArchiveRevision and PublishRevision.
ArchivedRow(row) == [row EXCEPT !.status = "archived"]
PublishedRow(row, svg) == [row EXCEPT !.status = "published", !.svg = svg]

\* RenderSVG of a layout whose furniture is drawn with these components.
Drawn(layout, components) == [layout |-> layout, components |-> components]

\* A mutant of Publish: SetFloorPublishedRevision leaves the draft pointer.
PublishKeepingDraft(f) ==
    LET d == floors[f].draft
        p == floors[f].published
        layout == revisions[d].layout
    IN
    /\ Live(f)
    /\ HasDraft(f)
    /\ \E components \in Library \cup {Own} :
          revisions' = [r \in Revision |->
              CASE r = d -> PublishedRow(revisions[d], Drawn(layout, components))
                [] r = p /\ r # d -> ArchivedRow(revisions[p])
                [] OTHER -> revisions[r]]
    /\ floors' = [floors EXCEPT ![f].published = d]
    /\ audit' = audit \cup {Entry(f, "published", d)}
    /\ desks' = [desks EXCEPT ![f] =
           [source |-> "published", layout |-> layout]]

\* A mutant of Publish: the desk rows are left as they are.
PublishWithoutDesks(f) ==
    LET d == floors[f].draft
        p == floors[f].published
        layout == revisions[d].layout
    IN
    /\ Live(f)
    /\ HasDraft(f)
    /\ \E components \in Library \cup {Own} :
          revisions' = [r \in Revision |->
              CASE r = d -> PublishedRow(revisions[d], Drawn(layout, components))
                [] r = p /\ r # d -> ArchivedRow(revisions[p])
                [] OTHER -> revisions[r]]
    /\ floors' = [floors EXCEPT ![f] =
           [@ EXCEPT !.published = d, !.draft = NoRevision]]
    /\ audit' = audit \cup {Entry(f, "published", d)}
    /\ UNCHANGED desks

\* Publish: the draft becomes the published revision, the old one is archived,
\* semantic_svg is rendered and the desk rows are synchronised.  The furniture is
\* drawn with what the component catalogue holds at that moment, which other
\* endpoints change at any time, or with the document's own components if the
\* catalogue cannot be read or is empty (injectFreshComponentsFromPool).
Publish(f) ==
    LET d == floors[f].draft
        p == floors[f].published
        layout == revisions[d].layout
    IN
    /\ Live(f)
    /\ HasDraft(f)
    /\ \E components \in Library \cup {Own} :
          revisions' = [r \in Revision |->
              CASE r = d -> PublishedRow(revisions[d], Drawn(layout, components))
                [] r = p /\ r # d -> ArchivedRow(revisions[p])
                [] OTHER -> revisions[r]]
    /\ floors' = [floors EXCEPT ![f] =
           [@ EXCEPT !.published = d, !.draft = NoRevision]]
    /\ audit' = audit \cup {Entry(f, "published", d)}
    /\ desks' = [desks EXCEPT ![f] =
           [source |-> "published", layout |-> layout]]

\* DiscardDraft: logged even when there is no draft to discard.
DiscardDraft(f) ==
    /\ Live(f)
    /\ IF HasDraft(f)
       THEN /\ floors' = [floors EXCEPT ![f].draft = NoRevision]
            /\ revisions' = Without({floors[f].draft})
       ELSE UNCHANGED <<floors, revisions>>
    /\ audit' = audit \cup {Entry(f, "discarded", NoRevision)}
    /\ UNCHANGED desks

\* RestoreRevisionToDraft on a floor that has a draft: the draft's content is
\* replaced by that of revision s.
RestoreOverDraft(f, s) ==
    LET d == floors[f].draft IN
    /\ Live(f)
    /\ revisions[s].floor = f
    /\ HasDraft(f)
    /\ revisions' = [revisions EXCEPT ![d] =
           OverwrittenRow(@, revisions[s].layout)]
    /\ audit' = audit \cup {Entry(f, "rolled_back", d)}
    /\ UNCHANGED <<floors, desks>>

\* A mutant of RestoreToNewDraft: the history entry is missing.
RestoreUnlogged(f, s, r) ==
    /\ Live(f)
    /\ revisions[s].floor = f
    /\ ~HasDraft(f)
    /\ InsertDraft(f, r, revisions[s].layout)
    /\ UNCHANGED <<audit, desks>>

\* RestoreRevisionToDraft on a floor without a draft.
RestoreToNewDraft(f, s, r) ==
    /\ Live(f)
    /\ revisions[s].floor = f
    /\ ~HasDraft(f)
    /\ InsertDraft(f, r, revisions[s].layout)
    /\ audit' = audit \cup {Entry(f, "rolled_back", r)}
    /\ UNCHANGED desks

\* SyncDesksForFloor: from the draft when the caller asks for it and there is
\* one, otherwise from the published revision.
SyncDesks(f, source) ==
    LET useDraft == source = "draft" /\ HasDraft(f)
        r == IF useDraft THEN floors[f].draft ELSE floors[f].published
    IN
    /\ Live(f)
    /\ r # NoRevision
    /\ desks' = [desks EXCEPT ![f] =
           [source |-> IF useDraft THEN "draft" ELSE "published",
            layout |-> revisions[r].layout]]
    /\ audit' = audit \cup {Entry(f, "desks_synced", r)}
    /\ UNCHANGED <<floors, revisions>>

\* CleanupArchivedRevisions: rows is the set of archived revisions last touched
\* before the cutoff; one that a floor points to is kept.
Cleanup(rows) ==
    LET current == {floors[f].published : f \in Floor}
                     \cup {floors[f].draft : f \in Floor}
    IN
    /\ \A r \in rows : revisions[r].status = "archived"
    /\ revisions' = Without(rows \ current)
    /\ UNCHANGED <<floors, audit, desks>>

\* GetPublishedSemanticSVG on a published revision without semantic_svg: a
\* rendering with the document's own components is stored, even if the revision
\* was archived in the meantime.
CacheSemanticSVG(r) ==
    /\ revisions[r].status \in {"published", "archived"}
    /\ revisions[r].svg = NoSvg
    /\ revisions' = [revisions EXCEPT ![r].svg = Drawn(revisions[r].layout, Own)]
    /\ UNCHANGED <<floors, audit, desks>>

-----------------------------------------------------------------------------
SaveDraft(f) ==
    \E version \in Version, layout \in Layout :
        \/ UpdateDraft(f, version, layout)
        \/ \E r \in Revision : SaveNewDraft(f, r, version, layout)

Restore(f) ==
    \E s \in Revision :
        \/ RestoreOverDraft(f, s)
        \/ \E r \in Revision : RestoreToNewDraft(f, s, r)

\* What the layout, floor and maintenance endpoints do to the tables.
Write ==
    \/ \E f \in Floor :
          \/ CreateFloor(f)
          \/ DeleteFloor(f)
          \/ SaveDraft(f)
          \/ Publish(f)
          \/ DiscardDraft(f)
          \/ Restore(f)
          \/ \E source \in {"draft", "published"} : SyncDesks(f, source)
    \/ \E rows \in SUBSET Revision : Cleanup(rows)

Next == Write \/ \E r \in Revision : CacheSemanticSVG(r)

Spec == Init /\ [][Next]_vars

-----------------------------------------------------------------------------
(***************************************************************************)
(* Safety                                                                  *)
(***************************************************************************)

\* A floor's draft pointer names a draft of that floor and its published
\* pointer a published revision of it.
PointersNameTheirRow ==
    \A f \in Floor :
        /\ ~Live(f) => ~HasDraft(f) /\ ~HasPublished(f)
        /\ HasDraft(f) => /\ revisions[floors[f].draft].status = "draft"
                          /\ revisions[floors[f].draft].floor = f
        /\ HasPublished(f) => /\ revisions[floors[f].published].status = "published"
                              /\ revisions[floors[f].published].floor = f

\* A draft or published revision that no floor points to does not exist: it
\* could be neither edited, shown, discarded nor cleaned up.
NoOrphanRevision ==
    \A r \in Revision :
        /\ revisions[r].status = "draft" =>
              \E f \in Floor : floors[f].draft = r
        /\ revisions[r].status = "published" =>
              \E f \in Floor : floors[f].published = r

\* The two pointers of floors and the status column of floor_map_revisions,
\* kept in step by SaveDraft, Publish, DiscardDraft and Restore, always agree,
\* so a floor has at most one draft and one published revision.
PointersAgree == PointersNameTheirRow /\ NoOrphanRevision

\* Rows in use belong to a floor that exists and hold a document (the cascade
\* from floors leaves none behind, and Restore only copies from such rows).
RowsBelong ==
    \A r \in Revision :
        IF revisions[r].status \in {"free", "deleted"}
        THEN revisions[r].floor = NoFloor /\ revisions[r].svg = NoSvg
        ELSE /\ revisions[r].floor \in Floor
             /\ Live(revisions[r].floor)
             /\ revisions[r].layout \in Layout

\* The inductive invariant behind the properties of the tables.
Consistent == TypeOK /\ PointersAgree /\ RowsBelong

DraftIsNext ==
    \A f \in Floor : HasDraft(f) =>
        revisions[floors[f].draft].version = DraftVersion(f)

ArchiveIsOlder ==
    \A r \in Revision : revisions[r].status = "archived" =>
        LET f == revisions[r].floor IN
        /\ HasPublished(f)
        /\ revisions[r].version < revisions[floors[f].published].version

VersionsDistinct ==
    \A r, s \in Revision :
        (r # s /\ revisions[r].floor # NoFloor
               /\ revisions[r].floor = revisions[s].floor) =>
            revisions[r].version # revisions[s].version

\* The version column numbers a floor's maps: an archived revision is older
\* than the published one, the draft is the published one's successor, and no
\* two revisions of a floor share a version, whatever was saved, discarded,
\* restored and cleaned up in between.
VersionsIdentify == DraftIsNext /\ ArchiveIsOlder /\ VersionsDistinct

\* GetHistory tells where a map came from: a draft has an entry of the save or
\* restore that made it, a revision with a "published" entry is never a draft
\* again, and no entry outlives its floor.
AuditAccounts ==
    /\ \A r \in Revision : revisions[r].status = "draft" =>
          \E a \in audit : /\ a.action \in {"saved", "rolled_back"}
                           /\ a.revision = r
                           /\ a.floor = revisions[r].floor
    /\ \A a \in audit : Live(a.floor)
    /\ \A a \in audit : a.action = "published" =>
          revisions[a.revision].status \in {"published", "archived", "deleted"}

\* Unless somebody synchronised the desks from a draft since, the desk rows of
\* a floor were made from the very map the floor shows (Publish synchronises
\* in the transaction that moves the pointer).
DesksMatchPublished ==
    \A f \in Floor : desks[f].source = "published" =>
        /\ HasPublished(f)
        /\ desks[f].layout = revisions[floors[f].published].layout

\* semantic_svg never shows another map than the one its revision holds.
SvgMatchesLayout ==
    \A r \in Revision :
        \/ revisions[r].svg = NoSvg
        \/ revisions[r].svg.layout = revisions[r].layout

\* Publish and GetPublishedSemanticSVG store different renderings of one map, so
\* which of them writes, and when, shows: semantic_svg is a rendering of the map
\* its revision holds, and once a revision is published and has one it keeps it,
\* so that the plainer rendering a reader makes never replaces the one of the
\* publication.
RenderingsKept ==
    /\ []SvgMatchesLayout
    /\ [][\A r \in Revision :
             (/\ revisions[r].status \in {"published", "archived"}
              /\ revisions[r].svg # NoSvg) =>
                 \/ revisions'[r].svg = revisions[r].svg
                 \/ revisions'[r].status = "deleted"]_vars

\* Once published, a revision's content and version never change and it never
\* becomes a draft again: it is archived once and then only deleted, and never
\* deleted while it is the published one unless its floor is.
PublishedIsFrozen ==
    [][\A r \in Revision :
          LET old == revisions[r]
              new == revisions'[r]
          IN old.status \in {"published", "archived"} =>
                \/ /\ new.layout = old.layout
                   /\ new.version = old.version
                   /\ new.floor = old.floor
                   /\ \/ new.status = old.status
                      \/ new.status = "archived"
                \/ /\ new.status = "deleted"
                   /\ \/ old.status = "archived"
                      \/ floors'[old.floor].status = "deleted"]_vars

-----------------------------------------------------------------------------
(***************************************************************************)
(* What a user of the API sees of a floor, and the specification it obeys. *)
(***************************************************************************)
Shown == [f \in Floor |->
    IF HasPublished(f) THEN revisions[floors[f].published].layout ELSE NoLayout]
Working == [f \in Floor |->
    IF HasDraft(f) THEN revisions[floors[f].draft].layout ELSE NoLayout]
Edition == [f \in Floor |->
    IF HasPublished(f) THEN revisions[floors[f].published].version ELSE 0]
Open == {f \in Floor : Live(f)}

\* The store implements the two-slot map of MapSlots: readers see one map per
\* floor, replaced only by publishing the working copy, and its edition number
\* goes up by exactly one each time.
Slots == INSTANCE MapSlots WITH shown <- Shown, working <- Working,
                                edition <- Edition, open <- Open

ImplementsSlots == Slots!Spec
=============================================================================
