# Formal models of the DeskBook layout editor

TLA+ models of the system in `../src`: a Go backend (`src/backend-go`) that
stores floor plans in PostgreSQL, and a React client
(`src/frontend/admin-react`) in which administrators draw them. The models are
translated from the code; the documents under `src/docs` are used for what the
code is *said* to do, and the places where code and documents disagree are
listed under [Disagreements](#disagreements).

1. [The system](#1-the-system) – parts, state, interactions, what is hard
2. [The models](#2-the-models) – module by module, and how they map to the code
3. [The runs](#3-the-runs) – what TLC checks, the bounds, the fairness
4. [The proofs](#4-the-proofs) – what TLAPS proves, and how
5. [Disagreements](#5-disagreements) between the code and what is said of it
6. [Not modelled](#6-not-modelled), and why
7. [What is left](#7-what-is-left)

To repeat a run: `tlc -config <X>.cfg <module>`; a proof: `tlapm <module>.tla`.
`PROJECT.json` lists the runs, the hazards they are aimed at, the source lines
of every definition and, for every property, a *mutant*: a bug one could have
made in a modelled definition and that the property catches in its run.

## 1. The system

| part | code | state it keeps | operations | module |
|---|---|---|---|---|
| layout store | `internal/store/layouts.go` | tables `floors` (two pointers), `floor_map_revisions`, `map_audit_log` | save, publish, discard, restore, sync desks, clean up; reads | FloorLayout, LayoutReads |
| desk synchronisation | `store/layouts.go` 1113–1228, `store/desks.go` | table `desks` (label, QR code, assignment) | match the desks of a layout to rows; PATCH, DELETE of one desk | DeskSync |
| floor lock | `store/layouts.go`, `handler/layouts.go`, `handler/handler.go` | table `floor_locks` with an expiry | acquire, release, get, janitor | FloorLock |
| event broker | `handler/broker.go` | a channel of ten per subscriber | subscribe, broadcast, unsubscribe | FloorLock |
| editing session | `LayoutPanel.jsx`, `main.jsx`, saving in `CanvasEditor.jsx` | selected floor, mode, layout prop, canvas, save in flight | draw, save, autosave, switch mode, publish, … | EditSession |
| canvas editor | `CanvasEditor.jsx`, `lib/canvas/useUndoRedo.js` | document, selection, tool, gesture, undo stacks | some sixty operations of mouse, keys and panels | CanvasEditor, UndoRedo |
| plan geometry | `CanvasEditor.jsx`, `lib/canvas/hitTest.js`, `useGrid.js`, `useSelection.js` | none (pure) | intersect, hit, select, snap, align, spread, resize | PlanGeometry, PlanArrange, PlanSamples |
| view of the canvas | `lib/canvas/useViewport.js` | view box, zoom, drag | zoom, pan, fit | Viewport |
| component editor | `ComponentEditor.jsx` | shapes, markup, picked shape, toolbar | draw, resize, restyle, edit the code | ComponentEditor |
| session, buildings, library | `main.jsx`, `BuildingPanel.jsx`, `ComponentPanel.jsx`, `api.js`, `componentCatalog.js` | token, reference lists, tab, selected floor, open form | login, logout, create, rename, delete, save | AdminShell |
| accounts | `handler/auth.go`, `handler/users.go`, `internal/auth` | tables `users`, `invites`; tokens | register, login, invite, administrate | – |
| offices, floors, templates, blocks | `store/*.go` | single rows | create, update, delete | FloorLayout (floors) |
| panel tools | `HistoryModal`, `ImportModal`, `PropertiesPanel`, validation, JSON editor | form state | restore, import, edit properties | CanvasEditor (properties) |
| SVG export and import | `internal/exporter`, `lib/svgimport` | none (pure) | layout ↔ text | – |
| start-up, migrations, generated queries | `cmd/server`, `internal/db` | configuration | – | – |

**How they interact.** The client talks HTTP to the handlers; a handler calls one store operation, which is one
PostgreSQL transaction (or a few statements outside one), and after the commit tells the broker about locks. The
broker pushes events to the open `GET /floors/{id}/lock/sse` streams, which every LayoutPanel listens to.
Publishing calls the exporter for the rendering and the desk synchronisation inside its transaction. Clients
share a floor's draft, published map and lock, and nothing else. In the client, `main.jsx` owns the session, the
lists and the selected floor; LayoutPanel owns the layout prop, the mode and the lock, and shows a CanvasEditor,
which owns the drawing and its history and saves it; the other pages work on the server and ask `main.jsx` to
load its lists again.

**What is hard.**

* *Interleavings in the server.* Writers lock the floor row; readers do not, and read the pointers and the rows in
  separate statements. One of them writes. The lock is read, expired and deleted in separate statements by the
  acquirer, by a reader and by the janitor. The endpoints of a single desk hold nothing while a synchronisation
  works on a list it read before. Events are sent after the commit.
* *Two pieces of state that must agree.* Pointers in `floors` and the `status` column in `floor_map_revisions`;
  versions computed from a neighbour's version; the rendering and the desk rows made from a document that changes
  later; the document of a canvas and the entries of its history; shapes and the markup they were read from.
* *Interleavings in the client.* Every handler awaits requests while the user draws on, opens another page or logs
  out; state captured before the await is used after it; saves exclude each other by a flag that makes a second
  save return `null`; loads of two floors may return in either order; an unmounted canvas has a save in flight.
* *Stale closures.* A key handler sees the document it was registered with, until one of its listed dependencies
  changes.
* *Optimistic locking* by a version number the client gets with a load, which a save does not refresh.
* *Time.* A lock lives ten minutes, nobody renews it, the janitor runs every 15 s, an autosave is due 30 s after
  the last change.
* *Failure.* Requests fail before or after the server carried them out, or find the session expired; a subscriber's
  full channel drops events; accounts are deleted with their locks.
* *Edges of numbers.* Collinear outlines, ties between snap points, rotated boxes at their least size, the limits of
  the zoom.

What makes each part correct: the properties of its module below.

## 2. The models

```
              MapSlots  (abstract: shown, working, edition of each floor)
             ^    ^
  implements |    | extends
             |    |
   FloorLayout    EditSession  (tabs, saves, loads, lock as the client sees it)
     ^     ^
extends    | extends
     |     |
LayoutReads  |                       FloorLock  (lock table, janitor, broker)
     ^       |
     |  FloorLayoutProofs
     |       ^
  LayoutReadsProofs                  UndoRedo  (two stacks)
                                         ^ extends
DeskSync  (rows of a floor)          CanvasEditor  (document, selection, gestures)

PlanGeometry <- PlanArrange          ComponentEditor  (shapes and markup)
                  ^                      ^ extends
       Viewport   |                  AdminShell  (session, buildings, library)
             ^    |
             PlanSamples
```

The proofs about a component are in a module that extends it: `FloorLayoutProofs`, `LayoutReadsProofs`, `FloorLockProofs`,
`DeskSyncProofs`, `EditSessionProofs`, `CanvasEditorProofs`, `AdminShellProofs` (which covers ComponentEditor too) and `PlanProofs`
(about the four modules of the plan).

`MC*` modules add symmetry sets, samples and views for TLC. Where two modules speak of one thing, one keeps of it what
the other's properties need: FloorLayout knows of desk rows only from which layout they were made, DeskSync how;
EditSession knows of a drawing only the set of edits in it, CanvasEditor how they are made, undone and reset.

### FloorLayout – the tables of the layout store

Variables: `floors` (published and draft pointer of each floor), `revisions` (the
rows, by id), `audit` (entries of `map_audit_log`), `desks` (from which layout the
desk rows of a floor were last made).

Every writing operation opens a transaction whose first statement is
`SELECT … FROM floors … FOR UPDATE`, so for one floor they are serial, and each is
one action: `UpdateDraft` and `SaveNewDraft` (the two halves of `SaveDraft`),
`Publish`, `DiscardDraft`, `RestoreOverDraft` and `RestoreToNewDraft`,
`SyncDesks`, `Cleanup`, and `CreateFloor`, `DeleteFloor` with its cascades.
`CacheSemanticSVG` is the one statement a reader writes with. An operation that
returns an error rolls back, which is a stuttering step.

`Init` is any database the server may start on: floors that do not exist yet, have
no map, or have a map published before the column `semantic_svg` was added.

*Abstractions.* A layout document is an opaque value. A rendering (`Rendering`) is the layout it was made
from and the components it was drawn with: `Publish` injects the ones of the catalogue (a member of `Library`;
the catalogue may change any time), `GetPublishedSemanticSVG` draws with those the document has itself (`Own`). The serial ids are sets of model values, of which each is used once
("free", then used, then "deleted"). Timestamps are left out: `Cleanup` may delete
any set of archived revisions. `audit` is a set: the properties ask what is logged, not
when.

*Properties.* `PointersAgree` (a draft or published row is the one its floor points
to), `VersionsIdentify` (versions number
the maps of a floor, although they are computed from whichever map is published at
the time), `AuditAccounts`, `DesksMatchPublished`, `RenderingsKept` (what is stored is a rendering of the row's own
map, and a published row that has one keeps it, so that the reader's plainer one never replaces the
publication's), `PublishedIsFrozen` (a published map is immutable, through archiving, restoring and
cleaning up), and `ImplementsSlots`: with `shown`, `working`, `edition` and `open`
read off the tables, every step is one of `MapSlots` or a stutter.

### MapSlots – what the store promises

No tables: a floor shows one map with an edition number and has at most one working
copy. `Write`, `Issue`, `Drop`, `OpenFloor`, `CloseFloor`.

### LayoutReads – the readers, statement by statement

Extends FloorLayout with requests in progress (`reads`): `GetDraftOrPublished`
("load"), `GetPublished` ("show") and `GetPublishedSemanticSVG` ("draw"). Each reads
the pointers, then a row, and "draw" finally stores a rendering; any writer may run in
between (`Elsewhere`), and other readers. Any statement may fail (`failed`), whatever the tables hold. `GetDraftOrPublished`
swallows that twice: a draft it cannot read makes it answer the published map (`layouts.go` 380), and a published map it
cannot read makes it answer that there is none (385). *Assumption*, stated in `Elsewhere`: a
revision a request has just got the id of is not cleaned up before the request ends
(the clean-up keeps archived revisions for at least a day).

*Properties.* `AnswersCurrent`: the answer is what an instantaneous reader would have
got at some moment of the request (`current` is a history field with these
answers), or the failure of a statement. What is left of it when a failure is swallowed: a draft that could not be read is
answered by the map the floor *showed* at some moment (`shown`), and only a published map that could not be read is
answered by "no map". So a load may show the published map while a draft lives; no answer is a map that was gone before.
`RenderingsKept`: in spite of writing back a rendering of a document read two statements earlier, what
is stored is a rendering of the row as it is, and a reader that is late does not overwrite one.

### DeskSync – labels and rows

Variables: `rows` (the label of each row of the floor's `desks`; a row stands for its `qr_token`, which is given once),
`sync` (the transaction of a synchronisation: the layout's desks still to do, the list it read, which row each label
got), and the history `renamed`.

| action | code |
|---|---|
| `SyncBegin` | `Publish` or `SyncDesksForFloor` up to the list of the floor's rows |
| `SkipDesk`, `UpdateDeskForSync`, `InsertDeskForSync` | one turn of the loop in `syncDesksTx` |
| `SyncEnd` | the clean-up, if it was asked for, and the commit |
| `UpdateDesk`, `DeleteDesk` | `PATCH` and `DELETE /desks/{id}`, between the statements of a synchronisation |

`Candidates` is the heart: rows with the very label first, then rows whose label has the same form (upper case, letters
and digits only), and none that was used. The query gives no order, so any candidate may be the first. `Init` is
any table: rows with equal labels, with blank ones, or spelled in two ways.

*Abstractions.* Type, person and place of a desk are left out; labels are kept without the blanks around them; a label
longer than the column, on which the whole transaction fails, did not happen. Rows the transaction has written are out
of the reach of the others until it commits.

*Properties.* `LabelsDistinct` (nothing in the schema forbids two rows with a label, and no synchronisation makes
them), `KeepsItsDesk` (a label that has a row is drawn on that row, so the code on the table goes on leading to it,
unless another spelling of it is drawn for which there was no row), `Mirrored` (at the commit every drawn label has its row,
and after a clean-up nothing else is there).

### FloorLock – lock, janitor, broker, subscribers

Variables: `clock`; `users`; `locks` (holder and expiry of each floor); `handling` (the
requests in progress, each between two of its steps); `janitor`; `streams` (the
subscribers' channels, and what a viewer makes of the events); and the history
variable `grants`, until when a user who was granted a lock may count on it.

`AcquireBegin`/`AcquireCommit` are a transaction that holds the floor row and read the
clock when it began. `ReleaseBegin` is the request on its way, `ReleaseCommit` its
`DELETE`, `Announce` the broadcast after the commit, which the handler makes even if
nothing was deleted. `GetExpired`/`DeleteExpired`, and `JanitorRead`/`JanitorDelete`/
`JanitorAnnounce`, are statements of their own. `Broadcast` never blocks: a full channel
loses the event.

*Properties.* `GrantsExclusive` (who was told to hold the lock is the only one, until the
time he was told), `LockRespected` (an unexpired lock is taken from nobody),
`ExpiredLockGoes` (liveness: an abandoned lock is deleted), `EventsExplained` (the events
tell the state of the lock except after one of five listed incidents, which set the
history field `blurred`).

### EditSession – the layout tab

Extends MapSlots: the store as FloorLayout implements it, with `SaveDraft`'s version check
written in editions (`Accepts`; that a draft's version is the edition plus one is part of
FloorLayout's `VersionsIdentify`). `editors` holds what a tab holds: selected floor, mode,
layout prop, canvas document, the flags `dirty`, `failed`, `busy`, `isLockedByOther`, the autosave timer
(`armed`), the save in flight and the rendering of its preview after it (`saving`, `rendering`: together
`savingRef`), loads in flight, and the rest of an `async` handler that is
suspended in an `await` (`task`). `locks` is the lock as a client sees it; it may expire any time
(`Expire`).

| action | code |
|---|---|
| `Draw` | any change of the canvas: `setDirty(true)`, timer restarted |
| `Reset` | `resetChanges`: back to the layout prop |
| `Save`, `Autosave`, `SaveAnswer`, `PreviewAnswer` | `saveDraft`, the timer's effect, its `PUT`, the preview of what was saved |
| `SwitchToCanvas`, `LockAnswer`; `SwitchFrom`, `UnlockAnswer` | `switchMode`, `acquireLock`, `releaseLock` |
| `Publish`, `PublishAnswer` | `handlePublish`, `publishDraft` |
| `Replace`, `Discard`, `Restore` | blank draft, template, import; `discardDraft`; `restore` |
| `SelectFloor`, `Refresh`, `Leave` | top bar, `refreshAll`, closing or logging out |
| `LoadExecute`, `LoadDeliver` | `loadLayout`: the server's answer, its arrival |
| `Learn` | lock state fetched or received as an event |

*Abstractions.* A document is the set of edits in it. A request that is not a load and its answer
are one step, at any time after the request was sent, with three fates: answered,
never arrived (`unsent`), carried out but not heard of (`unheard`). The commands that replace the draft
(`Replace`, `Discard`, `Restore`) are one step that is heard of or not; what follows them, the load of the
new draft, is not. One tab per user. The history
fields (`drawnOn`, `mayMix`, `quiet`, `saved`, `unsaved`, `missed`, `overtaken`, and `writers`) only serve to
state properties and are never read by a guard or by another field.

*Bounds that are part of the module*: `MaxEdition` publications of a floor, `MaxLoads` loads in flight,
`Goals` (which commands the users of an instance use), `SlowPreview` (whether rendering a preview
takes time), one command of the panel at a time (`Free`: a mode switch, publication or replacement begins
when the one before has ended; drawing, saving, resetting, refreshing and selecting a floor go on
meanwhile), a canvas is opened only when the
previous canvas's save has been answered (`SwitchToCanvas`, and `LoadDeliver` for a blank draft).

*Properties.* `SaveKeepsPublished` (a canvas opened on a published map is never saved over a map
published since), `LeavingKeepsWork` (leaving the canvas by a mode button loses nothing),
`PublishesWhatIsDrawn`, `AutosaveAnswers` (liveness, edit by edit: once the user pauses, what was drawn on a canvas that is not
marked clean, and is in the save in flight if there is one, comes to be in an acknowledged save or is taken off the canvas, or
the user sees that a save failed, unless the timer fires while the preview of an earlier save is rendered: then the drawing
stays unsaved until the next change). What is drawn *while* an earlier save is in flight is not covered, and is really lost sight of: its answer
marks the canvas clean (`CanvasEditor.jsx` 2718) and disarms the timer. `RightFloorSaved` (nothing drawn on one floor is saved on another, with three
exceptions that are real and named in the property). The conditions in these
properties (`quiet`, `mayMix`, …) are as weak as TLC allowed: without each of them
there is a counterexample, which is a behaviour of the client worth knowing (drawing while a
save is under way marks the new edits clean when it ends; a save asked for during another one
is skipped; a late load of the previously selected floor replaces the new one's).

### UndoRedo and CanvasEditor – drawing, selection, history

`UndoRedo` has the two stacks as operators: `push`, `undo`, `redo`, cut off at `maxDepth` where the code does, and `pushEach`
for the handler that pushes the same state once per selected desk (`PushEachIsPushes` proves that it is `push` repeated).
`CanvasEditor` has the document that `snapshot()` copies (`doc`: desks and their groups, walls, a zone, layers
of lines, the background, the locks), what is in no snapshot (`scale`), the tool, selections and clipboard (`ui`), the stacks
(`hist`), the gesture under way (`hand`), an image being read (`loading`), and the two *views* that stale handlers were made
in: `keys` and `dbl`. React registers the key handler anew only if one of the dependencies at `CanvasEditor.jsx` 1725
changes; `Renders` says which step changes one. An action with the parameter `seen` may be called from a button, which
sees the present, or by a key, which sees `keys`.

| actions | code |
|---|---|
| `addDeskAt`, `insertObjects`, `MoveSelected`, `UpdateDesk`, `BulkUpdate`, `deleteSelected`, `duplicateSelected`, `Copy`, `Paste`, `groupSelected`, `ungroupSelected`, `deleteGroup`, `selectGroup`, `CatalogueResizes`, `ToggleDesksLock` | desks and their groups |
| `PatchStruct`, `deleteSelectedStruct`, `splitStructureSegment`, `toggleStructureLock`, `updateZone`, `deleteZone` | walls and zones |
| `addInfraLayer` … `DeleteInfraItem` | layers of lines and what is in them |
| `fitBackgroundToCanvas` … `applyLoadedBackground` | the traced background and its image |
| `PickTool`, `KeyTool`, `SpaceDown`, `DrawPoint`, `EnterKey`, `DoubleClickDraw`, `EscapeKey` | tools and drawing |
| `PressDesk`, `PressWall`, `PressZone`, `PressEmpty`, `Grip`, `onSvgPointerMove`, `onSvgPointerUp` | gestures |
| `Undo`, `Redo`, `LoadLayout`, `resetChanges`, `Save`, `ChangeScale` | history and life of the document |

*Abstractions.* The geometry of an object is one of two places; there are two walls, a zone and a few desks. Partitions,
doors and boundaries, which are handled as walls are, are left out. A save is one step here: its interleavings are
EditSession's. A behaviour uses one of the families of operations in `Kits`, which each share some state.

*Properties.* `HistoryBounded`; `EditsUndoable` (no change goes unrecorded: a step that changes the document puts on the undo stack
the document *that* operation knew (`EditPushed`: the present one, or for each handler that may be stale the one it closed over), or
is a move of a gesture, or is one of five operations the code records nowhere (`Unrecordable`); and of gestures
(`GesturePushed`): taking a handle pushes the document, a drag of desks keeps the one it began with and pushes it when it ends, if it moved
anything. Escape is the one exception: it drops a drag that has moved desks, and the move stays unrecorded); `SelectionLive` (no step leaves a deleted desk selected); `LockedStays` (locked structures do not
change, but by undo, a load, and the end of a drawing or vertex drag that began before an undo brought the lock back);
`HistoryOfLayout` (no entry belongs to a layout that was replaced, but those a gesture or an image begun before
pushes).

What the model shows besides, and states as exceptions or not at all: an edit of several selected desks in the
properties panel pushes the same document once for each of them, so that undoing it takes as many undos as there are desks,
of which all but one change nothing, and a selection as large as the history pushes out everything else; a field of that panel that
is left without a change is an entry too, and forgets what could be redone; Escape in a drag that has moved something leaves
the move unrecorded; Space pressed while drawing ends in the selection tool, with the points still there; pasted desks keep the workplace
id of what was copied; `resetChanges` leaves layers and scale as they are and yet calls the canvas clean; hiding a
layer does not make it dirty.

### PlanGeometry, PlanArrange, Viewport, PlanSamples – the algorithms of the plan

Operators for `segmentsIntersect`, `hasSelfIntersection`, `findObjectAtPoint`, `finishMarquee`, `resolveDrawPoint`, the snap axes of dragged
desks, `alignSelected`, `distributeSelected`, the resizing and scaling of a turned background, and `zoomToFit`; and the view
(`Viewport`) as a machine of its own: `zoomBy`, `startPan`, `updatePan`, `endPan`, `WheelPan`, `ZoomToFit`,
`zoomTo100`, `panTo`, `ContentResized`. `PlanSamples` puts them to questions: a behaviour begins with one of some
hundred thousand samples, and the invariants say what the answer should be, by another definition: an outline
crosses itself unless a direction separates every two of its sides that do not follow each other, and the verdict on it does not depend on
where it begins or which way round it goes (`VerdictRight`); a rubber band takes the desks that a click at some point inside it would
hit (`BandTakesHit`); a click hits the nearest object (`NearestHit`); a point of a drawing joins the nearest corner in reach, else is moved straight
over or beside the last point when Shift is held, else lies on the nearest point of a line in reach, else on the grid, else under the
pointer, and a dragged box moves onto the closest line in reach along each axis (`SnapNearest`); aligned desks stay in the box they filled and the centres of spread ones are equally far apart
(`Arranged`); a resize of an upright background leaves the opposite corner where it is (`BackgroundAnchored`); what is fitted is seen whole
(`FitShowsAll`); a step of the wheel keeps the point under the cursor (`ZoomKeepsCursor`).

*Abstractions.* Coordinates are integers, distances are compared as squared fractions as the code only compares them, angles
are multiples of 90°, zoom factors are powers of two, and in `Viewport` one axis stands for both. `ViewportAssumption` chooses
canvases and boxes that divide into screen pixels, so that no view needs a fraction. `BackgroundsAssumption` and `RowsAssumption`
choose backgrounds and rows whose halves and proportions are whole wherever a property asks for equality; what is true of the others, in
which a whole number is cut off, is part of the theorems in section 4. `InOrder` is a sort: the k-th of some things is the one
with k - 1 before it.

### ComponentEditor and AdminShell – the other pages

`ComponentEditor` is the editor of a library component: `ed` holds shapes, markup, the mode (drawing or code), the picked shape,
the gesture and the toolbar. `EditStep` is any of its operations (`SwitchMode`, `EditCode`, `SelectTool`, `PressHandle`,
`Pick`, `BeginShape`, `MouseMove`, `MouseUp`, `deleteSelected`, `bringToFront`, `sendToBack`, `onFillChange`,
`onStrokeChange`, `onBorderRadiusChange`, `applyShapePropsField`, `TypeSize`, `EscapePick`). One axis stands for both; numbers are
hundredths, and the markup has what `svgNum` leaves of them, tenths, of an ellipse its centre and half (`Written`), from which reading
computes its sides anew;
the width of a stroke goes as its colour; of elements the editor does not draw only the kind matters.

`AdminShell` extends it with the rest of the client: `server` and what `main.jsx` holds of it (`listed`), session, tab,
selected floor, the page of buildings (`building`), the open component (`form`), and `calls`. A call is a handler that
awaits one request after another; the server carries a request out (`Executes`: the endpoints of buildings, of components, and the
lists), it fails (`Fails`), or its session has
expired (`Expired`), and its answer is a step of its own. A call keeps what its closure saw (`sel`) and goes on when its
page is gone. The first building has one floor or two to begin with.

| actions | code |
|---|---|
| `handleLogin`, `handleLogout`, `refreshAll`, `loadReferenceData`, `PickTab`, `SelectFloor` | `main.jsx` |
| `createOffice`/`OfficeMade`/`FloorMade`, `createFloor`, `startEdit`, `cancelEdit`, `saveOffice`, `saveFloor`/`Renamed`, `deleteOffice`, `deleteFloor`/`Deleted`, `openFloor`, `BuildingRefused` | `BuildingPanel.jsx` |
| `openCreate`, `openEdit`, `closeEditor`, `handleSave`, `handleDelete`, `ComponentAnswered`, `ComponentRefused` | `ComponentPanel.jsx` |
| `OtherDeletesFloor` | another administrator |

*Properties.* `ShapesKeyed` (no two shapes have one id, however often the code is parsed anew), `SavedAsDrawn` (what a save
sends is drawn again as it was but for rounding: no number is off by more than a tenth, and none where it is a tenth and so is an ellipse's
half, a second save changes nothing more, and the picture lies in the view stored with it), `RestyleKeepsRest` (changing one thing in the toolbar changes nothing else of the
picked shape, but that a colour given to an unfilled one fills it), `SelectedListed` (the floor in work is one of the list, or
was made here and selected by the call that made it although the lists loaded last were without it, as they failed or somebody had deleted
the floor by then: `adrift`, which the next lists that are loaded end), `SelectionKept` (no answer takes the user away from a listed floor, but to one just made, and by a deletion that was asked
for when the floor to go was selected).

Also shown by the model: a refused second request of a new building leaves a building without a floor, and trying again
makes a second building; an answered save closes whichever component is open by then; a component of the system that was edited is
stored and is one of the system's no more; the 401 of an old request ends a session begun after it; a size
of 0 in the code is read as 50.

## 3. The runs

| run | module, cfg | instance | distinct states |
|---|---|---|---|
| `floor_store` | MCFloorLayout, MCFloorStore | 2 floors, 3 revisions, 2 layouts, 1 catalogue | 342,375 |
| `layout_reads` | MCLayoutReads | 1 floor, 3 revisions, 2 readers, any statement may fail | 605,477 |
| `desk_sync` | MCDeskSync | 3 rows, 3 labels of which 2 are spellings of one, every layout of the sample with and without clean-up | 272,705 |
| `floor_lock` | MCFloorLock | 2 users, 2 handlers, 1 viewer, `TTL` 2, 3 ticks, channel of 1 | 392,751 |
| `edit_session` | MCEditSession | 1 tab, 1 floor, 2 edits, 1 publication, slow previews, every command of the panel, under fairness | 473,902 |
| `edit_together` | MCEditTogether | 2 tabs on 1 floor, 2 edits, 2 publications; or 1 tab, 2 floors, 2 loads in flight, refresh and logout | 712,005 |
| `plan_view` | MCPlanView | points of a 3 × 3 grid, outlines of up to 4 corners, rubber bands about 2 desks, rows of 3 desks, backgrounds, a screen of 4 pixels | 178,927 |
| `canvas` | MCCanvasEditor | 2 desks, 3 edits, 2 layouts, history of 2, six families of operations | 640,873 |
| `admin_shell` | MCAdminShell | 2 floors, 2 offices, 2 calls; or 2 components and up to 5 steps in the editor | 811,491 |
| `edit_version`, `canvas_undo`, `plan_priority` | MCEditVersion, MCCanvasUndo, MCPlanHits | expected to fail, see section 5 | |

Each passing run explores its instance completely.

**Why the bounds are enough.** *floor_store*: with three ids two floors can have a draft and a published map between them,
a cascade can hit one floor while the other has rows, and a restore can copy between revisions; one catalogue is enough to tell a publication's rendering from a reader's; versions up to 5 are more than
three publications reach. That versions go on being distinct over longer histories is proved. *layout_reads*: the readers touch one
floor; two of them are enough for one to store a rendering under the other; three revisions let a draft be published, replaced and
discarded while a reader holds its id. *desk_sync*: two rows can be contested by two spellings, a third can be inserted, renamed or
removed; the layouts have a label twice, two spellings in either order, a label without letters, a decoration
and a blank; any table is proved. *floor_lock*: two handlers make every pair of steps overlap; `TTL` 2 in four instants allows a lock
to be renewed, to expire and to be taken over; one place in the channel makes overflow happen. *edit_session*: two
edits let one be drawn while the other is being saved, which is where things get lost; one publication lets the canvas stand on
no map, a published map and a draft in turn. *edit_together*: two publications are what it takes for a version one behind to be
two maps behind; two loads in flight can overtake each other, and two floors are what it takes to mix two up. These are two settings of one
run (`KeepsSetting`, an action constraint that keeps a behaviour to the setting it begins in), not one large instance: in the first, no tab
changes floors, and each has one load in flight; in the second, one tab draws one edit and publishes nothing.
*plan_view*: a 3 × 3 grid has segments that cross, touch, overlap and miss each other, and outlines with every kind
of degenerate corner; ties, equal distances and both sides of every threshold are among the samples. *canvas*: a history of two is
full after three edits, so that the oldest entry goes; two layouts are one load; two desks make a group. *admin_shell*:
two calls can overtake each other; five steps suffice to draw, pick, restyle, change to the code and come back. Further
bounds are those named in the modules.

Deadlock is not checked where ids, ticks, publications or requests run out by construction of the instance, and a user
may stop. In `canvas` it is: no state of the canvas, whatever gesture or tool, lacks a next step.

`MCLayoutReads` uses the view `TablesAndReads` (no property of the run looks at the audit log or the desk rows, and no action's
guard does; of a request it keeps what its answer can still be compared with); `MCEditTogether` uses `StoreLocksAndEditors`, which drops display state and history its invariants
do not read, and the locks where there is one tab. One property of steps is checked with a view, `RenderingsKept` with `TablesAndReads`: it speaks of nothing but `revisions`, which
the view keeps whole, and which steps there are to change them does not depend on what it drops. Symmetry is used with invariants and properties of single steps
only, never where fairness is assumed.

**Fairness.** `FloorLock!FairSpec` assumes weak fairness of the janitor's next step: its goroutine runs as long as the server
(`handler.go`), and `time.Ticker` fires every 15 s. Nothing is assumed of users, requests, or the clock. `FairEditSpec` assumes
weak fairness of the end of a save (a `fetch` resolves or rejects; any fate will do), and of the autosave timer only in behaviours whose user
pauses (`UserPauses`: stops drawing sooner or later): every change stops the timer and starts it again (`CanvasEditor.jsx` 2743–2749), so one who
draws on and on may keep it from firing.
Nothing is assumed of users. The other parts promise nothing that must happen without a user's doing it.

**Mutants.** For each property of a passing run one operator beside the modelled one has a bug in it, such as `PublishKeepingDraft`
(the draft pointer is left), `JanitorDeleteFound` (the janitor deletes what it found expired before), `CandidatesByForm`
(forms are compared before labels), `DropDrag` (the end of a drag of desks forgets its entry), `RepairedNot` (a list that comes without
the selected floor leaves it selected). With the mutant in place of the definition the property fails in its run. The mutants stand before
the definition they belong to and are used by nothing else.

## 4. The proofs

Every theorem holds for all values of the constants that satisfy the named assumptions, which TLC evaluates in the runs of their modules. A property of
states is proved by an inductive invariant that implies it (stated in the component's module, or at the head of its proofs), a property of
steps by one lemma per action under that invariant.

`FloorLayoutProofs` proves, for all sets of floors, revisions, layouts and versions:

| theorem | statement |
|---|---|
| `TypeCorrect` | `Spec => []TypeOK` |
| `ConsistentAlways` | `Spec => []Consistent` |
| `PointersAlwaysAgree` | `Spec => []PointersAgree` |
| `VersionsAlwaysIdentify` | `Spec => []VersionsIdentify` |

*Assumption*: `LayoutAssumption` (the "no" values are not members of the sets; versions are naturals).
TLC evaluates it in every run.

*Argument.* `PointersAgree` alone is not inductive: publishing archives the row the pointer names, so it
must be a row of the same floor and no other floor's, and deleting a floor deletes the rows that say they
belong to it, so they must say so truthfully. `Consistent == TypeOK /\ PointersAgree /\ RowsBelong` is
inductive; the facts used everywhere are that a row is pointed to from its own floor only
(`PointedFrom`) and that an id handed out fresh is pointed to by none. The step lemmas treat kinds of
change rather than operations: overwriting a draft (save, restore), inserting a draft (save, restore),
publishing, deleting rows (discard, clean-up, floor), storing a rendering. `VersionsIdentify` is
inductive relative to `Consistent`: inserting a draft uses that the published version exceeds the archived
ones, so that its successor is new, publishing that the draft is the successor.

It goes on from there, under the same assumption:

| theorem | statement |
|---|---|
| `PublishedAlwaysFrozen` | `Spec => PublishedIsFrozen` |
| `RenderingsAlwaysKept` | `Spec => RenderingsKept` |
| `AuditAlwaysAccounts` | `Spec => []AuditAccounts` |
| `StoreImplementsSlots` | `Spec => ImplementsSlots` |
| `DesksAlwaysMatch` | `Spec => []DesksMatchPublished` |

*Argument.* Under `Consistent`, whatever the operation, one step does one of seven things to a row (`RowLife`): it is kept, removed,
inserted, rewritten, issued, archived or rendered. The first two theorems are about one row and follow from that: a draft has no
rendering, a publication gives it one of its own map, and only a published row without one is rendered later. `AuditAccounts`
follows from it with what each operation adds to the history: a row that becomes a draft is inserted (`DraftLife`), with an entry; what was
published never becomes a draft again (`PublishedLife`). It needs besides that a publication's entry names a row at all
(`PublishedEntriesName`). For the refinement there is a lemma for each kind of operation that says what becomes of `Shown`,
`Working`, `Edition` and `Live` of each floor (`OverwriteSlot`, `InsertSlot`, `PublishSlot`, `DiscardSlot`, `DeleteSlot`, `CreateSlot`,
`OtherSlots`), and each is then a step of `MapSlots` or a stutter. That an edition grows by exactly one is `VersionsIdentify`.
`DesksMatchPublished` is about the desks and `Shown`, so the same lemmas give it.

`FloorLockProofs` proves, for all sets of users, floors, handlers and viewers, every lifetime of a lock, end of
the clock and size of a channel:

| theorem | statement |
|---|---|
| `LockInvariantAlways` | `Spec => []LockInvariant` |
| `LockTypeCorrect` | `Spec => []LockTypeOK` |
| `GrantsAlwaysExclusive` | `Spec => []GrantsExclusive` |
| `LockAlwaysRespected` | `Spec => LockRespected` |
| `EventsAlwaysExplained` | `Spec => []EventsExplained` |

*Assumption*: `LockAssumption` (`NoUser` and `NoFloor` are none of the users and floors; lifetime, capacity and the
end of the clock are positive naturals or naturals).

*Argument.* `GrantsExclusive` compares two users' grants and says nothing of the table, so nothing in it stops the
janitor from deleting a lock that counts. The invariant ties a grant to the row: `GrantsBacked` (who may
count on a lock is the holder in the row, and the grant ends when the row does), of which exclusion is a
consequence, since a row has one holder. It is kept by a deletion because what is deleted was found expired by a
clock read earlier (`ClocksRead`: not later than now), so no grant can rest on it (`ExpiredBacksNothing`), whoever
renewed it in between having moved the row's expiry, which the `DELETE` compares again; by an acquisition because the row it overwrites
was its own or expired; by a release because the user gave up his grant when he sent it (`ReleasersForfeit`), so the
row that goes backs nothing. `TasksAddressed` says that what a request acts on is a floor, and a user's.
`LockRespected` is a property of steps: under the invariant, each of the operations that
write `floor_locks` is shown to take an unexpired lock from nobody but a releasing or deleted holder.
`EventsExplained` speaks of viewers who have read everything while nobody announces anything, which most states are not. The
invariant behind it, `EventsInvariant`, adds what holds in between: an announcement of an acquisition or release says so
(`EventsMeant`), and a viewer whose view is not blurred has been sent the state of the lock last, or there is exactly one
announcement under way, it is of that state, and the janitor has none of another (`ViewersInformed`).

`LayoutReadsProofs` proves, for any number of requests and any statements of theirs that fail, under the assumption of FloorLayout and
`FailureAssumption` (a failure is no answer with a document):

| theorem | statement |
|---|---|
| `ReadsInvariantAlways` | `ReadsSpec => []ReadsInvariant` |
| `AnswersAlwaysCurrent` | `ReadsSpec => []AnswersCurrent` |
| `ReadsImplementStore` | every behaviour with readers is one of FloorLayout's |
| `ReadersKeepRenderings` | `ReadsSpec => RenderingsKept`, through that refinement |

*Argument.* `AnswersCurrent` is about answered requests; the invariant says of one in progress that what it *would* answer from where
it is has been right at some moment since it began (`RightAhead`: from a draft it has the id of, from the published row it has
the id of, with a rendering still to be stored); of a request that could not read the draft, that it would answer what the floor has shown
(`Rightful`). No request outlives another failure (`FailedSoFar`). The case that matters: a load has read that the floor has a draft, and
the draft is gone when it looks. Then it answers the published map it has the id of, which was right at the moment the draft went, if the
published pointer was still the one read. So the invariant says that as long as the draft is one, the floor's published pointer is the one the
request read: a publication of the floor ends the draft (`DraftAhead`). `PointersKnown` says that the ids name rows of this floor in use or
deleted: an id is never given to another row.

`DeskSyncProofs` proves, for all sets of rows and labels, every function from labels to forms, every set of layouts, of any length:

| theorem | statement |
|---|---|
| `SyncInvariantAlways` | `Spec => []SyncInvariant` (with the type of the state) |
| `LabelsAlwaysDistinct` | `Spec => []LabelsDistinct` |
| `DesksKeepTheirRows` | `Spec => []KeepsItsDesk` |
| `TableMirrored` | `Spec => Mirrored` |

*Assumption*: `DeskAssumption` (the "no" values are no labels, rows or forms; layouts are sequences of desks).

*Argument.* The invariant says what the rows, the list and the matches have to do with each other: a row serves one label
(`MatchedOnce`) and bears it unless it was deleted (`MatchedLabelled`), was listed under a label of the same form unless it is new
(`MatchedByForm`), a row that has changed since the list was written, patched or deleted (`RowsAccounted`), and two rows listed with one
label had it before (`ListedDistinct`); `DrawnSeen` says that nobody who is drawn is forgotten. `LabelsDistinct` holds in the step of
an update because a second row with the label would have been a candidate by exact label, which goes first. `KeepsItsDesk` is
kept by a chain: if a label finds its last row taken, the one who took it by form had no row of its own left either, so somebody took
that; the chain ends at a spelling that never had a row. Instead of following it, the invariant is assumed for those who are already
matched: whoever took the row by form has, by the invariant, such a spelling, and the form is the same.

`EditSessionProofs` proves, for all sets of tabs, floors and edits, any number of loads in flight and publications, and any choice
of commands:

| theorem | statement |
|---|---|
| `EditInvariantAlways` | `EditSpec => []EditInvariant` |
| `EditorsTyped` | `EditSpec => []EditTypeOK` |
| `RightFloorAlwaysSaved` | `EditSpec => []RightFloorSaved` |
| `SavesKeepPublished` | `EditSpec => []SaveKeepsPublished` |
| `AlwaysPublishesWhatIsDrawn` | `EditSpec => PublishesWhatIsDrawn` |
| `LeavingAlwaysKeepsWork` | `EditSpec => LeavingKeepsWork` |
| `EditorsUseStore` | every behaviour of the tabs is one of `MapSlots` |

*Assumption*: `EditAssumption` (layouts are sets of edits; the "no" values are none; bounds are naturals).

*Argument.* The invariant has a part for each question, all but the first about one editor, so that a step of one tab has to be
looked at for the others only where it changes the store.

* `StoreTyped`: a floor that shows a map has an edition. `WellFormed`: an editor has one save in flight at most, and a task's goal and step go
  together. Nothing else makes "the save" of the other parts meaningful.
* `FloorsKept` for `RightFloorSaved`: a layout prop of another floor than the selected one is none, or a load that will replace it
  is on its way, or it was overtaken by a late load. That last is one of the exceptions of the property; the first two are why there are no more.
* `MapsKnown` for `SaveKeepsPublished`: a published map that a prop, a load or a save knows is of no later edition than the floor's, and if
  of the same, then it is the map shown (`NotAhead`); and the canvas holds all of the prop. So a version that is accepted is the current one, and
  the document saved holds the map. For a load this is what its `Execute` and `Deliver` being two steps asks for: editions only grow in between.
* `QuietTask` for `LeavingKeepsWork`: a task that was not interfered with and began with a save has in flight what the canvas shows, and
  after the save there is nothing left to save. `DraftReady` for `PublishesWhatIsDrawn`: by then the draft of the floor is that document.

`CanvasEditorProofs` proves, for every depth of the history, number of desks, loads and edits, and set of families:

| theorem | statement |
|---|---|
| `HistoryBoundedAlways` | `Spec => []HistoryBounded` |
| `EditsUndoableAlways` | `Spec => EditsUndoable` |
| `HistoryOfLayoutAlways` | `Spec => HistoryOfLayout` |
| `PushEachIsPushes` | on a bounded history `pushEach` is `push`, once or once more |
| `CanvasTyped` | `Spec => [](CanvasTypeOK /\ Bounded(hist))` |
| `SelectionAlwaysLive` | `Spec => SelectionLive` |
| `LocksAlwaysStay` | `Spec => LockedStays` |

*Assumptions*: `DepthAssumption` (a depth of one at least) and `DesksAssumption` (so many desks that there may be one, and that those selected can
be counted). *Argument.* The stacks are kept abstract: lemmas say what `push`, `pushEach`, `undo` and `redo` do to their
lengths, to the set of their entries and to the entry on top, and every action is one of a handful of kinds (records what a handler saw;
records nothing and belongs to a gesture; restores; leaves document and history). `EditsUndoable` needs an invariant about stale handlers, that
they are not stale in what their dependencies name (`Fresh`: desks, zone and lock for the keys, the lock for the double click), so that
an entry a key pushes differs from the document at most in the rest. `HistoryBounded` needs that `push` forgets what was undone:
then the two stacks together never grow but by one, and only below the depth. `CanvasTypeOK` needs the documents in the stacks and in what
handlers and gestures remember (`hist`, `keys`, `dbl`, `loading`, `hand`) to be documents, since all of them come back; its proof is where the
effect of each action on the document is computed, and the two properties of steps are read off there: each action is shown to
keep the selection among the desks and locked walls as they are, or to be one of the exceptions the properties name.

`AdminShellProofs` proves, for any number of floors, offices, calls and shapes, any places, radii and colours, any markup
and any components:

| theorem | statement |
|---|---|
| `ShellInvariantAlways` | `Spec => []ShellInvariant` |
| `SelectedAlwaysListed` | `Spec => []SelectedListed` |
| `SelectionAlwaysKept` | `Spec => SelectionKept` |
| `ShapesAlwaysKeyed` | `Spec => []ShapesKeyed` |
| `AlwaysSavedAsDrawn` | `Spec => []SavedAsDrawn` |
| `RestyleAlwaysKeepsRest` | `Spec => RestyleKeepsRest` |

*Assumptions*: `ShellAssumption`, `ComponentAssumption` (places are integers, radii naturals, "none" is no colour),
`StoredAssumption` and `MarkupsAssumption` (what is stored and typed is a component and a list of elements; a radius that is typed is no negative
number, as `NoRx` stands for "no attribute").

*Argument.* `ShellInvariant` is the type, `EditorOK` of the editor that is open, `NewKnown` of every call and `SelectedListed`.
`EditorOK` ties three things together that the code changes apart: the ids of the shapes are distinct *and below the next one* (`Keyed`;
distinctness alone is lost by the next shape), the picked shape exists, and the toolbar shows its style (`Matches`), which is why overwriting the
whole style on a change of one field changes nothing else (`RestyleKeepsRest`). `NewKnown` says that the floor a call is about to select was made
and that only calls that make one have one. The proof that `ShellInvariant` holds initially found that the first floors must be among
`Floors`, which the model had not said. `SelectedListed` is inductive with `adrift` in it: a call that selects its new floor sets it by comparing with the
lists it got, a deletion that ends in another floor ends it, and lists that arrive end it by repairing the selection. `SavedAsDrawn` follows
from lemmas about reading and writing markup and about rounding: to tenths and of a half to tenths it is off by half a tenth at most (`Rounds`,
`RoundsHalf`), twice a tenth has a tenth for its half (`HalfOfTwice`), which is why the second save changes nothing (`StaysAgain`), and
sides that move so little stay in a view that was left room around them (`SidesRounded`).

What the code does in a loop (`markupToShapes`, the scan of `findObjectAtPoint`, the nearest corner) is in the models a function on
sequences or numbers. Where a proof by induction would be the natural one, a fact about all numbers is proved by its least exception: if some number
violated it, there would be a least one (`LeastNat`, `LeastNumber`, from the well-foundedness of `<`), and the one before it leads to a contradiction.

`PlanProofs` proves, for any screen, canvas, limits of the zoom and thresholds:

| theorem | statement |
|---|---|
| `ViewsAlwaysWhole` | `Spec => []ViewInvariant`: views are whole screen pixels wide |
| `CursorAlwaysKept` | `Spec => ZoomKeepsCursor` |
| `BandAlwaysTakesHit`; `BandTakesTouched` | `Spec => []BandTakesHit`; the same of any band and any desks |
| `FitAlwaysShowsAll`; `FitShowsBox` | `Spec => []FitShowsAll`; the same of any box and screen |
| `SnapAlwaysNearest`; `DrawingSnaps`, `DragSnapsClosest` | `Spec => []SnapNearest`; the same of any drawing, corners, grid and lines along the axes, with and without Shift, and of any box dragged among any lines |
| `NearestAlwaysHit`; `ClickHitsNearest`, `ScannedInOrder` | `Spec => []NearestHit`; the same of any objects in the list the scan gets, and of how that list is made from any plan |
| `VerdictAlwaysRight`; `SidesMeet`, `OutlineVerdict` | `Spec => []VerdictRight`; the code's test of any two sides, and the verdict on any outline |
| `AlwaysArranged`; `AlignStaysInBox`, `DistributeSpacesOut` | `Spec => []Arranged`; the same of any number of desks of any sizes |
| `BackgroundAlwaysAnchored`; `ResizeAnchors`, `ScaleKeepsCentre` | `Spec => []BackgroundAnchored`; the same of any upright background and corner, and of any factor |

*Assumptions*: `ViewportAssumption` (sizes and limits are positive; the widths of canvases and boxes divide into screen pixels, as the
abstraction of the view demands), `GeometryAssumption`, `SamplesAssumption` (`Side` is a natural), and of the samples
`OutlinesAssumption` (corners are whole), `BackgroundsAssumption` and `RowsAssumption` (what has to divide does). The
theorems without "Always" need none of the last three.

*Argument.* The properties of `PlanSamples` ask their questions of samples; the theorems without "Always" are about the algorithms
themselves, whatever they are asked, and those with it are instances. `ZoomKeepsCursor` multiplies out exactly only because the
invariant makes the width of the view a multiple of the screen's, also of the view a drag began with and brings back. A click's distance to a
rectangle, a line or an outline is a fraction, compared without dividing; that these comparisons are an order is proved (`Fractions`) and used
by the scan: after any number of objects it holds the nearest of them, and of equals the first it met. The lists the scan goes
through are a sort of what can be clicked on (`InOrder`), and a sort of a finite set by a total order has each member once.

*Two sides.* `segmentsIntersect` decides by the signs of four cross products, with special cases for points on one line; the
property decides by separation: two segments miss each other when in some direction all of one lies before all of the other.
If the code says they meet, they have a point in common: the crossing, found by Cramer's rule and scaled up so that it is whole
(`Cramer`, `CommonPoint`), or an end that lies on the other side. No direction separates two things with a common point
(`MeetingOverlap`). If no direction separates them, then along the normals of the two sides each straddles the other's line, which
is the code's general case (`AcrossMeets`), unless both lie on one line, and then their own direction finds the end of one
between those of the other (`AlongMeets`). So the directions that `Apart` tries are enough for any four points, which the model had only claimed.

*Outlines.* The sides of an outline that is begun elsewhere, or drawn the other way, are the old ones under other numbers, and those that
follow each other still do (`RenumberedCrosses`); a side keeps meeting what it met when it is turned round (`MeetEitherWay`). The
area is a sum of one part under each side (`AreaAdds`): beginning elsewhere adds the same parts in another order
(`SumShifted`), and the other way round each part changes its sign (`SumFlipped`), of which the code takes the magnitude.

*Rounding.* `alignSelected` halves an odd width and `distributeSelected` divides by the number of gaps: without `RowsAssumption` the desks still stay
in their box, and each is less than a unit short of its even place. A resized background whose proportions do not divide is as nearly in proportion as whole
numbers allow: the corner is kept exactly, whatever the numbers.

**Left to TLC.** `ExpiredLockGoes` and `AutosaveAnswers` are liveness properties, which rest on fairness. Every other property that a
passing run checks is proved.

## 5. Disagreements

Three runs state what a document or comment says; TLC finds them violated by what the code does.

* `edit_version` – **a canvas cannot save twice over a published map.** `saveDraft` sends the version of the
  layout it was loaded with and ignores the one in the answer (`CanvasEditor.jsx` 2714). The first save over the published
  version *v* creates a draft of version *v+1*; every later save sends *v* and gets a 409, though nobody else
  edits. API.md:402 says the client sends the current version.
* `canvas_undo` – **undo by the keyboard may lose what it undoes.** The dependencies of the key handler
  (`CanvasEditor.jsx` 1725) lack walls, groups, layers and background. After an edit of walls Ctrl+Z (1683) hands `undo` the
  document as it was when the handler was registered, which becomes the redo entry: redo then brings back an older
  document. `useUndoRedo.js` 4–6 says redo re-applies what was undone.
* `plan_priority` – **a click beside a desk may pick a wall.** The comment of `findObjectAtPoint` (`hitTest.js` 125–128) says topmost, and
  "desks first (exact + threshold), then structures". The scan takes the nearest object, whatever it is: a wall right under the pointer goes
  before a desk that is in reach. Only between equally near ones do desks go first. What the code does do is `NearestHit`.

Others were met while modelling. They are in the models as the code has them, and no run is spent on them:

* *Locks and versions.* Two editors of one draft overwrite each other, since a save changes no version (`store/layouts.go` 464; API.md:402
  calls the version protection against it). Saves ignore the lock (API.md:527 says others get 423). A release that deleted nothing
  announces a free floor (`handler/layouts.go` 514, comment at 525); `EventsExplained` names this and the other
  reasons.
* *Desks.* A publication deletes no rows, only `sync-desks` with `cleanup=true` does, while API.md:560 says that synchronising
  creates, updates and deletes; the fields `removed` and `protected` at API.md:480 are not what is answered. A label that had
  a row may get a new row and code, when another spelling drawn before it takes its row by form (the exception in
  `KeepsItsDesk`). A person set by PATCH is overwritten by the next synchronisation.
* *Canvas.* A point held while panning moves under the cursor (`updatePan` mixes the view at the start with the present one) although its comment
  says it stays; the width of the view at the start of a drag comes back after a wheel step in between.
* *Renderings.* The rendering a publication stores has the components of the catalogue in it, the one a reader stores in its place, when there
  is none yet, has not (`store/layouts.go` 552 and 428): how a map published before the column existed looks depends on who rendered it.
* *Pages.* The comment of `syncViewBoxFromShapes` says the view box follows the shapes: moving, resizing and editing them leave it as
  it was. `main.jsx` 350 says the layout page stays mounted to preserve the undo history, but a refresh or a changed component
  loads the layout again and discards it.

## 6. Not modelled

* *Accounts*: registrations and administration of users are single-row statements; their races are listed as hazards in
  `PROJECT.json`. The client's side of a session is in AdminShell.
* *The connection pool*: a publication asks for a second connection while it holds one; how many may do so at once is
  configuration.
* *SVG as text*, the forms around single endpoints (invites, onboarding, templates, blocks, properties), HTTP and JSON decoding,
  rendering: no state a property relates.
* *In the canvas*: partitions, doors and boundaries (handled as walls are); the calibration of the background and the tools
  for boundaries and doors, which no control on the screen reaches; measuring, which keeps two points of its own.
* *In the pages*: offices, floors and components are loaded by three requests, which are one step here.
* `DELETE /offices/{id}` is the deletion of its floors in one transaction, of which FloorLayout models the one of a floor.
* Reads that write nothing and feed nothing back (`ListRevisions`, `GetRevision`, `GetHistory`).
* Generated code (`internal/db`), migrations, configuration: the schema's constraints appear in the models where they
  act (cascades, checks, uniqueness).
* Crashes of the server: PostgreSQL undoes open transactions, which is an operation that did not happen; the statements
  outside a transaction are separate actions, after any of which a request may stop for good. A browser that is closed is
  `Leave` in EditSession.

## 7. What is left

1. **Accounts** – registration, invites, administration of users, statements of concurrent requests interleaved: at most one live
   account per invite, an ignored failure of `MarkUsed`, the read-modify-write of `AdminUpdateUser`.
2. **PublishPool** – publications that take a second connection from the pool while they hold one: the number of connections
   that excludes the deadlock.
3. **Proofs** – the arithmetic of the plan with fractions instead of whole numbers, so that `RowsAssumption` and `BackgroundsAssumption` go; the
   resize of a background that is turned by a quarter.
4. **Composition** of CanvasEditor with EditSession: stale key handlers with saves in flight.
