---------------------------- MODULE EditSession ----------------------------
(***************************************************************************)
(* Editors at work: the layout tab of main.jsx, LayoutPanel.jsx and the    *)
(* saving of CanvasEditor.jsx, against the store and the floor lock.       *)
(*                                                                         *)
(* The store is MapSlots, which FloorLayout implements; the version check  *)
(* of SaveDraft is stated with its editions (a draft's version is the      *)
(* published one's plus one, FloorLayout's VersionsIdentify).  A document  *)
(* is the set of edits it contains: removing an object is an edit too.     *)
(*                                                                         *)
(* A browser awaits every request, and the user goes on meanwhile.  A save *)
(* or lock request and its answer are one step, at any time after it was   *)
(* sent; a load reads the store in one step and is delivered in another.   *)
(***************************************************************************)
EXTENDS MapSlots, FiniteSets

CONSTANTS Client,      \* browser tabs, each of a user of its own
          Edit,        \* what can be drawn
          Goals,       \* what the users of an instance set out to do
          MaxEdition,  \* bound: publications of a floor
          MaxLoads,    \* bound: loads a client has in flight
          SlowPreview, \* bound: rendering the preview of a save takes time
          NoClient

ASSUME EditAssumption ==
    /\ Layout = SUBSET Edit
    /\ NoLayout \notin Layout
    /\ NoClient \notin Client
    /\ Goals \subseteq {"preview", "json", "canvas", "publish", "blank", "import",
                        "discard", "restore", "refresh", "select", "leave",
                        "reset"}
    /\ MaxEdition \in Nat
    /\ MaxLoads \in Nat \ {0}
    /\ SlowPreview \in BOOLEAN
    /\ LegacyVersion \subseteq 0..MaxEdition

VARIABLES editors,  \* what each browser tab holds
          locks,    \* who holds the edit lock of each floor
          writers   \* history: who changed each floor's maps last

editVars == <<vars, editors, locks, writers>>

\* The layout prop.
LayoutProp == [floor: Floor,   \* history: the floor it was loaded from
               version: 0..(MaxEdition + 1),
               status: {"none", "draft", "published"},
               doc: Layout]

NoMapYet(f) == [floor |-> f, version |-> 0, status |-> "none", doc |-> {}]

\* A load is sent, executed and delivered.
Load == [floor: Floor, step: {"sent", "answered"}, answer: LayoutProp,
         refreshPreview: BOOLEAN,
         then: {"stay", "canvas", "free"}]  \* what the caller goes on to

\* PUT /floors/{floor}/layout/draft
SaveRequest == [floor: Floor, version: 0..(MaxEdition + 1), doc: Layout,
                updatePreview: BOOLEAN,
                drawnOn: LayoutProp,   \* history: the layout prop when it was sent,
                mayMix: BOOLEAN]       \* and whether it may be another floor's

\* What becomes of a request: it may get lost, or its answer.
Fate == {"answered", "unsent", "unheard"}

\* What an async function of the panel still has to do.
Task == [goal: {"none", "preview", "json", "canvas", "publish"},
         step: {"none", "lock", "save", "unlock", "publish"},
         floor: Floor,
         saved: BOOLEAN,   \* history: it began with a save
         quiet: BOOLEAN]   \* history: nothing interfered, see Begun

NoTask(f) == [goal |-> "none", step |-> "none", floor |-> f,
              saved |-> FALSE, quiet |-> FALSE]

Editor == [floor: Floor,      \* selectedFloorId
           mode: {"preview", "json", "canvas"},
           layout: LayoutProp,
           doc: Layout,       \* what the canvas shows
           dirty: BOOLEAN,
           armed: BOOLEAN,    \* the autosave timer runs
           failed: BOOLEAN,   \* the status of the last save is 'error'
           saving: SUBSET SaveRequest,  \* the save in flight
           rendering: BOOLEAN,  \* ... has been answered, its preview has not
           orphan: BOOLEAN,   \* ... of a canvas that has been unmounted since
           task: Task,
           loads: SUBSET Load,
           busy: BOOLEAN,     \* the buttons for publishing and refreshing are off
           isLockedByOther: BOOLEAN,
           unsaved: SUBSET Edit,  \* history: drawn and not acknowledged
           missed: BOOLEAN,   \* history: the timer fired while rendering
           overtaken: BOOLEAN]    \* history: the layout prop came from a load of
                                  \* a floor that was not selected any more

EditTypeOK ==
    /\ editors \in [Client -> Editor]
    /\ locks \in [Floor -> Client \cup {NoClient}]
    /\ writers \in [Floor -> Client \cup {NoClient}]
    /\ \A c \in Client : /\ Cardinality(editors[c].saving) <= 1
                         /\ Cardinality(editors[c].loads) <= MaxLoads
                         /\ editors[c].unsaved \subseteq editors[c].doc

-----------------------------------------------------------------------------
(***************************************************************************)
(* The server                                                              *)
(***************************************************************************)

\* GetDraftOrPublished; "none" is its 404.
Current(f) ==
    CASE working[f] # NoLayout ->
            [floor |-> f, version |-> edition[f] + 1, status |-> "draft",
             doc |-> working[f]]
      [] working[f] = NoLayout /\ shown[f] # NoLayout ->
            [floor |-> f, version |-> edition[f], status |-> "published",
             doc |-> shown[f]]
      [] OTHER -> NoMapYet(f)

\* A mutant of Accepts: a new draft may have any version.
AcceptsAnyNew(f, version) ==
    working[f] # NoLayout => version = edition[f] + 1

\* SaveDraft's version check.
Accepts(f, version) ==
    IF working[f] # NoLayout
    THEN version = edition[f] + 1
    ELSE version \in {edition[f], edition[f] + 1}

\* Client c becomes editor; the rest is up to the action.
Becomes(c, editor) == editors' = [editors EXCEPT ![c] = editor]

Unwritten == UNCHANGED <<vars, writers>>

\* ... or c becomes editor while it changes the maps of f, which is history, as
\* the tasks of the others on f are not quiet any more.
Writes(c, editor, f) ==
    /\ editors' = [d \in Client |->
           CASE d = c -> editor
             [] d # c /\ editors[d].task.floor = f ->
                   [editors[d] EXCEPT !.task.quiet = FALSE]
             [] OTHER -> editors[d]]
    /\ writers' = [writers EXCEPT ![f] = c]

-----------------------------------------------------------------------------
(***************************************************************************)
(* What happens in a tab                                                   *)
(***************************************************************************)

\* The canvas shows the layout prop: when it is mounted, and again for every
\* new one (the effect on layout).
Drawn(editor) ==
    [editor EXCEPT !.doc = IF editor.mode = "canvas" THEN editor.layout.doc ELSE {},
                   !.dirty = FALSE, !.armed = FALSE, !.unsaved = {},
                   !.missed = FALSE, !.task.quiet = FALSE]

\* setMode.  Leaving the canvas unmounts it, whatever it holds.
InMode(editor, mode) ==
    IF mode = editor.mode THEN editor
    ELSE Drawn([editor EXCEPT !.mode = mode, !.failed = FALSE, !.rendering = FALSE,
                              !.orphan = editor.saving # {}])

\* saveDraft sends what the canvas shows, with the version of the layout prop.
Saving(editor, updatePreview) ==
    [editor EXCEPT !.failed = FALSE,
        !.saving = @ \cup {[floor |-> editor.floor, version |-> editor.layout.version,
                     doc |-> editor.doc, updatePreview |-> updatePreview,
                     drawnOn |-> editor.layout,
                     mayMix |-> editor.overtaken \/
                         \E load \in editor.loads : load.floor = editor.floor]}]

\* A mutant of MustSave: savingRef is not looked at.
MustSaveAgain(editor) == editor.mode = "canvas" /\ editor.dirty

\* savingRef: from the request until the preview of what was saved is there.
SaveUnderWay(editor) == editor.saving # {} \/ editor.rendering

\* saveIfDirty returns null, and its caller goes on, if a save is under way.
MustSave(editor) ==
    editor.mode = "canvas" /\ editor.dirty /\ ~SaveUnderWay(editor)

\* loadLayout
Loading(editor, f, refreshPreview, then) ==
    [editor EXCEPT !.busy = TRUE, !.loads = @ \cup
        {[floor |-> f, step |-> "sent", answer |-> NoMapYet(f),
          refreshPreview |-> refreshPreview, then |-> then]}]

\* onLayoutChange, once it is heard that the draft was replaced.
Reloading(editor, heard, then) ==
    IF heard THEN Loading(editor, editor.floor, FALSE, then) ELSE editor

CanLoad(editor) == Cardinality(editor.loads) < MaxLoads

\* busyRef: publishDraft or refreshAll has not ended.
BusyRef(editor) ==
    \/ editor.task.step = "publish"
    \/ \E load \in editor.loads : load.then = "free"

\* A task is quiet until the user draws or selects another floor, somebody else
\* writes the floor, or the canvas is drawn anew; it is not if it begins during a
\* save or after one during which something was drawn.
Begun(editor, goal, step) ==
    [editor EXCEPT !.task =
        [goal |-> goal, step |-> step, floor |-> editor.floor,
         saved |-> step = "save",
         quiet |-> ~SaveUnderWay(editor) /\ (editor.dirty \/ editor.unsaved = {})]]

\* What is left to do after the save: the mode is json at once; preview needs
\* the lock released first, publish the request.
AfterSave(editor) ==
    CASE editor.task.goal = "json" ->
            [InMode(editor, "json") EXCEPT !.task = NoTask(editor.floor)]
      [] editor.task.goal = "preview" -> [editor EXCEPT !.task.step = "unlock"]
      [] editor.task.goal = "publish" -> [editor EXCEPT !.task.step = "publish"]

NewTab(f) ==
    Loading([floor |-> f, mode |-> "preview", layout |-> NoMapYet(f), doc |-> {},
             dirty |-> FALSE, armed |-> FALSE, failed |-> FALSE, saving |-> {},
             rendering |-> FALSE, orphan |-> FALSE, task |-> NoTask(f),
             loads |-> {}, busy |-> FALSE, isLockedByOther |-> FALSE,
             unsaved |-> {}, missed |-> FALSE, overtaken |-> FALSE],
            f, TRUE, "stay")

EditInit ==
    /\ Init
    /\ open = Floor
    /\ \A f \in Floor : shown[f] \in {NoLayout, {}}
    /\ editors \in [Client -> {NewTab(f) : f \in Floor}]
    /\ locks = [f \in Floor |-> NoClient]
    /\ writers = [f \in Floor |-> NoClient]

\* A mutant of Draw: the timer's effect does not depend on what is drawn.
DrawUnwatched(c, e) ==
    LET editor == editors[c] IN
    /\ editor.mode = "canvas"
    /\ e \notin editor.doc
    /\ Becomes(c, [editor EXCEPT !.doc = @ \cup {e}, !.unsaved = @ \cup {e},
                                 !.dirty = TRUE, !.failed = @ /\ editor.dirty,
                                 !.task.quiet = FALSE])
    /\ UNCHANGED <<vars, locks, writers>>

\* Something is drawn; the autosave timer starts again.
Draw(c, e) ==
    LET editor == editors[c] IN
    /\ editor.mode = "canvas"
    /\ e \notin editor.doc
    /\ Becomes(c, [editor EXCEPT !.doc = @ \cup {e}, !.unsaved = @ \cup {e},
                                 !.dirty = TRUE, !.failed = @ /\ editor.dirty,
                                 !.armed = TRUE, !.missed = FALSE,
                                 !.task.quiet = FALSE])
    /\ UNCHANGED <<vars, locks, writers>>

\* resetChanges: back to the layout prop.
Reset(c) ==
    /\ "reset" \in Goals
    /\ editors[c].mode = "canvas"
    /\ editors[c].dirty
    /\ Becomes(c, Drawn(editors[c]))
    /\ UNCHANGED <<vars, locks, writers>>

\* The save buttons.
Save(c) ==
    /\ MustSave(editors[c])
    /\ Becomes(c, Saving(editors[c], SlowPreview))
    /\ UNCHANGED <<vars, locks, writers>>

\* The autosave timer fires; nothing starts it again but a change.
Autosave(c) ==
    /\ editors[c].armed
    /\ Becomes(c, IF MustSave(editors[c])
                  THEN Saving([editors[c] EXCEPT !.armed = FALSE], FALSE)
                  ELSE [editors[c] EXCEPT !.armed = FALSE,
                                          !.missed = editors[c].rendering])
    /\ UNCHANGED <<vars, locks, writers>>

\* The canvas hears of its save: its edits are in the draft, or they are not.
\* A canvas that has been unmounted since hears nothing.
Acknowledged(editor, req, ok) ==
    LET heard == [editor EXCEPT !.saving = {}, !.orphan = FALSE] IN
    CASE editor.orphan -> heard
      [] ok /\ ~editor.orphan ->
            [heard EXCEPT !.dirty = FALSE, !.armed = FALSE, !.missed = FALSE,
                          !.rendering = req.updatePreview,
                          !.unsaved = @ \ req.doc]
      [] OTHER -> [heard EXCEPT !.failed = TRUE]

\* A mutant of SaveAnswer: the switch of modes goes on after a failed save.
SaveAnswerGoesOn(c, fate) ==
    \E req \in editors[c].saving :
        LET f == req.floor
            stored == fate # "unsent" /\ Accepts(f, req.version)
            editor == Acknowledged(editors[c], req, stored /\ fate = "answered")
            next == IF editor.task.step = "save" THEN AfterSave(editor) ELSE editor
        IN
        /\ IF stored
           THEN Write(f, req.doc) /\ Writes(c, next, f)
           ELSE Unwritten /\ Becomes(c, next)
        /\ UNCHANGED locks

\* The save in flight is answered; it may also get lost, or its answer.  A task
\* that waits for it goes on if it succeeded and ends otherwise.
SaveAnswer(c, fate) ==
    \E req \in editors[c].saving :
        LET f == req.floor
            stored == fate # "unsent" /\ Accepts(f, req.version)
            ok == stored /\ fate = "answered"
            editor == Acknowledged(editors[c], req, ok)
            next == CASE editor.task.step = "save" /\ ok -> AfterSave(editor)
                      [] editor.task.step = "save" /\ ~ok ->
                            [editor EXCEPT !.task = NoTask(editor.floor)]
                      [] OTHER -> editor
        IN
        /\ IF stored
           THEN Write(f, req.doc) /\ Writes(c, next, f)
           ELSE Unwritten /\ Becomes(c, next)
        /\ UNCHANGED locks

\* POST /render/svg is answered or fails; saveDraft ends.
PreviewAnswer(c) ==
    /\ editors[c].rendering
    /\ Becomes(c, [editors[c] EXCEPT !.rendering = FALSE])
    /\ UNCHANGED <<vars, locks, writers>>

-----------------------------------------------------------------------------
\* Bound: a user starts something else once the last thing has ended.
Free(c, goal) ==
    /\ goal \in Goals
    /\ editors[c].task.goal = "none"

\* switchMode('canvas') asks for the lock first; the tab is disabled while the
\* floor is known to be locked by somebody else.  Bound: a canvas is opened when
\* the save of the one before has been answered.
SwitchToCanvas(c) ==
    /\ Free(c, "canvas")
    /\ editors[c].saving = {}
    /\ editors[c].mode # "canvas"
    /\ ~editors[c].isLockedByOther
    /\ Becomes(c, Begun(editors[c], "canvas", "lock"))
    /\ UNCHANGED <<vars, locks, writers>>

\* switchMode('preview') and switchMode('json'): a dirty canvas is saved first.
SwitchFrom(c, mode) ==
    LET begun == Begun(editors[c], mode, "save") IN
    /\ Free(c, mode)
    /\ editors[c].mode # mode
    /\ Becomes(c, CASE MustSave(editors[c]) -> Saving(begun, FALSE)
                    [] editors[c].mode = "canvas" /\ ~MustSave(editors[c]) ->
                          AfterSave(begun)
                    [] OTHER -> InMode(editors[c], mode))
    /\ UNCHANGED <<vars, locks, writers>>

\* POST /floors/{floor}/lock is answered or fails.
LockAnswer(c, fate) ==
    LET editor == editors[c]
        f == editor.task.floor
        granted == fate # "unsent" /\ locks[f] \in {NoClient, c}
    IN
    /\ editor.task.step = "lock"
    /\ locks' = IF granted THEN [locks EXCEPT ![f] = c] ELSE locks
    /\ Becomes(c, [IF granted /\ fate = "answered"
                   THEN InMode([editor EXCEPT !.isLockedByOther = FALSE], "canvas")
                   ELSE editor
                   EXCEPT !.task = NoTask(editor.floor)])
    /\ Unwritten

\* DELETE /floors/{floor}/lock is answered, or fails; either way the mode is
\* preview now.
UnlockAnswer(c, fate) ==
    LET editor == editors[c]
        f == editor.task.floor
    IN
    /\ editor.task.step = "unlock"
    /\ locks' = IF locks[f] = c /\ fate # "unsent"
                THEN [locks EXCEPT ![f] = NoClient] ELSE locks
    /\ Becomes(c, [InMode([editor EXCEPT !.isLockedByOther = @ /\ fate # "answered"],
                          "preview")
                   EXCEPT !.task = NoTask(editor.floor)])
    /\ Unwritten

\* A mutant of Publish: the save is not awaited.
PublishUnawaited(c) ==
    LET editor == editors[c]
        begun == Begun(editor, "publish", "save")
    IN
    /\ Free(c, "publish")
    /\ ~editor.busy
    /\ editor.layout.status # "none"
    /\ ~editor.isLockedByOther
    /\ MustSave(editor) \/ editor.layout.status = "draft"
    /\ Becomes(c, IF MustSave(editor) THEN AfterSave(Saving(begun, FALSE))
                  ELSE [AfterSave(begun) EXCEPT !.task.saved = FALSE])
    /\ UNCHANGED <<vars, locks, writers>>

\* handlePublish saves a dirty canvas first; without such a save the layout prop
\* must be a draft.
Publish(c) ==
    LET editor == editors[c]
        begun == Begun(editor, "publish", "save")
    IN
    /\ Free(c, "publish")
    /\ ~editor.busy
    /\ editor.layout.status # "none"
    /\ ~editor.isLockedByOther
    /\ MustSave(editor) \/ editor.layout.status = "draft"
    /\ Becomes(c, IF MustSave(editor) THEN Saving(begun, FALSE)
                  ELSE [AfterSave(begun) EXCEPT !.task.saved = FALSE])
    /\ UNCHANGED <<vars, locks, writers>>

\* POST /floors/{floor}/layout/publish is answered, and the layout loaded
\* again if it succeeded; without a draft it fails.
PublishAnswer(c, fate) ==
    LET editor == editors[c]
        f == editor.task.floor
        done == [editor EXCEPT !.task = NoTask(editor.floor)]
    IN
    /\ editor.task.step = "publish"
    /\ CanLoad(editor)
    /\ \/ /\ fate # "unsent"
          /\ edition[f] < MaxEdition
          /\ Issue(f)
          /\ Writes(c, IF fate = "answered" THEN Loading(done, f, TRUE, "free")
                       ELSE done, f)
       \/ /\ fate = "unsent" \/ working[f] = NoLayout \/ edition[f] = MaxEdition
          /\ Becomes(c, done)
          /\ Unwritten
    /\ UNCHANGED locks

\* A blank draft or a template (then the canvas is opened, without a lock), or
\* an import: none of them holds what was drawn.
Replace(c, goal, heard) ==
    LET editor == editors[c]
        f == editor.floor
    IN
    /\ Free(c, goal)
    /\ CanLoad(editor)
    /\ goal = "blank" => ~editor.isLockedByOther
    /\ Accepts(f, editor.layout.version)
    /\ Write(f, {})
    /\ Writes(c, Reloading(editor, heard,
                            IF goal = "blank" THEN "canvas" ELSE "stay"), f)
    /\ UNCHANGED locks

\* discardDraft, in the JSON editor.
Discard(c, heard) ==
    LET editor == editors[c] IN
    /\ Free(c, "discard")
    /\ CanLoad(editor)
    /\ editor.mode = "json"
    /\ editor.layout.status = "draft"
    /\ Drop(editor.floor)
    /\ Writes(c, Reloading(editor, heard, "stay"), editor.floor)
    /\ UNCHANGED locks

\* restore of HistoryModal, here of the published map.
Restore(c, heard) ==
    LET f == editors[c].floor IN
    /\ Free(c, "restore")
    /\ CanLoad(editors[c])
    /\ shown[f] # NoLayout
    /\ Write(f, shown[f])
    /\ Writes(c, Reloading(editors[c], heard, "stay"), f)
    /\ UNCHANGED locks

\* refreshAll, at any time.  The components are loaded along, which starts the
\* autosave timer again, unless that fails.
Refresh(c) ==
    LET editor == editors[c] IN
    /\ "refresh" \in Goals
    /\ ~editor.busy
    /\ ~BusyRef(editor)
    /\ CanLoad(editor)
    /\ \E armed \in {editor.armed, editor.dirty} :
          Becomes(c, Loading([editor EXCEPT !.armed = armed], editor.floor, TRUE, "free"))
    /\ UNCHANGED <<vars, locks, writers>>

Selected(editor, f) ==
    [editor EXCEPT !.floor = f, !.armed = editor.dirty, !.failed = FALSE,
                   !.task.quiet = FALSE,
                   !.task.floor = IF editor.task.goal = "none" THEN f ELSE @]

\* A mutant of SelectFloor: the layout is not loaded.
SelectFloorOnly(c, f) ==
    /\ "select" \in Goals
    /\ f # editors[c].floor
    /\ CanLoad(editors[c])
    /\ Becomes(c, Selected(editors[c], f))
    /\ UNCHANGED <<vars, locks, writers>>

\* Another floor is selected in the top bar, at any time: mode, canvas, lock and
\* what is in progress stay as they are until the floor's layout arrives.
SelectFloor(c, f) ==
    /\ "select" \in Goals
    /\ f # editors[c].floor
    /\ CanLoad(editors[c])
    /\ Becomes(c, Loading(Selected(editors[c], f), f, TRUE, "stay"))
    /\ UNCHANGED <<vars, locks, writers>>

\* The tab is closed or its user logs out, and comes back later.  The lock stays
\* (logout forgets the token before the panel is unmounted).
Leave(c) ==
    /\ Free(c, "leave")
    /\ editors[c].saving = {}
    /\ Becomes(c, NewTab(editors[c].floor))
    /\ UNCHANGED <<vars, locks, writers>>

-----------------------------------------------------------------------------
\* The server executes a load.
LoadExecute(c, load) ==
    /\ load \in editors[c].loads
    /\ load.step = "sent"
    /\ Becomes(c, [editors[c] EXCEPT !.loads = (@ \ {load}) \cup
           {[load EXCEPT !.step = "answered", !.answer = Current(load.floor)]}])
    /\ UNCHANGED <<vars, locks, writers>>

\* setLayout.  The layout is null when it was not found; null again is no change
\* and leaves the canvas as it is.
SetLayout(editor, layout) ==
    IF layout.status = "none" /\ editor.layout.status = "none" THEN editor
    ELSE Drawn([editor EXCEPT !.layout = layout,
                              !.overtaken = layout.floor # editor.floor])

\* The answer arrives, whatever floor is selected by now; or the load failed.
\* Without an answer the layout becomes null if the preview was loaded along, and
\* is kept otherwise.  Then the canvas opens if the load was for that, and closes
\* again if the floor is locked by somebody else by now.
LoadDeliver(c, load, fails) ==
    LET editor == [editors[c] EXCEPT !.loads = @ \ {load}, !.busy = FALSE]
        got == IF fails THEN NoMapYet(load.floor) ELSE load.answer
        loaded == IF got.status = "none" /\ ~load.refreshPreview THEN editor
                  ELSE SetLayout(editor, got)
    IN
    /\ load \in editors[c].loads
    /\ load.step = "answered" \/ fails
    /\ load.then = "canvas" => ~editor.orphan
    /\ Becomes(c, CASE load.then # "canvas" -> loaded
                    [] load.then = "canvas" /\ ~loaded.isLockedByOther ->
                          InMode(loaded, "canvas")
                    [] OTHER -> InMode(loaded, "preview"))
    /\ UNCHANGED <<vars, locks, writers>>

\* The lock's state arrives, by GET or as an event; a canvas of a floor locked by
\* somebody else is closed.
Learn(c) ==
    LET editor == editors[c]
        other == locks[editor.floor] \notin {NoClient, c}
        told == [editor EXCEPT !.isLockedByOther = other]
    IN
    /\ Becomes(c, IF other /\ editor.mode = "canvas" THEN InMode(told, "preview")
                  ELSE told)
    /\ UNCHANGED <<vars, locks, writers>>

\* Ten minutes have passed since the lock was granted: nobody renews it.
Expire(f) ==
    /\ locks[f] # NoClient
    /\ locks' = [locks EXCEPT ![f] = NoClient]
    /\ UNCHANGED <<vars, editors, writers>>

UserAction(c) ==
    \/ \E e \in Edit : Draw(c, e)
    \/ Reset(c)
    \/ Save(c)
    \/ SwitchToCanvas(c)
    \/ \E mode \in {"preview", "json"} : SwitchFrom(c, mode)
    \/ Publish(c)
    \/ \E heard \in BOOLEAN :
          \/ \E goal \in {"blank", "import"} : Replace(c, goal, heard)
          \/ Discard(c, heard)
          \/ Restore(c, heard)
    \/ Refresh(c)
    \/ \E f \in Floor : SelectFloor(c, f)
    \/ Leave(c)

\* What the browser and the network do.
BrowserAction(c) ==
    \/ Autosave(c)
    \/ PreviewAnswer(c)
    \/ \E fate \in Fate :
          \/ SaveAnswer(c, fate)
          \/ LockAnswer(c, fate)
          \/ UnlockAnswer(c, fate)
          \/ PublishAnswer(c, fate)
    \/ \E load \in editors[c].loads : LoadExecute(c, load)
    \/ \E load \in editors[c].loads, fails \in BOOLEAN : LoadDeliver(c, load, fails)
    \/ Learn(c)

EditNext ==
    \/ \E c \in Client : UserAction(c) \/ BrowserAction(c)
    \/ \E f \in Floor : Expire(f)

EditSpec == EditInit /\ [][EditNext]_editVars

\* The user of a tab stops drawing sooner or later.
UserPauses(c) == <>[][~\E e \in Edit : Draw(c, e)]_editVars

\* A request ends one way or another, and the timer fires after thirty seconds, but
\* only if its user pauses: every change sets it back.
FairEditSpec ==
    /\ EditSpec
    /\ \A c \in Client :
          /\ UserPauses(c) => WF_editVars(Autosave(c))
          /\ WF_editVars(\E fate \in Fate : SaveAnswer(c, fate))

-----------------------------------------------------------------------------
\* Optimistic locking at work over several editors: a canvas opened on the
\* published map (or on none) is never saved over a map published since, so
\* published work is only left out of a draft by somebody who was editing a
\* draft when it was published, or on purpose.
SaveKeepsPublished ==
    \A c \in Client : \A req \in editors[c].saving :
        (/\ Accepts(req.floor, req.version)
         /\ req.drawnOn.floor = req.floor
         /\ req.drawnOn.status # "draft"
         /\ shown[req.floor] # NoLayout) => shown[req.floor] \subseteq req.doc

\* Leaving the canvas by a mode button loses nothing: what was drawn has been
\* acknowledged or is in the draft, provided the user drew nothing while the
\* switch or an earlier save was under way.
LeavingKeepsWork ==
    [][\A c \in Client :
          LET editor == editors[c]
              f == editor.task.floor
          IN (/\ editor.mode = "canvas"
              /\ editor.task.goal \in {"preview", "json"}
              /\ editor.task.quiet
              /\ editors'[c].mode = editor.task.goal
              /\ editors'[c].task.goal = "none") =>
                \/ editor.unsaved = {}
                \/ working'[f] # NoLayout /\ editor.unsaved \subseteq working'[f]]_editVars

\* A publication that began by saving the canvas shows exactly what the canvas
\* shows, if nobody else wrote the floor and nothing was drawn in between.
PublishesWhatIsDrawn ==
    [][\A c \in Client :
          LET editor == editors[c]
              f == editor.task.floor
          IN (/\ editor.task.step = "publish"
              /\ editor.task.saved /\ editor.task.quiet
              /\ editors'[c].task.step # "publish"
              /\ edition'[f] # edition[f]) => shown'[f] = editor.doc]_editVars

\* What is drawn and not saved, on a canvas that knows it: no save is in flight or
\* the one that is holds it.  Not so what is drawn while an earlier save is in
\* flight: its answer marks the canvas clean, and nothing saves it until more is
\* drawn.
ToBeSaved(editor, e) ==
    /\ e \in editor.unsaved /\ editor.dirty
    /\ \A req \in editor.saving : e \in req.doc

\* The autosave timer, stopped and started again by every change, and the guard
\* against two saves at a time never leave behind what was drawn: once the user
\* pauses, each such edit is in an acknowledged save or gone from the canvas (which
\* was closed or drawn anew), or the user sees that a save failed; with one
\* exception, that the timer fires while the preview of an earlier save is rendered.
AutosaveAnswers ==
    \A c \in Client :
        UserPauses(c) =>
            \A e \in Edit :
                ToBeSaved(editors[c], e) ~>
                    (e \notin editors[c].unsaved \/ editors[c].failed \/ editors[c].missed)

\* What is saved on a floor was drawn on that floor's map, with three exceptions:
\* the floor's layout is still being loaded; the answer to a load of the floor
\* selected before came after it; neither floor had a layout, so that the canvas
\* was not drawn anew.
RightFloorSaved ==
    \A c \in Client : \A req \in editors[c].saving :
        req.drawnOn.floor # req.floor =>
            \/ req.drawnOn.status = "none"
            \/ req.mayMix

\* "The client sends the current version" (docs/API.md, TECH_LEAD_HANDOFF_QA.md): a
\* canvas whose changes were all acknowledged, on a floor its user changed last,
\* holds a version with which it can save again.
VersionIsCurrent ==
    \A c \in Client :
        LET editor == editors[c] IN
        (/\ editor.mode = "canvas" /\ editor.layout.status # "none"
         /\ editor.saving = {} /\ ~editor.dirty
         /\ editor.loads = {}
         /\ writers[editor.floor] = c) => Accepts(editor.floor, editor.layout.version)
-----------------------------------------------------------------------------
(***************************************************************************)
(* Why those properties hold: the invariant the proofs use.                *)
(***************************************************************************)

\* The floors of the store exist, and a floor shows a map once one was published.
StoreTyped ==
    /\ open = Floor
    /\ shown \in [Floor -> Layout \cup {NoLayout}]
    /\ working \in [Floor -> Layout \cup {NoLayout}]
    /\ edition \in [Floor -> 0..MaxEdition]
    /\ \A f \in Floor : shown[f] # NoLayout => edition[f] # 0

\* What a task is for and how far it is.
TaskSteps == {<<"none", "none">>, <<"canvas", "lock">>, <<"preview", "save">>,
              <<"json", "save">>, <<"publish", "save">>, <<"preview", "unlock">>,
              <<"publish", "publish">>}

\* An editor has at most one save in flight; only such a save outlives its canvas.
WellFormed(editor) ==
    /\ editor \in Editor
    /\ \A req1, req2 \in editor.saving : req1 = req2
    /\ editor.orphan => editor.saving # {}
    /\ IsFiniteSet(editor.loads)
    /\ Cardinality(editor.loads) <= MaxLoads
    /\ editor.unsaved \subseteq editor.doc
    /\ <<editor.task.goal, editor.task.step>> \in TaskSteps

\* A layout prop of another floor is none, was overtaken, or the layout of the
\* selected floor is on its way, in a load that replaces the prop in any case.
FloorFollowed(editor) ==
    editor.layout.floor # editor.floor =>
        \/ editor.layout.status = "none"
        \/ editor.overtaken
        \/ \E load \in editor.loads : load.floor = editor.floor /\ load.refreshPreview

FloorsKept(editor) ==
    /\ FloorFollowed(editor)
    /\ \A load \in editor.loads : load.answer.floor = load.floor
    /\ \A req \in editor.saving :
          req.drawnOn.floor # req.floor => req.drawnOn.status = "none" \/ req.mayMix

\* A layout that is not a draft is of no later edition than the floor's, and of the
\* floor's only if it is the map the floor shows.
NotAhead(layout) ==
    /\ layout.status = "none" => layout.version = 0
    /\ layout.status = "published" =>
          /\ layout.version <= edition[layout.floor]
          /\ layout.version = edition[layout.floor] => layout.doc = shown[layout.floor]

\* The canvas shows the layout prop and what was drawn on it.
MapsKnown(editor) ==
    /\ NotAhead(editor.layout)
    /\ editor.mode = "canvas" => editor.layout.doc \subseteq editor.doc
    /\ \A load \in editor.loads : NotAhead(load.answer)
    /\ \A req \in editor.saving :
          /\ NotAhead(req.drawnOn)
          /\ req.version = req.drawnOn.version
          /\ req.drawnOn.doc \subseteq req.doc

\* A task that began with a save and was not interfered with, as that of every quiet
\* switch of modes did: the save holds what the canvas shows, and afterwards nothing
\* is left to save.
QuietTask(editor) ==
    /\ editor.task.quiet /\ editor.task.goal \in {"preview", "json"} => editor.task.saved
    /\ (editor.task.quiet /\ editor.task.saved) =>
          /\ editor.task.step = "save" =>
                /\ ~editor.orphan
                /\ \E req \in editor.saving :
                      req.floor = editor.task.floor /\ req.doc = editor.doc
          /\ editor.task.step \in {"unlock", "publish"} =>
                editor.saving = {} /\ ~editor.dirty /\ editor.unsaved = {}

\* ... and what is published then is what the canvas shows.
DraftReady(editor) ==
    (editor.task.quiet /\ editor.task.saved /\ editor.task.step = "publish") =>
        working[editor.task.floor] = editor.doc

EditInvariant ==
    /\ StoreTyped
    /\ editors \in [Client -> Editor]
    /\ locks \in [Floor -> Client \cup {NoClient}]
    /\ writers \in [Floor -> Client \cup {NoClient}]
    /\ \A c \in Client : /\ WellFormed(editors[c])
                         /\ FloorsKept(editors[c])
                         /\ MapsKnown(editors[c])
                         /\ QuietTask(editors[c])
                         /\ DraftReady(editors[c])
=============================================================================
