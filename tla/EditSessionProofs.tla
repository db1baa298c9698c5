------------------------- MODULE EditSessionProofs -------------------------
(***************************************************************************)
(* Proofs about EditSession, for every number of tabs, floors and edits,   *)
(* every choice of goals and every number of loads in flight.              *)
(***************************************************************************)
EXTENDS EditSession, FiniteSetTheorems, TLAPS

-----------------------------------------------------------------------------
(***************************************************************************)
(* What the operators that make one editor of another change.              *)
(***************************************************************************)

\* What two editors have in common if only the canvas, the task and the buttons
\* differ.
SameSent(next, editor) ==
    /\ next.floor = editor.floor
    /\ next.layout = editor.layout
    /\ next.overtaken = editor.overtaken
    /\ next.loads = editor.loads
    /\ next.saving = editor.saving

SameTask(next, editor) ==
    /\ next.task.goal = editor.task.goal
    /\ next.task.step = editor.task.step
    /\ next.task.floor = editor.task.floor
    /\ next.task.saved = editor.task.saved

\* Drawing the canvas anew touches nothing that was sent.
LEMMA DrawnFields ==
    ASSUME NEW editor \in Editor
    PROVE  /\ Drawn(editor) \in Editor
           /\ SameSent(Drawn(editor), editor)
           /\ SameTask(Drawn(editor), editor)
           /\ Drawn(editor).mode = editor.mode
           /\ editor.mode = "canvas" => Drawn(editor).doc = editor.layout.doc
           /\ Drawn(editor).orphan = editor.orphan
           /\ Drawn(editor).isLockedByOther = editor.isLockedByOther
           /\ Drawn(editor).unsaved = {}
           /\ Drawn(editor).dirty = FALSE
           /\ Drawn(editor).task.quiet = FALSE
<1>. DEFINE doc == IF editor.mode = "canvas" THEN editor.layout.doc ELSE {}
            task == [editor.task EXCEPT !.quiet = FALSE]
<1>1. doc \in Layout /\ task \in Task
  BY EditAssumption DEF Editor, LayoutProp, Task
<1>2. Drawn(editor) = [editor EXCEPT !.doc = doc, !.dirty = FALSE, !.armed = FALSE,
                           !.unsaved = {}, !.missed = FALSE, !.task = task]
  BY DEF Drawn, Editor
<1>3. /\ editor.mode = "canvas" => doc = editor.layout.doc
      /\ task.goal = editor.task.goal /\ task.step = editor.task.step
      /\ task.floor = editor.task.floor /\ task.saved = editor.task.saved
      /\ task.quiet = FALSE
  BY DEF Editor, Task
<1>. HIDE DEF doc, task
<1>4. Drawn(editor) \in Editor
  BY <1>1, <1>2 DEF Editor
<1>. QED
  BY <1>2, <1>3, <1>4 DEF Editor, SameSent, SameTask

\* Another mode: the canvas is drawn anew, and a save in flight is nobody's.
LEMMA InModeFields ==
    ASSUME NEW editor \in Editor, NEW mode \in {"preview", "json", "canvas"}
    PROVE  /\ InMode(editor, mode) \in Editor
           /\ SameSent(InMode(editor, mode), editor)
           /\ SameTask(InMode(editor, mode), editor)
           /\ InMode(editor, mode).mode = mode
           /\ InMode(editor, mode).isLockedByOther = editor.isLockedByOther
           /\ mode = editor.mode => InMode(editor, mode) = editor
           /\ mode # editor.mode =>
                 /\ mode = "canvas" => InMode(editor, mode).doc = editor.layout.doc
                 /\ InMode(editor, mode).orphan = (editor.saving # {})
                 /\ InMode(editor, mode).unsaved = {}
                 /\ InMode(editor, mode).dirty = FALSE
                 /\ InMode(editor, mode).task.quiet = FALSE
<1>1. CASE mode = editor.mode
  BY <1>1 DEF InMode, SameSent, SameTask
<1>2. CASE mode # editor.mode
  <2>1. PICK orphan \in BOOLEAN : orphan = (editor.saving # {})
    OBVIOUS
  <2>. DEFINE moved == [editor EXCEPT !.mode = mode, !.failed = FALSE,
                                      !.rendering = FALSE, !.orphan = orphan]
  <2>2. moved \in Editor
    BY DEF Editor
  <2>3. /\ SameSent(moved, editor) /\ SameTask(moved, editor)
        /\ moved.mode = mode /\ moved.orphan = orphan
        /\ moved.isLockedByOther = editor.isLockedByOther
    BY DEF Editor, SameSent, SameTask
  <2>4. InMode(editor, mode) = Drawn(moved)
    BY <1>2, <2>1 DEF InMode
  <2>. HIDE DEF moved
  <2>5. /\ Drawn(moved) \in Editor
        /\ SameSent(Drawn(moved), moved)
        /\ SameTask(Drawn(moved), moved)
        /\ Drawn(moved).mode = moved.mode
        /\ moved.mode = "canvas" => Drawn(moved).doc = moved.layout.doc
        /\ Drawn(moved).orphan = moved.orphan
        /\ Drawn(moved).isLockedByOther = moved.isLockedByOther
        /\ Drawn(moved).unsaved = {}
        /\ Drawn(moved).dirty = FALSE
        /\ Drawn(moved).task.quiet = FALSE
    BY <2>2, DrawnFields
  <2>6. SameSent(Drawn(moved), editor) /\ SameTask(Drawn(moved), editor)
    BY <2>3, <2>5 DEF SameSent, SameTask
  <2>7. Drawn(moved).orphan = (editor.saving # {})
    BY <2>1, <2>3, <2>5
  <2>8. moved.layout = editor.layout
    BY <2>3 DEF SameSent
  <2>. QED
    BY <1>2, <2>3, <2>4, <2>5, <2>6, <2>7, <2>8
<1>. QED
  BY <1>1, <1>2

\* The request that Saving sends.
RequestOf(editor, updatePreview) ==
    [floor |-> editor.floor, version |-> editor.layout.version,
     doc |-> editor.doc, updatePreview |-> updatePreview,
     drawnOn |-> editor.layout,
     mayMix |-> editor.overtaken \/
         \E load \in editor.loads : load.floor = editor.floor]

\* Its fields.
LEMMA RequestFields ==
    ASSUME NEW editor \in Editor, NEW updatePreview \in BOOLEAN
    PROVE  /\ RequestOf(editor, updatePreview) \in SaveRequest
           /\ RequestOf(editor, updatePreview).floor = editor.floor
           /\ RequestOf(editor, updatePreview).version = editor.layout.version
           /\ RequestOf(editor, updatePreview).doc = editor.doc
           /\ RequestOf(editor, updatePreview).drawnOn = editor.layout
           /\ RequestOf(editor, updatePreview).mayMix =
                 (editor.overtaken \/ \E load \in editor.loads : load.floor = editor.floor)
BY DEF RequestOf, Editor, SaveRequest, LayoutProp

\* A save is sent if there is none in flight.
LEMMA SavingFields ==
    ASSUME NEW editor \in Editor, editor.saving = {}, NEW updatePreview \in BOOLEAN
    PROVE  LET next == Saving(editor, updatePreview)
           IN  /\ next \in Editor
               /\ next.saving = {RequestOf(editor, updatePreview)}
               /\ next.floor = editor.floor
               /\ next.mode = editor.mode
               /\ next.layout = editor.layout
               /\ next.overtaken = editor.overtaken
               /\ next.loads = editor.loads
               /\ next.doc = editor.doc
               /\ next.unsaved = editor.unsaved
               /\ next.dirty = editor.dirty
               /\ next.orphan = editor.orphan
               /\ next.task = editor.task
<1>. DEFINE saving == {RequestOf(editor, updatePreview)}
<1>1. saving \in SUBSET SaveRequest
  BY RequestFields
<1>2. Saving(editor, updatePreview) = [editor EXCEPT !.failed = FALSE, !.saving = saving]
  BY DEF Saving, Editor, RequestOf
<1>. HIDE DEF saving
<1>3. Saving(editor, updatePreview) \in Editor
  BY <1>1, <1>2 DEF Editor
<1>. QED
  BY <1>2, <1>3 DEF Editor, saving

\* The load that Loading sends.
LoadOf(f, refreshPreview, then) ==
    [floor |-> f, step |-> "sent", answer |-> NoMapYet(f),
     refreshPreview |-> refreshPreview, then |-> then]

\* Its fields.
LEMMA LoadFields ==
    ASSUME NEW f \in Floor, NEW refreshPreview \in BOOLEAN,
           NEW then \in {"stay", "canvas", "free"}
    PROVE  /\ NoMapYet(f) \in LayoutProp
           /\ NoMapYet(f).floor = f
           /\ NoMapYet(f).status = "none"
           /\ NoMapYet(f).version = 0
           /\ LoadOf(f, refreshPreview, then) \in Load
           /\ LoadOf(f, refreshPreview, then).floor = f
           /\ LoadOf(f, refreshPreview, then).answer = NoMapYet(f)
           /\ LoadOf(f, refreshPreview, then).refreshPreview = refreshPreview
<1>1. {} \in Layout /\ 0 \in 0..(MaxEdition + 1)
  BY EditAssumption
<1>2. /\ NoMapYet(f) \in LayoutProp
      /\ NoMapYet(f).floor = f
      /\ NoMapYet(f).status = "none"
      /\ NoMapYet(f).version = 0
  BY <1>1 DEF NoMapYet, LayoutProp
<1>. QED
  BY <1>2 DEF LoadOf, Load

\* One more load is in flight.
LEMMA LoadingFields ==
    ASSUME NEW editor \in Editor, NEW f \in Floor, NEW refreshPreview \in BOOLEAN,
           NEW then \in {"stay", "canvas", "free"}
    PROVE  LET next == Loading(editor, f, refreshPreview, then)
           IN  /\ next \in Editor
               /\ next.loads = editor.loads \cup {LoadOf(f, refreshPreview, then)}
               /\ next.floor = editor.floor
               /\ next.mode = editor.mode
               /\ next.layout = editor.layout
               /\ next.overtaken = editor.overtaken
               /\ next.saving = editor.saving
               /\ next.doc = editor.doc
               /\ next.unsaved = editor.unsaved
               /\ next.dirty = editor.dirty
               /\ next.orphan = editor.orphan
               /\ next.task = editor.task
<1>. DEFINE loads == editor.loads \cup {LoadOf(f, refreshPreview, then)}
<1>1. loads \in SUBSET Load
  BY LoadFields DEF Editor
<1>2. Loading(editor, f, refreshPreview, then) = [editor EXCEPT !.busy = TRUE, !.loads = loads]
  BY DEF Loading, Editor, LoadOf
<1>. HIDE DEF loads
<1>3. Loading(editor, f, refreshPreview, then) \in Editor
  BY <1>1, <1>2 DEF Editor
<1>. QED
  BY <1>2, <1>3 DEF Editor, loads

\* No task is a task.
LEMMA NoTaskFields ==
    ASSUME NEW f \in Floor
    PROVE  /\ NoTask(f) \in Task
           /\ NoTask(f).goal = "none" /\ NoTask(f).step = "none"
           /\ NoTask(f).floor = f /\ NoTask(f).quiet = FALSE
BY DEF NoTask, Task

\* Only the task is another.
LEMMA TaskFields ==
    ASSUME NEW editor \in Editor, NEW task \in Task
    PROVE  LET next == [editor EXCEPT !.task = task]
           IN  /\ next \in Editor
               /\ SameSent(next, editor)
               /\ next.task = task
               /\ next.mode = editor.mode
               /\ next.doc = editor.doc
               /\ next.unsaved = editor.unsaved
               /\ next.dirty = editor.dirty
               /\ next.orphan = editor.orphan
BY DEF Editor, SameSent

\* A task begins.
LEMMA BegunFields ==
    ASSUME NEW editor \in Editor,
           NEW goal \in {"none", "preview", "json", "canvas", "publish"},
           NEW step \in {"none", "lock", "save", "unlock", "publish"}
    PROVE  LET next == Begun(editor, goal, step)
           IN  /\ next \in Editor
               /\ SameSent(next, editor)
               /\ next.task.goal = goal
               /\ next.task.step = step
               /\ next.task.floor = editor.floor
               /\ step = "save" => next.task.saved
               /\ next.task.quiet =>
                     ~SaveUnderWay(editor) /\ (editor.dirty \/ editor.unsaved = {})
               /\ next.mode = editor.mode
               /\ next.doc = editor.doc
               /\ next.unsaved = editor.unsaved
               /\ next.dirty = editor.dirty
               /\ next.orphan = editor.orphan
<1>. DEFINE task == [goal |-> goal, step |-> step, floor |-> editor.floor,
                     saved |-> step = "save",
                     quiet |-> ~SaveUnderWay(editor)
                                  /\ (editor.dirty \/ editor.unsaved = {})]
<1>1. task \in Task
  BY DEF Editor, Task
<1>2. Begun(editor, goal, step) = [editor EXCEPT !.task = task]
  BY DEF Begun
<1>3. /\ task.goal = goal /\ task.step = step /\ task.floor = editor.floor
      /\ step = "save" => task.saved
      /\ task.quiet => ~SaveUnderWay(editor) /\ (editor.dirty \/ editor.unsaved = {})
  OBVIOUS
<1>. HIDE DEF task
<1>. QED
  BY <1>1, <1>2, <1>3, TaskFields

\* A task that waited for a save in order to show the JSON editor ends.
LEMMA AfterSaveJson ==
    ASSUME NEW editor \in Editor, editor.task.goal = "json"
    PROVE  LET next == AfterSave(editor)
           IN  /\ next = [InMode(editor, "json") EXCEPT !.task = NoTask(editor.floor)]
               /\ next.task = NoTask(editor.floor)
<1>1. PICK inJson : inJson = InMode(editor, "json")
  OBVIOUS
<1>2. inJson \in Editor
  BY <1>1, InModeFields
<1>3. AfterSave(editor) = [inJson EXCEPT !.task = NoTask(editor.floor)]
  BY <1>1 DEF AfterSave
<1>4. editor.floor \in Floor
  BY DEF Editor
<1>5. PICK task \in Task : task = NoTask(editor.floor)
  BY <1>4, NoTaskFields
<1>6. [inJson EXCEPT !.task = task].task = task
  BY <1>2, TaskFields
<1>. QED
  BY <1>1, <1>3, <1>5, <1>6

\* Any other task goes on.
LEMMA AfterSaveGoesOn ==
    ASSUME NEW editor \in Editor, editor.task.goal \in {"preview", "publish"}
    PROVE  LET next == AfterSave(editor)
           IN  /\ next \in Editor
               /\ SameSent(next, editor)
               /\ next.task.goal = editor.task.goal
               /\ editor.task.goal = "preview" => next.task.step = "unlock"
               /\ editor.task.goal = "publish" => next.task.step = "publish"
               /\ next.task.floor = editor.task.floor
               /\ next.task.saved = editor.task.saved
               /\ next.task.quiet = editor.task.quiet
               /\ next.mode = editor.mode
               /\ next.doc = editor.doc
               /\ next.unsaved = editor.unsaved
               /\ next.dirty = editor.dirty
               /\ next.orphan = editor.orphan
<1>1. PICK step \in {"unlock", "publish"} :
          /\ editor.task.goal = "preview" => step = "unlock"
          /\ editor.task.goal = "publish" => step = "publish"
  OBVIOUS
<1>2. PICK task : task = [editor.task EXCEPT !.step = step]
  OBVIOUS
<1>3. /\ task \in Task
      /\ task.goal = editor.task.goal /\ task.step = step
      /\ task.floor = editor.task.floor /\ task.saved = editor.task.saved
      /\ task.quiet = editor.task.quiet
  BY <1>2 DEF Editor, Task
<1>4. AfterSave(editor) = [editor EXCEPT !.task = task]
  BY <1>1, <1>2 DEF AfterSave
<1>. QED
  BY <1>1, <1>3, <1>4, TaskFields

\* A canvas hears of its save, or nobody does: the save is not in flight any more.
LEMMA AcknowledgedFields ==
    ASSUME NEW editor \in Editor, NEW req \in SaveRequest, NEW ok \in BOOLEAN
    PROVE  LET next == Acknowledged(editor, req, ok)
           IN  /\ next \in Editor
               /\ next.floor = editor.floor
               /\ next.mode = editor.mode
               /\ next.layout = editor.layout
               /\ next.overtaken = editor.overtaken
               /\ next.loads = editor.loads
               /\ next.doc = editor.doc
               /\ next.task = editor.task
               /\ next.saving = {}
               /\ next.orphan = FALSE
               /\ next.unsaved \subseteq editor.unsaved
<1>. DEFINE heard == [editor EXCEPT !.saving = {}, !.orphan = FALSE]
            unsaved == editor.unsaved \ req.doc
<1>1. heard \in Editor
  BY DEF Editor
<1>2. /\ heard.floor = editor.floor
      /\ heard.mode = editor.mode
      /\ heard.layout = editor.layout
      /\ heard.overtaken = editor.overtaken
      /\ heard.loads = editor.loads
      /\ heard.doc = editor.doc
      /\ heard.task = editor.task
      /\ heard.saving = {}
      /\ heard.orphan = FALSE
      /\ heard.unsaved = editor.unsaved
  BY DEF Editor
<1>3. unsaved \in SUBSET Edit /\ unsaved \subseteq editor.unsaved
  BY DEF Editor
<1>4. \/ Acknowledged(editor, req, ok) = heard
      \/ Acknowledged(editor, req, ok) =
             [heard EXCEPT !.dirty = FALSE, !.armed = FALSE, !.missed = FALSE,
                           !.rendering = req.updatePreview, !.unsaved = unsaved]
      \/ Acknowledged(editor, req, ok) = [heard EXCEPT !.failed = TRUE]
  <2>1. heard.unsaved \ req.doc = unsaved
    BY <1>2
  <2>. HIDE DEF heard, unsaved
  <2>. QED
    BY <2>1 DEF Acknowledged, heard
<1>5. req.updatePreview \in BOOLEAN
  BY DEF SaveRequest
<1>. HIDE DEF heard, unsaved
<1>6. PICK next : next = Acknowledged(editor, req, ok)
  OBVIOUS
<1>7. CASE next = heard
  BY <1>1, <1>2, <1>6, <1>7
<1>8. CASE next = [heard EXCEPT !.dirty = FALSE, !.armed = FALSE, !.missed = FALSE,
                                !.rendering = req.updatePreview, !.unsaved = unsaved]
  <2>1. next \in Editor
    BY <1>1, <1>3, <1>5, <1>8 DEF Editor
  <2>2. /\ next.floor = heard.floor
        /\ next.mode = heard.mode
        /\ next.layout = heard.layout
        /\ next.overtaken = heard.overtaken
        /\ next.loads = heard.loads
        /\ next.doc = heard.doc
        /\ next.task = heard.task
        /\ next.saving = heard.saving
        /\ next.orphan = heard.orphan
        /\ next.unsaved = unsaved
    BY <1>1, <1>8 DEF Editor
  <2>. QED
    BY <1>2, <1>3, <1>6, <2>1, <2>2
<1>9. CASE next = [heard EXCEPT !.failed = TRUE]
  <2>1. /\ next \in Editor
        /\ next.floor = heard.floor
        /\ next.mode = heard.mode
        /\ next.layout = heard.layout
        /\ next.overtaken = heard.overtaken
        /\ next.loads = heard.loads
        /\ next.doc = heard.doc
        /\ next.task = heard.task
        /\ next.saving = heard.saving
        /\ next.orphan = heard.orphan
        /\ next.unsaved = heard.unsaved
    BY <1>1, <1>9 DEF Editor
  <2>. QED
    BY <1>2, <1>6, <2>1
<1>. QED
  BY <1>4, <1>6, <1>7, <1>8, <1>9

\* A canvas that hears that it was saved is clean, and what it saved is safe.
LEMMA AcknowledgedSaved ==
    ASSUME NEW editor \in Editor, NEW req \in SaveRequest, NEW ok \in BOOLEAN,
           ok, ~editor.orphan
    PROVE  /\ Acknowledged(editor, req, ok).dirty = FALSE
           /\ Acknowledged(editor, req, ok).unsaved = editor.unsaved \ req.doc
<1>. DEFINE heard == [editor EXCEPT !.saving = {}, !.orphan = FALSE]
<1>1. heard \in Editor /\ heard.unsaved = editor.unsaved
  BY DEF Editor
<1>2. Acknowledged(editor, req, ok) =
          [heard EXCEPT !.dirty = FALSE, !.armed = FALSE, !.missed = FALSE,
                        !.rendering = req.updatePreview, !.unsaved = @ \ req.doc]
  BY DEF Acknowledged
<1>. HIDE DEF heard
<1>. QED
  BY <1>1, <1>2 DEF Editor

\* Another floor is selected.
LEMMA SelectedFields ==
    ASSUME NEW editor \in Editor, NEW f \in Floor
    PROVE  LET next == Selected(editor, f)
           IN  /\ next \in Editor
               /\ next.floor = f
               /\ next.mode = editor.mode
               /\ next.layout = editor.layout
               /\ next.overtaken = editor.overtaken
               /\ next.loads = editor.loads
               /\ next.saving = editor.saving
               /\ next.doc = editor.doc
               /\ next.unsaved = editor.unsaved
               /\ next.orphan = editor.orphan
               /\ next.task.goal = editor.task.goal
               /\ next.task.step = editor.task.step
               /\ next.task.quiet = FALSE
<1>. DEFINE floor == IF editor.task.goal = "none" THEN f ELSE editor.task.floor
            task == [editor.task EXCEPT !.quiet = FALSE, !.floor = floor]
<1>1. floor \in Floor
  BY DEF Editor, Task
<1>2. Selected(editor, f) = [editor EXCEPT !.floor = f, !.armed = editor.dirty,
                                 !.failed = FALSE, !.task = task]
  BY DEF Selected, Editor, Task
<1>. HIDE DEF floor
<1>3. /\ task \in Task
      /\ task.goal = editor.task.goal /\ task.step = editor.task.step
      /\ task.quiet = FALSE
  BY <1>1 DEF Editor, Task
<1>. HIDE DEF task
<1>4. Selected(editor, f) \in Editor
  BY <1>2, <1>3 DEF Editor
<1>. QED
  BY <1>2, <1>3, <1>4 DEF Editor

-----------------------------------------------------------------------------
(***************************************************************************)
(* What they keep of the invariant, in every state of the store.           *)
(***************************************************************************)

Sound(editor) == WellFormed(editor) /\ FloorsKept(editor) /\ MapsKnown(editor)

\* Nothing was sent and the canvas still shows the layout prop.
LEMMA SameSound ==
    ASSUME NEW editor, Sound(editor), NEW next \in Editor, SameSent(next, editor),
           next.orphan => next.saving # {},
           next.unsaved \subseteq next.doc,
           next.mode = "canvas" => next.layout.doc \subseteq next.doc,
           <<next.task.goal, next.task.step>> \in TaskSteps
    PROVE  Sound(next)
<1>1. WellFormed(next)
  BY DEF Sound, WellFormed, SameSent
<1>2. FloorsKept(next)
  BY DEF Sound, FloorsKept, FloorFollowed, SameSent
<1>3. MapsKnown(next)
  BY DEF Sound, MapsKnown, SameSent
<1>. QED
  BY <1>1, <1>2, <1>3 DEF Sound

\* Drawing the canvas anew keeps an editor sound.
LEMMA DrawnSound ==
    ASSUME NEW editor, Sound(editor)
    PROVE  Sound(Drawn(editor))
<1>1. /\ editor \in Editor /\ (editor.orphan => editor.saving # {})
      /\ <<editor.task.goal, editor.task.step>> \in TaskSteps
  BY DEF Sound, WellFormed
<1>2. PICK next : next = Drawn(editor)
  OBVIOUS
<1>3. /\ next \in Editor /\ SameSent(next, editor) /\ SameTask(next, editor)
      /\ next.mode = editor.mode /\ next.orphan = editor.orphan /\ next.unsaved = {}
      /\ editor.mode = "canvas" => next.doc = editor.layout.doc
  BY <1>1, <1>2, DrawnFields
<1>4. /\ next.orphan => next.saving # {}
      /\ next.mode = "canvas" => next.layout.doc \subseteq next.doc
      /\ <<next.task.goal, next.task.step>> \in TaskSteps
  BY <1>1, <1>3 DEF SameSent, SameTask
<1>. QED
  BY <1>2, <1>3, <1>4, SameSound

\* So does another mode.
LEMMA InModeSound ==
    ASSUME NEW editor, Sound(editor), NEW mode \in {"preview", "json", "canvas"}
    PROVE  Sound(InMode(editor, mode))
<1>1. /\ editor \in Editor /\ (editor.orphan => editor.saving # {})
      /\ <<editor.task.goal, editor.task.step>> \in TaskSteps
  BY DEF Sound, WellFormed
<1>2. PICK next : next = InMode(editor, mode)
  OBVIOUS
<1>3. CASE mode = editor.mode
  BY <1>3 DEF InMode
<1>4. CASE mode # editor.mode
  <2>1. /\ next \in Editor /\ SameSent(next, editor) /\ SameTask(next, editor)
        /\ next.mode = mode /\ next.orphan = (editor.saving # {}) /\ next.unsaved = {}
        /\ mode = "canvas" => next.doc = editor.layout.doc
    BY <1>1, <1>2, <1>4, InModeFields
  <2>2. /\ next.orphan => next.saving # {}
        /\ next.mode = "canvas" => next.layout.doc \subseteq next.doc
        /\ <<next.task.goal, next.task.step>> \in TaskSteps
    BY <1>1, <2>1 DEF SameSent, SameTask
  <2>. QED
    BY <1>2, <2>1, <2>2, SameSound
<1>. QED
  BY <1>3, <1>4

\* A save that is sent from the canvas holds the layout it was drawn on.
LEMMA SavingSound ==
    ASSUME NEW editor, Sound(editor), editor.saving = {}, editor.mode = "canvas",
           NEW updatePreview \in BOOLEAN
    PROVE  Sound(Saving(editor, updatePreview))
<1>1. editor \in Editor
  BY DEF Sound, WellFormed
<1>2. PICK next, req : /\ next = Saving(editor, updatePreview)
                       /\ req = RequestOf(editor, updatePreview)
  OBVIOUS
<1>3. /\ next \in Editor /\ next.saving = {req}
      /\ next.floor = editor.floor
      /\ next.mode = editor.mode
      /\ next.layout = editor.layout
      /\ next.overtaken = editor.overtaken
      /\ next.loads = editor.loads
      /\ next.doc = editor.doc
      /\ next.unsaved = editor.unsaved
      /\ next.orphan = editor.orphan
      /\ next.task = editor.task
  BY <1>1, <1>2, SavingFields
<1>4. /\ req.floor = editor.floor
      /\ req.version = editor.layout.version
      /\ req.doc = editor.doc
      /\ req.drawnOn = editor.layout
      /\ req.mayMix = (editor.overtaken \/ \E load \in editor.loads : load.floor = editor.floor)
  BY <1>1, <1>2, RequestFields
<1>5. WellFormed(next)
  BY <1>3 DEF Sound, WellFormed
<1>6. FloorsKept(next)
  <2>1. FloorFollowed(editor) /\ \A load \in editor.loads : load.answer.floor = load.floor
    BY DEF Sound, FloorsKept
  <2>2. req.drawnOn.floor # req.floor => req.drawnOn.status = "none" \/ req.mayMix
    BY <1>4, <2>1 DEF FloorFollowed
  <2>. QED
    BY <1>3, <2>1, <2>2 DEF FloorsKept, FloorFollowed
<1>7. MapsKnown(next)
  BY <1>3, <1>4 DEF Sound, MapsKnown
<1>. QED
  BY <1>2, <1>5, <1>6, <1>7 DEF Sound

\* A map that is not there yet is of no edition.
LEMMA NoMapNotAhead ==
    ASSUME NEW f \in Floor
    PROVE  NotAhead(NoMapYet(f))
BY DEF NotAhead, NoMapYet

\* A load that is sent, if there is room for it; the floor it is for is on its way.
LEMMA LoadingSound ==
    ASSUME NEW editor, WellFormed(editor), MapsKnown(editor), CanLoad(editor),
           NEW f \in Floor, NEW refreshPreview \in BOOLEAN,
           NEW then \in {"stay", "canvas", "free"},
           FloorsKept(editor)
              \/ /\ refreshPreview /\ f = editor.floor
                 /\ \A load \in editor.loads : load.answer.floor = load.floor
                 /\ \A req \in editor.saving : req.drawnOn.floor # req.floor =>
                       req.drawnOn.status = "none" \/ req.mayMix
    PROVE  Sound(Loading(editor, f, refreshPreview, then))
<1>1. editor \in Editor
  BY DEF WellFormed
<1>2. PICK next, load : /\ next = Loading(editor, f, refreshPreview, then)
                        /\ load = LoadOf(f, refreshPreview, then)
  OBVIOUS
<1>3. /\ next \in Editor /\ next.loads = editor.loads \cup {load}
      /\ next.floor = editor.floor
      /\ next.mode = editor.mode
      /\ next.layout = editor.layout
      /\ next.overtaken = editor.overtaken
      /\ next.saving = editor.saving
      /\ next.doc = editor.doc
      /\ next.unsaved = editor.unsaved
      /\ next.orphan = editor.orphan
      /\ next.task = editor.task
  BY <1>1, <1>2, LoadingFields
<1>4. /\ load.floor = f /\ load.answer = NoMapYet(f) /\ NoMapYet(f).floor = f
      /\ load.refreshPreview = refreshPreview
  BY <1>2, LoadFields
<1>5. WellFormed(next)
  <2>1. /\ IsFiniteSet(editor.loads \cup {load})
        /\ Cardinality(editor.loads) \in Nat
        /\ Cardinality(editor.loads \cup {load}) <= Cardinality(editor.loads) + 1
    <3>1. IsFiniteSet(editor.loads) /\ Cardinality(editor.loads) \in Nat
      BY FS_CardinalityType DEF WellFormed
    <3>2. PICK more : more = editor.loads \cup {load}
      OBVIOUS
    <3>3. /\ IsFiniteSet(more)
          /\ Cardinality(more) = IF load \in editor.loads THEN Cardinality(editor.loads)
                                  ELSE Cardinality(editor.loads) + 1
      BY <3>1, <3>2, FS_AddElement
    <3>. QED
      BY <3>1, <3>2, <3>3
  <2>2. Cardinality(editor.loads) < MaxLoads /\ MaxLoads \in Nat
    BY EditAssumption DEF CanLoad
  <2>3. Cardinality(editor.loads \cup {load}) \in Nat
    BY <2>1, FS_CardinalityType
  <2>4. Cardinality(next.loads) <= MaxLoads
    BY <1>3, <2>1, <2>2, <2>3
  <2>. QED
    BY <1>3, <2>1, <2>4 DEF WellFormed
<1>6. FloorsKept(next)
  BY <1>3, <1>4 DEF FloorsKept, FloorFollowed
<1>7. MapsKnown(next)
  BY <1>3, <1>4, NoMapNotAhead DEF MapsKnown
<1>. QED
  BY <1>2, <1>5, <1>6, <1>7 DEF Sound

\* A task begins.
LEMMA BegunSound ==
    ASSUME NEW editor, Sound(editor), NEW goal, NEW step, <<goal, step>> \in TaskSteps
    PROVE  Sound(Begun(editor, goal, step))
<1>1. editor \in Editor
  BY DEF Sound, WellFormed
<1>2. PICK next : next = Begun(editor, goal, step)
  OBVIOUS
<1>3. /\ goal \in {"none", "preview", "json", "canvas", "publish"}
      /\ step \in {"none", "lock", "save", "unlock", "publish"}
  BY DEF TaskSteps
<1>4. /\ next \in Editor /\ SameSent(next, editor)
      /\ next.task.goal = goal /\ next.task.step = step
      /\ next.mode = editor.mode /\ next.doc = editor.doc
      /\ next.unsaved = editor.unsaved /\ next.orphan = editor.orphan
  BY <1>1, <1>2, <1>3, BegunFields
<1>5. /\ next.orphan => next.saving # {}
      /\ next.unsaved \subseteq next.doc
      /\ next.mode = "canvas" => next.layout.doc \subseteq next.doc
  BY <1>4 DEF Sound, WellFormed, MapsKnown, SameSent
<1>. QED
  BY <1>2, <1>4, <1>5, SameSound

\* A task ends.
LEMMA DoneSound ==
    ASSUME NEW editor, Sound(editor), NEW f \in Floor
    PROVE  Sound([editor EXCEPT !.task = NoTask(f)])
<1>1. editor \in Editor
  BY DEF Sound, WellFormed
<1>2. PICK task : task = NoTask(f)
  OBVIOUS
<1>3. task \in Task /\ task.goal = "none" /\ task.step = "none"
  BY <1>2, NoTaskFields
<1>4. PICK next : next = [editor EXCEPT !.task = task]
  OBVIOUS
<1>5. /\ next \in Editor /\ SameSent(next, editor) /\ next.task = task
      /\ next.mode = editor.mode /\ next.doc = editor.doc
      /\ next.unsaved = editor.unsaved /\ next.orphan = editor.orphan
  BY <1>1, <1>3, <1>4, TaskFields
<1>6. /\ next.orphan => next.saving # {}
      /\ next.unsaved \subseteq next.doc
      /\ next.mode = "canvas" => next.layout.doc \subseteq next.doc
  BY <1>5 DEF Sound, WellFormed, MapsKnown, SameSent
<1>7. <<next.task.goal, next.task.step>> \in TaskSteps
  BY <1>3, <1>5 DEF TaskSteps
<1>8. Sound(next)
  BY <1>5, <1>6, <1>7, SameSound
<1>. QED
  BY <1>2, <1>4, <1>8

\* A task goes on after the save.
LEMMA AfterSaveSound ==
    ASSUME NEW editor, Sound(editor), editor.task.step = "save"
    PROVE  Sound(AfterSave(editor)) /\ editor.task.goal \in {"preview", "json", "publish"}
<1>1. editor \in Editor /\ <<editor.task.goal, editor.task.step>> \in TaskSteps
  BY DEF Sound, WellFormed
<1>2. editor.task.goal \in {"preview", "json", "publish"}
  BY <1>1 DEF TaskSteps
<1>3. CASE editor.task.goal = "json"
  <2>1. Sound(InMode(editor, "json"))
    BY InModeSound
  <2>2. AfterSave(editor) = [InMode(editor, "json") EXCEPT !.task = NoTask(editor.floor)]
    BY <1>3 DEF AfterSave
  <2>3. editor.floor \in Floor
    BY <1>1 DEF Editor
  <2>. QED
    BY <1>2, <2>1, <2>2, <2>3, DoneSound
<1>4. CASE editor.task.goal # "json"
  <2>1. PICK next : next = AfterSave(editor)
    OBVIOUS
  <2>2. editor.task.goal \in {"preview", "publish"}
    BY <1>2, <1>4
  <2>3. /\ next \in Editor /\ SameSent(next, editor)
        /\ next.task.goal = editor.task.goal
        /\ editor.task.goal = "preview" => next.task.step = "unlock"
        /\ editor.task.goal = "publish" => next.task.step = "publish"
        /\ next.mode = editor.mode /\ next.doc = editor.doc
        /\ next.unsaved = editor.unsaved /\ next.orphan = editor.orphan
    BY <1>1, <2>1, <2>2, AfterSaveGoesOn
  <2>4. /\ next.orphan => next.saving # {}
        /\ next.unsaved \subseteq next.doc
        /\ next.mode = "canvas" => next.layout.doc \subseteq next.doc
    BY <2>3 DEF Sound, WellFormed, MapsKnown, SameSent
  <2>5. <<next.task.goal, next.task.step>> \in TaskSteps
    BY <2>2, <2>3 DEF TaskSteps
  <2>. QED
    BY <1>2, <2>1, <2>3, <2>4, <2>5, SameSound
<1>. QED
  BY <1>3, <1>4

\* A save that was answered is not in flight any more.
LEMMA AcknowledgedSound ==
    ASSUME NEW editor, Sound(editor), NEW req \in editor.saving, NEW ok \in BOOLEAN
    PROVE  Sound(Acknowledged(editor, req, ok))
<1>1. editor \in Editor
  BY DEF Sound, WellFormed
<1>2. req \in SaveRequest
  BY <1>1 DEF Editor
<1>3. PICK next : next = Acknowledged(editor, req, ok)
  OBVIOUS
<1>4. /\ next \in Editor
      /\ next.floor = editor.floor
      /\ next.mode = editor.mode
      /\ next.layout = editor.layout
      /\ next.overtaken = editor.overtaken
      /\ next.loads = editor.loads
      /\ next.doc = editor.doc
      /\ next.task = editor.task
      /\ next.saving = {}
      /\ next.orphan = FALSE
      /\ next.unsaved \subseteq editor.unsaved
  BY <1>1, <1>2, <1>3, AcknowledgedFields
<1>5. WellFormed(next)
  BY <1>4 DEF Sound, WellFormed
<1>6. FloorsKept(next)
  BY <1>4 DEF Sound, FloorsKept, FloorFollowed
<1>7. MapsKnown(next)
  BY <1>4 DEF Sound, MapsKnown
<1>. QED
  BY <1>3, <1>5, <1>6, <1>7 DEF Sound

-----------------------------------------------------------------------------
(***************************************************************************)
(* What a step of the store keeps.                                         *)
(***************************************************************************)

\* The steps of the store that editors cause.
StoreStep(f) ==
    \/ \E layout \in Layout : Write(f, layout)
    \/ Issue(f) /\ edition[f] < MaxEdition
    \/ Drop(f)

\* A floor's map is replaced only by a later edition, and no working copy changes
\* but that of the floor.
LEMMA StoreMoves ==
    ASSUME StoreTyped, NEW f \in Floor, StoreStep(f)
    PROVE  /\ StoreTyped'
           /\ \A g \in Floor :
                 \/ edition'[g] = edition[g] /\ shown'[g] = shown[g]
                 \/ edition'[g] = edition[g] + 1
           /\ \A g \in Floor : g # f => working'[g] = working[g]
<1>. DEFINE Goal == /\ StoreTyped'
                    /\ \A g \in Floor :
                          \/ edition'[g] = edition[g] /\ shown'[g] = shown[g]
                          \/ edition'[g] = edition[g] + 1
                    /\ \A g \in Floor : g # f => working'[g] = working[g]
<1>1. ASSUME NEW layout \in Layout, Write(f, layout) PROVE Goal
  BY <1>1 DEF Write, StoreTyped
<1>2. ASSUME Issue(f), edition[f] < MaxEdition PROVE Goal
  <2>1. /\ working[f] \in Layout /\ working[f] # NoLayout
        /\ edition[f] \in 0..MaxEdition /\ MaxEdition \in Nat
    BY <1>2, EditAssumption DEF Issue, StoreTyped
  <2>2. edition[f] + 1 \in 0..MaxEdition /\ edition[f] + 1 # 0
    BY <1>2, <2>1
  <2>3. /\ shown' = [shown EXCEPT ![f] = working[f]]
        /\ working' = [working EXCEPT ![f] = NoLayout]
        /\ edition' = [edition EXCEPT ![f] = edition[f] + 1]
        /\ open' = open
    BY <1>2 DEF Issue
  <2>4. /\ open' = Floor
        /\ shown' \in [Floor -> Layout \cup {NoLayout}]
        /\ working' \in [Floor -> Layout \cup {NoLayout}]
        /\ edition' \in [Floor -> 0..MaxEdition]
    BY <2>1, <2>2, <2>3 DEF StoreTyped
  <2>5. \A g \in Floor : shown'[g] # NoLayout => edition'[g] # 0
    BY <2>2, <2>3 DEF StoreTyped
  <2>6. \A g \in Floor : /\ \/ edition'[g] = edition[g] /\ shown'[g] = shown[g]
                            \/ edition'[g] = edition[g] + 1
                         /\ g # f => working'[g] = working[g]
    BY <2>3 DEF StoreTyped
  <2>. QED
    BY <2>4, <2>5, <2>6 DEF StoreTyped
<1>3. ASSUME Drop(f) PROVE Goal
  BY <1>3 DEF Drop, StoreTyped
<1>. QED
  BY <1>1, <1>2, <1>3 DEF StoreStep

\* A layout that was not ahead of the store is not ahead of it after the step.
LEMMA NotAheadAfter ==
    ASSUME StoreTyped, NEW f \in Floor, StoreStep(f),
           NEW layout \in LayoutProp, NotAhead(layout)
    PROVE  NotAhead(layout)'
<1>1. layout.floor \in Floor /\ layout.version \in Int
  BY EditAssumption DEF LayoutProp
<1>2. PICK g \in Floor : g = layout.floor
  BY <1>1
<1>3. \/ edition'[g] = edition[g] /\ shown'[g] = shown[g]
      \/ edition'[g] = edition[g] + 1
  BY StoreMoves
<1>4. edition[g] \in Int
  BY EditAssumption DEF StoreTyped
<1>5. layout.status = "none" => layout.version = 0
  BY DEF NotAhead
<1>6. layout.status = "published" =>
          /\ layout.version <= edition'[g]
          /\ layout.version = edition'[g] => layout.doc = shown'[g]
  <2>1. SUFFICES ASSUME layout.status = "published"
                 PROVE  /\ layout.version <= edition'[g]
                        /\ layout.version = edition'[g] => layout.doc = shown'[g]
    OBVIOUS
  <2>2. /\ layout.version <= edition[g]
        /\ layout.version = edition[g] => layout.doc = shown[g]
    BY <1>2, <2>1 DEF NotAhead
  <2>. QED
    BY <1>1, <1>3, <1>4, <2>2
<1>. QED
  BY <1>2, <1>5, <1>6 DEF NotAhead

\* So an editor's maps stay known.
LEMMA MapsKnownAfter ==
    ASSUME StoreTyped, NEW f \in Floor, StoreStep(f),
           NEW editor \in Editor, MapsKnown(editor)
    PROVE  MapsKnown(editor)'
<1>1. /\ editor.layout \in LayoutProp
      /\ \A load \in editor.loads : load.answer \in LayoutProp
      /\ \A req \in editor.saving : req.drawnOn \in LayoutProp
  BY DEF Editor, Load, SaveRequest
<1>2. \A layout \in LayoutProp : NotAhead(layout) => NotAhead(layout)'
  BY NotAheadAfter
<1>. QED
  BY <1>1, <1>2 DEF MapsKnown

-----------------------------------------------------------------------------
(***************************************************************************)
(* From the editor that acts to all of them.                               *)
(***************************************************************************)

\* What must be so for one editor.
Kept(editor) == Sound(editor) /\ QuietTask(editor) /\ DraftReady(editor)

\* One editor becomes another, and the store stays.
LEMMA BecomesKept ==
    ASSUME EditInvariant, NEW c \in Client, NEW next, Kept(next), Becomes(c, next),
           UNCHANGED <<vars, writers>>,
           locks' \in [Floor -> Client \cup {NoClient}]
    PROVE  EditInvariant'
<1>1. next \in Editor
  BY DEF Kept, Sound, WellFormed
<1>2. editors' = [editors EXCEPT ![c] = next] /\ editors \in [Client -> Editor]
  BY DEF Becomes, EditInvariant
<1>3. editors' \in [Client -> Editor]
  BY <1>1, <1>2
<1>4. ASSUME NEW d \in Client
      PROVE  /\ WellFormed(editors[d])' /\ FloorsKept(editors[d])'
             /\ MapsKnown(editors[d])' /\ QuietTask(editors[d])' /\ DraftReady(editors[d])'
  <2>1. PICK editor : editor = editors'[d]
    OBVIOUS
  <2>2. Kept(editor)
    BY <1>2, <2>1 DEF EditInvariant, Kept, Sound
  <2>3. /\ WellFormed(editor) /\ FloorsKept(editor) /\ QuietTask(editor)
        /\ MapsKnown(editor)' /\ DraftReady(editor)'
    BY <2>2 DEF Kept, Sound, MapsKnown, NotAhead, DraftReady, vars
  <2>. QED
    BY <2>1, <2>3 DEF WellFormed, FloorsKept, FloorFollowed, MapsKnown, NotAhead,
                      QuietTask, DraftReady
<1>5. StoreTyped'
  BY DEF EditInvariant, StoreTyped, vars
<1>6. writers' \in [Floor -> Client \cup {NoClient}]
  BY DEF EditInvariant
<1>. QED
  BY <1>3, <1>4, <1>5, <1>6 DEF EditInvariant

\* Somebody else writes the floor: the task is not quiet any more.
LEMMA DisturbedKept ==
    ASSUME NEW editor, Sound(editor)
    PROVE  LET next == [editor EXCEPT !.task.quiet = FALSE]
           IN  Sound(next) /\ next.task.quiet = FALSE
<1>1. editor \in Editor
  BY DEF Sound, WellFormed
<1>2. PICK task : task = [editor.task EXCEPT !.quiet = FALSE]
  OBVIOUS
<1>3. /\ task \in Task /\ task.quiet = FALSE
      /\ task.goal = editor.task.goal /\ task.step = editor.task.step
  BY <1>1, <1>2 DEF Editor, Task
<1>4. PICK next : next = [editor EXCEPT !.task = task]
  OBVIOUS
<1>5. next = [editor EXCEPT !.task.quiet = FALSE]
  BY <1>1, <1>2, <1>4 DEF Editor
<1>6. /\ next \in Editor /\ SameSent(next, editor) /\ next.task = task
      /\ next.mode = editor.mode /\ next.doc = editor.doc
      /\ next.unsaved = editor.unsaved /\ next.orphan = editor.orphan
  BY <1>1, <1>3, <1>4, TaskFields
<1>7. /\ next.orphan => next.saving # {}
      /\ next.unsaved \subseteq next.doc
      /\ next.mode = "canvas" => next.layout.doc \subseteq next.doc
  BY <1>6 DEF Sound, WellFormed, MapsKnown, SameSent
<1>8. <<next.task.goal, next.task.step>> \in TaskSteps
  BY <1>3, <1>6 DEF Sound, WellFormed
<1>9. Sound(next)
  BY <1>6, <1>7, <1>8, SameSound
<1>. QED
  BY <1>3, <1>5, <1>6, <1>9

\* One editor becomes another while it changes the maps of a floor.
LEMMA WritesKept ==
    ASSUME EditInvariant, NEW c \in Client, NEW f \in Floor, NEW next,
           Sound(next), QuietTask(next),
           (next.task.quiet /\ next.task.saved /\ next.task.step = "publish") =>
               working'[next.task.floor] = next.doc,
           Writes(c, next, f), StoreStep(f), locks' = locks
    PROVE  EditInvariant'
<1>1. next \in Editor
  BY DEF Sound, WellFormed
<1>2. /\ editors \in [Client -> Editor] /\ StoreTyped
      /\ \A d \in Client : Kept(editors[d])
  BY DEF EditInvariant, Kept, Sound
<1>3. \A d \in Client :
          editors'[d] = CASE d = c -> next
                          [] d # c /\ editors[d].task.floor = f ->
                                [editors[d] EXCEPT !.task.quiet = FALSE]
                          [] OTHER -> editors[d]
  BY DEF Writes
<1>4. DOMAIN editors' = Client /\ editors' = [d \in Client |-> editors'[d]]
  BY DEF Writes
<1>5. ASSUME NEW d \in Client, NEW editor, editor = editors'[d]
      PROVE  /\ editor \in Editor /\ Sound(editor) /\ QuietTask(editor)
             /\ DraftReady(editor)'
  <2>1. CASE d = c
    <3>1. editor = next
      BY <1>3, <1>5, <2>1
    <3>. QED
      BY <1>1, <3>1 DEF DraftReady
  <2>2. CASE d # c /\ editors[d].task.floor = f
    <3>1. editor = [editors[d] EXCEPT !.task.quiet = FALSE]
      BY <1>3, <1>5, <2>2
    <3>2. Sound(editor) /\ editor.task.quiet = FALSE
      BY <1>2, <3>1, DisturbedKept DEF Kept
    <3>. QED
      BY <3>2 DEF Sound, WellFormed, QuietTask, DraftReady
  <2>3. CASE d # c /\ editors[d].task.floor # f
    <3>1. editor = editors[d]
      BY <1>3, <1>5, <2>3
    <3>2. editor \in Editor /\ Kept(editor) /\ editor.task.floor # f
      BY <1>2, <2>3, <3>1
    <3>3. editor.task.floor \in Floor
      BY <3>2 DEF Editor, Task
    <3>4. working'[editor.task.floor] = working[editor.task.floor]
      BY <1>2, <3>2, <3>3, StoreMoves
    <3>. QED
      BY <3>2, <3>4 DEF Kept, DraftReady
  <2>. QED
    BY <2>1, <2>2, <2>3
<1>6. editors' \in [Client -> Editor]
  BY <1>4, <1>5
<1>7. ASSUME NEW d \in Client
      PROVE  /\ WellFormed(editors[d])' /\ FloorsKept(editors[d])'
             /\ MapsKnown(editors[d])' /\ QuietTask(editors[d])' /\ DraftReady(editors[d])'
  <2>1. PICK editor : editor = editors'[d]
    OBVIOUS
  <2>2. /\ editor \in Editor /\ Sound(editor) /\ QuietTask(editor)
        /\ DraftReady(editor)'
    BY <1>5, <2>1
  <2>3. MapsKnown(editor)'
    BY <1>2, <2>2, MapsKnownAfter DEF Sound
  <2>. QED
    BY <2>1, <2>2, <2>3 DEF Sound, WellFormed, FloorsKept, FloorFollowed, MapsKnown,
                            NotAhead, QuietTask, DraftReady
<1>8. StoreTyped'
  BY <1>2, StoreMoves
<1>9. /\ writers' \in [Floor -> Client \cup {NoClient}]
      /\ locks' \in [Floor -> Client \cup {NoClient}]
  BY DEF EditInvariant, Writes
<1>. QED
  BY <1>6, <1>7, <1>8, <1>9 DEF EditInvariant

-----------------------------------------------------------------------------
(***************************************************************************)
(* The steps of the user.                                                  *)
(***************************************************************************)

\* What the invariant says of one editor.
LEMMA EditorKept ==
    ASSUME EditInvariant, NEW c \in Client
    PROVE  /\ editors[c] \in Editor /\ Kept(editors[c]) /\ Sound(editors[c])
           /\ WellFormed(editors[c]) /\ FloorsKept(editors[c]) /\ MapsKnown(editors[c])
           /\ QuietTask(editors[c]) /\ DraftReady(editors[c])
           /\ StoreTyped /\ locks \in [Floor -> Client \cup {NoClient}]
BY DEF EditInvariant, Kept, Sound

\* A task that is not quiet is no concern.
LEMMA Unquiet ==
    ASSUME NEW editor, editor.task.quiet = FALSE
    PROVE  QuietTask(editor) /\ DraftReady(editor)
BY DEF QuietTask, DraftReady

\* Drawing puts the same change into the canvas and into what is unsaved.
LEMMA DrawKept ==
    ASSUME EditInvariant, NEW c \in Client, NEW e \in Edit, Draw(c, e)
    PROVE  EditInvariant'
<1>1. PICK editor : editor = editors[c]
  OBVIOUS
<1>2. editor \in Editor /\ Sound(editor) /\ locks \in [Floor -> Client \cup {NoClient}]
  BY <1>1, EditorKept
<1>3. PICK doc, unsaved, failed, task :
          /\ doc = editor.doc \cup {e}
          /\ unsaved = editor.unsaved \cup {e}
          /\ failed = (editor.failed /\ editor.dirty)
          /\ task = [editor.task EXCEPT !.quiet = FALSE]
  OBVIOUS
<1>4. PICK next :
          next = [editor EXCEPT !.doc = doc, !.unsaved = unsaved, !.dirty = TRUE,
                                !.failed = failed, !.armed = TRUE, !.missed = FALSE,
                                !.task = task]
  OBVIOUS
<1>5. Becomes(c, next) /\ UNCHANGED <<vars, locks, writers>>
  BY <1>1, <1>2, <1>3, <1>4 DEF Draw, Editor
<1>6. /\ doc \in Layout /\ unsaved \in SUBSET Edit /\ failed \in BOOLEAN
      /\ task \in Task
      /\ task.goal = editor.task.goal /\ task.step = editor.task.step
      /\ task.quiet = FALSE
  BY <1>2, <1>3, EditAssumption DEF Editor, Task
<1>7. next \in Editor
  BY <1>2, <1>4, <1>6 DEF Editor
<1>8. /\ SameSent(next, editor)
      /\ next.mode = editor.mode /\ next.doc = doc /\ next.unsaved = unsaved
      /\ next.task = task /\ next.orphan = editor.orphan
  BY <1>2, <1>4 DEF Editor, SameSent
<1>9. /\ next.orphan => next.saving # {}
      /\ next.unsaved \subseteq next.doc
      /\ next.mode = "canvas" => next.layout.doc \subseteq next.doc
      /\ <<next.task.goal, next.task.step>> \in TaskSteps
  BY <1>2, <1>3, <1>6, <1>8 DEF Sound, WellFormed, MapsKnown, SameSent
<1>10. Sound(next)
  BY <1>2, <1>7, <1>8, <1>9, SameSound
<1>11. Kept(next)
  BY <1>6, <1>8, <1>10, Unquiet DEF Kept
<1>. QED
  BY <1>2, <1>5, <1>11, BecomesKept

\* Nothing the invariant speaks of has changed.
LEMMA SameKept ==
    ASSUME NEW editor, Kept(editor), NEW next \in Editor, SameSent(next, editor),
           next.task = editor.task, next.mode = editor.mode, next.doc = editor.doc,
           next.unsaved = editor.unsaved, next.dirty = editor.dirty,
           next.orphan = editor.orphan
    PROVE  Kept(next)
<1>1. /\ next.orphan => next.saving # {}
      /\ next.unsaved \subseteq next.doc
      /\ next.mode = "canvas" => next.layout.doc \subseteq next.doc
      /\ <<next.task.goal, next.task.step>> \in TaskSteps
  BY DEF Kept, Sound, WellFormed, MapsKnown, SameSent
<1>2. Sound(next)
  BY <1>1, SameSound DEF Kept
<1>. QED
  BY <1>2 DEF Kept, QuietTask, DraftReady, SameSent

\* A save that has to be sent is sent by no quiet task that is beyond its save.
LEMMA SavingKept ==
    ASSUME NEW editor, Kept(editor), MustSave(editor), NEW updatePreview \in BOOLEAN
    PROVE  Kept(Saving(editor, updatePreview))
<1>1. /\ editor \in Editor /\ Sound(editor)
      /\ editor.saving = {} /\ editor.mode = "canvas" /\ editor.dirty
  BY DEF Kept, Sound, WellFormed, MustSave, SaveUnderWay
<1>2. PICK next : next = Saving(editor, updatePreview)
  OBVIOUS
<1>3. next.task = editor.task /\ next.doc = editor.doc
  BY <1>1, <1>2, SavingFields
<1>4. ~(/\ editor.task.quiet /\ editor.task.saved
        /\ editor.task.step \in {"save", "unlock", "publish"})
  BY <1>1 DEF Kept, QuietTask
<1>5. QuietTask(next) /\ DraftReady(next)
  BY <1>3, <1>4 DEF Kept, QuietTask, DraftReady
<1>. QED
  BY <1>1, <1>2, <1>5, SavingSound DEF Kept

\* A task that begins with a save is quiet only if the save holds what the canvas
\* shows.
LEMMA BegunSavingKept ==
    ASSUME NEW editor, Kept(editor), MustSave(editor),
           NEW goal \in {"preview", "json", "publish"}
    PROVE  Kept(Saving(Begun(editor, goal, "save"), FALSE))
<1>1. /\ editor \in Editor /\ Sound(editor)
      /\ editor.saving = {} /\ editor.mode = "canvas" /\ editor.dirty
  BY DEF Kept, Sound, WellFormed, MustSave, SaveUnderWay
<1>2. PICK begun : begun = Begun(editor, goal, "save")
  OBVIOUS
<1>3. <<goal, "save">> \in TaskSteps
  BY DEF TaskSteps
<1>4. Sound(begun)
  BY <1>1, <1>2, <1>3, BegunSound
<1>5. /\ begun \in Editor /\ SameSent(begun, editor)
      /\ begun.task.step = "save" /\ begun.task.floor = editor.floor
      /\ begun.task.saved
      /\ begun.mode = editor.mode /\ begun.orphan = editor.orphan
  BY <1>1, <1>2, BegunFields
<1>6. begun.saving = {} /\ begun.floor = editor.floor /\ begun.mode = "canvas"
  BY <1>1, <1>5 DEF SameSent
<1>7. PICK next : next = Saving(begun, FALSE)
  OBVIOUS
<1>8. Sound(next)
  BY <1>4, <1>6, <1>7, SavingSound
<1>9. /\ next.saving = {RequestOf(begun, FALSE)}
      /\ next.task = begun.task /\ next.doc = begun.doc /\ next.orphan = begun.orphan
  BY <1>5, <1>6, <1>7, SavingFields
<1>10. RequestOf(begun, FALSE).floor = begun.floor /\ RequestOf(begun, FALSE).doc = begun.doc
  BY <1>5, RequestFields
<1>11. ~editor.orphan
  BY <1>1 DEF Sound, WellFormed
<1>12. QuietTask(next) /\ DraftReady(next)
  BY <1>5, <1>6, <1>9, <1>10, <1>11 DEF QuietTask, DraftReady
<1>. QED
  BY <1>2, <1>7, <1>8, <1>12 DEF Kept

\* A task that has nothing to save is quiet only if nothing was drawn.
LEMMA BegunAfterKept ==
    ASSUME NEW editor, Kept(editor), ~MustSave(editor), editor.mode = "canvas",
           NEW goal \in {"preview", "json"}
    PROVE  Kept(AfterSave(Begun(editor, goal, "save")))
<1>1. editor \in Editor /\ Sound(editor)
  BY DEF Kept, Sound, WellFormed
<1>2. PICK begun : begun = Begun(editor, goal, "save")
  OBVIOUS
<1>3. <<goal, "save">> \in TaskSteps
  BY DEF TaskSteps
<1>4. Sound(begun)
  BY <1>1, <1>2, <1>3, BegunSound
<1>5. /\ begun \in Editor /\ SameSent(begun, editor)
      /\ begun.task.goal = goal /\ begun.task.step = "save" /\ begun.task.saved
      /\ begun.task.quiet =>
            ~SaveUnderWay(editor) /\ (editor.dirty \/ editor.unsaved = {})
      /\ begun.unsaved = editor.unsaved /\ begun.dirty = editor.dirty
  BY <1>1, <1>2, BegunFields
<1>6. PICK next : next = AfterSave(begun)
  OBVIOUS
<1>7. Sound(next)
  BY <1>4, <1>5, <1>6, AfterSaveSound
<1>8. CASE goal = "json"
  <2>1. begun.floor \in Floor
    BY <1>5 DEF Editor
  <2>2. next.task = NoTask(begun.floor)
    BY <1>5, <1>6, <1>8, AfterSaveJson
  <2>3. next.task.quiet = FALSE
    BY <2>1, <2>2, NoTaskFields
  <2>. QED
    BY <1>2, <1>6, <1>7, <2>3, Unquiet DEF Kept
<1>9. CASE goal = "preview"
  <2>1. /\ next.task.step = "unlock"
        /\ next.task.saved = begun.task.saved
        /\ next.task.quiet = begun.task.quiet
        /\ next.unsaved = begun.unsaved
        /\ next.dirty = begun.dirty
        /\ SameSent(next, begun)
    BY <1>5, <1>6, <1>9, AfterSaveGoesOn
  <2>2. next.saving = editor.saving
    BY <1>5, <2>1 DEF SameSent
  <2>3. next.task.quiet => /\ editor.saving = {} /\ ~editor.dirty /\ editor.unsaved = {}
    BY <1>5, <2>1 DEF MustSave, SaveUnderWay
  <2>4. QuietTask(next) /\ DraftReady(next)
    BY <1>5, <2>1, <2>2, <2>3 DEF QuietTask, DraftReady
  <2>. QED
    BY <1>2, <1>6, <1>7, <2>4 DEF Kept
<1>. QED
  BY <1>8, <1>9

\* A load is sent.
LEMMA LoadingKept ==
    ASSUME NEW editor, Kept(editor), CanLoad(editor), NEW f \in Floor,
           NEW refreshPreview \in BOOLEAN, NEW then \in {"stay", "canvas", "free"}
    PROVE  Kept(Loading(editor, f, refreshPreview, then))
<1>1. editor \in Editor
  BY DEF Kept, Sound, WellFormed
<1>2. PICK next : next = Loading(editor, f, refreshPreview, then)
  OBVIOUS
<1>3. Sound(next)
  BY <1>2, LoadingSound DEF Kept, Sound
<1>4. /\ next.task = editor.task /\ next.doc = editor.doc /\ next.saving = editor.saving
      /\ next.dirty = editor.dirty /\ next.unsaved = editor.unsaved
      /\ next.orphan = editor.orphan
  BY <1>1, <1>2, LoadingFields
<1>5. QuietTask(next) /\ DraftReady(next)
  BY <1>4 DEF Kept, QuietTask, DraftReady
<1>. QED
  BY <1>2, <1>3, <1>5 DEF Kept

\* Another mode: the canvas stays as it is or is drawn anew.
LEMMA InModeKept ==
    ASSUME NEW editor, Kept(editor), NEW mode \in {"preview", "json", "canvas"}
    PROVE  Kept(InMode(editor, mode))
<1>1. editor \in Editor
  BY DEF Kept, Sound, WellFormed
<1>2. CASE mode = editor.mode
  BY <1>2 DEF InMode
<1>3. CASE mode # editor.mode
  BY <1>1, <1>3, InModeFields, InModeSound, Unquiet DEF Kept
<1>. QED
  BY <1>2, <1>3

\* A canvas that shows its layout prop again has nothing unsaved and no quiet task.
LEMMA DrawnKept ==
    ASSUME NEW editor, Sound(editor)
    PROVE  Kept(Drawn(editor))
<1>1. editor \in Editor
  BY DEF Sound, WellFormed
<1>. QED
  BY <1>1, DrawnFields, DrawnSound, Unquiet DEF Kept

\* A task ends.
LEMMA DoneKept ==
    ASSUME NEW editor, Sound(editor)
    PROVE  LET next == [editor EXCEPT !.task = NoTask(editor.floor)]
           IN  Kept(next) /\ next.task.quiet = FALSE
<1>1. editor \in Editor /\ editor.floor \in Floor
  BY DEF Sound, WellFormed, Editor
<1>2. NoTask(editor.floor) \in Task /\ NoTask(editor.floor).quiet = FALSE
  BY <1>1, NoTaskFields
<1>3. [editor EXCEPT !.task = NoTask(editor.floor)].task.quiet = FALSE
  BY <1>1, <1>2, TaskFields
<1>. QED
  BY <1>1, <1>3, DoneSound, Unquiet DEF Kept

\* Reset shows the layout prop again.
LEMMA ResetKept ==
    ASSUME EditInvariant, NEW c \in Client, Reset(c)
    PROVE  EditInvariant'
BY EditorKept, DrawnKept, BecomesKept DEF Reset

\* The save button sends what the canvas shows, while no other save is under way.
LEMMA SaveKept ==
    ASSUME EditInvariant, NEW c \in Client, Save(c)
    PROVE  EditInvariant'
BY EditorKept, SavingKept, BecomesKept, EditAssumption DEF Save

\* The timer saves like the button, or only remembers that it fired in vain.
LEMMA AutosaveKept ==
    ASSUME EditInvariant, NEW c \in Client, Autosave(c)
    PROVE  EditInvariant'
<1>1. PICK editor : editor = editors[c]
  OBVIOUS
<1>2. editor \in Editor /\ Kept(editor) /\ locks \in [Floor -> Client \cup {NoClient}]
  BY <1>1, EditorKept
<1>3. UNCHANGED <<vars, writers>> /\ locks' \in [Floor -> Client \cup {NoClient}]
  BY <1>2 DEF Autosave
<1>4. CASE MustSave(editor)
  <2>1. PICK rested : rested = [editor EXCEPT !.armed = FALSE]
    OBVIOUS
  <2>2. Becomes(c, Saving(rested, FALSE))
    BY <1>1, <1>4, <2>1 DEF Autosave
  <2>3. /\ rested \in Editor /\ SameSent(rested, editor)
        /\ rested.task = editor.task /\ rested.mode = editor.mode
        /\ rested.doc = editor.doc /\ rested.unsaved = editor.unsaved
        /\ rested.dirty = editor.dirty /\ rested.orphan = editor.orphan
        /\ rested.rendering = editor.rendering
    BY <1>2, <2>1 DEF Editor, SameSent
  <2>4. Kept(rested)
    BY <1>2, <2>3, SameKept
  <2>5. MustSave(rested)
    BY <1>4, <2>3 DEF MustSave, SaveUnderWay, SameSent
  <2>. QED
    BY <1>3, <2>2, <2>4, <2>5, SavingKept, BecomesKept
<1>5. CASE ~MustSave(editor)
  <2>1. PICK rested : rested = [editor EXCEPT !.armed = FALSE, !.missed = editor.rendering]
    OBVIOUS
  <2>2. Becomes(c, rested)
    BY <1>1, <1>5, <2>1 DEF Autosave
  <2>3. /\ rested \in Editor /\ SameSent(rested, editor)
        /\ rested.task = editor.task /\ rested.mode = editor.mode
        /\ rested.doc = editor.doc /\ rested.unsaved = editor.unsaved
        /\ rested.dirty = editor.dirty /\ rested.orphan = editor.orphan
    BY <1>2, <2>1 DEF Editor, SameSent
  <2>4. Kept(rested)
    BY <1>2, <2>3, SameKept
  <2>. QED
    BY <1>3, <2>2, <2>4, BecomesKept
<1>. QED
  BY <1>4, <1>5

\* A switch to the canvas begins with the request for the lock.
LEMMA SwitchToCanvasKept ==
    ASSUME EditInvariant, NEW c \in Client, SwitchToCanvas(c)
    PROVE  EditInvariant'
<1>1. PICK editor : editor = editors[c]
  OBVIOUS
<1>2. editor \in Editor /\ Sound(editor) /\ locks \in [Floor -> Client \cup {NoClient}]
  BY <1>1, EditorKept
<1>3. PICK next : next = Begun(editor, "canvas", "lock")
  OBVIOUS
<1>4. Becomes(c, next) /\ UNCHANGED <<vars, locks, writers>>
  BY <1>1, <1>3 DEF SwitchToCanvas
<1>5. <<"canvas", "lock">> \in TaskSteps
  BY DEF TaskSteps
<1>6. Sound(next)
  BY <1>2, <1>3, <1>5, BegunSound
<1>7. next.task.step = "lock" /\ next.task.goal = "canvas"
  BY <1>2, <1>3, BegunFields
<1>8. Kept(next)
  BY <1>6, <1>7 DEF Kept, QuietTask, DraftReady
<1>. QED
  BY <1>2, <1>4, <1>8, BecomesKept

\* A switch away from the canvas begins with a save if it was drawn on.
LEMMA SwitchFromKept ==
    ASSUME EditInvariant, NEW c \in Client, NEW mode \in {"preview", "json"},
           SwitchFrom(c, mode)
    PROVE  EditInvariant'
<1>1. PICK editor : editor = editors[c]
  OBVIOUS
<1>2. editor \in Editor /\ Kept(editor) /\ locks \in [Floor -> Client \cup {NoClient}]
  BY <1>1, EditorKept
<1>3. PICK begun : begun = Begun(editor, mode, "save")
  OBVIOUS
<1>4. /\ Becomes(c, CASE MustSave(editor) -> Saving(begun, FALSE)
                      [] editor.mode = "canvas" /\ ~MustSave(editor) -> AfterSave(begun)
                      [] OTHER -> InMode(editor, mode))
      /\ UNCHANGED <<vars, locks, writers>>
  BY <1>1, <1>3 DEF SwitchFrom
<1>5. CASE MustSave(editor)
  <2>1. Becomes(c, Saving(begun, FALSE))
    BY <1>4, <1>5
  <2>. QED
    BY <1>2, <1>3, <1>4, <1>5, <2>1, BegunSavingKept, BecomesKept
<1>6. CASE ~MustSave(editor) /\ editor.mode = "canvas"
  <2>1. Becomes(c, AfterSave(begun))
    BY <1>4, <1>6
  <2>. QED
    BY <1>2, <1>3, <1>4, <1>6, <2>1, BegunAfterKept, BecomesKept
<1>7. CASE ~MustSave(editor) /\ editor.mode # "canvas"
  <2>1. Becomes(c, InMode(editor, mode))
    BY <1>4, <1>7
  <2>. QED
    BY <1>2, <1>4, <2>1, InModeKept, BecomesKept
<1>. QED
  BY <1>5, <1>6, <1>7

\* A publication begins with a save if the canvas was drawn on.
LEMMA PublishKept ==
    ASSUME EditInvariant, NEW c \in Client, Publish(c)
    PROVE  EditInvariant'
<1>1. PICK editor : editor = editors[c]
  OBVIOUS
<1>2. /\ editor \in Editor /\ Kept(editor) /\ Sound(editor)
      /\ locks \in [Floor -> Client \cup {NoClient}]
  BY <1>1, EditorKept
<1>3. PICK begun : begun = Begun(editor, "publish", "save")
  OBVIOUS
<1>4. /\ Becomes(c, IF MustSave(editor) THEN Saving(begun, FALSE)
                    ELSE [AfterSave(begun) EXCEPT !.task.saved = FALSE])
      /\ UNCHANGED <<vars, locks, writers>>
  BY <1>1, <1>3 DEF Publish
<1>5. CASE MustSave(editor)
  <2>1. Becomes(c, Saving(begun, FALSE))
    BY <1>4, <1>5
  <2>. QED
    BY <1>2, <1>3, <1>4, <1>5, <2>1, BegunSavingKept, BecomesKept
<1>6. CASE ~MustSave(editor)
  <2>1. PICK after : after = AfterSave(begun)
    OBVIOUS
  <2>2. <<"publish", "save">> \in TaskSteps
    BY DEF TaskSteps
  <2>3. Sound(begun) /\ begun.task.step = "save"
    BY <1>2, <1>3, <2>2, BegunSound, BegunFields
  <2>4. Sound(after) /\ after \in Editor
    BY <2>1, <2>3, AfterSaveSound DEF Sound, WellFormed
  <2>5. PICK task : task = [after.task EXCEPT !.saved = FALSE]
    OBVIOUS
  <2>6. /\ task \in Task /\ task.saved = FALSE
        /\ task.goal = after.task.goal /\ task.step = after.task.step
    BY <2>4, <2>5 DEF Editor, Task
  <2>7. PICK next : next = [after EXCEPT !.task = task]
    OBVIOUS
  <2>8. next = [after EXCEPT !.task.saved = FALSE]
    BY <2>4, <2>5, <2>7 DEF Editor
  <2>9. /\ next \in Editor /\ SameSent(next, after) /\ next.task = task
        /\ next.mode = after.mode /\ next.doc = after.doc
        /\ next.unsaved = after.unsaved /\ next.orphan = after.orphan
    BY <2>4, <2>6, <2>7, TaskFields
  <2>10. /\ next.orphan => next.saving # {}
         /\ next.unsaved \subseteq next.doc
         /\ next.mode = "canvas" => next.layout.doc \subseteq next.doc
         /\ <<next.task.goal, next.task.step>> \in TaskSteps
    BY <2>4, <2>6, <2>9 DEF Sound, WellFormed, MapsKnown, SameSent
  <2>11. Sound(next)
    BY <2>4, <2>9, <2>10, SameSound
  <2>12. Kept(next)
    <3>1. begun.task.goal = "publish"
      BY <1>2, <1>3, BegunFields
    <3>2. after.task.goal = "publish"
      BY <2>1, <2>3, <3>1, AfterSaveGoesOn DEF Sound, WellFormed
    <3>. QED
      BY <2>6, <2>9, <2>11, <3>2 DEF Kept, QuietTask, DraftReady
  <2>13. Becomes(c, next)
    BY <1>4, <1>6, <2>1, <2>8
  <2>. QED
    BY <1>2, <1>4, <2>12, <2>13, BecomesKept
<1>. QED
  BY <1>5, <1>6

\* A user who starts something has no task.
LEMMA FreeTask ==
    ASSUME EditInvariant, NEW c \in Client, NEW goal, Free(c, goal)
    PROVE  editors[c].task.step = "none"
BY EditorKept DEF Free, WellFormed, TaskSteps

\* The layout is loaded again, or not, after a change that was asked for.
LEMMA ReloadingKept ==
    ASSUME NEW editor, Kept(editor), CanLoad(editor), editor.task.step = "none",
           NEW heard \in BOOLEAN, NEW then \in {"stay", "canvas"}
    PROVE  /\ Kept(Reloading(editor, heard, then))
           /\ Reloading(editor, heard, then).task.step = "none"
<1>1. editor \in Editor /\ editor.floor \in Floor
  BY DEF Kept, Sound, WellFormed, Editor
<1>2. CASE heard
  <2>1. Reloading(editor, heard, then) = Loading(editor, editor.floor, FALSE, then)
    BY <1>2 DEF Reloading
  <2>2. then \in {"stay", "canvas", "free"} /\ FALSE \in BOOLEAN
    OBVIOUS
  <2>3. Kept(Loading(editor, editor.floor, FALSE, then))
    BY <1>1, <2>2, LoadingKept
  <2>4. PICK next : next = Loading(editor, editor.floor, FALSE, then)
    OBVIOUS
  <2>5. next.task = editor.task
    BY <1>1, <2>2, <2>4, LoadingFields
  <2>. QED
    BY <2>1, <2>3, <2>4, <2>5
<1>3. CASE ~heard
  BY <1>3 DEF Reloading
<1>. QED
  BY <1>2, <1>3

\* Such a change.
LEMMA ReplacedKept ==
    ASSUME EditInvariant, NEW c \in Client, NEW goal, Free(c, goal), CanLoad(editors[c]),
           NEW heard \in BOOLEAN, NEW then \in {"stay", "canvas"},
           NEW f \in Floor, StoreStep(f),
           Writes(c, Reloading(editors[c], heard, then), f), locks' = locks
    PROVE  EditInvariant'
<1>1. PICK next : next = Reloading(editors[c], heard, then)
  OBVIOUS
<1>2. Kept(next) /\ next.task.step = "none"
  BY <1>1, EditorKept, FreeTask, ReloadingKept
<1>3. Writes(c, next, f)
  BY <1>1
<1>. QED
  BY <1>2, <1>3, WritesKept DEF Kept

\* A blank draft or an import writes the floor, which ends the quiet of every task on it.
LEMMA ReplaceKept ==
    ASSUME EditInvariant, NEW c \in Client, NEW goal \in {"blank", "import"},
           NEW heard \in BOOLEAN, Replace(c, goal, heard)
    PROVE  EditInvariant'
<1>1. PICK f : f = editors[c].floor
  OBVIOUS
<1>2. PICK then \in {"stay", "canvas"} : then = IF goal = "blank" THEN "canvas" ELSE "stay"
  OBVIOUS
<1>3. f \in Floor
  BY <1>1, EditorKept DEF Editor
<1>4. /\ Free(c, goal) /\ CanLoad(editors[c]) /\ Write(f, {}) /\ locks' = locks
      /\ Writes(c, Reloading(editors[c], heard, then), f)
  BY <1>1, <1>2 DEF Replace
<1>5. StoreStep(f)
  BY <1>4, EditAssumption DEF StoreStep
<1>. QED
  BY <1>3, <1>4, <1>5, ReplacedKept

\* Discarding the draft writes the floor like an import does.
LEMMA DiscardKept ==
    ASSUME EditInvariant, NEW c \in Client, NEW heard \in BOOLEAN, Discard(c, heard)
    PROVE  EditInvariant'
<1>1. editors[c].floor \in Floor
  BY EditorKept DEF Editor
<1>2. /\ Free(c, "discard") /\ CanLoad(editors[c]) /\ Drop(editors[c].floor)
      /\ Writes(c, Reloading(editors[c], heard, "stay"), editors[c].floor)
      /\ locks' = locks
  BY DEF Discard
<1>3. StoreStep(editors[c].floor)
  BY <1>2 DEF StoreStep
<1>. QED
  BY <1>1, <1>2, <1>3, ReplacedKept

\* Restoring the published map writes it back as the draft.
LEMMA RestoreKept ==
    ASSUME EditInvariant, NEW c \in Client, NEW heard \in BOOLEAN, Restore(c, heard)
    PROVE  EditInvariant'
<1>1. PICK f : f = editors[c].floor
  OBVIOUS
<1>2. f \in Floor /\ StoreTyped
  BY <1>1, EditorKept DEF Editor
<1>3. /\ Free(c, "restore") /\ CanLoad(editors[c])
      /\ shown[f] # NoLayout /\ Write(f, shown[f])
      /\ Writes(c, Reloading(editors[c], heard, "stay"), f) /\ locks' = locks
  BY <1>1 DEF Restore
<1>4. shown[f] \in Layout
  BY <1>2, <1>3 DEF StoreTyped
<1>5. StoreStep(f)
  BY <1>3, <1>4 DEF StoreStep
<1>. QED
  BY <1>2, <1>3, <1>5, ReplacedKept

\* A refresh starts a load of the selected floor.
LEMMA RefreshKept ==
    ASSUME EditInvariant, NEW c \in Client, Refresh(c)
    PROVE  EditInvariant'
<1>1. PICK editor : editor = editors[c]
  OBVIOUS
<1>2. editor \in Editor /\ Kept(editor) /\ locks \in [Floor -> Client \cup {NoClient}]
  BY <1>1, EditorKept
<1>3. PICK armed \in {editor.armed, editor.dirty} :
          Becomes(c, Loading([editor EXCEPT !.armed = armed], editor.floor, TRUE, "free"))
  BY <1>1 DEF Refresh
<1>4. UNCHANGED <<vars, locks, writers>> /\ CanLoad(editor)
  BY <1>1 DEF Refresh
<1>5. PICK restarted : restarted = [editor EXCEPT !.armed = armed]
  OBVIOUS
<1>6. armed \in BOOLEAN /\ editor.floor \in Floor
  BY <1>2, <1>3 DEF Editor
<1>7. /\ restarted \in Editor /\ SameSent(restarted, editor)
      /\ restarted.task = editor.task /\ restarted.mode = editor.mode
      /\ restarted.doc = editor.doc /\ restarted.unsaved = editor.unsaved
      /\ restarted.dirty = editor.dirty /\ restarted.orphan = editor.orphan
  BY <1>2, <1>5, <1>6 DEF Editor, SameSent
<1>8. Kept(restarted)
  BY <1>2, <1>7, SameKept
<1>9. CanLoad(restarted)
  BY <1>4, <1>7 DEF CanLoad, SameSent
<1>10. Kept(Loading(restarted, editor.floor, TRUE, "free"))
  BY <1>6, <1>8, <1>9, LoadingKept
<1>. QED
  BY <1>2, <1>3, <1>4, <1>5, <1>10, BecomesKept

\* The layout prop is of the floor before; the load that replaces it is sent.
LEMMA SelectFloorKept ==
    ASSUME EditInvariant, NEW c \in Client, NEW f \in Floor, SelectFloor(c, f)
    PROVE  EditInvariant'
<1>1. PICK editor : editor = editors[c]
  OBVIOUS
<1>2. /\ editor \in Editor /\ WellFormed(editor) /\ FloorsKept(editor)
      /\ MapsKnown(editor) /\ locks \in [Floor -> Client \cup {NoClient}]
  BY <1>1, EditorKept
<1>3. PICK selected : selected = Selected(editor, f)
  OBVIOUS
<1>4. /\ Becomes(c, Loading(selected, f, TRUE, "stay"))
      /\ UNCHANGED <<vars, locks, writers>> /\ CanLoad(editor)
  BY <1>1, <1>3 DEF SelectFloor
<1>5. /\ selected \in Editor
      /\ selected.floor = f
      /\ selected.mode = editor.mode
      /\ selected.layout = editor.layout
      /\ selected.loads = editor.loads
      /\ selected.saving = editor.saving
      /\ selected.doc = editor.doc
      /\ selected.unsaved = editor.unsaved
      /\ selected.orphan = editor.orphan
      /\ selected.task.goal = editor.task.goal
      /\ selected.task.step = editor.task.step
      /\ selected.task.quiet = FALSE
  BY <1>2, <1>3, SelectedFields
<1>6. WellFormed(selected) /\ MapsKnown(selected) /\ CanLoad(selected)
  BY <1>2, <1>4, <1>5 DEF WellFormed, MapsKnown, CanLoad
<1>7. /\ \A load \in selected.loads : load.answer.floor = load.floor
      /\ \A req \in selected.saving : req.drawnOn.floor # req.floor =>
            req.drawnOn.status = "none" \/ req.mayMix
  BY <1>2, <1>5 DEF FloorsKept
<1>8. PICK next : next = Loading(selected, f, TRUE, "stay")
  OBVIOUS
<1>9. Sound(next)
  BY <1>5, <1>6, <1>7, <1>8, LoadingSound
<1>10. next.task.quiet = FALSE
  BY <1>5, <1>8, LoadingFields
<1>11. Kept(next)
  BY <1>9, <1>10, Unquiet DEF Kept
<1>. QED
  BY <1>2, <1>4, <1>8, <1>11, BecomesKept

\* A tab that is opened loads the layout of its floor.
LEMMA NewTabKept ==
    ASSUME NEW f \in Floor
    PROVE  NewTab(f) \in Editor /\ Kept(NewTab(f))
<1>1. PICK task, layout : task = NoTask(f) /\ layout = NoMapYet(f)
  OBVIOUS
<1>2. /\ task \in Task /\ task.quiet = FALSE /\ task.goal = "none" /\ task.step = "none"
  BY <1>1, NoTaskFields
<1>3. layout \in LayoutProp /\ layout.floor = f
  BY <1>1, LoadFields
<1>4. PICK tab :
          tab = [floor |-> f, mode |-> "preview", layout |-> layout, doc |-> {},
                 dirty |-> FALSE, armed |-> FALSE, failed |-> FALSE, saving |-> {},
                 rendering |-> FALSE, orphan |-> FALSE, task |-> task,
                 loads |-> {}, busy |-> FALSE, isLockedByOther |-> FALSE,
                 unsaved |-> {}, missed |-> FALSE, overtaken |-> FALSE]
  OBVIOUS
<1>5. NewTab(f) = Loading(tab, f, TRUE, "stay")
  BY <1>1, <1>4 DEF NewTab
<1>6. /\ tab \in Editor
      /\ tab.floor = f /\ tab.mode = "preview" /\ tab.layout = layout
      /\ tab.saving = {} /\ tab.loads = {} /\ tab.unsaved = {} /\ tab.orphan = FALSE
      /\ tab.task = task
  <2>1. {} \in Layout
    BY EditAssumption
  <2>. QED
    BY <1>2, <1>3, <1>4, <2>1 DEF Editor
<1>7. IsFiniteSet({}) /\ Cardinality({}) = 0 /\ 0 < MaxLoads /\ 0 <= MaxLoads
  BY FS_EmptySet, EditAssumption
<1>8. <<"none", "none">> \in TaskSteps
  BY DEF TaskSteps
<1>9. WellFormed(tab) /\ CanLoad(tab)
  BY <1>2, <1>6, <1>7, <1>8 DEF WellFormed, CanLoad
<1>10. FloorsKept(tab)
  BY <1>3, <1>6 DEF FloorsKept, FloorFollowed
<1>11. NotAhead(layout)
  BY <1>1, NoMapNotAhead
<1>12. MapsKnown(tab)
  BY <1>6, <1>11 DEF MapsKnown
<1>13. PICK next : next = Loading(tab, f, TRUE, "stay")
  OBVIOUS
<1>14. Sound(next)
  BY <1>9, <1>10, <1>12, <1>13, LoadingSound
<1>15. next.task = task
  BY <1>6, <1>13, LoadingFields
<1>16. Kept(next) /\ next \in Editor
  BY <1>2, <1>14, <1>15, Unquiet DEF Kept, Sound, WellFormed
<1>. QED
  BY <1>5, <1>13, <1>16

\* A tab that leaves the floor starts anew, without what it held.
LEMMA LeaveKept ==
    ASSUME EditInvariant, NEW c \in Client, Leave(c)
    PROVE  EditInvariant'
<1>1. editors[c].floor \in Floor /\ locks \in [Floor -> Client \cup {NoClient}]
  BY EditorKept DEF Editor
<1>. QED
  BY <1>1, NewTabKept, BecomesKept DEF Leave

-----------------------------------------------------------------------------
(***************************************************************************)
(* The steps of the browser and the network.                               *)
(***************************************************************************)

\* The answer to a rendering changes nothing the invariant speaks of.
LEMMA PreviewAnswerKept ==
    ASSUME EditInvariant, NEW c \in Client, PreviewAnswer(c)
    PROVE  EditInvariant'
<1>1. PICK editor : editor = editors[c]
  OBVIOUS
<1>2. editor \in Editor /\ Kept(editor) /\ locks \in [Floor -> Client \cup {NoClient}]
  BY <1>1, EditorKept
<1>3. PICK next : next = [editor EXCEPT !.rendering = FALSE]
  OBVIOUS
<1>4. Becomes(c, next) /\ UNCHANGED <<vars, locks, writers>>
  BY <1>1, <1>3 DEF PreviewAnswer
<1>5. /\ next \in Editor /\ SameSent(next, editor)
      /\ next.task = editor.task /\ next.mode = editor.mode
      /\ next.doc = editor.doc /\ next.unsaved = editor.unsaved
      /\ next.dirty = editor.dirty /\ next.orphan = editor.orphan
  BY <1>2, <1>3 DEF Editor, SameSent
<1>6. Kept(next)
  BY <1>2, <1>5, SameKept
<1>. QED
  BY <1>2, <1>4, <1>6, BecomesKept

\* The save of a quiet task held what the canvas shows, so that nothing is left to
\* save once it was acknowledged.
LEMMA QuietSaved ==
    ASSUME NEW editor, Kept(editor), NEW req \in editor.saving,
           editor.task.step = "save", editor.task.quiet, editor.task.saved
    PROVE  /\ req.floor = editor.task.floor
           /\ req.doc = editor.doc
           /\ Acknowledged(editor, req, TRUE).dirty = FALSE
           /\ Acknowledged(editor, req, TRUE).unsaved = {}
<1>1. /\ editor \in Editor /\ editor.unsaved \subseteq editor.doc
      /\ \A req1, req2 \in editor.saving : req1 = req2
  BY DEF Kept, Sound, WellFormed
<1>2. /\ ~editor.orphan
      /\ \E sent \in editor.saving : sent.floor = editor.task.floor /\ sent.doc = editor.doc
  BY DEF Kept, QuietTask
<1>3. req.floor = editor.task.floor /\ req.doc = editor.doc
  BY <1>1, <1>2
<1>4. req \in SaveRequest
  BY <1>1 DEF Editor
<1>5. PICK ok \in BOOLEAN : ok = TRUE
  OBVIOUS
<1>6. /\ Acknowledged(editor, req, ok).dirty = FALSE
      /\ Acknowledged(editor, req, ok).unsaved = editor.unsaved \ req.doc
  BY <1>1, <1>2, <1>4, <1>5, AcknowledgedSaved
<1>7. editor.unsaved \ req.doc = {}
  BY <1>1, <1>3
<1>. QED
  BY <1>3, <1>5, <1>6, <1>7

\* What the tab does with the answer, and its task.
Answered(editor, req, ok) ==
    LET heard == Acknowledged(editor, req, ok)
    IN  CASE heard.task.step = "save" /\ ok -> AfterSave(heard)
          [] heard.task.step = "save" /\ ~ok -> [heard EXCEPT !.task = NoTask(heard.floor)]
          [] OTHER -> heard

\* A quiet task goes on to publish only what was saved.
LEMMA AnsweredKept ==
    ASSUME NEW editor, Kept(editor), NEW req \in editor.saving, NEW ok \in BOOLEAN,
           NEW next, next = Answered(editor, req, ok)
    PROVE  /\ Sound(next) /\ QuietTask(next)
           /\ ~ok => DraftReady(next)
           /\ (next.task.quiet /\ next.task.saved /\ next.task.step = "publish") =>
                  next.task.floor = req.floor /\ next.doc = req.doc
<1>1. editor \in Editor /\ Sound(editor) /\ QuietTask(editor) /\ req \in SaveRequest
  BY DEF Kept, Sound, WellFormed, Editor
<1>2. PICK heard : heard = Acknowledged(editor, req, ok)
  OBVIOUS
<1>3. Sound(heard)
  BY <1>1, <1>2, AcknowledgedSound
<1>4. /\ heard \in Editor /\ heard.task = editor.task /\ heard.doc = editor.doc
      /\ heard.saving = {} /\ heard.orphan = FALSE
  BY <1>1, <1>2, AcknowledgedFields
<1>5. CASE editor.task.step = "save" /\ ok
  <2>1. next = AfterSave(heard)
    BY <1>2, <1>4, <1>5 DEF Answered
  <2>2. Sound(next) /\ heard.task.goal \in {"preview", "json", "publish"}
    BY <1>3, <1>4, <1>5, <2>1, AfterSaveSound
  <2>3. CASE heard.task.goal = "json"
    <3>1. heard.floor \in Floor
      BY <1>4 DEF Editor
    <3>2. next.task = NoTask(heard.floor)
      BY <1>4, <2>1, <2>3, AfterSaveJson
    <3>3. next.task.quiet = FALSE
      BY <3>1, <3>2, NoTaskFields
    <3>. QED
      BY <2>2, <3>3, Unquiet
  <2>4. CASE heard.task.goal # "json"
    <3>0. heard.task.goal \in {"preview", "publish"}
      BY <2>2, <2>4
    <3>1. /\ SameSent(next, heard)
          /\ next.task.goal = heard.task.goal
          /\ heard.task.goal = "preview" => next.task.step = "unlock"
          /\ heard.task.goal = "publish" => next.task.step = "publish"
          /\ next.task.floor = heard.task.floor
          /\ next.task.saved = heard.task.saved
          /\ next.task.quiet = heard.task.quiet
          /\ next.doc = heard.doc
          /\ next.unsaved = heard.unsaved
          /\ next.dirty = heard.dirty
      BY <1>4, <2>1, <3>0, AfterSaveGoesOn
    <3>2. next.saving = {} /\ next.task.step \in {"unlock", "publish"}
      BY <1>4, <3>0, <3>1 DEF SameSent
    <3>3. CASE next.task.quiet /\ next.task.saved
      <4>1. editor.task.quiet /\ editor.task.saved
        BY <1>4, <3>1, <3>3
      <4>2. /\ req.floor = editor.task.floor
            /\ req.doc = editor.doc
            /\ Acknowledged(editor, req, TRUE).dirty = FALSE
            /\ Acknowledged(editor, req, TRUE).unsaved = {}
        BY <1>5, <4>1, QuietSaved
      <4>3. heard = Acknowledged(editor, req, TRUE)
        BY <1>2, <1>5
      <4>4. /\ next.task.floor = req.floor /\ next.doc = req.doc
            /\ ~next.dirty /\ next.unsaved = {}
        BY <1>4, <3>1, <4>2, <4>3
      <4>5. QuietTask(next)
        BY <3>2, <3>3, <4>4 DEF QuietTask
      <4>. QED
        BY <1>5, <2>2, <4>4, <4>5
    <3>4. CASE ~(next.task.quiet /\ next.task.saved)
      <4>1. (next.task.quiet /\ next.task.goal \in {"preview", "json"}) => next.task.saved
        BY <1>1, <1>4, <3>1 DEF QuietTask
      <4>2. QuietTask(next)
        BY <3>4, <4>1 DEF QuietTask
      <4>. QED
        BY <1>5, <2>2, <3>4, <4>2
    <3>. QED
      BY <3>3, <3>4
  <2>. QED
    BY <2>3, <2>4
<1>6. CASE editor.task.step = "save" /\ ~ok
  <2>1. next = [heard EXCEPT !.task = NoTask(heard.floor)]
    BY <1>2, <1>4, <1>6 DEF Answered
  <2>2. Kept(next) /\ next.task.quiet = FALSE
    BY <1>3, <2>1, DoneKept
  <2>. QED
    BY <2>2 DEF Kept
<1>7. CASE editor.task.step # "save"
  <2>1. next = heard
    BY <1>2, <1>4, <1>7 DEF Answered
  <2>2. ~(editor.task.quiet /\ editor.task.saved
             /\ editor.task.step \in {"unlock", "publish"})
    BY <1>1 DEF QuietTask
  <2>3. ~(next.task.quiet /\ next.task.saved
             /\ next.task.step \in {"save", "unlock", "publish"})
    BY <1>4, <1>7, <2>1, <2>2
  <2>4. QuietTask(next) /\ DraftReady(next)
    BY <1>1, <1>4, <2>1, <2>3 DEF QuietTask, DraftReady
  <2>. QED
    BY <1>3, <2>1, <2>3, <2>4
<1>. QED
  BY <1>5, <1>6, <1>7

\* The answer to a save: the store takes it or not, and the task that waited goes on.
LEMMA SaveAnswerKept ==
    ASSUME EditInvariant, NEW c \in Client, NEW fate \in Fate, SaveAnswer(c, fate)
    PROVE  EditInvariant'
<1>1. PICK editor : editor = editors[c]
  OBVIOUS
<1>2. /\ editor \in Editor /\ Kept(editor) /\ StoreTyped
      /\ locks \in [Floor -> Client \cup {NoClient}]
  BY <1>1, EditorKept
<1>3. PICK req \in editor.saving :
          LET f == req.floor
              stored == fate # "unsent" /\ Accepts(f, req.version)
              ok == stored /\ fate = "answered"
              heard == Acknowledged(editor, req, ok)
              next == CASE heard.task.step = "save" /\ ok -> AfterSave(heard)
                        [] heard.task.step = "save" /\ ~ok ->
                              [heard EXCEPT !.task = NoTask(heard.floor)]
                        [] OTHER -> heard
          IN  /\ IF stored THEN Write(f, req.doc) /\ Writes(c, next, f)
                 ELSE Unwritten /\ Becomes(c, next)
              /\ UNCHANGED locks
  BY <1>1 DEF SaveAnswer
<1>4. PICK f : f = req.floor
  OBVIOUS
<1>5. PICK stored \in BOOLEAN : stored = (fate # "unsent" /\ Accepts(f, req.version))
  OBVIOUS
<1>6. PICK ok \in BOOLEAN : ok = (stored /\ fate = "answered")
  OBVIOUS
<1>7. PICK next : next = Answered(editor, req, ok)
  OBVIOUS
<1>8. /\ Sound(next) /\ QuietTask(next)
      /\ ~ok => DraftReady(next)
      /\ (next.task.quiet /\ next.task.saved /\ next.task.step = "publish") =>
             next.task.floor = req.floor /\ next.doc = req.doc
  BY <1>2, <1>7, AnsweredKept
<1>9. /\ IF stored THEN Write(f, req.doc) /\ Writes(c, next, f)
         ELSE Unwritten /\ Becomes(c, next)
      /\ UNCHANGED locks
  BY <1>3, <1>4, <1>5, <1>6, <1>7 DEF Answered
<1>10. f \in Floor /\ req.doc \in Layout
  BY <1>2, <1>4 DEF Editor, SaveRequest
<1>11. CASE stored
  <2>1. Write(f, req.doc) /\ Writes(c, next, f) /\ locks' = locks
    BY <1>9, <1>11
  <2>2. working'[f] = req.doc
    BY <1>2, <1>10, <2>1 DEF Write, StoreTyped
  <2>3. StoreStep(f)
    BY <1>10, <2>1 DEF StoreStep
  <2>. QED
    BY <1>4, <1>8, <1>10, <2>1, <2>2, <2>3, WritesKept
<1>12. CASE ~stored
  <2>1. UNCHANGED <<vars, writers>> /\ Becomes(c, next) /\ locks' = locks
    BY <1>9, <1>12 DEF Unwritten
  <2>2. Kept(next)
    BY <1>6, <1>8, <1>12 DEF Kept
  <2>. QED
    BY <1>2, <2>1, <2>2, BecomesKept
<1>. QED
  BY <1>11, <1>12

\* The lock's state is known.
LEMMA ToldKept ==
    ASSUME NEW editor, Kept(editor), NEW other \in BOOLEAN
    PROVE  LET next == [editor EXCEPT !.isLockedByOther = other]
           IN  /\ Kept(next) /\ next \in Editor
               /\ next.floor = editor.floor /\ next.mode = editor.mode
<1>1. editor \in Editor
  BY DEF Kept, Sound, WellFormed
<1>2. PICK next : next = [editor EXCEPT !.isLockedByOther = other]
  OBVIOUS
<1>3. /\ next \in Editor /\ SameSent(next, editor)
      /\ next.task = editor.task /\ next.mode = editor.mode
      /\ next.doc = editor.doc /\ next.unsaved = editor.unsaved
      /\ next.dirty = editor.dirty /\ next.orphan = editor.orphan
  BY <1>1, <1>2 DEF Editor, SameSent
<1>. QED
  BY <1>2, <1>3, SameKept DEF SameSent

\* The answer to a lock request opens the canvas or ends the task.
LEMMA LockAnswerKept ==
    ASSUME EditInvariant, NEW c \in Client, NEW fate \in Fate, LockAnswer(c, fate)
    PROVE  EditInvariant'
<1>1. PICK editor, f : editor = editors[c] /\ f = editor.task.floor
  OBVIOUS
<1>2. editor \in Editor /\ Kept(editor) /\ locks \in [Floor -> Client \cup {NoClient}]
  BY <1>1, EditorKept
<1>3. f \in Floor
  BY <1>1, <1>2 DEF Editor, Task
<1>4. PICK granted \in BOOLEAN : granted = (fate # "unsent" /\ locks[f] \in {NoClient, c})
  OBVIOUS
<1>5. PICK opened : opened = IF granted /\ fate = "answered"
                           THEN InMode([editor EXCEPT !.isLockedByOther = FALSE], "canvas")
                           ELSE editor
  OBVIOUS
<1>6. /\ locks' = IF granted THEN [locks EXCEPT ![f] = c] ELSE locks
      /\ Becomes(c, [opened EXCEPT !.task = NoTask(editor.floor)])
      /\ UNCHANGED <<vars, writers>>
  BY <1>1, <1>4, <1>5 DEF LockAnswer, Unwritten
<1>7. Kept(opened) /\ opened.floor = editor.floor
  <2>1. CASE granted /\ fate = "answered"
    <3>1. PICK told : told = [editor EXCEPT !.isLockedByOther = FALSE]
      OBVIOUS
    <3>2. Kept(told) /\ told \in Editor /\ told.floor = editor.floor
      BY <1>2, <3>1, ToldKept
    <3>3. opened = InMode(told, "canvas")
      BY <1>5, <2>1, <3>1
    <3>4. Kept(opened) /\ SameSent(opened, told)
      BY <3>2, <3>3, InModeKept, InModeFields
    <3>. QED
      BY <3>2, <3>4 DEF SameSent
  <2>2. CASE ~(granted /\ fate = "answered")
    BY <1>2, <1>5, <2>2
  <2>. QED
    BY <2>1, <2>2
<1>8. Kept([opened EXCEPT !.task = NoTask(opened.floor)])
  BY <1>7, DoneKept DEF Kept
<1>9. locks' \in [Floor -> Client \cup {NoClient}]
  BY <1>2, <1>3, <1>6
<1>. QED
  BY <1>6, <1>7, <1>8, <1>9, BecomesKept

\* The answer to an unlock ends the task and the canvas.
LEMMA UnlockAnswerKept ==
    ASSUME EditInvariant, NEW c \in Client, NEW fate \in Fate, UnlockAnswer(c, fate)
    PROVE  EditInvariant'
<1>1. PICK editor, f : editor = editors[c] /\ f = editor.task.floor
  OBVIOUS
<1>2. editor \in Editor /\ Kept(editor) /\ locks \in [Floor -> Client \cup {NoClient}]
  BY <1>1, EditorKept
<1>3. f \in Floor
  BY <1>1, <1>2 DEF Editor, Task
<1>4. PICK other \in BOOLEAN : other = (editor.isLockedByOther /\ fate # "answered")
  OBVIOUS
<1>5. PICK told : told = [editor EXCEPT !.isLockedByOther = other]
  OBVIOUS
<1>6. told = [editor EXCEPT !.isLockedByOther = @ /\ fate # "answered"]
  BY <1>2, <1>4, <1>5 DEF Editor
<1>7. PICK left : left = InMode(told, "preview")
  OBVIOUS
<1>8. /\ locks' = IF locks[f] = c /\ fate # "unsent"
                  THEN [locks EXCEPT ![f] = NoClient] ELSE locks
      /\ Becomes(c, [left EXCEPT !.task = NoTask(editor.floor)])
      /\ UNCHANGED <<vars, writers>>
  BY <1>1, <1>6, <1>7 DEF UnlockAnswer, Unwritten
<1>9. Kept(told) /\ told \in Editor /\ told.floor = editor.floor
  BY <1>2, <1>5, ToldKept
<1>10. Kept(left) /\ SameSent(left, told)
  BY <1>7, <1>9, InModeKept, InModeFields
<1>11. left.floor = editor.floor
  BY <1>9, <1>10 DEF SameSent
<1>12. Kept([left EXCEPT !.task = NoTask(left.floor)])
  BY <1>10, DoneKept DEF Kept
<1>13. locks' \in [Floor -> Client \cup {NoClient}]
  BY <1>2, <1>3, <1>8
<1>. QED
  BY <1>8, <1>11, <1>12, <1>13, BecomesKept

\* A publication turns the draft into the next edition and starts a load.
LEMMA PublishAnswerKept ==
    ASSUME EditInvariant, NEW c \in Client, NEW fate \in Fate, PublishAnswer(c, fate)
    PROVE  EditInvariant'
<1>1. PICK editor, f : editor = editors[c] /\ f = editor.task.floor
  OBVIOUS
<1>2. /\ editor \in Editor /\ Sound(editor)
      /\ locks \in [Floor -> Client \cup {NoClient}]
  BY <1>1, EditorKept
<1>3. f \in Floor /\ editor.floor \in Floor
  BY <1>1, <1>2 DEF Editor, Task
<1>4. PICK done : done = [editor EXCEPT !.task = NoTask(editor.floor)]
  OBVIOUS
<1>5. Kept(done) /\ done.task.quiet = FALSE
  BY <1>2, <1>4, DoneKept
<1>6. /\ CanLoad(editor) /\ locks' = locks
      /\ \/ /\ edition[f] < MaxEdition
            /\ Issue(f)
            /\ Writes(c, IF fate = "answered" THEN Loading(done, f, TRUE, "free")
                         ELSE done, f)
         \/ Becomes(c, done) /\ UNCHANGED <<vars, writers>>
  BY <1>1, <1>4 DEF PublishAnswer, Unwritten
<1>7. done.loads = editor.loads
  BY <1>2, <1>4 DEF Editor
<1>8. done \in Editor /\ CanLoad(done)
  BY <1>5, <1>6, <1>7 DEF CanLoad, Kept, Sound, WellFormed
<1>9. CASE Becomes(c, done) /\ UNCHANGED <<vars, writers>>
  BY <1>2, <1>5, <1>6, <1>9, BecomesKept
<1>10. CASE /\ edition[f] < MaxEdition
            /\ Issue(f)
            /\ Writes(c, IF fate = "answered" THEN Loading(done, f, TRUE, "free")
                         ELSE done, f)
  <2>1. StoreStep(f)
    BY <1>10 DEF StoreStep
  <2>2. CASE fate = "answered"
    <3>1. PICK next : next = Loading(done, f, TRUE, "free")
      OBVIOUS
    <3>2. Kept(next)
      BY <1>3, <1>5, <1>8, <3>1, LoadingKept
    <3>3. next.task = done.task
      BY <1>3, <1>8, <3>1, LoadingFields
    <3>4. Writes(c, next, f)
      BY <1>10, <2>2, <3>1
    <3>. QED
      BY <1>3, <1>5, <1>6, <2>1, <3>2, <3>3, <3>4, WritesKept DEF Kept
  <2>3. CASE fate # "answered"
    <3>1. Writes(c, done, f)
      BY <1>10, <2>3
    <3>. QED
      BY <1>3, <1>5, <1>6, <2>1, <3>1, WritesKept DEF Kept
  <2>. QED
    BY <2>2, <2>3
<1>. QED
  BY <1>6, <1>9, <1>10

\* What a tab hears of a lock may close its canvas.
LEMMA LearnKept ==
    ASSUME EditInvariant, NEW c \in Client, Learn(c)
    PROVE  EditInvariant'
<1>1. PICK editor : editor = editors[c]
  OBVIOUS
<1>2. editor \in Editor /\ Kept(editor) /\ locks \in [Floor -> Client \cup {NoClient}]
  BY <1>1, EditorKept
<1>3. PICK other \in BOOLEAN : other = (locks[editor.floor] \notin {NoClient, c})
  OBVIOUS
<1>4. PICK told : told = [editor EXCEPT !.isLockedByOther = other]
  OBVIOUS
<1>5. /\ Becomes(c, IF other /\ editor.mode = "canvas" THEN InMode(told, "preview")
                    ELSE told)
      /\ UNCHANGED <<vars, locks, writers>>
  BY <1>1, <1>3, <1>4 DEF Learn
<1>6. Kept(told)
  BY <1>2, <1>4, ToldKept
<1>7. CASE other /\ editor.mode = "canvas"
  <2>1. Becomes(c, InMode(told, "preview"))
    BY <1>5, <1>7
  <2>. QED
    BY <1>2, <1>5, <1>6, <2>1, InModeKept, BecomesKept
<1>8. CASE ~(other /\ editor.mode = "canvas")
  <2>1. Becomes(c, told)
    BY <1>5, <1>8
  <2>. QED
    BY <1>2, <1>5, <1>6, <2>1, BecomesKept
<1>. QED
  BY <1>7, <1>8

\* A lock that expires is nobody's.
LEMMA ExpireKept ==
    ASSUME EditInvariant, NEW f \in Floor, Expire(f)
    PROVE  EditInvariant'
<1>1. /\ locks' = [locks EXCEPT ![f] = NoClient]
      /\ UNCHANGED <<vars, editors, writers>>
  BY DEF Expire
<1>2. locks' \in [Floor -> Client \cup {NoClient}]
  BY <1>1 DEF EditInvariant
<1>3. StoreTyped'
  BY <1>1 DEF EditInvariant, StoreTyped, vars
<1>4. \A c \in Client : /\ WellFormed(editors[c])'
                        /\ FloorsKept(editors[c])'
                        /\ MapsKnown(editors[c])'
                        /\ QuietTask(editors[c])'
                        /\ DraftReady(editors[c])'
  BY <1>1 DEF EditInvariant, vars, WellFormed, FloorsKept, FloorFollowed, MapsKnown,
              NotAhead, QuietTask, DraftReady
<1>. QED
  BY <1>1, <1>2, <1>3, <1>4 DEF EditInvariant

\* What the server answers to a load is not ahead of what it shows.
LEMMA CurrentKnown ==
    ASSUME StoreTyped, NEW f \in Floor
    PROVE  /\ Current(f) \in LayoutProp
           /\ Current(f).floor = f
           /\ NotAhead(Current(f))
<1>1. /\ edition[f] \in 0..MaxEdition /\ MaxEdition \in Nat
      /\ working[f] \in Layout \cup {NoLayout} /\ shown[f] \in Layout \cup {NoLayout}
  BY EditAssumption DEF StoreTyped
<1>2. edition[f] \in 0..(MaxEdition + 1) /\ edition[f] + 1 \in 0..(MaxEdition + 1)
      /\ edition[f] <= edition[f]
  BY <1>1
<1>3. CASE working[f] # NoLayout
  <2>1. Current(f) = [floor |-> f, version |-> edition[f] + 1, status |-> "draft",
                      doc |-> working[f]]
    BY <1>3 DEF Current
  <2>. QED
    BY <1>1, <1>2, <1>3, <2>1 DEF LayoutProp, NotAhead
<1>4. CASE working[f] = NoLayout /\ shown[f] # NoLayout
  <2>1. Current(f) = [floor |-> f, version |-> edition[f], status |-> "published",
                      doc |-> shown[f]]
    BY <1>4 DEF Current
  <2>. QED
    BY <1>1, <1>2, <1>4, <2>1 DEF LayoutProp, NotAhead
<1>5. CASE working[f] = NoLayout /\ shown[f] = NoLayout
  <2>1. Current(f) = NoMapYet(f)
    BY <1>5 DEF Current
  <2>. QED
    BY <2>1, NoMapNotAhead, LoadFields
<1>. QED
  BY <1>3, <1>4, <1>5

\* One load for another.
LEMMA OneForAnother ==
    ASSUME NEW S, IsFiniteSet(S), NEW x \in S, NEW y
    PROVE  /\ IsFiniteSet(S \ {x}) /\ IsFiniteSet((S \ {x}) \cup {y})
           /\ Cardinality(S) \in Nat
           /\ Cardinality(S \ {x}) \in Nat /\ Cardinality(S \ {x}) <= Cardinality(S)
           /\ Cardinality((S \ {x}) \cup {y}) \in Nat
           /\ Cardinality((S \ {x}) \cup {y}) <= Cardinality(S)
<1>1. PICK T : T = S \ {x}
  OBVIOUS
<1>2. /\ IsFiniteSet(T) /\ Cardinality(T) = Cardinality(S) - 1
      /\ Cardinality(S) \in Nat /\ Cardinality(T) \in Nat
  BY <1>1, FS_RemoveElement, FS_CardinalityType
<1>3. PICK U : U = T \cup {y}
  OBVIOUS
<1>4. /\ IsFiniteSet(U)
      /\ Cardinality(U) = IF y \in T THEN Cardinality(T) ELSE Cardinality(T) + 1
  BY <1>2, <1>3, FS_AddElement
<1>. QED
  BY <1>1, <1>2, <1>3, <1>4

\* A load reads the map its floor has now.
LEMMA LoadExecuteKept ==
    ASSUME EditInvariant, NEW c \in Client, NEW load \in editors[c].loads,
           LoadExecute(c, load)
    PROVE  EditInvariant'
<1>1. PICK editor : editor = editors[c]
  OBVIOUS
<1>2. /\ editor \in Editor /\ Kept(editor) /\ StoreTyped
      /\ locks \in [Floor -> Client \cup {NoClient}]
  BY <1>1, EditorKept
<1>3. load \in Load /\ load.floor \in Floor
  BY <1>1, <1>2 DEF Editor, Load
<1>4. PICK answer : answer = Current(load.floor)
  OBVIOUS
<1>5. answer \in LayoutProp /\ answer.floor = load.floor /\ NotAhead(answer)
  BY <1>2, <1>3, <1>4, CurrentKnown
<1>6. PICK answered : answered = [load EXCEPT !.step = "answered", !.answer = answer]
  OBVIOUS
<1>7. /\ answered \in Load /\ answered.floor = load.floor
      /\ answered.answer = answer /\ answered.refreshPreview = load.refreshPreview
  BY <1>3, <1>5, <1>6 DEF Load
<1>8. PICK loads : loads = (editor.loads \ {load}) \cup {answered}
  OBVIOUS
<1>9. PICK next : next = [editor EXCEPT !.loads = loads]
  OBVIOUS
<1>10. Becomes(c, next) /\ UNCHANGED <<vars, locks, writers>>
  BY <1>1, <1>2, <1>4, <1>6, <1>8, <1>9 DEF LoadExecute, Editor
<1>11. loads \in SUBSET Load
  BY <1>2, <1>7, <1>8 DEF Editor
<1>12. /\ next \in Editor /\ next.loads = loads
       /\ next.floor = editor.floor
       /\ next.mode = editor.mode
       /\ next.layout = editor.layout
       /\ next.overtaken = editor.overtaken
       /\ next.saving = editor.saving
       /\ next.doc = editor.doc
       /\ next.unsaved = editor.unsaved
       /\ next.dirty = editor.dirty
       /\ next.orphan = editor.orphan
       /\ next.task = editor.task
  BY <1>2, <1>9, <1>11 DEF Editor
<1>13. WellFormed(next)
  <2>1. /\ IsFiniteSet(editor.loads) /\ Cardinality(editor.loads) <= MaxLoads
        /\ MaxLoads \in Nat
    BY <1>2, EditAssumption DEF Kept, Sound, WellFormed
  <2>2. /\ IsFiniteSet(loads) /\ Cardinality(loads) \in Nat
        /\ Cardinality(editor.loads) \in Nat
        /\ Cardinality(loads) <= Cardinality(editor.loads)
    BY <1>1, <1>8, <2>1, OneForAnother
  <2>3. Cardinality(loads) <= MaxLoads
    BY <2>1, <2>2
  <2>. QED
    BY <1>2, <1>12, <2>2, <2>3 DEF Kept, Sound, WellFormed
<1>14. FloorsKept(next)
  <2>1. FloorsKept(editor)
    BY <1>2 DEF Kept, Sound
  <2>2. FloorFollowed(next)
    <3>1. ASSUME NEW other \in editor.loads,
                 other.floor = editor.floor, other.refreshPreview
          PROVE  \E sent \in loads : sent.floor = editor.floor /\ sent.refreshPreview
      BY <1>7, <1>8, <3>1
    <3>. QED
      BY <1>12, <2>1, <3>1 DEF FloorsKept, FloorFollowed
  <2>3. \A other \in next.loads : other.answer.floor = other.floor
    BY <1>5, <1>7, <1>8, <1>12, <2>1 DEF FloorsKept
  <2>. QED
    BY <1>12, <2>1, <2>2, <2>3 DEF FloorsKept
<1>15. MapsKnown(next)
  <2>1. MapsKnown(editor)
    BY <1>2 DEF Kept, Sound
  <2>2. \A other \in loads : NotAhead(other.answer)
    BY <1>5, <1>7, <1>8, <2>1 DEF MapsKnown
  <2>. QED
    BY <1>12, <2>1, <2>2 DEF MapsKnown
<1>16. QuietTask(next) /\ DraftReady(next)
  BY <1>2, <1>12 DEF Kept, QuietTask, DraftReady
<1>17. Kept(next)
  BY <1>13, <1>14, <1>15, <1>16 DEF Kept, Sound
<1>. QED
  BY <1>2, <1>10, <1>17, BecomesKept

\* A load is not in flight any more.  Its floor is still followed if the load would
\* have replaced the layout prop and does, or would not have.
LEMMA DeliveredFields ==
    ASSUME NEW editor, Kept(editor), NEW load \in editor.loads
    PROVE  LET next == [editor EXCEPT !.loads = @ \ {load}, !.busy = FALSE]
           IN  /\ WellFormed(next) /\ MapsKnown(next)
               /\ next.floor = editor.floor
               /\ next.layout = editor.layout
               /\ next.loads = editor.loads \ {load}
               /\ next.saving = editor.saving
               /\ ~load.refreshPreview \/ editor.layout.status = "none" => FloorsKept(next)
               /\ QuietTask(next) /\ DraftReady(next)
<1>1. editor \in Editor
  BY DEF Kept, Sound, WellFormed
<1>2. PICK loads : loads = editor.loads \ {load}
  OBVIOUS
<1>3. PICK next : next = [editor EXCEPT !.loads = loads, !.busy = FALSE]
  OBVIOUS
<1>4. next = [editor EXCEPT !.loads = @ \ {load}, !.busy = FALSE]
  BY <1>1, <1>2, <1>3 DEF Editor
<1>5. loads \in SUBSET Load
  BY <1>1, <1>2 DEF Editor
<1>6. /\ next \in Editor /\ next.loads = loads
      /\ next.floor = editor.floor
      /\ next.mode = editor.mode
      /\ next.layout = editor.layout
      /\ next.overtaken = editor.overtaken
      /\ next.saving = editor.saving
      /\ next.doc = editor.doc
      /\ next.unsaved = editor.unsaved
      /\ next.dirty = editor.dirty
      /\ next.orphan = editor.orphan
      /\ next.task = editor.task
  BY <1>1, <1>3, <1>5 DEF Editor
<1>7. WellFormed(next)
  <2>1. /\ IsFiniteSet(editor.loads) /\ Cardinality(editor.loads) <= MaxLoads
        /\ MaxLoads \in Nat
    BY EditAssumption DEF Kept, Sound, WellFormed
  <2>2. /\ IsFiniteSet(loads) /\ Cardinality(loads) \in Nat
        /\ Cardinality(editor.loads) \in Nat
        /\ Cardinality(loads) <= Cardinality(editor.loads)
    BY <1>2, <2>1, OneForAnother
  <2>3. Cardinality(loads) <= MaxLoads
    BY <2>1, <2>2
  <2>. QED
    BY <1>6, <2>2, <2>3 DEF Kept, Sound, WellFormed
<1>8. MapsKnown(next)
  BY <1>2, <1>6 DEF Kept, Sound, MapsKnown
<1>9. ASSUME ~load.refreshPreview \/ editor.layout.status = "none"
      PROVE  FloorsKept(next)
  <2>1. FloorsKept(editor)
    BY DEF Kept, Sound
  <2>2. FloorFollowed(next)
    <3>1. CASE editor.layout.status = "none"
      BY <1>6, <3>1 DEF FloorFollowed
    <3>2. CASE ~load.refreshPreview
      <4>1. \A other \in editor.loads : other.refreshPreview => other \in loads
        BY <1>2, <3>2
      <4>. QED
        BY <1>6, <2>1, <4>1 DEF FloorsKept, FloorFollowed
    <3>. QED
      BY <1>9, <3>1, <3>2
  <2>. QED
    BY <1>2, <1>6, <2>1, <2>2 DEF FloorsKept
<1>10. QuietTask(next) /\ DraftReady(next)
  BY <1>6 DEF Kept, QuietTask, DraftReady
<1>. QED
  BY <1>2, <1>4, <1>6, <1>7, <1>8, <1>9, <1>10

\* A new layout prop: the canvas is drawn anew, and the prop is of the floor that
\* is selected or overtaken.
LEMMA NewLayoutKept ==
    ASSUME NEW editor, WellFormed(editor), MapsKnown(editor),
           \A load \in editor.loads : load.answer.floor = load.floor,
           \A req \in editor.saving :
               req.drawnOn.floor # req.floor => req.drawnOn.status = "none" \/ req.mayMix,
           NEW layout \in LayoutProp, NotAhead(layout)
    PROVE  Kept(Drawn([editor EXCEPT !.layout = layout,
                                     !.overtaken = layout.floor # editor.floor]))
<1>1. editor \in Editor
  BY DEF WellFormed
<1>2. PICK overtaken \in BOOLEAN : overtaken = (layout.floor # editor.floor)
  OBVIOUS
<1>3. PICK moved : moved = [editor EXCEPT !.layout = layout, !.overtaken = overtaken]
  OBVIOUS
<1>4. /\ moved \in Editor
      /\ moved.floor = editor.floor
      /\ moved.layout = layout
      /\ moved.overtaken = overtaken
      /\ moved.mode = editor.mode
      /\ moved.loads = editor.loads
      /\ moved.saving = editor.saving
      /\ moved.orphan = editor.orphan
      /\ moved.task = editor.task
  BY <1>1, <1>3 DEF Editor
<1>5. PICK next : next = Drawn(moved)
  OBVIOUS
<1>6. /\ next \in Editor /\ SameSent(next, moved) /\ SameTask(next, moved)
      /\ next.mode = moved.mode
      /\ moved.mode = "canvas" => next.doc = moved.layout.doc
      /\ next.orphan = moved.orphan
      /\ next.unsaved = {}
      /\ next.task.quiet = FALSE
  BY <1>4, <1>5, DrawnFields
<1>7. /\ next.floor = editor.floor /\ next.layout = layout /\ next.overtaken = overtaken
      /\ next.loads = editor.loads /\ next.saving = editor.saving
      /\ next.task.goal = editor.task.goal /\ next.task.step = editor.task.step
  BY <1>4, <1>6 DEF SameSent, SameTask
<1>8. WellFormed(next)
  BY <1>4, <1>6, <1>7 DEF WellFormed
<1>9. FloorsKept(next)
  <2>1. FloorFollowed(next)
    BY <1>2, <1>7 DEF FloorFollowed
  <2>. QED
    BY <1>7, <2>1 DEF FloorsKept
<1>10. MapsKnown(next)
  BY <1>4, <1>6, <1>7 DEF MapsKnown
<1>11. Kept(next)
  BY <1>6, <1>8, <1>9, <1>10, Unquiet DEF Kept, Sound
<1>. QED
  BY <1>2, <1>3, <1>5, <1>11

\* A load that arrives, or fails, replaces the layout prop and what the canvas shows.
LEMMA LoadDeliverKept ==
    ASSUME EditInvariant, NEW c \in Client, NEW load \in editors[c].loads,
           NEW fails \in BOOLEAN, LoadDeliver(c, load, fails)
    PROVE  EditInvariant'
<1>1. PICK before : before = editors[c]
  OBVIOUS
<1>2. before \in Editor /\ Kept(before) /\ locks \in [Floor -> Client \cup {NoClient}]
  BY <1>1, EditorKept
<1>3. load \in Load /\ load.floor \in Floor
  BY <1>1, <1>2 DEF Editor, Load
<1>4. PICK editor : editor = [before EXCEPT !.loads = @ \ {load}, !.busy = FALSE]
  OBVIOUS
<1>5. PICK got : got = IF fails THEN NoMapYet(load.floor) ELSE load.answer
  OBVIOUS
<1>6. PICK loaded :
          loaded = IF got.status = "none" /\ ~load.refreshPreview THEN editor
                   ELSE SetLayout(editor, got)
  OBVIOUS
<1>7. /\ Becomes(c, CASE load.then # "canvas" -> loaded
                      [] load.then = "canvas" /\ ~loaded.isLockedByOther ->
                            InMode(loaded, "canvas")
                      [] OTHER -> InMode(loaded, "preview"))
      /\ UNCHANGED <<vars, locks, writers>>
  BY <1>1, <1>4, <1>5, <1>6 DEF LoadDeliver
<1>8. /\ WellFormed(editor) /\ MapsKnown(editor)
      /\ editor.floor = before.floor
      /\ editor.layout = before.layout
      /\ editor.loads = before.loads \ {load}
      /\ editor.saving = before.saving
      /\ ~load.refreshPreview \/ before.layout.status = "none" => FloorsKept(editor)
      /\ QuietTask(editor) /\ DraftReady(editor)
  <2>1. load \in before.loads
    BY <1>1
  <2>. QED
    BY <1>2, <1>4, <2>1, DeliveredFields
<1>9. got \in LayoutProp /\ NotAhead(got)
  <2>1. CASE fails
    BY <1>3, <1>5, <2>1, LoadFields, NoMapNotAhead
  <2>2. CASE ~fails
    BY <1>1, <1>2, <1>3, <1>5, <2>2 DEF Load, Kept, Sound, MapsKnown
  <2>. QED
    BY <2>1, <2>2
<1>10. Kept(loaded)
  <2>1. CASE got.status = "none" /\ ~load.refreshPreview
    BY <1>6, <1>8, <2>1 DEF Kept, Sound
  <2>2. CASE /\ ~(got.status = "none" /\ ~load.refreshPreview)
             /\ got.status = "none" /\ editor.layout.status = "none"
    <3>1. loaded = editor
      BY <1>6, <2>2 DEF SetLayout
    <3>. QED
      BY <1>8, <2>2, <3>1 DEF Kept, Sound
  <2>3. CASE /\ ~(got.status = "none" /\ ~load.refreshPreview)
             /\ ~(got.status = "none" /\ editor.layout.status = "none")
    <3>1. loaded = Drawn([editor EXCEPT !.layout = got,
                                        !.overtaken = got.floor # editor.floor])
      BY <1>6, <2>3 DEF SetLayout
    <3>2. FloorsKept(before)
      BY <1>2 DEF Kept, Sound
    <3>3. /\ \A other \in editor.loads : other.answer.floor = other.floor
          /\ \A req \in editor.saving : req.drawnOn.floor # req.floor =>
                req.drawnOn.status = "none" \/ req.mayMix
      BY <1>8, <3>2 DEF FloorsKept
    <3>. QED
      BY <1>8, <1>9, <3>1, <3>3, NewLayoutKept
  <2>. QED
    BY <2>1, <2>2, <2>3
<1>11. CASE load.then # "canvas"
  <2>1. Becomes(c, loaded)
    BY <1>7, <1>11
  <2>. QED
    BY <1>2, <1>7, <1>10, <2>1, BecomesKept
<1>12. CASE load.then = "canvas" /\ ~loaded.isLockedByOther
  <2>1. Becomes(c, InMode(loaded, "canvas"))
    BY <1>7, <1>12
  <2>. QED
    BY <1>2, <1>7, <1>10, <2>1, InModeKept, BecomesKept
<1>13. CASE load.then = "canvas" /\ loaded.isLockedByOther
  <2>1. Becomes(c, InMode(loaded, "preview"))
    BY <1>7, <1>13
  <2>. QED
    BY <1>2, <1>7, <1>10, <2>1, InModeKept, BecomesKept
<1>. QED
  BY <1>11, <1>12, <1>13

-----------------------------------------------------------------------------
(***************************************************************************)
(* The theorems.                                                           *)
(***************************************************************************)

\* Every tab starts by loading its floor.
LEMMA EditInitKept == EditInit => EditInvariant
<1>1. SUFFICES ASSUME EditInit PROVE EditInvariant
  OBVIOUS
<1>2. /\ open = Floor
      /\ shown \in [Floor -> Layout \cup {NoLayout}]
      /\ working = [f \in Floor |-> NoLayout]
      /\ edition \in [Floor -> LegacyVersion \cup {0}]
      /\ \A f \in Floor : shown[f] = NoLayout <=> edition[f] = 0
  BY <1>1 DEF EditInit, Init
<1>3. StoreTyped
  <2>1. LegacyVersion \cup {0} \subseteq 0..MaxEdition
    BY EditAssumption
  <2>2. edition \in [Floor -> 0..MaxEdition]
    BY <1>2, <2>1
  <2>3. working \in [Floor -> Layout \cup {NoLayout}]
    BY <1>2
  <2>4. \A f \in Floor : shown[f] # NoLayout => edition[f] # 0
    BY <1>2
  <2>. QED
    BY <1>2, <2>2, <2>3, <2>4 DEF StoreTyped
<1>4. /\ editors \in [Client -> {NewTab(f) : f \in Floor}]
      /\ locks = [f \in Floor |-> NoClient]
      /\ writers = [f \in Floor |-> NoClient]
  BY <1>1 DEF EditInit
<1>5. ASSUME NEW c \in Client
      PROVE  editors[c] \in Editor /\ Kept(editors[c])
  BY <1>4, NewTabKept
<1>6. editors \in [Client -> Editor]
  BY <1>4, <1>5
<1>. QED
  BY <1>3, <1>4, <1>5, <1>6 DEF EditInvariant, Kept, Sound

\* Every step of a user keeps the invariant.
LEMMA UserKept ==
    ASSUME EditInvariant, NEW c \in Client, UserAction(c)
    PROVE  EditInvariant'
BY DrawKept, ResetKept, SaveKept, SwitchToCanvasKept, SwitchFromKept, PublishKept,
   ReplaceKept, DiscardKept, RestoreKept, RefreshKept, SelectFloorKept, LeaveKept
   DEF UserAction

\* Every step of a browser and of the network keeps the invariant.
LEMMA BrowserKept ==
    ASSUME EditInvariant, NEW c \in Client, BrowserAction(c)
    PROVE  EditInvariant'
BY AutosaveKept, PreviewAnswerKept, SaveAnswerKept, LockAnswerKept, UnlockAnswerKept,
   PublishAnswerKept, LoadExecuteKept, LoadDeliverKept, LearnKept
   DEF BrowserAction

\* The invariant is inductive.
LEMMA EditInvariantInductive ==
    ASSUME EditInvariant, [EditNext]_editVars
    PROVE  EditInvariant'
<1>1. CASE UNCHANGED editVars
  BY <1>1 DEF editVars, vars, EditInvariant, StoreTyped, WellFormed, FloorsKept,
              FloorFollowed, MapsKnown, NotAhead, QuietTask, DraftReady
<1>2. CASE EditNext
  BY <1>2, UserKept, BrowserKept, ExpireKept DEF EditNext
<1>. QED
  BY <1>1, <1>2

\* In every reachable state, for every number of tabs, floors, edits and loads.
THEOREM EditInvariantAlways == EditSpec => []EditInvariant
BY EditInitKept, EditInvariantInductive, PTL DEF EditSpec

\* The type invariant of the editors (EditSession.EditTypeOK), of every reachable
\* state: in particular there is never more than one save of a canvas in flight.
THEOREM EditorsTyped == EditSpec => []EditTypeOK
<1>1. EditInvariant => EditTypeOK
  <2>1. SUFFICES ASSUME EditInvariant PROVE EditTypeOK
    OBVIOUS
  <2>2. ASSUME NEW c \in Client PROVE Cardinality(editors[c].saving) <= 1
    <3>1. \A req1, req2 \in editors[c].saving : req1 = req2
      BY <2>1, EditorKept DEF WellFormed
    <3>2. CASE editors[c].saving = {}
      BY <3>2, FS_EmptySet
    <3>3. ASSUME NEW req \in editors[c].saving PROVE Cardinality(editors[c].saving) <= 1
      <4>1. editors[c].saving = {req}
        BY <3>1
      <4>2. Cardinality({req}) = 1
        BY FS_Singleton
      <4>. QED
        BY <4>1, <4>2
    <3>. QED
      BY <3>2, <3>3
  <2>3. \A c \in Client : /\ Cardinality(editors[c].loads) <= MaxLoads
                          /\ editors[c].unsaved \subseteq editors[c].doc
    BY <2>1, EditorKept DEF WellFormed
  <2>. QED
    BY <2>1, <2>2, <2>3 DEF EditInvariant, EditTypeOK
<1>. QED
  BY <1>1, EditInvariantAlways, PTL

\* What is saved on a floor was drawn on that floor's map, with the exceptions of
\* EditSession.RightFloorSaved (selectedFloorId and layout of LayoutPanel).
THEOREM RightFloorAlwaysSaved == EditSpec => []RightFloorSaved
<1>1. EditInvariant => RightFloorSaved
  BY DEF EditInvariant, FloorsKept, RightFloorSaved
<1>. QED
  BY <1>1, EditInvariantAlways, PTL

\* Optimistic locking keeps published work (EditSession.SaveKeepsPublished): a save
\* whose version SaveDraft accepts holds the published map if it was drawn on one.
THEOREM SavesKeepPublished == EditSpec => []SaveKeepsPublished
<1>1. EditInvariant => SaveKeepsPublished
  <2>1. SUFFICES ASSUME EditInvariant, NEW c \in Client, NEW req \in editors[c].saving,
                        Accepts(req.floor, req.version),
                        req.drawnOn.floor = req.floor,
                        req.drawnOn.status # "draft",
                        shown[req.floor] # NoLayout
                 PROVE  shown[req.floor] \subseteq req.doc
    BY DEF SaveKeepsPublished
  <2>2. req \in SaveRequest /\ req.floor \in Floor /\ req.drawnOn \in LayoutProp
    BY <2>1, EditorKept DEF Editor, SaveRequest
  <2>3. /\ NotAhead(req.drawnOn)
        /\ req.version = req.drawnOn.version
        /\ req.drawnOn.doc \subseteq req.doc
    BY <2>1, EditorKept DEF MapsKnown
  <2>4. /\ edition[req.floor] \in Int /\ edition[req.floor] # 0 /\ edition[req.floor] >= 0
        /\ req.version \in Int
    BY <2>1, <2>2, EditAssumption DEF EditInvariant, StoreTyped, SaveRequest
  <2>5. req.version \in {edition[req.floor], edition[req.floor] + 1}
    BY <2>1 DEF Accepts
  <2>6. req.drawnOn.status = "published"
    <3>1. req.drawnOn.status \in {"none", "published"}
      BY <2>1, <2>2 DEF LayoutProp
    <3>2. req.drawnOn.status # "none"
      BY <2>3, <2>4, <2>5 DEF NotAhead
    <3>. QED
      BY <3>1, <3>2
  <2>7. req.version <= edition[req.floor]
    BY <2>1, <2>3, <2>6 DEF NotAhead
  <2>8. req.version = edition[req.floor]
    BY <2>4, <2>5, <2>7
  <2>9. req.drawnOn.doc = shown[req.floor]
    BY <2>1, <2>3, <2>6, <2>8 DEF NotAhead
  <2>. QED
    BY <2>3, <2>9
<1>. QED
  BY <1>1, EditInvariantAlways, PTL

\* Only the answer to a publication changes an edition.
LEMMA EditionsMove ==
    ASSUME EditInvariant, EditNext, NEW f \in Floor, edition'[f] # edition[f]
    PROVE  shown'[f] = working[f]
<1>1. /\ edition \in [Floor -> 0..MaxEdition]
      /\ shown \in [Floor -> Layout \cup {NoLayout}]
  BY DEF EditInvariant, StoreTyped
<1>2. ASSUME NEW g \in Floor, Issue(g) PROVE shown'[f] = working[f]
  BY <1>1, <1>2 DEF Issue
<1>3. ASSUME NEW c \in Client, UserAction(c) PROVE FALSE
  <2>1. UNCHANGED edition
    BY <1>3 DEF UserAction, Draw, Reset, Save, SwitchToCanvas, SwitchFrom, Publish,
                Replace, Discard, Restore, Refresh, SelectFloor, Leave, Write, Drop, vars
  <2>. QED
    BY <2>1
<1>4. ASSUME NEW c \in Client, BrowserAction(c) PROVE shown'[f] = working[f]
  <2>1. CASE UNCHANGED edition
    BY <2>1
  <2>2. CASE \E fate \in Fate : SaveAnswer(c, fate)
    <3>1. UNCHANGED edition
      BY <2>2 DEF SaveAnswer, Unwritten, Write, vars
    <3>. QED
      BY <3>1
  <2>3. CASE \E fate \in Fate : PublishAnswer(c, fate)
    <3>1. PICK fate \in Fate : PublishAnswer(c, fate)
      BY <2>3
    <3>2. PICK g : g = editors[c].task.floor
      OBVIOUS
    <3>3. g \in Floor
      BY <3>2, EditorKept DEF Editor, Task
    <3>4. Issue(g) \/ UNCHANGED edition
      BY <3>1, <3>2 DEF PublishAnswer, Unwritten, vars
    <3>. QED
      BY <1>2, <3>3, <3>4
  <2>4. CASE \/ Autosave(c) \/ PreviewAnswer(c) \/ Learn(c)
             \/ \E fate \in Fate : LockAnswer(c, fate) \/ UnlockAnswer(c, fate)
             \/ \E load \in editors[c].loads : LoadExecute(c, load)
             \/ \E load \in editors[c].loads, fails \in BOOLEAN : LoadDeliver(c, load, fails)
    <3>1. UNCHANGED edition
      BY <2>4 DEF Autosave, PreviewAnswer, Learn, LockAnswer, UnlockAnswer,
                  LoadExecute, LoadDeliver, Unwritten, vars
    <3>. QED
      BY <3>1
  <2>. QED
    BY <1>4, <2>2, <2>3, <2>4 DEF BrowserAction
<1>5. ASSUME NEW g \in Floor, Expire(g) PROVE FALSE
  BY <1>5 DEF Expire, vars
<1>. QED
  BY <1>3, <1>4, <1>5 DEF EditNext

\* A publication that began with a save publishes exactly what the canvas shows
\* (EditSession.PublishesWhatIsDrawn; handlePublish awaits the save).
THEOREM AlwaysPublishesWhatIsDrawn == EditSpec => PublishesWhatIsDrawn
<1>1. ASSUME EditInvariant, [EditNext]_editVars
      PROVE  [\A c \in Client :
                LET editor == editors[c]
                    f == editor.task.floor
                IN (/\ editor.task.step = "publish"
                    /\ editor.task.saved /\ editor.task.quiet
                    /\ editors'[c].task.step # "publish"
                    /\ edition'[f] # edition[f]) => shown'[f] = editor.doc]_editVars
  <2>1. CASE UNCHANGED editVars
    BY <2>1
  <2>2. CASE EditNext
    <3>1. ASSUME NEW c \in Client, NEW f \in Floor, f = editors[c].task.floor,
                 editors[c].task.step = "publish",
                 editors[c].task.saved, editors[c].task.quiet,
                 edition'[f] # edition[f]
          PROVE  shown'[f] = editors[c].doc
      <4>1. shown'[f] = working[f]
        BY <1>1, <2>2, <3>1, EditionsMove
      <4>2. working[f] = editors[c].doc
        BY <1>1, <3>1, EditorKept DEF DraftReady
      <4>. QED
        BY <4>1, <4>2
    <3>2. \A c \in Client : editors[c].task.floor \in Floor
      BY <1>1, EditorKept DEF Editor, Task
    <3>. QED
      BY <3>1, <3>2
  <2>. QED
    BY <1>1, <2>1, <2>2
<1>. QED
  BY <1>1, EditInvariantAlways, PTL DEF EditSpec, PublishesWhatIsDrawn

\* What a step makes of the editor that acts, and that others keep their mode.
LEMMA ActorMoves ==
    ASSUME EditInvariant, NEW c \in Client, NEW next,
           Becomes(c, next) \/ \E f \in Floor : Writes(c, next, f)
    PROVE  /\ editors'[c] = next
           /\ \A d \in Client : d # c => editors'[d].mode = editors[d].mode
<1>1. editors \in [Client -> Editor]
  BY DEF EditInvariant
<1>2. CASE Becomes(c, next)
  BY <1>1, <1>2 DEF Becomes
<1>3. ASSUME NEW f \in Floor, Writes(c, next, f)
      PROVE  /\ editors'[c] = next
             /\ \A d \in Client : d # c => editors'[d].mode = editors[d].mode
  <2>1. editors'[c] = next
    BY <1>3 DEF Writes
  <2>2. ASSUME NEW d \in Client, d # c PROVE editors'[d].mode = editors[d].mode
    <3>1. editors[d] \in Editor
      BY <1>1
    <3>2. [editors[d] EXCEPT !.task.quiet = FALSE].mode = editors[d].mode
      BY <3>1 DEF Editor
    <3>3. editors'[d] \in {editors[d], [editors[d] EXCEPT !.task.quiet = FALSE]}
      BY <1>3, <2>2 DEF Writes
    <3>. QED
      BY <3>2, <3>3
  <2>. QED
    BY <2>1, <2>2
<1>. QED
  BY <1>2, <1>3

\* A switch of modes is under way, and the user has not left the canvas yet.
Leaving(c) ==
    /\ editors[c].mode = "canvas"
    /\ editors[c].task.goal \in {"preview", "json"}

\* The canvas stays, or the switch goes on.
Stays(c) ==
    \/ editors'[c].mode = editors[c].mode
    \/ editors'[c].task.goal = editors[c].task.goal

\* The steps of the user do not end a switch, and others have no part in it.
LEMMA UserStays ==
    ASSUME EditInvariant, NEW c \in Client, NEW d \in Client, UserAction(d), Leaving(c)
    PROVE  Stays(c)
<1>1. PICK editor : editor = editors[d]
  OBVIOUS
<1>2. editor \in Editor /\ editor.floor \in Floor
  BY <1>1, EditorKept DEF Editor
<1>3. ASSUME NEW next, NEW f \in Floor, Becomes(d, next) \/ Writes(d, next, f),
             next.mode = editor.mode \/ c # d
      PROVE  Stays(c)
  BY <1>1, <1>3, ActorMoves DEF Stays
<1>4. ASSUME NEW goal, Free(d, goal) PROVE c # d
  BY <1>4 DEF Free, Leaving
<1>5. ASSUME NEW e \in Edit, Draw(d, e) PROVE Stays(c)
  <2>1. PICK next :
            next = [editor EXCEPT !.doc = @ \cup {e}, !.unsaved = @ \cup {e},
                                  !.dirty = TRUE, !.failed = @ /\ editor.dirty,
                                  !.armed = TRUE, !.missed = FALSE,
                                  !.task.quiet = FALSE]
    OBVIOUS
  <2>2. Becomes(d, next)
    BY <1>1, <1>5, <2>1 DEF Draw
  <2>3. next.mode = editor.mode
    BY <1>2, <2>1 DEF Editor
  <2>. QED
    BY <1>2, <1>3, <2>2, <2>3
<1>6. CASE Reset(d)
  <2>1. Becomes(d, Drawn(editor))
    BY <1>1, <1>6 DEF Reset
  <2>. QED
    BY <1>2, <1>3, <2>1, DrawnFields
<1>7. CASE Save(d)
  <2>1. Becomes(d, Saving(editor, SlowPreview)) /\ editor.saving = {}
    BY <1>1, <1>7 DEF Save, MustSave, SaveUnderWay
  <2>2. Saving(editor, SlowPreview).mode = editor.mode
    BY <1>2, <2>1, SavingFields, EditAssumption
  <2>. QED
    BY <1>2, <1>3, <2>1, <2>2
<1>8. CASE SwitchToCanvas(d)
  BY <1>2, <1>3, <1>4, <1>8 DEF SwitchToCanvas
<1>9. ASSUME NEW mode \in {"preview", "json"}, SwitchFrom(d, mode) PROVE Stays(c)
  BY <1>2, <1>3, <1>4, <1>9 DEF SwitchFrom
<1>10. CASE Publish(d)
  BY <1>2, <1>3, <1>4, <1>10 DEF Publish
<1>11. ASSUME NEW heard \in BOOLEAN, NEW goal \in {"blank", "import"},
              Replace(d, goal, heard)
       PROVE  Stays(c)
  BY <1>1, <1>2, <1>3, <1>4, <1>11 DEF Replace
<1>12. ASSUME NEW heard \in BOOLEAN, Discard(d, heard) PROVE Stays(c)
  BY <1>1, <1>2, <1>3, <1>4, <1>12 DEF Discard
<1>13. ASSUME NEW heard \in BOOLEAN, Restore(d, heard) PROVE Stays(c)
  BY <1>1, <1>2, <1>3, <1>4, <1>13 DEF Restore
<1>14. CASE Refresh(d)
  <2>1. PICK armed \in {editor.armed, editor.dirty} :
            Becomes(d, Loading([editor EXCEPT !.armed = armed], editor.floor, TRUE, "free"))
    BY <1>1, <1>14 DEF Refresh
  <2>2. PICK restarted : restarted = [editor EXCEPT !.armed = armed]
    OBVIOUS
  <2>3. restarted \in Editor /\ restarted.mode = editor.mode
    BY <1>2, <2>1, <2>2 DEF Editor
  <2>4. Loading(restarted, editor.floor, TRUE, "free").mode = editor.mode
    BY <1>2, <2>3, LoadingFields
  <2>. QED
    BY <1>2, <1>3, <2>1, <2>2, <2>4
<1>15. ASSUME NEW f \in Floor, SelectFloor(d, f) PROVE Stays(c)
  <2>1. PICK selected : selected = Selected(editor, f)
    OBVIOUS
  <2>2. Becomes(d, Loading(selected, f, TRUE, "stay"))
    BY <1>1, <1>15, <2>1 DEF SelectFloor
  <2>3. selected \in Editor /\ selected.mode = editor.mode
    BY <1>2, <2>1, SelectedFields
  <2>4. Loading(selected, f, TRUE, "stay").mode = editor.mode
    BY <2>3, LoadingFields
  <2>. QED
    BY <1>3, <2>2, <2>4
<1>16. CASE Leave(d)
  BY <1>2, <1>3, <1>4, <1>16 DEF Leave
<1>. QED
  BY <1>5, <1>6, <1>7, <1>8, <1>9, <1>10, <1>11, <1>12, <1>13, <1>14, <1>15, <1>16
     DEF UserAction

\* A load that arrives may close the canvas but ends no switch.
LEMMA DeliverStays ==
    ASSUME EditInvariant, NEW c \in Client, NEW d \in Client,
           NEW load \in editors[d].loads, NEW fails \in BOOLEAN,
           LoadDeliver(d, load, fails)
    PROVE  Stays(c)
<1>1. PICK before : before = editors[d]
  OBVIOUS
<1>2. before \in Editor /\ load \in Load
  BY <1>1, EditorKept DEF Editor
<1>3. PICK loads : loads = before.loads \ {load}
  OBVIOUS
<1>4. PICK editor : editor = [before EXCEPT !.loads = loads, !.busy = FALSE]
  OBVIOUS
<1>5. editor = [before EXCEPT !.loads = @ \ {load}, !.busy = FALSE]
  BY <1>2, <1>3, <1>4 DEF Editor
<1>6. loads \in SUBSET Load
  BY <1>2, <1>3 DEF Editor
<1>7. editor \in Editor /\ editor.task = before.task
  BY <1>2, <1>4, <1>6 DEF Editor
<1>8. PICK got : got = IF fails THEN NoMapYet(load.floor) ELSE load.answer
  OBVIOUS
<1>9. got \in LayoutProp
  BY <1>2, <1>8, LoadFields DEF Load
<1>10. PICK loaded :
           loaded = IF got.status = "none" /\ ~load.refreshPreview THEN editor
                    ELSE SetLayout(editor, got)
  OBVIOUS
<1>11. Becomes(d, CASE load.then # "canvas" -> loaded
                    [] load.then = "canvas" /\ ~loaded.isLockedByOther ->
                          InMode(loaded, "canvas")
                    [] OTHER -> InMode(loaded, "preview"))
  BY <1>1, <1>5, <1>8, <1>10 DEF LoadDeliver
<1>12. loaded \in Editor /\ loaded.task.goal = editor.task.goal
  <2>1. PICK overtaken \in BOOLEAN : overtaken = (got.floor # editor.floor)
    OBVIOUS
  <2>2. PICK moved : moved = [editor EXCEPT !.layout = got, !.overtaken = overtaken]
    OBVIOUS
  <2>3. moved \in Editor /\ moved.task = editor.task
    BY <1>7, <1>9, <2>2 DEF Editor
  <2>4. Drawn(moved) \in Editor /\ Drawn(moved).task.goal = moved.task.goal
    BY <2>3, DrawnFields DEF SameTask
  <2>5. loaded \in {editor, Drawn(moved)}
    BY <1>10, <2>1, <2>2 DEF SetLayout
  <2>. QED
    BY <1>7, <2>3, <2>4, <2>5
<1>13. PICK next : /\ Becomes(d, next)
                   /\ next \in {loaded, InMode(loaded, "canvas"), InMode(loaded, "preview")}
  BY <1>11
<1>14. next.task.goal = loaded.task.goal
  <2>1. InMode(loaded, "canvas").task.goal = loaded.task.goal
    BY <1>12, InModeFields DEF SameTask
  <2>2. InMode(loaded, "preview").task.goal = loaded.task.goal
    BY <1>12, InModeFields DEF SameTask
  <2>. QED
    BY <1>13, <2>1, <2>2
<1>. QED
  BY <1>1, <1>7, <1>12, <1>13, <1>14, ActorMoves DEF Stays

\* So only the answer to a save or to an unlock ends a switch.
LEMMA BrowserStays ==
    ASSUME EditInvariant, NEW c \in Client, NEW d \in Client, BrowserAction(d), Leaving(c)
    PROVE  \/ Stays(c)
           \/ \E fate \in Fate : SaveAnswer(c, fate) \/ UnlockAnswer(c, fate)
<1>1. PICK editor : editor = editors[d]
  OBVIOUS
<1>2. editor \in Editor /\ <<editor.task.goal, editor.task.step>> \in TaskSteps
  BY <1>1, EditorKept DEF WellFormed
<1>3. ASSUME NEW next, (\E f \in Floor : Writes(d, next, f)) \/ Becomes(d, next),
             \/ c # d
             \/ next.mode = editor.mode
             \/ next.task.goal = editor.task.goal
      PROVE  Stays(c)
  BY <1>1, <1>3, ActorMoves DEF Stays
<1>4. CASE Autosave(d)
  <2>1. PICK rested : rested = [editor EXCEPT !.armed = FALSE]
    OBVIOUS
  <2>2. PICK missed : missed = [editor EXCEPT !.armed = FALSE, !.missed = editor.rendering]
    OBVIOUS
  <2>3. /\ rested \in Editor /\ rested.mode = editor.mode /\ rested.saving = editor.saving
        /\ missed.mode = editor.mode
    BY <1>2, <2>1, <2>2 DEF Editor
  <2>4. CASE MustSave(editor)
    <3>1. Becomes(d, Saving(rested, FALSE)) /\ rested.saving = {}
      BY <1>1, <1>4, <2>1, <2>3, <2>4 DEF Autosave, MustSave, SaveUnderWay
    <3>2. Saving(rested, FALSE).mode = rested.mode
      BY <2>3, <3>1, SavingFields
    <3>. QED
      BY <1>3, <2>3, <3>1, <3>2
  <2>5. CASE ~MustSave(editor)
    <3>1. Becomes(d, missed)
      BY <1>1, <1>4, <2>2, <2>5 DEF Autosave
    <3>. QED
      BY <1>3, <2>3, <3>1
  <2>. QED
    BY <2>4, <2>5
<1>5. CASE PreviewAnswer(d)
  <2>1. Becomes(d, [editor EXCEPT !.rendering = FALSE])
    BY <1>1, <1>5 DEF PreviewAnswer
  <2>2. [editor EXCEPT !.rendering = FALSE].mode = editor.mode
    BY <1>2 DEF Editor
  <2>. QED
    BY <1>3, <2>1, <2>2
<1>6. ASSUME NEW fate \in Fate, SaveAnswer(d, fate), c # d PROVE Stays(c)
  <2>1. \E next : (\E f \in Floor : Writes(d, next, f)) \/ Becomes(d, next)
    <3>1. \A req \in editor.saving : req.floor \in Floor
      BY <1>2 DEF Editor, SaveRequest
    <3>. QED
      BY <1>1, <1>6, <3>1 DEF SaveAnswer
  <2>. QED
    BY <1>3, <1>6, <2>1
<1>7. ASSUME NEW fate \in Fate, UnlockAnswer(d, fate), c # d PROVE Stays(c)
  <2>1. \E next : Becomes(d, next)
    BY <1>7 DEF UnlockAnswer
  <2>. QED
    BY <1>3, <1>7, <2>1
<1>8. ASSUME NEW fate \in Fate, LockAnswer(d, fate) PROVE Stays(c)
  <2>1. \E next : Becomes(d, next)
    BY <1>8 DEF LockAnswer
  <2>2. editor.task.step = "lock"
    BY <1>1, <1>8 DEF LockAnswer
  <2>3. c # d
    BY <1>1, <1>2, <2>2 DEF Leaving, TaskSteps
  <2>. QED
    BY <1>3, <2>1, <2>3
<1>9. ASSUME NEW fate \in Fate, PublishAnswer(d, fate) PROVE Stays(c)
  <2>1. editor.task.step = "publish" /\ editor.task.floor \in Floor
    BY <1>1, <1>2, <1>9 DEF PublishAnswer, Editor, Task
  <2>2. \E next : (\E f \in Floor : Writes(d, next, f)) \/ Becomes(d, next)
    BY <1>1, <1>9, <2>1 DEF PublishAnswer
  <2>3. c # d
    BY <1>1, <1>2, <2>1 DEF Leaving, TaskSteps
  <2>. QED
    BY <1>3, <2>2, <2>3
<1>10. ASSUME NEW load \in editors[d].loads, LoadExecute(d, load) PROVE Stays(c)
  <2>1. PICK loads : Becomes(d, [editor EXCEPT !.loads = loads])
    BY <1>1, <1>2, <1>10 DEF LoadExecute, Editor
  <2>2. [editor EXCEPT !.loads = loads].mode = editor.mode
    BY <1>2 DEF Editor
  <2>. QED
    BY <1>3, <2>1, <2>2
<1>11. CASE Learn(d)
  <2>1. PICK other \in BOOLEAN : other = (locks[editor.floor] \notin {NoClient, d})
    OBVIOUS
  <2>2. PICK told : told = [editor EXCEPT !.isLockedByOther = other]
    OBVIOUS
  <2>3. told \in Editor /\ told.task = editor.task
    BY <1>2, <2>2 DEF Editor
  <2>4. Becomes(d, IF other /\ editor.mode = "canvas" THEN InMode(told, "preview") ELSE told)
    BY <1>1, <1>11, <2>1, <2>2 DEF Learn
  <2>5. InMode(told, "preview").task.goal = told.task.goal
    BY <2>3, InModeFields DEF SameTask
  <2>. QED
    BY <1>3, <2>3, <2>4, <2>5
<1>. QED
  BY <1>4, <1>5, <1>6, <1>7, <1>8, <1>9, <1>10, <1>11, DeliverStays DEF BrowserAction

\* The answer to a save leaves the mode and the task to what follows.
LEMMA AcknowledgedMode ==
    ASSUME NEW editor \in Editor, NEW req \in SaveRequest, NEW ok \in BOOLEAN,
           NEW heard, heard = Acknowledged(editor, req, ok)
    PROVE  heard \in Editor /\ heard.mode = editor.mode /\ heard.task = editor.task
BY AcknowledgedFields

\* A save that ends a quiet switch put everything that was drawn into the draft.
LEMMA SaveLeaves ==
    ASSUME EditInvariant, NEW c \in Client, NEW fate \in Fate, SaveAnswer(c, fate),
           editors[c].task.quiet, Leaving(c), editors'[c].mode # editors[c].mode
    PROVE  /\ working'[editors[c].task.floor] # NoLayout
           /\ editors[c].unsaved \subseteq working'[editors[c].task.floor]
<1>1. PICK editor : editor = editors[c]
  OBVIOUS
<1>2. /\ editor \in Editor /\ Kept(editor) /\ StoreTyped /\ editor.task.saved
      /\ editor.unsaved \subseteq editor.doc
  BY <1>1, EditorKept DEF QuietTask, Leaving, WellFormed
<1>3. PICK req \in editor.saving :
          LET f == req.floor
              stored == fate # "unsent" /\ Accepts(f, req.version)
              ok == stored /\ fate = "answered"
              heard == Acknowledged(editor, req, ok)
              next == CASE heard.task.step = "save" /\ ok -> AfterSave(heard)
                        [] heard.task.step = "save" /\ ~ok ->
                              [heard EXCEPT !.task = NoTask(heard.floor)]
                        [] OTHER -> heard
          IN  IF stored THEN Write(f, req.doc) /\ Writes(c, next, f)
              ELSE Unwritten /\ Becomes(c, next)
  BY <1>1 DEF SaveAnswer
<1>4. PICK stored \in BOOLEAN :
          stored = (fate # "unsent" /\ Accepts(req.floor, req.version))
  OBVIOUS
<1>5. PICK ok \in BOOLEAN : ok = (stored /\ fate = "answered")
  OBVIOUS
<1>6. PICK next : next = Answered(editor, req, ok)
  OBVIOUS
<1>7. IF stored THEN Write(req.floor, req.doc) /\ Writes(c, next, req.floor)
      ELSE Unwritten /\ Becomes(c, next)
  BY <1>3, <1>4, <1>5, <1>6 DEF Answered
<1>8. req \in SaveRequest /\ req.floor \in Floor /\ req.doc \in Layout
  BY <1>2 DEF Editor, SaveRequest
<1>9. editors'[c] = next
  BY <1>7, <1>8, ActorMoves
<1>10. PICK heard : heard = Acknowledged(editor, req, ok)
  OBVIOUS
<1>11. heard \in Editor /\ heard.mode = editor.mode /\ heard.task = editor.task
  BY <1>2, <1>8, <1>10, AcknowledgedMode
<1>12. editor.task.step = "save" /\ ok
  <2>1. next.mode # heard.mode
    BY <1>1, <1>9, <1>11
  <2>2. heard.floor \in Floor
    BY <1>11 DEF Editor
  <2>3. [heard EXCEPT !.task = NoTask(heard.floor)].mode = heard.mode
    BY <1>11 DEF Editor
  <2>. QED
    BY <1>6, <1>10, <1>11, <2>1, <2>3 DEF Answered
<1>13. req.floor = editor.task.floor /\ req.doc = editor.doc
  BY <1>1, <1>2, <1>12, QuietSaved
<1>14. Write(req.floor, req.doc)
  BY <1>5, <1>7, <1>12
<1>15. working'[req.floor] = req.doc
  BY <1>2, <1>8, <1>14 DEF Write, StoreTyped
<1>. QED
  BY <1>1, <1>2, <1>8, <1>13, <1>15, EditAssumption

\* Leaving the canvas by a mode button loses nothing that was drawn
\* (EditSession.LeavingKeepsWork; switchMode and saveIfDirty).
THEOREM LeavingAlwaysKeepsWork == EditSpec => LeavingKeepsWork
<1>1. ASSUME EditInvariant, [EditNext]_editVars
      PROVE  [\A c \in Client :
                LET editor == editors[c]
                    f == editor.task.floor
                IN (/\ editor.mode = "canvas"
                    /\ editor.task.goal \in {"preview", "json"}
                    /\ editor.task.quiet
                    /\ editors'[c].mode = editor.task.goal
                    /\ editors'[c].task.goal = "none") =>
                      \/ editor.unsaved = {}
                      \/ working'[f] # NoLayout /\ editor.unsaved \subseteq working'[f]]_editVars
  <2>1. CASE UNCHANGED editVars
    BY <2>1
  <2>2. CASE EditNext
    <3>1. ASSUME NEW c \in Client, Leaving(c), editors[c].task.quiet,
                 editors'[c].mode = editors[c].task.goal,
                 editors'[c].task.goal = "none"
          PROVE  \/ editors[c].unsaved = {}
                 \/ /\ working'[editors[c].task.floor] # NoLayout
                    /\ editors[c].unsaved \subseteq working'[editors[c].task.floor]
      <4>1. ~Stays(c) /\ editors'[c].mode # editors[c].mode
        BY <3>1 DEF Leaving, Stays
      <4>2. ~(\E f \in Floor : Expire(f))
        BY <4>1 DEF Expire, Stays
      <4>3. \E fate \in Fate : SaveAnswer(c, fate) \/ UnlockAnswer(c, fate)
        BY <1>1, <2>2, <3>1, <4>1, <4>2, UserStays, BrowserStays DEF EditNext
      <4>4. ASSUME NEW fate \in Fate, UnlockAnswer(c, fate)
            PROVE  editors[c].unsaved = {}
        <5>1. editors[c].task.step = "unlock" /\ QuietTask(editors[c])
          BY <1>1, <4>4, EditorKept DEF UnlockAnswer
        <5>. QED
          BY <3>1, <5>1 DEF QuietTask, Leaving
      <4>. QED
        BY <1>1, <3>1, <4>1, <4>3, <4>4, SaveLeaves
    <3>. QED
      BY <3>1 DEF Leaving
  <2>. QED
    BY <1>1, <2>1, <2>2
<1>. QED
  BY <1>1, EditInvariantAlways, PTL DEF EditSpec, LeavingKeepsWork

\* What a user and a browser do to the maps of a floor is one step of the store.
LEMMA StepsOfStore ==
    ASSUME EditInvariant, NEW c \in Client, UserAction(c) \/ BrowserAction(c)
    PROVE  [Next]_vars
<1>1. /\ StoreTyped /\ editors[c] \in Editor /\ WellFormed(editors[c])
      /\ editors[c].floor \in Floor /\ editors[c].task.floor \in Floor
  BY EditorKept DEF Editor, Task
<1>2. ASSUME NEW f \in Floor, NEW layout \in Layout, Write(f, layout) PROVE [Next]_vars
  BY <1>2 DEF Next
<1>3. CASE Unwritten
  BY <1>3 DEF Unwritten
<1>4. CASE UNCHANGED vars
  BY <1>4
<1>5. ASSUME NEW fate \in Fate, SaveAnswer(c, fate) PROVE [Next]_vars
  <2>1. PICK req \in editors[c].saving : Write(req.floor, req.doc) \/ Unwritten
    BY <1>5 DEF SaveAnswer
  <2>2. req.floor \in Floor /\ req.doc \in Layout
    BY <1>1, <2>1 DEF Editor, SaveRequest
  <2>. QED
    BY <1>2, <1>3, <2>1, <2>2
<1>6. ASSUME NEW fate \in Fate, PublishAnswer(c, fate) PROVE [Next]_vars
  <2>1. Issue(editors[c].task.floor) \/ Unwritten
    BY <1>6 DEF PublishAnswer
  <2>. QED
    BY <1>1, <1>3, <2>1 DEF Next
<1>7. ASSUME NEW goal \in {"blank", "import"}, NEW heard \in BOOLEAN, Replace(c, goal, heard)
      PROVE  [Next]_vars
  <2>1. Write(editors[c].floor, {})
    BY <1>7 DEF Replace
  <2>. QED
    BY <1>1, <1>2, <2>1, EditAssumption
<1>8. ASSUME NEW heard \in BOOLEAN, Discard(c, heard) PROVE [Next]_vars
  <2>1. Drop(editors[c].floor)
    BY <1>8 DEF Discard
  <2>. QED
    BY <1>1, <2>1 DEF Next
<1>9. ASSUME NEW heard \in BOOLEAN, Restore(c, heard) PROVE [Next]_vars
  <2>1. /\ Write(editors[c].floor, shown[editors[c].floor])
        /\ shown[editors[c].floor] # NoLayout
    BY <1>9 DEF Restore
  <2>2. shown[editors[c].floor] \in Layout
    BY <1>1, <2>1 DEF StoreTyped
  <2>. QED
    BY <1>1, <1>2, <2>1, <2>2
<1>10. CASE UserAction(c)
  BY <1>4, <1>7, <1>8, <1>9, <1>10
     DEF UserAction, Draw, Reset, Save, SwitchToCanvas, SwitchFrom, Publish, Refresh,
         SelectFloor, Leave
<1>11. CASE BrowserAction(c)
  BY <1>3, <1>4, <1>5, <1>6, <1>11
     DEF BrowserAction, Autosave, PreviewAnswer, LockAnswer, UnlockAnswer, LoadExecute,
         LoadDeliver, Learn
<1>. QED
  BY <1>10, <1>11

\* The editors drive the store only in the ways it offers: every behaviour of the
\* editors is one of MapSlots, which FloorLayout implements, so what is proved of
\* the store's maps holds while any number of tabs edit them.
THEOREM EditorsUseStore == EditSpec => Spec
<1>1. EditInit => Init
  BY DEF EditInit
<1>2. EditInvariant /\ [EditNext]_editVars => [Next]_vars
  <2>1. SUFFICES ASSUME EditInvariant, [EditNext]_editVars PROVE [Next]_vars
    OBVIOUS
  <2>2. CASE UNCHANGED editVars
    BY <2>2 DEF editVars
  <2>3. CASE EditNext
    BY <2>1, <2>3, StepsOfStore DEF EditNext, Expire
  <2>. QED
    BY <2>1, <2>2, <2>3
<1>. QED
  BY <1>1, <1>2, EditInvariantAlways, PTL DEF EditSpec, Spec
=============================================================================
