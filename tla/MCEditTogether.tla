--------------------------- MODULE MCEditTogether ---------------------------
(***************************************************************************)
(* Two instances of EditSession in one run: several tabs that draw and     *)
(* publish one floor, or one tab that goes back and forth between the      *)
(* floors.  A behaviour keeps to the setting it begins in, which the floor *)
(* tells that the tabs but the first begin on.                             *)
(***************************************************************************)
EXTENDS MCEditSession

Home == CHOOSE f \in Floor : TRUE
First == CHOOSE c \in Client : TRUE
Others == Client \ {First}
OneEdit == {CHOOSE e \in Edit : TRUE}

OnOneFloor == \A c \in Others : editors[c].floor = Home

\* A tab that is closed begins anew on the floor it has selected, so it need begin
\* on one of the floors only, and on one that shows a map only if all of them do.
TogetherInit ==
    /\ EditInit
    /\ editors[First].floor = Home
    /\ \/ OnOneFloor /\ \A f \in Floor \ {Home} : shown[f] = NoLayout
       \/ /\ \A c \in Others : editors[c].floor # Home
          /\ shown[Home] = NoLayout \/ NoLayout \notin {shown[f] : f \in Floor}

Draws(c) ==
    \/ \E e \in Edit : Draw(c, e)
    \/ Save(c)
    \/ SwitchToCanvas(c)
    \/ Publish(c)
    \/ BrowserAction(c)

TogetherNext ==
    \/ Draws(First) \/ Reset(First) \/ Refresh(First) \/ Leave(First)
    \/ \E f \in Floor : SelectFloor(First, f)
    \/ OnOneFloor /\ \E c \in Others : Draws(c)
    \/ \E f \in Floor : Expire(f)

TogetherSpec == TogetherInit /\ [][TogetherNext]_editVars

\* The tabs publish what they draw, and stay on the one floor.
DrawTogether ==
    /\ editors'[First].floor = Home
    /\ \A c \in Client : Cardinality(editors'[c].loads) <= 1
    /\ ~Reset(First) /\ ~Refresh(First) /\ ~Leave(First)

\* The first tab draws and changes floors, with what may come in between.
GoBackAndForth ==
    /\ editors'[First].doc \subseteq OneEdit
    /\ editors'[First].task.goal # "publish"

KeepsSetting == IF OnOneFloor THEN DrawTogether ELSE GoBackAndForth

\* What the other editors and SaveKeepsPublished notice of an editor.  Autosave does
\* what Save may do at any time, and the rest is display and history.
Noticed(editor) ==
    [floor |-> editor.floor, mode |-> editor.mode, layout |-> editor.layout,
     doc |-> editor.doc, dirty |-> editor.dirty, saving |-> editor.saving,
     rendering |-> editor.rendering, busy |-> editor.busy, orphan |-> editor.orphan,
     goal |-> editor.task.goal, step |-> editor.task.step, loads |-> editor.loads,
     isLockedByOther |-> editor.isLockedByOther, overtaken |-> editor.overtaken]

\* A lock matters only to another tab than its holder's.
StoreLocksAndEditors ==
    <<vars, IF OnOneFloor THEN locks ELSE << >>, [c \in Client |-> Noticed(editors[c])]>>
=============================================================================
