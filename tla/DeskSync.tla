------------------------------ MODULE DeskSync ------------------------------
(***************************************************************************)
(* The rows of one floor in the table desks: how syncDesksTx matches them  *)
(* with the workplaces of a layout (internal/store/layouts.go), and what   *)
(* PATCH and DELETE /desks/{id} do meanwhile (internal/store/desks.go).    *)
(*                                                                         *)
(* Two synchronisations of a floor wait for each other: the transaction    *)
(* holds the floor row.  The endpoints of a single desk hold nothing, so   *)
(* they run between the statements of the synchronisation, but for a row   *)
(* it has written: that row is locked, or not visible yet, until the       *)
(* commit.  A transaction that is rolled back did not happen.              *)
(*                                                                         *)
(* A row stands for its qr_token, which is given once, with the row, and   *)
(* is what a printed code leads to.  Type, person and place of a desk are  *)
(* written whenever the row is, and decide nothing; labels are compared    *)
(* without the blanks around them, and are kept here without them.         *)
(***************************************************************************)
EXTENDS Integers, Sequences, FiniteSets

CONSTANTS Row,        \* desk ids (a serial column: never reused)
          Label,      \* labels that are not blank
          Form,       \* labels in upper case, without punctuation
          normal,     \* the form of each label
          Layouts,    \* the desks of the layouts that are synchronised from
          NoRow, NoLabel, NoForm, Free, Gone

Desk == [assetType: {"workplace", "other"}, label: Label \cup {NoLabel}]

ASSUME DeskAssumption ==
    /\ NoRow \notin Row
    /\ {NoLabel, Free, Gone} \cap Label = {}
    /\ NoLabel # Free /\ NoLabel # Gone /\ Free # Gone
    /\ NoForm \notin Form
    /\ normal \in [Label -> Form \cup {NoForm}]
    /\ Layouts \subseteq Seq(Desk)

VARIABLES rows,     \* the label of each row; Free before, Gone after its life
          sync,     \* the transaction of a synchronisation
          renamed   \* history: rows a PATCH has labelled, or whose label was
                    \* not the only one of its kind when the server started

vars == <<rows, sync, renamed>>

Idle == [step |-> "idle", layout |-> <<>>, cleanup |-> FALSE,
         existing |-> [r \in Row |-> Free], got |-> [l \in Label |-> NoRow],
         drawn |-> {}, removed |-> {}]

Transaction ==
    [step: {"idle", "desks"},
     layout: Seq(Desk),                    \* the desks that are still to do
     cleanup: BOOLEAN,
     existing: [Row -> Label \cup {NoLabel, Free, Gone}],   \* as it was listed
     got: [Label -> Row \cup {NoRow}],     \* seenLabels, and the row of each
     drawn: SUBSET Label,                  \* history: the layout's workplaces
     removed: SUBSET Row]                  \* history: deleted since it began

DeskTypeOK ==
    /\ rows \in [Row -> Label \cup {NoLabel, Free, Gone}]
    /\ sync \in Transaction
    /\ renamed \subseteq Row

-----------------------------------------------------------------------------
Live(r) == rows[r] \notin {Free, Gone}

\* The labels of a layout that get a row, in whatever order.
Workplaces(layout) ==
    {layout[i].label : i \in {j \in DOMAIN layout :
        layout[j].assetType = "workplace" /\ layout[j].label # NoLabel}}

Seen(l) == sync.got[l] # NoRow

\* Rows that desks of the layout have: those of usedExisting and the new ones.
Used == {sync.got[l] : l \in {k \in Label : Seen(k)}}

byExact(l) == {r \in Row : sync.existing[r] = l}

byNorm(l) ==
    {r \in Row : /\ sync.existing[r] \in Label
                 /\ normal[sync.existing[r]] = normal[l]
                 /\ normal[l] # NoForm}

\* A mutant of Candidates: usedExisting is not consulted.
CandidatesAgain(l) == IF byExact(l) # {} THEN byExact(l) ELSE byNorm(l)

\* A mutant of Candidates: the two maps are consulted in the other order.
CandidatesByForm(l) ==
    IF byNorm(l) \ Used # {} THEN byNorm(l) \ Used ELSE byExact(l) \ Used

\* A mutant of Candidates: labels are only compared by their forms.
CandidatesFormOnly(l) == byNorm(l) \ Used

\* pickUnused takes the first of these in the order they were listed in, which
\* the query leaves open.
Candidates(l) ==
    IF byExact(l) \ Used # {} THEN byExact(l) \ Used ELSE byNorm(l) \ Used

-----------------------------------------------------------------------------
\* Any table the server may start on: PATCH has always taken every label.
Init ==
    /\ rows \in [Row -> Label \cup {NoLabel, Free}]
    /\ sync = Idle
    /\ renamed = {r \in Row : /\ rows[r] \in Label
                             /\ \E q \in Row \ {r} : rows[q] = rows[r]}

\* Publish (which never cleans up) or POST /layout/sync-desks up to the list
\* of the floor's rows.
SyncBegin(layout, cleanup) ==
    /\ sync.step = "idle"
    /\ sync' = [Idle EXCEPT !.step = "desks", !.layout = layout,
                            !.cleanup = cleanup, !.existing = rows,
                            !.drawn = Workplaces(layout)]
    /\ UNCHANGED <<rows, renamed>>

Matched(l, r) ==
    [sync EXCEPT !.layout = Tail(sync.layout), !.got[l] = r]

\* The workplace whose turn it is: its label is new in this layout.
Turn(l) ==
    /\ sync.step = "desks"
    /\ sync.layout # <<>>
    /\ Head(sync.layout) = [assetType |-> "workplace", label |-> l]
    /\ ~Seen(l)

\* Decoration, a desk without a label, or the second one with its label.
SkipDesk ==
    /\ sync.step = "desks"
    /\ sync.layout # <<>>
    /\ \A l \in Label : ~Turn(l)
    /\ sync' = [sync EXCEPT !.layout = Tail(sync.layout)]
    /\ UNCHANGED <<rows, renamed>>

\* UpdateDeskForSync does not ask whether its row is still there.
UpdateDeskForSync(l, r) ==
    /\ Turn(l)
    /\ r \in Candidates(l)
    /\ rows' = IF Live(r) THEN [rows EXCEPT ![r] = l] ELSE rows
    /\ sync' = Matched(l, r)
    /\ UNCHANGED renamed

InsertDeskForSync(l, r) ==
    /\ Turn(l)
    /\ Candidates(l) = {}
    /\ rows[r] = Free
    /\ rows' = [rows EXCEPT ![r] = l]
    /\ sync' = Matched(l, r)
    /\ UNCHANGED renamed

\* UnmatchedIDs: what was listed and belongs to no desk.
Unmatched == {r \in Row : sync.existing[r] \notin {Free, Gone} /\ r \notin Used}

\* The clean-up, if it was asked for, and the commit.
SyncEnd ==
    /\ sync.step = "desks"
    /\ sync.layout = <<>>
    /\ rows' = [r \in Row |-> IF sync.cleanup /\ r \in Unmatched THEN Gone ELSE rows[r]]
    /\ sync' = Idle
    /\ UNCHANGED renamed

\* PATCH /desks/{id} with a label; every other field is left to the database.
UpdateDesk(r, l) ==
    /\ Live(r)
    /\ r \notin Used
    /\ rows' = [rows EXCEPT ![r] = l]
    /\ renamed' = renamed \cup {r}
    /\ UNCHANGED sync

\* DELETE /desks/{id}
DeleteDesk(r) ==
    /\ Live(r)
    /\ r \notin Used
    /\ rows' = [rows EXCEPT ![r] = Gone]
    /\ sync' = [sync EXCEPT !.removed = IF sync.step = "idle" THEN {} ELSE @ \cup {r}]
    /\ UNCHANGED renamed

Next ==
    \/ \E layout \in Layouts, cleanup \in BOOLEAN : SyncBegin(layout, cleanup)
    \/ SkipDesk
    \/ \E l \in Label, r \in Row : UpdateDeskForSync(l, r) \/ InsertDeskForSync(l, r)
    \/ SyncEnd
    \/ \E r \in Row, l \in Label \cup {NoLabel} : UpdateDesk(r, l)
    \/ \E r \in Row : DeleteDesk(r)

Spec == Init /\ [][Next]_vars

-----------------------------------------------------------------------------
\* Nothing in the schema forbids two rows of a floor with one label, and yet no
\* synchronisation makes a second one, whatever spellings of a label it meets
\* and whatever PATCH and DELETE do between its statements: of two rows with
\* one label, a PATCH has labelled one, or they were there from the start.
LabelsDistinct ==
    \A r, q \in Row : r # q /\ rows[r] = rows[q] /\ rows[r] \in Label =>
        r \in renamed \/ q \in renamed

\* A desk that is drawn under the label of a row keeps that row, and with it
\* the code on the table, however the layout is ordered and whoever else is
\* drawn, with one exception: the layout has another spelling of the label for
\* which there was no row.  Where all labels had rows nothing is renamed.
KeepsItsDesk ==
    \A l \in Label : Seen(l) /\ byExact(l) # {} =>
        \/ sync.got[l] \in byExact(l)
        \/ \E k \in Label : /\ Seen(k)
                            /\ byExact(k) = {}
                            /\ normal[k] = normal[l] /\ normal[l] # NoForm

\* When a synchronisation ends, every label that is drawn has a row of its own,
\* unless DELETE took the row from under it; after a clean-up there are no
\* other rows, and no two with one label, whatever was there before.
Mirrored ==
    [][sync.step = "desks" /\ sync'.step = "idle" =>
         LET live == {r \in Row : rows'[r] \notin {Free, Gone}}
             kept == {l \in sync.drawn : sync.got[l] \notin sync.removed}
         IN  /\ \A l \in kept : \E r \in live : rows'[r] = l
             /\ sync.cleanup =>
                  /\ \A r \in live : rows'[r] \in kept
                  /\ \A r, q \in live : rows'[r] = rows'[q] => r = q]_vars
=============================================================================
