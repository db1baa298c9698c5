----------------------------- MODULE AdminShell -----------------------------
(***************************************************************************)
(* The admin pages around the plan: the reference data of main.jsx, the    *)
(* page of buildings and floors (BuildingPanel.jsx) and the library of     *)
(* components (ComponentPanel.jsx) with its editor.                        *)
(*                                                                         *)
(* A handler is a call that awaits one request after another.  A request   *)
(* is carried out by the server in one step and answered in another; it    *)
(* may fail before or after, or find the session expired.  A call keeps    *)
(* what its closure saw, and goes on when its page is gone: then only what *)
(* it does to main.jsx counts.                                             *)
(***************************************************************************)
EXTENDS ComponentEditor

CONSTANTS MaxFloor,   \* floors that may exist, for checking; so are the
          MaxOffice,  \* offices,
          MaxCalls,   \* calls under way at once,
          MaxBegun,   \* calls begun and changes by others, alone
          MaxWork,    \* and together with steps in the editor,
          Pages,      \* and the pages used together
          Ids,        \* ids of components
          Stored,     \* what is stored under them at first
          Builtin     \* those of the system, which the client brings along

ASSUME ShellAssumption ==
    /\ {MaxFloor, MaxOffice, MaxCalls, MaxBegun, MaxWork} \subseteq Nat \ {0}
    /\ Builtin \subseteq Ids

Floors == 1..MaxFloor
Offices == 1..MaxOffice
Slots == 1..MaxCalls
None == 0
All == -1
NoComponent == [markup |-> << >>, box |-> NoBox, w |-> 0]
NoForm == [id |-> "none"]

VARIABLES server,    \* what is stored
          listed,    \* what main.jsx holds of it
          logged, tab, selected,
          building,  \* the page of buildings: what it is doing and editing
          form,      \* the component in the editor
          saving,    \* the library's busy flag
          calls,     \* the calls under way
          begun,     \* calls begun, for checking
          made,      \* history: the floors this page has made
          adrift,    \* history: the lists lack the floor in work, which was made
          pages      \* the pages of this behaviour

clientVars == <<listed, logged, tab, selected, building, form, saving, ed, touches>>
shellVars == <<server, clientVars, calls, begun, made, adrift, pages>>

Nothing == [offices |-> {}, floors |-> {}, home |-> [f \in Floors |-> None],
            comps |-> [c \in Ids |-> NoComponent]]
Idle == [at |-> "none"]
AtRest == [acting |-> [what |-> "none", n |-> None], office |-> None, floor |-> None]
Closed == Opened(<< >>, NoBox)

Calling(i) == calls[i] # Idle

\* A call that sends a first request: at names it, arg is what it is about.
Call(at, arg) ==
    [at |-> at, arg |-> arg, comp |-> NoComponent, id |-> "none", system |-> FALSE, first |-> FALSE,
     sel |-> None, floors |-> {}, new |-> None, got |-> "sent", data |-> Nothing, mine |-> TRUE]

\* Floors and components may be stored already, where the pages used tell it.
\* With a token in the browser's storage the lists are on their way.
Init ==
    /\ pages \in Pages
    /\ \E floors \in {{1}, {1, 2}} \cap SUBSET Floors, stored \in Stored :
          /\ "buildings" \in pages \/ floors = {1}
          /\ "components" \in pages \/ stored = NoComponent
          /\ server = [offices |-> {1}, floors |-> floors,
                       home |-> [f \in Floors |-> IF f \in floors THEN 1 ELSE None],
                       comps |-> [c \in Ids |-> IF c \in Builtin THEN NoComponent ELSE stored]]
    /\ listed = Nothing /\ tab = "layout" /\ selected = None
    /\ logged \in BOOLEAN
    /\ building = AtRest /\ form = NoForm /\ saving = FALSE
    /\ calls = [i \in Slots |-> IF logged /\ i = 1 THEN Call("lists", None) ELSE Idle]
    /\ begun = 0 /\ made = {} /\ adrift = FALSE /\ ed = Closed /\ touches = 0

-----------------------------------------------------------------------------
(***************************************************************************)
(* Requests.  Only the client notices that a session has expired.          *)
(***************************************************************************)

\* The next request of a call; without a token it is turned down.
Then(c, at) == [c EXCEPT !.at = at, !.got = IF logged THEN "sent" ELSE "expired"]

\* The slots are alike: the first free one is taken.
Begin(i, call) ==
    /\ begun < MaxBegun /\ begun + touches < MaxWork /\ begun' = begun + 1
    /\ calls[i] = Idle /\ \A j \in 1..(i - 1) : calls[j] # Idle
    /\ calls' = [calls EXCEPT ![i] = call]
    /\ UNCHANGED <<server, made, adrift, pages>>

Done(i, c) == calls' = [calls EXCEPT ![i] = [c EXCEPT !.got = "ok"]]

\* The endpoints of offices and floors.  Deleting an office deletes its floors.
ServesBuildings(i, c) ==
    \/ /\ c.at = "office"
       /\ \E o \in Offices \ server.offices :
             /\ \A f \in Floors : server.home[f] # o
             /\ server' = [server EXCEPT !.offices = @ \cup {o}]
             /\ Done(i, [c EXCEPT !.arg = o])
    \/ /\ c.at = "floor" /\ c.arg \in server.offices
       /\ \E f \in Floors :
             /\ server.home[f] = None /\ \A g \in 1..(f - 1) : server.home[g] # None
             /\ server' = [server EXCEPT !.floors = @ \cup {f}, !.home[f] = c.arg]
             /\ Done(i, [c EXCEPT !.new = f])
    \/ /\ \/ c.at = "rename floor" /\ c.arg \in server.floors
          \/ c.at = "rename office" /\ c.arg \in server.offices
       /\ UNCHANGED server /\ Done(i, c)
    \/ /\ c.at = "delete floor" /\ c.arg \in server.floors
       /\ server' = [server EXCEPT !.floors = @ \ {c.arg}] /\ Done(i, c)
    \/ /\ c.at = "delete office" /\ c.arg \in server.offices
       /\ server' = [server EXCEPT !.offices = @ \ {c.arg},
                                   !.floors = {f \in @ : server.home[f] # c.arg}]
       /\ Done(i, c)

\* Those of the components: PUT inserts what is not there, POST refuses what is,
\* and the ids of the system.
ServesComponents(i, c) ==
    \/ c.at = "put" /\ server' = [server EXCEPT !.comps[c.id] = c.comp] /\ Done(i, c)
    \/ /\ c.at = "post" /\ c.id \notin Builtin /\ server.comps[c.id] = NoComponent
       /\ server' = [server EXCEPT !.comps[c.id] = c.comp] /\ Done(i, c)
    \/ /\ c.at = "delete component" /\ server.comps[c.id] # NoComponent
       /\ server' = [server EXCEPT !.comps[c.id] = NoComponent] /\ Done(i, c)

\* The server carries a request out; the three lists are read as one.
Executes(i) ==
    LET c == calls[i] IN
    /\ c # Idle /\ c.got = "sent"
    /\ \/ ServesBuildings(i, c)
       \/ ServesComponents(i, c)
       \/ c.at = "lists" /\ UNCHANGED server /\ Done(i, [c EXCEPT !.data = server])
    /\ UNCHANGED <<clientVars, begun, made, adrift, pages>>

\* Refused, lost on the way, or lost on the way back; or no longer allowed.
Fails(i) ==
    /\ calls[i] # Idle
    /\ \/ /\ calls[i].got \in {"sent", "ok"}
          /\ calls' = [calls EXCEPT ![i].got = "failed", ![i].data = Nothing]
       \/ calls[i].got = "sent" /\ calls' = [calls EXCEPT ![i].got = "expired"]
    /\ UNCHANGED <<server, clientVars, begun, made, adrift, pages>>

\* Another administrator.
OtherDeletesFloor ==
    /\ begun < MaxBegun /\ begun + touches < MaxWork /\ begun' = begun + 1
    /\ \E f \in server.floors : server' = [server EXCEPT !.floors = @ \ {f}]
    /\ UNCHANGED <<clientVars, calls, made, adrift, pages>>

-----------------------------------------------------------------------------
(***************************************************************************)
(* What main.jsx does                                                      *)
(***************************************************************************)

\* The pages go and come: their state with them, and the calls lose their page.
Unmounted(cs) == [i \in Slots |-> IF cs[i] = Idle THEN Idle ELSE [cs[i] EXCEPT !.mine = FALSE]]
ClosePages == building' = AtRest /\ form' = NoForm /\ ed' = Closed /\ saving' = FALSE

handleLogin(i) ==
    /\ ~logged /\ logged' = TRUE
    /\ Begin(i, Call("lists", None))
    /\ UNCHANGED <<listed, tab, selected, building, form, saving, ed, touches>>

handleLogout ==
    /\ logged /\ logged' = FALSE /\ ClosePages
    /\ calls' = Unmounted(calls)
    /\ UNCHANGED <<server, listed, tab, selected, touches, begun, made, adrift, pages>>

\* busyRef keeps it from running twice.  The busy that greys the button out is
\* left out: any load of the lists or the plan that ends clears it for all.
refreshAll(i) ==
    /\ logged
    /\ \A j \in Slots : Calling(j) => calls[j].arg # All
    /\ Begin(i, Call("lists", All))
    /\ UNCHANGED <<listed, logged, tab, selected, building, form, saving, ed, touches>>

PickTab(t) ==
    /\ logged /\ t # tab /\ t \in pages \cup {"layout"}
    /\ tab' = t /\ ClosePages /\ calls' = Unmounted(calls)
    /\ UNCHANGED <<server, listed, logged, selected, touches, begun, made, adrift, pages>>

SelectFloor(f) ==
    /\ logged /\ tab = "layout" /\ f \in listed.floors /\ f # selected
    /\ selected' = f /\ adrift' = FALSE
    /\ UNCHANGED <<server, listed, logged, tab, building, form, saving, ed, touches, calls,
                   begun, made, pages>>

\* The end of an async function: its page may do something again.
Finish(i) ==
    /\ calls' = [calls EXCEPT ![i] = Idle]
    /\ building' = IF calls[i].mine THEN [building EXCEPT !.acting = AtRest.acting] ELSE building

\* A mutant of Repaired: the floor in work is kept, listed or not.
RepairedNot(sel, floors) ==
    IF sel # None THEN sel ELSE IF floors = {} THEN None
    ELSE CHOOSE f \in floors : \A g \in floors : f <= g

\* The selected floor stays if the new list has it; else the first one.
Repaired(sel, floors) ==
    IF sel \in floors THEN sel ELSE IF floors = {} THEN None
    ELSE CHOOSE f \in floors : \A g \in floors : f <= g

\* After the lists a call that made a floor selects it, also when they failed.
loadReferenceData(i) ==
    LET c == calls[i] IN
    /\ Calling(i) /\ c.at = "lists" /\ c.got \in {"ok", "failed"}
    /\ listed' = IF c.got = "ok" THEN c.data ELSE listed
    /\ selected' = IF c.new # None THEN c.new
                   ELSE IF c.got = "ok" THEN Repaired(selected, c.data.floors) ELSE selected
    /\ adrift' = IF c.new # None THEN c.new \notin listed'.floors ELSE adrift /\ c.got # "ok"
    /\ Finish(i)
    /\ UNCHANGED <<server, logged, tab, form, saving, ed, touches, begun, made, pages>>

\* A 401 logs out whoever is logged in by now.  The lists then end a call as if
\* they had failed, the change of a component of the system is tried again with
\* no token, anything else ends at once.
Expired(i) ==
    LET c == calls[i] IN
    /\ Calling(i) /\ c.got = "expired"
    /\ logged' = FALSE /\ ClosePages
    /\ calls' = Unmounted([calls EXCEPT ![i] = IF c.at = "put" /\ c.system
                                               THEN [c EXCEPT !.at = "post"] ELSE Idle])
    /\ LET lost == c.at = "lists" /\ c.new # None IN
       /\ selected' = IF lost THEN c.new ELSE selected
       /\ adrift' = IF lost THEN c.new \notin listed.floors ELSE adrift
    /\ UNCHANGED <<server, listed, tab, touches, begun, made, pages>>

\* On to the lists, if there still is a token; else the function goes on at once.
Refresh(i, c) ==
    calls' = [calls EXCEPT ![i] =
                IF logged THEN [Call("lists", None) EXCEPT !.new = c.new, !.mine = c.mine] ELSE Idle]

-----------------------------------------------------------------------------
(***************************************************************************)
(* BuildingPanel.jsx                                                       *)
(***************************************************************************)

OnBuildings == logged /\ tab = "buildings"
Free == building.acting = AtRest.acting
Act(what, n) == building' = [building EXCEPT !.acting = [what |-> what, n |-> n]]
OnlyBuilding == UNCHANGED <<listed, logged, tab, selected, form, saving, ed, touches>>

\* With a first floor or without one.
createOffice(i) ==
    /\ OnBuildings /\ Free /\ Act("create office", None)
    /\ \E first \in BOOLEAN : Begin(i, [Call("office", None) EXCEPT !.first = first])
    /\ OnlyBuilding

createFloor(i) ==
    /\ OnBuildings /\ Free
    /\ \E o \in listed.offices : Act("new floor", o) /\ Begin(i, Call("floor", o))
    /\ OnlyBuilding

startEdit ==
    /\ OnBuildings /\ Free
    /\ \/ \E o \in listed.offices : building' = [building EXCEPT !.office = o]
       \/ \E f \in listed.floors : building' = [building EXCEPT !.floor = f]
    /\ OnlyBuilding /\ UNCHANGED <<server, calls, begun, made, adrift, pages>>

Renaming(what, n) == n # None /\ building.acting = [what |-> what, n |-> n]

cancelEdit ==
    /\ OnBuildings
    /\ \/ /\ building.office # None /\ ~Renaming("office", building.office)
          /\ building' = [building EXCEPT !.office = None]
       \/ /\ building.floor # None /\ ~Renaming("floor", building.floor)
          /\ building' = [building EXCEPT !.floor = None]
    /\ OnlyBuilding /\ UNCHANGED <<server, calls, begun, made, adrift, pages>>

\* Only its own request keeps a form from being saved or closed.
saveOffice(i) ==
    /\ OnBuildings /\ building.office \in listed.offices
    /\ ~Renaming("office", building.office)
    /\ Act("office", building.office) /\ Begin(i, Call("rename office", building.office))
    /\ OnlyBuilding

saveFloor(i) ==
    /\ OnBuildings /\ building.floor \in listed.floors
    /\ ~Renaming("floor", building.floor)
    /\ Act("floor", building.floor) /\ Begin(i, Call("rename floor", building.floor))
    /\ OnlyBuilding

deleteOffice(i) ==
    /\ OnBuildings /\ Free
    /\ \E o \in listed.offices \ {building.office} :
          /\ Act("office", o)
          /\ Begin(i, [Call("delete office", o) EXCEPT
                         !.sel = selected, !.floors = {f \in listed.floors : listed.home[f] = o}])
    /\ OnlyBuilding

deleteFloor(i) ==
    /\ OnBuildings /\ Free
    /\ \E f \in listed.floors \ {building.floor} :
          /\ Act("floor", f)
          /\ Begin(i, [Call("delete floor", f) EXCEPT !.sel = selected])
    /\ OnlyBuilding

openFloor ==
    /\ OnBuildings /\ \E f \in listed.floors \ {building.floor} : selected' = f
    /\ tab' = "layout" /\ ClosePages /\ calls' = Unmounted(calls) /\ adrift' = FALSE
    /\ UNCHANGED <<server, listed, logged, touches, begun, made, pages>>

\* A mutant of ClearsSelection: whatever is deleted, no floor stays selected.
ClearsAnyway(c) == c.at \in {"delete floor", "delete office"}

\* What was selected when the deletion was asked for, not what is now.
ClearsSelection(c) ==
    \/ c.at = "delete floor" /\ c.arg = c.sel
    \/ c.at = "delete office" /\ c.sel \in c.floors

\* The answer to a request of the page at one of these calls.
Answered(i, ats) == Calling(i) /\ calls[i].got = "ok" /\ calls[i].at \in ats
OnlyAnswered == UNCHANGED <<server, listed, logged, tab, form, saving, ed, touches, begun, pages>>

\* On to the first floor: if that fails, the building stays without one.
OfficeMade(i) ==
    /\ Answered(i, {"office"})
    /\ IF calls[i].first THEN calls' = [calls EXCEPT ![i] = Then(calls[i], "floor")]
       ELSE Refresh(i, calls[i])
    /\ OnlyAnswered /\ UNCHANGED <<selected, building, made, adrift>>

FloorMade(i) ==
    /\ Answered(i, {"floor"})
    /\ made' = made \cup {calls[i].new} /\ Refresh(i, calls[i])
    /\ selected' = IF logged THEN selected ELSE calls[i].new
    /\ adrift' = IF logged THEN adrift ELSE calls[i].new \notin listed.floors
    /\ OnlyAnswered /\ UNCHANGED building

\* Whichever form is open now is closed.
Renamed(i) ==
    /\ Answered(i, {"rename floor", "rename office"}) /\ Refresh(i, calls[i])
    /\ building' = IF ~calls[i].mine THEN building
                   ELSE IF calls[i].at = "rename floor" THEN [building EXCEPT !.floor = None]
                   ELSE [building EXCEPT !.office = None]
    /\ OnlyAnswered /\ UNCHANGED <<selected, made, adrift>>

Deleted(i) ==
    /\ Answered(i, {"delete floor", "delete office"}) /\ Refresh(i, calls[i])
    /\ selected' = IF ClearsSelection(calls[i]) THEN None ELSE selected
    /\ adrift' = (adrift /\ ~ClearsSelection(calls[i]))
    /\ OnlyAnswered /\ UNCHANGED <<building, made>>

BuildingRefused(i) ==
    LET c == calls[i] IN
    /\ Calling(i) /\ c.got = "failed"
    /\ c.at \in {"office", "floor", "rename floor", "rename office", "delete floor", "delete office"}
    /\ Finish(i)
    /\ UNCHANGED <<server, listed, logged, tab, selected, form, saving, ed, touches, begun,
                   made, adrift, pages>>

-----------------------------------------------------------------------------
(***************************************************************************)
(* ComponentPanel.jsx                                                      *)
(***************************************************************************)

InLibrary == logged /\ tab = "components"
OnlyLibrary == UNCHANGED <<listed, logged, tab, selected, building, touches>>

\* mergeComponentCatalog: what is stored stands before what is built in, and is
\* no longer of the system.
IsSystem(c) == c \in Builtin /\ listed.comps[c] = NoComponent
BuiltinComponent == [markup |-> <<[kind |-> "path"]>>, box |-> NoBox, w |-> 100 * Px]
Catalogue == {c \in Ids : c \in Builtin \/ listed.comps[c] # NoComponent}
Component(c) == IF IsSystem(c) THEN BuiltinComponent ELSE listed.comps[c]

\* Also while a save is under way.
openCreate ==
    /\ InLibrary /\ form = NoForm
    /\ form' = [id |-> "none", isNew |-> TRUE, isSystem |-> FALSE] /\ ed' = Closed
    /\ OnlyLibrary /\ UNCHANGED <<server, saving, calls, begun, made, adrift, pages>>

openEdit(c) ==
    /\ InLibrary /\ form = NoForm /\ ~saving /\ c \in Catalogue
    /\ form' = [id |-> c, isNew |-> FALSE, isSystem |-> IsSystem(c)]
    /\ ed' = Opened(Component(c).markup, [Component(c).box EXCEPT !.w = Component(c).w])
    /\ OnlyLibrary /\ UNCHANGED <<server, saving, calls, begun, made, adrift, pages>>

closeEditor ==
    /\ form # NoForm /\ form' = NoForm /\ ed' = Closed
    /\ OnlyLibrary /\ UNCHANGED <<server, saving, calls, begun, made, adrift, pages>>

Editing ==
    /\ form # NoForm /\ (begun = 0 \/ begun + touches < MaxWork) /\ EditStep
    /\ UNCHANGED <<server, listed, logged, tab, selected, building, form, saving, calls,
                   begun, made, adrift, pages>>

\* A new component may not take the id of one in the catalogue.
handleSave(i) ==
    /\ form # NoForm /\ ~saving /\ Savable(ed)
    /\ \E c \in Ids :
          /\ IF form.isNew THEN c \notin Catalogue ELSE c = form.id
          /\ Begin(i, [Call(IF form.isNew THEN "post" ELSE "put", None) EXCEPT
                         !.id = c, !.comp = Payload(ed), !.system = form.isSystem])
    /\ saving' = TRUE
    /\ OnlyLibrary /\ UNCHANGED <<form, ed>>

handleDelete(i) ==
    /\ InLibrary /\ form = NoForm /\ ~saving
    /\ \E c \in Catalogue : ~IsSystem(c) /\ Begin(i, [Call("delete component", None) EXCEPT !.id = c])
    /\ saving' = TRUE
    /\ OnlyLibrary /\ UNCHANGED <<form, ed>>

\* A save that succeeded closes the form that is open now.
ComponentAnswered(i) ==
    LET c == calls[i] IN
    /\ Calling(i) /\ c.got = "ok" /\ c.at \in {"put", "post", "delete component"}
    /\ IF c.mine /\ c.at # "delete component" THEN form' = NoForm /\ ed' = Closed
       ELSE UNCHANGED <<form, ed>>
    /\ saving' = IF c.mine THEN FALSE ELSE saving
    /\ Refresh(i, [c EXCEPT !.mine = FALSE])
    /\ UNCHANGED <<server, listed, logged, tab, selected, building, touches, begun, made, adrift,
                   pages>>

\* A component of the system that cannot be changed is created.
ComponentRefused(i) ==
    LET c == calls[i] IN
    /\ Calling(i) /\ c.got = "failed" /\ c.at \in {"put", "post", "delete component"}
    /\ IF c.at = "put" /\ c.system
       THEN calls' = [calls EXCEPT ![i] = Then(c, "post")] /\ UNCHANGED saving
       ELSE calls' = [calls EXCEPT ![i] = Idle] /\ saving' = IF c.mine THEN FALSE ELSE saving
    /\ UNCHANGED <<server, listed, logged, tab, selected, building, form, ed, touches, begun,
                   made, adrift, pages>>

Next ==
    \/ \E i \in Slots :
          \/ Executes(i) \/ Fails(i) \/ Expired(i)
          \/ handleLogin(i) \/ refreshAll(i) \/ loadReferenceData(i)
          \/ createOffice(i) \/ createFloor(i) \/ saveOffice(i) \/ saveFloor(i)
          \/ deleteOffice(i) \/ deleteFloor(i)
          \/ OfficeMade(i) \/ FloorMade(i) \/ Renamed(i) \/ Deleted(i) \/ BuildingRefused(i)
          \/ handleSave(i) \/ handleDelete(i) \/ ComponentAnswered(i) \/ ComponentRefused(i)
    \/ handleLogout \/ OtherDeletesFloor
    \/ \E t \in {"layout", "buildings", "components"} : PickTab(t)
    \/ \E f \in Floors : SelectFloor(f)
    \/ startEdit \/ cancelEdit \/ openFloor
    \/ openCreate \/ \E c \in Ids : openEdit(c)
    \/ closeEditor \/ Editing

Spec == Init /\ [][Next]_shellVars

-----------------------------------------------------------------------------
(***************************************************************************)
(* Properties                                                              *)
(***************************************************************************)

\* The floor in work is one of the list on the screen, however answers, other
\* administrators' deletions and sessions cross.  The exception is adrift: a call
\* of this page made the floor and selects it whatever lists came with it; they
\* may have failed, or somebody deleted the floor before they were read.  It ends
\* with the next lists that are loaded.
SelectedListed ==
    \/ selected \in listed.floors \cup {None}
    \/ adrift /\ selected \in made

\* No answer takes the user away from the floor in work while it is listed.  It
\* is left for one that was made, and by a deletion that was asked for when the
\* floor to go was selected: a floor opened meanwhile is lost with it.
SelectionKept ==
    [][selected' # selected =>
          \/ openFloor \/ \E f \in Floors : SelectFloor(f)
          \/ selected \notin listed'.floors
          \/ selected' \in made'
          \/ \E i \in Slots : /\ Calling(i) /\ calls'[i] # calls[i]
                              /\ \/ calls[i].at = "delete floor" /\ calls[i].arg = calls[i].sel
                                 \/ calls[i].at = "delete office"
                                    /\ calls[i].sel \in calls[i].floors]_shellVars

-----------------------------------------------------------------------------
(***************************************************************************)
(* The types and the invariant of the pages, for the proofs                *)
(***************************************************************************)

Components == [markup: Seq(Elements), box: Boxes, w: Int]

ASSUME StoredAssumption == Stored \subseteq Components

Tables == [offices: SUBSET Offices, floors: SUBSET Floors, home: [Floors -> Offices \cup {None}],
           comps: [Ids -> Components]]

Requests ==
    [at: {"office", "floor", "rename office", "rename floor", "delete office", "delete floor",
          "lists", "put", "post", "delete component"},
     arg: Int, comp: Components, id: Ids \cup {"none"}, system: BOOLEAN, first: BOOLEAN,
     sel: Floors \cup {None}, floors: SUBSET Floors, new: Floors \cup {None},
     got: {"sent", "ok", "failed", "expired"}, data: Tables, mine: BOOLEAN]

Activities == [what: {"none", "create office", "new floor", "office", "floor"}, n: Nat]
Buildings == [acting: Activities, office: Offices \cup {None}, floor: Floors \cup {None}]
Forms == {NoForm} \cup [id: Ids \cup {"none"}, isNew: BOOLEAN, isSystem: BOOLEAN]

ShellTypeOK ==
    /\ server \in Tables /\ listed \in Tables
    /\ logged \in BOOLEAN /\ tab \in {"layout", "buildings", "components"}
    /\ selected \in Floors \cup {None}
    /\ building \in Buildings /\ form \in Forms /\ saving \in BOOLEAN
    /\ calls \in [Slots -> Requests \cup {Idle}]
    /\ made \in SUBSET Floors /\ adrift \in BOOLEAN /\ begun \in Nat /\ touches \in Nat

\* What a call brings to be selected after the lists was made, and only one that
\* makes a floor brings any.
NewKnown(c, floors) ==
    /\ c.at = "lists" => c.new \in floors \cup {None}
    /\ c.at \notin {"floor", "lists"} => c.new = None
    /\ c.at = "floor" /\ c.got = "ok" => c.new \in Floors

ShellInvariant ==
    /\ ShellTypeOK
    /\ EditorOK(ed)
    /\ \A i \in Slots : Calling(i) => NewKnown(calls[i], made)
    /\ SelectedListed
=============================================================================
