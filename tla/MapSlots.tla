------------------------------ MODULE MapSlots ------------------------------
(***************************************************************************)
(* What the layout store promises its users, with no tables: every floor   *)
(* has a map it shows, with an edition number, and at most one working     *)
(* copy that nobody sees until it is published.                            *)
(***************************************************************************)
EXTENDS Integers

CONSTANTS Floor, Layout, NoLayout, LegacyVersion

VARIABLES open,     \* the floors that exist
          shown,    \* the published map of each floor, or NoLayout
          working,  \* the working copy of each floor, or NoLayout
          edition   \* how often the floor's map was published

vars == <<open, shown, working, edition>>

\* A floor starts without a map or with one of an earlier release.
Init ==
    /\ open \in SUBSET Floor
    /\ shown \in [Floor -> Layout \cup {NoLayout}]
    /\ working = [f \in Floor |-> NoLayout]
    /\ edition \in [Floor -> LegacyVersion \cup {0}]
    /\ \A f \in Floor : /\ shown[f] = NoLayout <=> edition[f] = 0
                        /\ f \notin open => shown[f] = NoLayout

OpenFloor(f) ==
    /\ f \notin open
    /\ open' = open \cup {f}
    /\ UNCHANGED <<shown, working, edition>>

CloseFloor(f) ==
    /\ f \in open
    /\ open' = open \ {f}
    /\ shown' = [shown EXCEPT ![f] = NoLayout]
    /\ working' = [working EXCEPT ![f] = NoLayout]
    /\ edition' = [edition EXCEPT ![f] = 0]

\* The working copy is started or replaced.
Write(f, layout) ==
    /\ f \in open
    /\ working' = [working EXCEPT ![f] = layout]
    /\ UNCHANGED <<open, shown, edition>>

\* The working copy becomes the next edition of the map.
Issue(f) ==
    /\ f \in open
    /\ working[f] # NoLayout
    /\ shown' = [shown EXCEPT ![f] = working[f]]
    /\ working' = [working EXCEPT ![f] = NoLayout]
    /\ edition' = [edition EXCEPT ![f] = @ + 1]
    /\ UNCHANGED open

\* The working copy is thrown away.
Drop(f) ==
    /\ f \in open
    /\ working' = [working EXCEPT ![f] = NoLayout]
    /\ UNCHANGED <<open, shown, edition>>

Next ==
    \E f \in Floor :
        \/ OpenFloor(f)
        \/ CloseFloor(f)
        \/ \E layout \in Layout : Write(f, layout)
        \/ Issue(f)
        \/ Drop(f)

Spec == Init /\ [][Next]_vars
=============================================================================
