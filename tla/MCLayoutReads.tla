--------------------------- MODULE MCLayoutReads ---------------------------
(***************************************************************************)
(* Instance of LayoutReads for TLC.                                        *)
(***************************************************************************)
EXTENDS LayoutReads, TLC

\* A request that has read its pointers answers a document of one of them, or none.
Comparable(read, history) ==
    IF read.step = "refs" THEN history
    ELSE {doc \in history : doc.revision \in {read.draft, read.published, NoRevision}}

\* Of a request that is answered only whether it was answered right still matters,
\* of one in progress what its answer can still be compared with.
StillMatters(q) ==
    LET read == reads[q]
        unread == "draft" \in read.failed
        mayMissDraft == read.op = "load" /\ read.step \in {"refs", "draft"}
    IN
    IF read.step = "done" THEN <<"answered", AnsweredRight(q)>>
    ELSE <<"asks", [read EXCEPT
              !.current = IF unread THEN {} ELSE Comparable(read, @),
              !.shown = IF unread \/ mayMissDraft THEN Comparable(read, @) ELSE {}]>>

\* No property tells the audit log or the desk rows apart, so states that differ
\* in them alone are one.
TablesAndReads == <<floors, revisions, [q \in Request |-> StillMatters(q)]>>

Symmetry == Permutations(Floor) \cup Permutations(Revision)
               \cup Permutations(Layout) \cup Permutations(Request)
=============================================================================
