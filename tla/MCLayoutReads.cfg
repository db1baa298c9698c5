CONSTANTS
    Floor = {f1}
    Revision = {r1, r2, r3}
    Layout = {a, b}
    Version = {1, 2, 3}
    LegacyVersion = {1}
    Request = {q1, q2}
    Library = {c}
    Own = Own
    Failure = Failure
    NoFloor = NoFloor
    NoRevision = NoRevision
    NoLayout = NoLayout

SPECIFICATION ReadsSpec
SYMMETRY Symmetry

INVARIANT
    AnswersCurrent

PROPERTY
    RenderingsKept

CHECK_DEADLOCK FALSE
VIEW TablesAndReads
