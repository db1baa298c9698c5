SPECIFICATION Spec
SYMMETRY Symmetry
CONSTANTS
    Row = {r1, r2, r3}
    Label = {"A1", "A-1", "--"}
    Form = {"A1"}
    normal <- MCnormal
    Layouts <- MCLayouts
    NoRow = NoRow
    NoLabel = NoLabel
    NoForm = NoForm
    Free = Free
    Gone = Gone

INVARIANTS
    LabelsDistinct
    KeepsItsDesk

PROPERTIES
    Mirrored

CHECK_DEADLOCK FALSE
