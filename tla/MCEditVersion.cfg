CONSTANTS
    Floor = {f1}
    Client = {c1}
    Edit = {e1, e2}
    Layout = {{}, {e1}, {e2}, {e1, e2}}
    LegacyVersion = {1}
    Goals = {"canvas"}
    MaxEdition = 1
    MaxLoads = 1
    SlowPreview = FALSE
    NoLayout = NoLayout
    NoClient = NoClient

SPECIFICATION EditSpec

INVARIANTS
    VersionIsCurrent

CHECK_DEADLOCK FALSE
