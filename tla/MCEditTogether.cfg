CONSTANTS
    Floor = {f1, f2}
    Client = {c1, c2}
    Edit = {e1, e2}
    Layout = {{}, {e1}, {e2}, {e1, e2}}
    LegacyVersion = {1}
    Goals = {"canvas", "publish", "leave", "refresh", "reset", "select"}
    MaxEdition = 2
    MaxLoads = 2
    SlowPreview = FALSE
    NoLayout = NoLayout
    NoClient = NoClient

SPECIFICATION TogetherSpec
SYMMETRY Symmetry
VIEW StoreLocksAndEditors
ACTION_CONSTRAINT KeepsSetting

INVARIANTS
    SaveKeepsPublished
    RightFloorSaved

CHECK_DEADLOCK FALSE
