CONSTANTS
    Floor = {f1}
    Client = {c1}
    Edit = {e1, e2}
    Layout = {{}, {e1}, {e2}, {e1, e2}}
    LegacyVersion = {1}
    Goals = {"preview", "json", "canvas", "publish", "blank", "import", "discard", "restore"}
    MaxEdition = 1
    MaxLoads = 1
    SlowPreview = TRUE
    NoLayout = NoLayout
    NoClient = NoClient

SPECIFICATION FairEditSpec
INVARIANTS
    EditTypeOK
PROPERTIES
    AutosaveAnswers
    LeavingKeepsWork
    PublishesWhatIsDrawn

CHECK_DEADLOCK FALSE
