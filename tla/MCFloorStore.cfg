CONSTANTS
    Floor = {f1, f2}
    Revision = {r1, r2, r3}
    Layout = {a, b}
    Version = {0, 1, 2, 3, 4, 5}
    LegacyVersion = {1, 2}
    Library = {c}
    Own = Own
    NoFloor = NoFloor
    NoRevision = NoRevision
    NoLayout = NoLayout

SPECIFICATION Spec
SYMMETRY Symmetry

INVARIANTS
    TypeOK
    PointersAgree
    AuditAccounts
    VersionsIdentify
    DesksMatchPublished

PROPERTIES
    ImplementsSlots
    PublishedIsFrozen

CHECK_DEADLOCK FALSE
