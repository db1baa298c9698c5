SPECIFICATION Spec
CONSTANTS
  maxDepth = 2
  MaxDesk = 2
  MaxLoads = 2
  MaxEdits = 3
  Kits <- MCKits
INVARIANTS
  HistoryBounded
PROPERTIES
  EditsUndoable
  SelectionLive
  LockedStays
  HistoryOfLayout
