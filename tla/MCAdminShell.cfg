SPECIFICATION Spec
CONSTANTS
  Places = {0, 610}
  Numbers = {4, 610}
  Colours = {"red", "blue"}
  Radii = {0, 200}
  Markups <- MCMarkups
  MaxShapes = 2
  MaxTouches = 5
  MaxFloor = 2
  MaxOffice = 2
  MaxCalls = 2
  MaxBegun = 2
  MaxWork = 3
  Pages <- MCPages
  Stored <- MCStored
  Ids = {"desk", "mine"}
  Builtin = {"desk"}
INVARIANTS
  ShapesKeyed
  SavedAsDrawn
  SelectedListed
PROPERTIES
  RestyleKeepsRest
  SelectionKept
CHECK_DEADLOCK FALSE
