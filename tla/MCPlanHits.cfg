SPECIFICATION Spec
CONSTANTS
  MIN_BOUNDARY_AREA = 1
  MIN_BACKGROUND_SIZE = 2
  MARQUEE_MIN_WORLD = 4
  CANVAS_MIN_SIZE = 2
  CANVAS_MAX_SIZE = 8
  Side = 2
  Outlines <- MCOutlines
  DeskRows <- MCDeskRows
  Backgrounds <- MCBackgrounds
  Screen = 4
  MAX_ZOOM = 2
  MIN_ZOOM = 2
  Contents = {8, 16}
  Boxes <- MCBoxes
  Reach = 8
INVARIANTS
  DesksFirst
CHECK_DEADLOCK FALSE
