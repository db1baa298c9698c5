SPECIFICATION Spec
CONSTANTS
  maxDepth = 2
  MaxDesk = 2
  MaxLoads = 2
  MaxEdits = 4
  Kits <- MCWalls
PROPERTIES
  UndoneIsRedone
