CONSTANTS
  ann = ann  ben = ben  attic = attic  barn = barn  cave = cave
  Players = {ann}
  Cells = {attic, barn, cave}
  MaxGraves = 2
  PublicAfter = 1
  CellReuse = TRUE
  MaxTick = 3
  MaxUnderWay = 1
  MaxZoneCommands = 1
  Faults = {"read_failure"}
SPECIFICATION Spec
CHECK_DEADLOCK FALSE
INVARIANTS CleanIsSaved
PROPERTIES RemovalIsDue
