CONSTANTS
  ann = ann  ben = ben  attic = attic  barn = barn  cave = cave
  Players = {ann}
  Cells = {attic, barn}
  MaxGraves = 2
  PublicAfter = 1
  CellReuse = FALSE
  MaxTick = 3
  MaxUnderWay = 1
  MaxZoneCommands = 1
  Faults = {"uncertain_write"}
SPECIFICATION FairSpec
CHECK_DEADLOCK FALSE
INVARIANTS PrivateGraveHasZone
PROPERTIES EveryZoneEnds ChangesAreStored
