CONSTANTS
  ann = ann  ben = ben  attic = attic  barn = barn  cave = cave
  Players = {ann, ben}
  Cells = {attic, barn}
  MaxGraves = 2
  PublicAfter = 1
  CellReuse = FALSE
  MaxTick = 3
  MaxUnderWay = 1
  MaxZoneCommands = 1
  Faults = {"restart", "zone_refusal", "batch_rejection"}
SPECIFICATION Spec
SYMMETRY OwnersAlike
CHECK_DEADLOCK FALSE
INVARIANTS TypeOK DeadlineKept
