CONSTANTS
  ann = ann  ben = ben  oak = oak  elm = elm  north = north  south = south
  Players = {ann, ben}
  Names = {oak, elm}
  Chunks = {north, south}
  MaxTowns = 2
  MaxMembers = 2
  MaxClaims = 1
  MaxTrusted = 1
  InitialStores <- CharterStores
  MaxVersion = 3
  MaxUnderWay = 1
  MaxQueries = 0
  MaxBatch = 1
  MaxRefusals = 1
  Faults = {"restart", "zone_refusal", "batch_rejection", "uncertain_write", "read_failure"}
SPECIFICATION Spec
CHECK_DEADLOCK FALSE
INVARIANTS TypeOK MemoryIsStored
PROPERTIES CharterSpec
