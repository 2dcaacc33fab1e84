CONSTANTS
  ann = ann  ben = ben  oak = oak  elm = elm  north = north  south = south
  Players = {ann, ben}
  Names = {oak}
  Chunks = {north, south}
  MaxTowns = 1
  MaxMembers = 2
  MaxClaims = 2
  MaxTrusted = 1
  InitialStores <- ZoneStores
  MaxVersion = 3
  MaxUnderWay = 1
  MaxQueries = 0
  MaxBatch = 0
  MaxRefusals = 1
  Faults = {"zone_refusal", "uncertain_write"}
SPECIFICATION FairSpec
CHECK_DEADLOCK FALSE
INVARIANTS ZonesMatch
PROPERTIES ChangeEnds InvitesExpire
