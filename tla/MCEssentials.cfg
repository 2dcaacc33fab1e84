CONSTANTS
  ann = ann  ben = ben  cyd = cyd  warps = warps  overworld = overworld  nether = nether
  spawn = spawn  shop = shop  unknown = unknown
  Sessions = {ann, ben, cyd}
  Keys = {warps}
  Names = {spawn, shop}
  Dimensions = {overworld, nether}
  Unknown = unknown
  Limit <- OnePlace
  Registers <- AllRegisters
  InitialWhere <- Apart
  Casts <- AllCasts
  InitialStores <- LegacyWarp
  MaxVersion = 2
  MaxPending = 2
  Faults = {"batch_rejection", "uncertain_write", "read_failure", "restart"}
SPECIFICATION Spec
CHECK_DEADLOCK FALSE
INVARIANTS AnswerIsAwaited 
PROPERTIES AtlasSpec
