CONSTANTS
  MaxRecords = 2
  MaxPendingRecords = 1
  MaxArrivals = 4
  MaxFaultyVersion = 3
  MaxOutstanding = 2
  Faults = {"batch_rejection", "reply_rejection", "uncertain_write", "read_failure", "restart"}
SPECIFICATION Spec
INVARIANTS NothingLost HistoryIsNewest OnlyUnconfirmedRepeat
