CONSTANTS
  alice = alice  bob = bob  carol = carol  rent = rent  gift = gift
  Players = {alice, bob, carol}
  TransferTokens = {rent, gift}
  StartingBalance = 1
  MaxBalance = 2
  MaxAccounts = 2
  MaxTokens = 1
  Amounts = {1, 2}
  Deltas <- Minus
  InitialStores <- FreshOrLegacy
  MaxVersion = 3
  MaxSequence = 3
  MaxOutstanding = 1
  Faults = {"batch_rejection", "uncertain_write", "read_failure", "malformed_receipt", "restart"}
SPECIFICATION FairSpec
INVARIANTS Synchronised MemoryIsDurable StoreIsLoadable WindowKeepsNewest
PROPERTIES RefusedReloads MoneySpec BusyEnds
