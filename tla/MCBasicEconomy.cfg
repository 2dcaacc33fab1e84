CONSTANTS
  ann = ann  ben = ben  coin = coin  bread = bread  loaf = loaf  roll = roll
  Players = {ann, ben}
  Resources = {coin, bread}
  Catalogs <- TwoPrices
  InitialInventory <- ThreeCoins
  Deeds <- OneBuys
  MaxPurchasesPerItem = 2
  MaxActivePlayers = 1
  MaxLedgerEntries = 1
  MaxVersion = 2
  MaxUnderWay = 2
  MaxClicks = 1
  MaxBatch = 2
  MaxSession = 2
  Faults = {"batch_rejection", "read_failure", "restart"}
SPECIFICATION Spec
CHECK_DEADLOCK FALSE
INVARIANTS PurchasesAreRefundable MenuMatchesLedger WaitingEnds NothingOfDeparted ActivePlayersBounded
