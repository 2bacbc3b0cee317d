SPECIFICATION ConversionsSpec
CONSTANTS
  WordBytes = 3
  ByteValues = 3
  Uint32 = 16
  Memory = 6
  MaxName = 2
  Words = {0, 1, 2, 3, 4, 9, 12, 13, 14, 15}
  Receivers <- MCReceivers
  Limit = 127
  MaxCodeSize = 3
  AccountBytes = 3
  ContractBytes = 6
  SlotBytes = 3
  SsetMin = 2
  Mega = 4
  Native = 2
  Precision = 10
  RamPrices <- MCRamPrices
  StoragePrices = {0, 1, 2, 3}
INVARIANTS
  DeliveredAsEncoded EncodedIsDelivered
   ChargesFit StorageCovered
CHECK_DEADLOCK FALSE
