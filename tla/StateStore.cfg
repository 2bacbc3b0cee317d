CONSTANTS
  Addrs = {a, b}
  CodeHashes = {c, d}
  Locations = {x}
  Portions = {0, 1, 3}
  MaxId = 3
SPECIFICATION FairSpec
INVARIANTS TypeOK StorageUnshared NoLeak CodesCounted
PROPERTIES NewAccountsEmpty ImplementsEvmState AllCollected
