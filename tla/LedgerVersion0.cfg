CONSTANTS
  a = a
  b = b
  e = e
  Self = Self
  None = None
  Accounts = {b}
  Existing = {Self, b}
  Contracts = {b}
  EvmAddrs = {e}
  MinAsset = 2
  HundredPercent = 2
  MaxTransfers = 1
  Configs <- Version0
  Payloads <- EgressPayloads
  GasLimits = {2}
  Fees = {1}
  Quantities = {1, 3}
  Receivers = {}
  Listable = {b}
  AdminSenders = {}
  FreezeValues = {}
  Supply = 3
  MaxNonce = 1
  MaxIncome = 2
  MaxInline = 2
  MaxAdjust = 0
  MaxRemoved = 0
VIEW Tables
SPECIFICATION Spec
INVARIANTS TypeOK Solvent OpenHasNonce
PROPERTIES NoncesNeverReused
