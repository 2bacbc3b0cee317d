CONSTANTS
  a = a
  b = b
  e = e
  Self = Self
  None = None
  Accounts = {b}
  Existing = {Self, b}
  Contracts = {}
  EvmAddrs = {e}
  MinAsset = 2
  HundredPercent = 2
  MaxTransfers = 1
  Configs <- Upgrades
  Payloads <- UpgradePayloads
  GasLimits = {2}
  Fees = {2}
  Quantities = {1, 3}
  Receivers = {}
  Listable = {}
  AdminSenders = {Self, b, e}
  FreezeValues = {TRUE, FALSE}
  Supply = 3
  MaxNonce = 1
  MaxIncome = 2
  MaxInline = 2
  MaxAdjust = 2
  MaxRemoved = 1
VIEW Tables
SPECIFICATION Spec
INVARIANTS Solvent InEvmExact
PROPERTIES FrozenStopsFunds
