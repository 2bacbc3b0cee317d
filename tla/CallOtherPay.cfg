CONSTANTS
  a = a
  b = b
  e = e
  Self = Self
  None = None
  Accounts = {b}
  Existing = {Self, b}
  Contracts = {}
  EvmAddrs = {e}
  MinAsset = 2
  HundredPercent = 2
  MaxTransfers = 1
  Configs <- Version1
  Payloads <- UpgradePayloads
  GasLimits = {1}
  Fees = {1, 2}
  Quantities = {1, 3}
  Receivers = {b}
  Listable = {}
  AdminSenders = {}
  FreezeValues = {}
  Supply = 4
  MaxNonce = 1
  MaxIncome = 2
  MaxInline = 2
  MaxAdjust = 0
  MaxRemoved = 0
VIEW Tables
SPECIFICATION Spec
INVARIANT CallerAsPayerSameAsCall
