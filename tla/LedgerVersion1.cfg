CONSTANTS
  a = a
  b = b
  e = e
  Self = Self
  None = None
  Accounts = {a, b}
  Existing = {Self, a, b}
  Contracts = {b}
  EvmAddrs = {e}
  MinAsset = 2
  HundredPercent = 2
  MaxTransfers = 1
  Configs <- Version1
  Payloads <- MessagePayloads
  GasLimits = {2}
  Fees = {1, 2}
  Quantities = {1, 3}
  Receivers = {b}
  Listable = {}
  AdminSenders = {}
  FreezeValues = {}
  Supply = 3
  MaxNonce = 1
  MaxIncome = 2
  MaxInline = 2
  MaxAdjust = 0
  MaxRemoved = 0
VIEW Tables
SPECIFICATION Spec
INVARIANTS Solvent
PROPERTIES DebitsAuthorised IncomeBacked
