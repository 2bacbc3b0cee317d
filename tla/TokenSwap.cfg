SPECIFICATION FairSpec
CONSTANTS
  Accounts = {1, 3}
  eosiotoken = eosiotoken
  othertoken = othertoken
  Self = 2
  SwapAccount = vaulta
  Tokens <- AllTokens
  FirstToken <- EOS
  Exchange <- Rates
  Dests = {vaulta, None}
  Contracts = {}
  Quantities = {1, 2}
  Limits = {1, 2}
  Receivers = {1}
  Fee = 1
  None = None
  MaxSwaps = 2
  MaxInline = 1
  Supply = 2
INVARIANTS TypeOK SymbolsAgree Backed HoldersCanWithdraw
PROPERTIES MigrationOnlyShrinks AllMigrated
