\* A reserve whose balances or token addresses could not be read.
CONSTANTS
  Parts = {"portfolio"}
  \* WalletActions
  Actor = actor
  Other = other
  TokenAddresses = {usdc, dai}
  Gateway = gateway
  ArbSys = arbsys
  Created = created
  Nobody = Nobody
  MaxEvidence = 2
  \* Portfolio
  Wallets <- MCWallets
  Unverified = {"aUSDC"}
  Held <- MCHeld
  Used <- MCUsed
  MaxTokenBalancePages = 2
  StaleAfterSeconds = 1
  Ages <- MCAges
  MaxTroubles = 2
  MaxUnpriced = 1
  \* UniswapPool
  Modulus = 16
  TickLower = 1
  TickUpper = 3
  MinTick = 0
  MaxTick = 4
  PricesPerTick = 2
  Fee = 3
  \* LocalState
  Process = {p1, p2}
  SchemaVersion = 3
  FirstVersion = 1
  ForeignVersions = {1, 4}
  Keys = {k1}
  EnvironmentKey = ke
  NoKey = nokey
  MaxCrashes = 1
  MaxRestores = 2
  MaxExports = 1
  MaxEdits = 2
  MaxEvents = 5
  \* StockTokenAudit
  Listed = listed
  Unlisted = unlisted
  Reissued = {2}
  MaxVersion = 2
  MaxTime = 1
  MaxRefreshes = 2
  MaxFailures = 1
  \* UserData
  Window = {w1, w2}
  Accounts = {a, b}
  NoAccount = noaccount
  MaxBalance = 1
  MaxSnapshots = 2
  MaxLoads = 1
  MaxRemovals = 2
  MaxEntries = 3
  \* XStocksBrowser
  Workers = {t1, t2}
  Assets = {asset}
  Symbols = {symbol}
  NoIdentity = noidentity
  RecordIds = {r1}
  Payloads = {x}
  PageBudget = 1
  MaxPage = 1
  MaxRuns = 2
  MaxRevision = 3
  MaxFaults = 0
  MaxClock = 0
  ClockMayStepBack = FALSE
SPECIFICATION PartsSpec
INVARIANTS ReceiptsHavePositions
CHECK_DEADLOCK FALSE
