SPECIFICATION DaemonSpec
CONSTANTS
  c1 = c1
  c2 = c2
  Client = {c1, c2}
  Nobody = Nobody
  Key <- MCKey
  ONEX = "onex"
  OnexKey <- MCOnexKey
  LpKey <- MCLpKey
  Pairs <- MCPairs
  SeedPools <- MCSeedPools
  Prefunded <- MCPrefunded
  OnChain <- MCOnChain
  NodeBalance = 5
  StakePools <- MCStakePools
  Rate <- MCRate
  RateBase = 2
  BonusBase = 2
  RewardBase = 2
  Reward <- MCReward
  Listed = {"usd", "btc", "gold"}
  WrappedKey <- MCWrappedKey
  SuffixedKey = {"tok2"}
  Coin = 2
  Amounts = {0, 1, 2, 3, 4, 5}
  Menu = {"stakes", "loans", "gifts", "pool", "poolrace", "route", "platform", "real", "race", "faults", "torn",
          "book", "bookreads", "bookrace", "booktorn"}
  Offered <- MCOffered
  Using <- MCUsing
  Production <- MCProduction
  Faulty <- MCFaulty
  BadAmount = BadAmount
  NoPool = NoPool
  NoPortfolio = NoPortfolio
  Unreadable = Unreadable
  MaxServed = 4
  MaxCrashes = 1
  MaxDay = 1
  BankConfig <- MCBankConfig
  TokenList <- MCTokenList
  NativeBalance <- MCNativeBalance
  TokenBalance <- MCTokenBalance
  Price <- MCPrice
  KeyAsset <- MCKeyAsset
  Import <- MCImport
  Fee = 1
  NoAmount = NoAmount
  NoDest = NoDest
  NoRef = NoRef
  NoBook = NoBook
  MaxTransfers = 3
  FeeBase = 1000
  FeeKept = 997
  Word = 64
CHECK_DEADLOCK FALSE
INVARIANTS
  BridgeTypeOK
  
  
  LpBacked
  ReservesBacked
  WrappedBacked
  BookTypeOK
  OnChainRecorded
  
PROPERTIES
  PoolsImplement
  
