SPECIFICATION FairNodeSpec
CONSTANTS
  alice = alice
  bob = bob
  miner = miner
  h1 = h1
  h2 = h2
  Addr <- MCAddr
  NoAddr = NoAddr
  Modulus = 64
  GenesisTxs <- MCGenesisTxs
  BlockReward = 3
  Miner = miner
  PeerMiner = bob
  Batches <- NoBatches
  Clock <- MCClock
  MaxHeight = 2
  MaxCrashes = 0
  MaxDiskErrors = 0
  TornFiles = {}
  Unreadable = Unreadable
  NoBlock = NoBlock
  NoHash = NoHash
  Handlers <- MCHandlers
  Requests <- MCRequests
  MaxSends = 0
  MaxBatch = 3
  FaucetAddr = bob
  DripAmount = 1
  MaxDrips = 2
  NoTx = NoTx
PROPERTY
  KeepsMining
