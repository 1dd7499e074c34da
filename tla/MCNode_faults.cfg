SPECIFICATION NodeSpec
CONSTANTS
  alice = alice
  bob = bob
  miner = miner
  h1 = h1
  h2 = h2
  Addr <- MCAddr
  NoAddr = NoAddr
  Modulus = 64
  GenesisTxs <- MCGenesisTxs
  BlockReward = 3
  Miner = miner
  PeerMiner = bob
  Batches <- PeerBatches
  Clock <- MCClock
  MaxHeight = 2
  MaxCrashes = 1
  MaxDiskErrors = 1
  TornFiles = {}
  Unreadable = Unreadable
  NoBlock = NoBlock
  NoHash = NoHash
  Handlers <- MCHandlers
  Requests <- OneRequest
  MaxSends = 2
  MaxBatch = 3
  FaucetAddr = bob
  DripAmount = 1
  MaxDrips = 1
  NoTx = NoTx
SYMMETRY
  HandlerSymmetry
INVARIANTS
  NodeTypeOK
  NoReplay
  NothingDropped
  StateMatchesTip
