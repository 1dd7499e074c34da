SPECIFICATION Spec
CONSTANTS
  alice = alice
  bob = bob
  miner = miner
  Addr <- MCAddr
  NoAddr = NoAddr
  Modulus = 64
  GenesisTxs <- MCGenesisTxs
  BlockReward = 3
  Miner = miner
  PeerMiner = bob
  Batches <- SmallBatches
  Clock <- MCClock
  MaxHeight = 2
  MaxCrashes = 2
  MaxDiskErrors = 1
  TornFiles = {"block", "meta"}
  Unreadable = Unreadable
  NoBlock = NoBlock
  NoHash = NoHash
INVARIANTS
  TypeOK
  NoReplay
  
  RebuildRefused
  StateMatchesTip
  

  
