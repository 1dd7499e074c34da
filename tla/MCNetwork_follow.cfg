SPECIFICATION Spec
CONSTANTS
  n1 = n1
  n2 = n2
  n3 = n3
  Nodes = {n1, n2}
  Dials <- FollowDials
  Stamps = {0, 1}
  Miners = {n1, n2}
  Clients = {n2}
  Answering = {n1}
  ChainID <- OneChain
  MaxHeight = 2
  Lossy = TRUE
CHECK_DEADLOCK FALSE
INVARIANTS
  
  MinersBlocks
