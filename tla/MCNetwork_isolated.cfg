SPECIFICATION Spec
CONSTANTS
  n1 = n1
  n2 = n2
  n3 = n3
  Nodes = {n1, n2, n3}
  Dials <- MeshDials
  Stamps = {0}
  Miners = {n1, n2}
  Clients = {n1, n2, n3}
  Answering = {}
  ChainID <- OneChain
  MaxHeight = 1
  Lossy = TRUE
CHECK_DEADLOCK FALSE
INVARIANTS
  NetTypeOK
  NothingExchanged
