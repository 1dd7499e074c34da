------------------------- MODULE AppendOnlyLedger -------------------------
(***************************************************************************)
(* What a OneX chain promises, without locks, files or crashes: a log of   *)
(* executed blocks that only grows, and an account state that is always    *)
(* the result of executing that log on the genesis allocation.             *)
(***************************************************************************)
EXTENDS ChainState

CONSTANTS
  GenesisState,   \* the allocation of the genesis configuration
  BlockReward,    \* credited to the miner of every block
  Batches,        \* the transaction lists a block may carry
  Miners          \* the addresses that mine

VARIABLES
  log,     \* the executed blocks, genesis excluded
  state    \* the accounts after the last of them

vars == <<log, state>>

\* Execution[k]: the state after the first k transactions of a block.
Execution(st, txs, miner) ==
  LET after[k \in 0 .. Len(txs)] ==
        IF k = 0 THEN st ELSE AfterTx(after[k-1], txs[k], miner)
  IN  after

\* Every transaction is applicable when its turn comes.
Executable(st, txs, miner) ==
  \A k \in 1 .. Len(txs) :
    TxApplies(Execution(st, txs, miner)[k-1], txs[k])

AfterBlock(st, txs, miner) ==
  ApplyBlockReward(Execution(st, txs, miner)[Len(txs)], miner, BlockReward)

Init == log = <<>> /\ state = GenesisState

Extend(txs, miner) ==
  /\ Executable(state, txs, miner)
  /\ log' = Append(log, [txs |-> txs, miner |-> miner])
  /\ state' = AfterBlock(state, txs, miner)

Next == \E txs \in Batches, miner \in Miners : Extend(txs, miner)

Spec == Init /\ [][Next]_vars
===========================================================================
