---------------------------- MODULE Blockchain ----------------------------
(***************************************************************************)
(* One node's chain: chain.Blockchain over storage.Store.                  *)
(*                                                                         *)
(* bc.mu is held from the moment pc leaves "idle" until it returns there,  *)
(* so a block is executed here one transaction at a time without any       *)
(* reader of bc.state in between; the store's files are written one after  *)
(* the other, and a write may fail, or the process stop, at any of them.   *)
(*                                                                         *)
(* A block's hash is the record of its header fields: hashing is injective *)
(* on headers and blind to the transaction list, which the header covers   *)
(* only through the state root.  The proof-of-work nonce is abstracted to  *)
(* the verdict "pow" of ValidProof and HashMatchesHeader.                  *)
(***************************************************************************)
EXTENDS ChainState, Sums

CONSTANTS
  GenesisTxs,    \* the coinbase transactions of the allocation, one per address
  BlockReward,
  Miner,         \* cfg.MinerAddr of this node
  PeerMiner,     \* the address a peer mines for
  Batches,       \* transaction lists handed to the miner or found in a peer's block
  Clock,         \* the values time.Now().Unix() may take
  MaxHeight,     \* bound: no block above this index is mined or received
  MaxCrashes,    \* bound: how often the process stops
  MaxDiskErrors, \* bound: how many writes return an error
  TornFiles,     \* which of "block" and "meta" an interrupted write truncates
  Unreadable,    \* meta.json when it does not exist or does not parse
  NoBlock,
  NoHash         \* the "previous hash" of a genesis block

ASSUME BlockchainAssumption ==
  /\ GenesisTxs \in Seq(Transaction)
  /\ \A k \in 1 .. Len(GenesisTxs) : GenesisTxs[k].from = NoAddr
  /\ BlockReward \in Amount
  /\ Miner \in Addr /\ PeerMiner \in Addr
  /\ Batches \subseteq Seq(Transaction)
  /\ Clock \subseteq Nat
  /\ MaxHeight \in Nat /\ MaxCrashes \in Nat /\ MaxDiskErrors \in Nat
  /\ TornFiles \subseteq {"block", "meta"}
  /\ Unreadable \notin Nat

VARIABLES
  proc,       \* the process: "down", "starting" (in chain.New) or "up"
  st,         \* bc.state
  metaMem,    \* store.meta.Height
  blockFile,  \* blocks/<index>.json
  readable,   \* the indices whose block file exists and parses
  metaFile,   \* meta.json
  pc, mode,   \* where the holder of bc.mu is, and in which call
  work,       \* the block it executes
  sim, step,  \* the cloned state and the number of transactions executed on it
  result,     \* what the last mining and sync calls returned
  crashes, diskErrors

files  == <<blockFile, readable, metaFile>>
call   == <<pc, mode, work, sim, step>>
faults == <<crashes, diskErrors>>
vars   == <<proc, st, metaMem, files, call, result, faults>>

Height == 0 .. MaxHeight

HashOf(b) == [index |-> b.index, ts |-> b.ts, prev |-> b.prev,
              root |-> b.root, miner |-> b.miner]

GenesisAlloc(a) == {GenesisTxs[k].amount : k \in
                      {i \in 1 .. Len(GenesisTxs) : GenesisTxs[i].to = a}}

GenesisState ==
  [a \in Addr |-> [balance |-> IF GenesisAlloc(a) = {} THEN 0
                               ELSE CHOOSE v \in GenesisAlloc(a) : TRUE,
                   nonce |-> 0]]

NewGenesisBlock(now) ==
  [index |-> 0, ts |-> now, prev |-> NoHash, root |-> GenesisState,
   miner |-> NoAddr, txs |-> GenesisTxs, pow |-> TRUE]

Init ==
  /\ proc = "down" /\ st = EmptyState /\ metaMem = 0
  /\ blockFile = [i \in Height |-> NoBlock] /\ readable = {} /\ metaFile = Unreadable
  /\ pc = "idle" /\ mode = "none" /\ work = NoBlock /\ sim = EmptyState /\ step = 0
  /\ result = [c \in {"mine", "sync"} |-> "none"]
  /\ crashes = 0 /\ diskErrors = 0

\* bc.mu is released and the locals of the call are gone.
Unlock == /\ pc' = "idle" /\ mode' = "none" /\ work' = NoBlock
          /\ sim' = EmptyState /\ step' = 0

\* The process ends: only the files remain.
Halt == /\ proc' = "down" /\ st' = EmptyState /\ metaMem' = 0 /\ Unlock
        /\ result' = [c \in {"mine", "sync"} |-> "none"]

-----------------------------------------------------------------------------
(* Start-up: storage.Open and chain.New. *)

\* loadMeta's error is ignored: an absent or unreadable meta.json is height 0.
LoadMeta == IF metaFile = Unreadable THEN 0 ELSE metaFile

\* Height 0: a new genesis block, stamped with the current time, is put in
\* the store whether or not there was one.
StartGenesis ==
  /\ proc = "down" /\ LoadMeta = 0
  /\ \E now \in Clock : work' = NewGenesisBlock(now)
  /\ proc' = "starting" /\ metaMem' = 0 /\ st' = GenesisState
  /\ pc' = "putblock" /\ mode' = "genesis"
  /\ UNCHANGED <<sim, step, files, result, faults>>

\* Mutant: the height starts again at 0 and grows with the blocks applied.
StartRebuild_fromZero ==
  /\ proc = "down" /\ LoadMeta > 0
  /\ proc' = "starting" /\ metaMem' = 0
  /\ pc' = "rebuild" /\ mode' = "rebuild"
  /\ UNCHANGED <<st, work, sim, step, files, result, faults>>

\* Any other height: rebuildState goes through the stored blocks.
StartRebuild ==
  /\ proc = "down" /\ LoadMeta > 0
  /\ proc' = "starting" /\ metaMem' = LoadMeta
  /\ pc' = "rebuild" /\ mode' = "rebuild"
  /\ UNCHANGED <<st, work, sim, step, files, result, faults>>

Tip == blockFile[metaMem]

\* Mutant: the previous hash is not compared.
Verdict_prevUnchecked(b) ==
  IF b.index <= Tip.index /\ ~(b.index = 0 /\ Tip.index = 0 /\ HashOf(b) # HashOf(Tip))
  THEN IF HashOf(b) = HashOf(Tip) THEN "known" ELSE "reject"
  ELSE IF b.index > 0 /\ ~b.pow THEN "reject" ELSE "execute"

\* The checks at the head of applyBlockInternal.
Verdict(b) ==
  LET outOfOrder == /\ b.index # Tip.index + 1
                    /\ ~(b.index = 0 /\ Tip.index = 0 /\ HashOf(b) # HashOf(Tip))
                    /\ b.index <= Tip.index
  IN  IF outOfOrder
      THEN IF HashOf(b) = HashOf(Tip) THEN "known" ELSE "reject"
      ELSE IF b.index > 0 /\ (b.prev # HashOf(Tip) \/ ~b.pow)
           THEN "reject" ELSE "execute"

\* Iterate stops at the first error and block 0 comes first; New returns the
\* error and onexd exits.  Block 0 is always refused (RebuildRefused below), so
\* no other outcome of rebuildState is modelled.
RebuildRejected ==
  /\ pc = "rebuild" /\ Verdict(blockFile[0]) = "reject"
  /\ Halt
  /\ UNCHANGED <<files, faults>>

-----------------------------------------------------------------------------
(* Executing a block under bc.mu. *)

\* The call returns and releases bc.mu.  An error ends the process when it is
\* the genesis block that could not be stored.
Return(outcome) ==
  IF mode = "genesis"
  THEN IF outcome = "ok"
       THEN proc' = "up" /\ Unlock /\ UNCHANGED <<st, metaMem, result>>
       ELSE Halt
  ELSE /\ Unlock /\ result' = [result EXCEPT ![mode] = outcome]
       /\ UNCHANGED <<proc, st, metaMem>>

\* Take the lock and clone the state to execute b on.
Execute(b, caller) ==
  /\ work' = b /\ mode' = caller /\ pc' = "sim" /\ sim' = st /\ step' = 0
  /\ UNCHANGED <<proc, st, metaMem, files, result, faults>>

\* FinalizeAndMineBlock.  It executes txs to find the state root and, with
\* bc.mu still held, applyBlockInternal executes them again on the same state:
\* one execution stands for both.
FinalizeAndMineBlock(txs) ==
  /\ proc = "up" /\ pc = "idle" /\ metaMem < MaxHeight
  /\ Execute([index |-> Tip.index + 1, ts |-> Tip.ts + 1, prev |-> HashOf(Tip),
              root |-> EmptyState, miner |-> Miner, txs |-> txs, pow |-> TRUE],
             "mine")

\* ApplyBlock, for a block received from a peer.
ApplyBlock(b) ==
  /\ proc = "up" /\ pc = "idle"
  /\ \/ Verdict(b) = "execute" /\ Execute(b, "sync")
     \/ /\ Verdict(b) # "execute"
        /\ result' = [result EXCEPT !["sync"] =
                        IF Verdict(b) = "known" THEN "ok" ELSE "error"]
        /\ UNCHANGED <<proc, st, metaMem, files, call, faults>>

\* What peers send: blocks this node has, children of its tip, blocks of
\* another branch.  Whether the root of a child is the right one is decided
\* in RootMismatch and CommitState.
PeerBlocks ==
  {blockFile[i] : i \in 0 .. metaMem}
  \cup (IF metaMem = MaxHeight THEN {} ELSE
         [index : {Tip.index + 1}, ts : {Tip.ts + 1}, prev : {HashOf(Tip)},
          root : {EmptyState}, miner : {PeerMiner}, txs : Batches, pow : BOOLEAN])
  \cup [index : 1 .. MaxHeight, ts : Clock, prev : {[HashOf(Tip) EXCEPT !.ts = @ + 1]},
        root : {EmptyState}, miner : {PeerMiner}, txs : {<<>>}, pow : {TRUE}]

ReceiveBlock == proc = "up" /\ pc = "idle" /\ \E b \in PeerBlocks : ApplyBlock(b)

\* Mutant: the error of ApplyTransaction is ignored.
SimulateTx_unchecked ==
  /\ pc = "sim" /\ step < Len(work.txs)
  /\ sim' = AfterTx(sim, work.txs[step + 1], work.miner)
  /\ step' = step + 1
  /\ UNCHANGED <<proc, st, metaMem, files, pc, mode, work, result, faults>>

SimulateTx ==
  /\ pc = "sim" /\ step < Len(work.txs)
  /\ TxApplies(sim, work.txs[step + 1])
  /\ sim' = AfterTx(sim, work.txs[step + 1], work.miner)
  /\ step' = step + 1
  /\ UNCHANGED <<proc, st, metaMem, files, pc, mode, work, result, faults>>

\* Mutant: the block is executed on bc.state itself, not on a clone.
SimulateFails_inPlace ==
  /\ pc = "sim" /\ step < Len(work.txs)
  /\ ~TxApplies(sim, work.txs[step + 1])
  /\ st' = sim
  /\ Unlock /\ result' = [result EXCEPT ![mode] = "error"]
  /\ UNCHANGED <<proc, metaMem, files, faults>>

SimulateFails ==
  /\ pc = "sim" /\ step < Len(work.txs)
  /\ ~TxApplies(sim, work.txs[step + 1])
  /\ Return("error")
  /\ UNCHANGED <<files, faults>>

Executed == pc = "sim" /\ step = Len(work.txs)

\* The root a peer claims differs from the one computed.
RootMismatch ==
  /\ Executed /\ mode = "sync"
  /\ Return("error")
  /\ UNCHANGED <<files, faults>>

\* The roots agree: bc.state takes the block's effects before it is stored.
CommitState ==
  /\ Executed
  /\ st' = ApplyBlockReward(sim, work.miner, BlockReward)
  /\ work' = [work EXCEPT !.root = st']
  /\ pc' = "putblock"
  /\ UNCHANGED <<proc, metaMem, files, mode, sim, step, result, faults>>

-----------------------------------------------------------------------------
(* storage.Store.PutBlock: the block file, the height in memory, meta.json. *)

\* Mutant: the file is named after the next height, not after the block.
WriteBlock_nextHeight ==
  /\ pc = "putblock"
  /\ blockFile' = [blockFile EXCEPT ![metaMem + 1] = work]
  /\ readable' = readable \cup {metaMem + 1}
  /\ metaMem' = IF work.index > metaMem THEN work.index ELSE metaMem
  /\ pc' = "savemeta"
  /\ UNCHANGED <<proc, st, metaFile, mode, work, sim, step, result, faults>>

WriteBlock ==
  /\ pc = "putblock"
  /\ blockFile' = [blockFile EXCEPT ![work.index] = work]
  /\ readable' = readable \cup {work.index}
  /\ metaMem' = IF work.index > metaMem THEN work.index ELSE metaMem
  /\ pc' = "savemeta"
  /\ UNCHANGED <<proc, st, metaFile, mode, work, sim, step, result, faults>>

\* Mutant: the interrupted write is that of the tip.
TearBlock_tip == readable' \in {readable} \cup
  (IF "block" \in TornFiles THEN {readable \ {metaMem}} ELSE {})

\* What an interrupted os.WriteFile leaves of the file it was writing.
TearBlock == readable' \in {readable} \cup
  (IF "block" \in TornFiles THEN {readable \ {work.index}} ELSE {})

TearMeta == metaFile' \in {metaFile} \cup
  (IF "meta" \in TornFiles THEN {Unreadable} ELSE {})

WriteBlockFails ==
  /\ pc = "putblock" /\ diskErrors < MaxDiskErrors
  /\ TearBlock
  /\ Return("error")
  /\ diskErrors' = diskErrors + 1
  /\ UNCHANGED <<blockFile, metaFile, crashes>>

SaveMeta ==
  /\ pc = "savemeta"
  /\ metaFile' = metaMem
  /\ Return("ok")
  /\ UNCHANGED <<blockFile, readable, faults>>

\* The height in memory is not taken back.
SaveMetaFails ==
  /\ pc = "savemeta" /\ diskErrors < MaxDiskErrors
  /\ TearMeta
  /\ Return("error")
  /\ diskErrors' = diskErrors + 1
  /\ UNCHANGED <<blockFile, readable, crashes>>

\* The process stops: killed, or by Stop, which waits for nothing.
Crash ==
  /\ proc # "down" /\ crashes < MaxCrashes
  /\ Halt
  /\ IF pc = "putblock" THEN TearBlock ELSE UNCHANGED readable
  /\ IF pc = "savemeta" THEN TearMeta ELSE UNCHANGED metaFile
  /\ crashes' = crashes + 1
  /\ UNCHANGED <<blockFile, diskErrors>>

-----------------------------------------------------------------------------
ExecuteBlock == SimulateTx \/ SimulateFails \/ RootMismatch \/ CommitState

PutBlock == WriteBlock \/ WriteBlockFails \/ SaveMeta \/ SaveMetaFails

StartUp == StartGenesis \/ StartRebuild \/ RebuildRejected

Next == \/ StartUp
        \/ \E txs \in Batches : FinalizeAndMineBlock(txs)
        \/ ReceiveBlock
        \/ ExecuteBlock
        \/ PutBlock
        \/ Crash

Spec == Init /\ [][Next]_vars

-----------------------------------------------------------------------------
(* Properties. *)

BlockOK(b) == /\ b.index \in Height /\ b.ts \in Nat
              /\ b.root \in ChainStates
              /\ b.miner \in Addr \cup {NoAddr}
              /\ b.txs \in Seq(Transaction)
              /\ b.pow \in BOOLEAN

\* Type invariant.  The file of block i holds a block of that index; the block
\* in work goes with its transaction counter.
TypeOK ==
  /\ proc \in {"down", "starting", "up"}
  /\ st \in ChainStates /\ sim \in ChainStates
  /\ metaMem \in Height
  /\ DOMAIN blockFile = Height
  /\ readable \subseteq Height
  /\ \A i \in readable : BlockOK(blockFile[i]) /\ blockFile[i].index = i
  /\ metaFile \in Height \cup {Unreadable}
  /\ pc \in {"idle", "rebuild", "sim", "putblock", "savemeta"}
  /\ mode \in {"none", "genesis", "rebuild", "mine", "sync"}
  /\ pc \in {"sim", "putblock", "savemeta"} => BlockOK(work)
  /\ pc = "sim" => step \in 0 .. Len(work.txs)
  /\ result \in [{"mine", "sync"} -> {"none", "ok", "error"}]
  /\ crashes \in 0 .. MaxCrashes /\ diskErrors \in 0 .. MaxDiskErrors

SameSpend(tx, ty) == tx.from # NoAddr /\ tx.from = ty.from /\ tx.nonce = ty.nonce

\* No transaction is executed twice: two positions of the stored chain never
\* hold the same sender and nonce, whatever is mined, received from peers, lost
\* to a failed write or resubmitted (the nonce check of ApplyTransaction).
NoReplay ==
  proc = "up" =>
    \A i, j \in 1 .. metaMem :
      \A k \in 1 .. Len(blockFile[i].txs), l \in 1 .. Len(blockFile[j].txs) :
        SameSpend(blockFile[i].txs[k], blockFile[j].txs[l]) => i = j /\ k = l

\* While the node serves, every block up to its height is on disk under its own
\* index and names the header of the block before it, after any history of
\* crashes, torn files and regenerated genesis blocks (applyBlockInternal,
\* PutBlock, New).
ChainLinked ==
  proc = "up" =>
    /\ \A i \in 0 .. metaMem : i \in readable /\ blockFile[i].index = i
    /\ \A i \in 1 .. metaMem : blockFile[i].prev = HashOf(blockFile[i-1])

\* rebuildState cannot succeed: with a height of 1 or more in meta.json, block
\* 0 is refused by the order check of applyBlockInternal, which compares it
\* with the stored tip.
RebuildRefused == pc = "rebuild" => Verdict(blockFile[0]) = "reject"

\* A block at or below the height meta.json records is never touched again
\* (PutBlock writes at the next index only; New overwrites block 0 alone).
KeepsDurable ==
  metaFile \in Height =>
    \A i \in 1 .. metaFile : i \in readable' /\ blockFile'[i] = blockFile[i]

DurablePrefix == [][KeepsDurable]_vars

\* When no write has failed, the accounts in memory are the ones whose root the
\* tip carries, whenever the lock is free (CommitState then PutBlock).
StateMatchesTip ==
  proc = "up" /\ pc = "idle" /\ diskErrors = 0 => st = Tip.root

Supply(s) == Total([a \in Addr |-> s[a].balance])

\* The coins that exist at height h.
Issued(h) == Supply(GenesisState) + BlockReward * h

\* A transfer whose amount and fee do not wrap around together.
Ordinary(tx) == tx.from # NoAddr /\ tx.amount + tx.fee < Modulus

\* Where amounts are exact: the blocks of others carry ordinary transfers, and
\* the coins that can ever exist are below the modulus.
CoinsFit ==
  /\ IsFiniteSet(Addr)
  /\ \A txs \in Batches : \A k \in 1 .. Len(txs) : Ordinary(txs[k])
  /\ Issued(MaxHeight) < Modulus

\* Coins come from the genesis allocation and the block rewards alone: fees and
\* transfers, to oneself too, move them (ApplyTransaction, ApplyBlockReward).
SupplyConserved ==
  proc = "up" /\ pc = "idle" => Supply(st) = Issued(metaMem)

\* The blocks that meta.json counts, and the accounts the last of them names.
DurableLog ==
  IF LoadMeta = 0 THEN <<>>
  ELSE [i \in 1 .. LoadMeta |-> [txs |-> blockFile[i].txs, miner |-> blockFile[i].miner]]

DurableState == IF LoadMeta = 0 THEN GenesisState ELSE blockFile[LoadMeta].root

Ledger == INSTANCE AppendOnlyLedger WITH
  GenesisState <- GenesisState, Miners <- {Miner, PeerMiner},
  log <- DurableLog, state <- DurableState

\* The durable part of a node (what meta.json counts) implements the ledger:
\* blocks appear one at a time, each executable on the accounts the one before
\* left, and nothing durable is lost to a crash between two writes.
ImplementsLedger == Ledger!Spec

-----------------------------------------------------------------------------
(* The inductive invariant behind ChainLinked, RebuildRefused and NoReplay. *)

\* Which call may be where: a node serves, builds its genesis block, rebuilds,
\* or is down; a block on its way to the store extends the tip.
ControlInv ==
  /\ proc = "down" => pc = "idle"
  /\ proc = "starting" => pc \in {"rebuild", "putblock", "savemeta"}
  /\ pc = "rebuild" => proc = "starting" /\ metaMem > 0 /\ metaFile = metaMem
  /\ pc = "sim" => mode \in {"mine", "sync"}
  /\ pc \in {"sim", "putblock", "savemeta"} =>
       \/ mode = "genesis" /\ proc = "starting" /\ metaMem = 0 /\ work.index = 0
       \/ mode \in {"mine", "sync"} /\ proc = "up"
  /\ pc \in {"sim", "putblock"} /\ mode # "genesis" =>
       work.index = metaMem + 1 /\ work.prev = HashOf(Tip)

\* The files behind the height: in meta.json, in memory, and between the two
\* writes of a genesis block.
DiskInv ==
  /\ LoadMeta > 0 => 0 .. LoadMeta \subseteq readable
  /\ proc = "up" \/ pc = "savemeta" => 0 .. metaMem \subseteq readable
  /\ proc = "up" \/ mode = "genesis" => LoadMeta <= metaMem
  /\ proc = "up" => \A i \in 1 .. metaMem : blockFile[i].prev = HashOf(blockFile[i-1])

\* The nonces of an account state are past every transaction it includes.
Includes(s, tx) == tx.from # NoAddr => tx.nonce < s[tx.from].nonce

\* The first n transactions of the block in work are pairwise distinct, are
\* included in s, and are not in the stored chain.
FreshUpTo(n, s) ==
  \A k \in 1 .. n :
    /\ Includes(s, work.txs[k])
    /\ \A l \in 1 .. n : SameSpend(work.txs[k], work.txs[l]) => k = l
    /\ \A i \in 1 .. metaMem : \A l \in 1 .. Len(blockFile[i].txs) :
         ~SameSpend(blockFile[i].txs[l], work.txs[k])

NonceInv ==
  proc = "up" =>
    /\ \A i \in 1 .. metaMem : \A k \in 1 .. Len(blockFile[i].txs) :
         Includes(st, blockFile[i].txs[k])
    /\ pc = "sim" => /\ \A a \in Addr : st[a].nonce <= sim[a].nonce
                     /\ FreshUpTo(step, sim)
    /\ pc = "putblock" => FreshUpTo(Len(work.txs), st)

IndInv == TypeOK /\ ControlInv /\ DiskInv /\ NonceInv /\ NoReplay
=============================================================================
