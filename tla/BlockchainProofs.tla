------------------------- MODULE BlockchainProofs -------------------------
(***************************************************************************)
(* Proofs about Blockchain for every set of addresses, every genesis, every *)
(* set of transaction lists and any number of crashes and failed writes.   *)
(***************************************************************************)
EXTENDS Blockchain, SumProofs, SequenceTheorems

(***************************************************************************)
(* Lemmas about the account state (ChainState).                            *)
(***************************************************************************)

\* The state a node starts from gives every address a zero account.
LEMMA EmptyStateType == EmptyState \in ChainStates
BY ModulusAssumption DEF EmptyState, ChainStates, Account, Amount

\* Modular sums and differences of amounts are amounts.
LEMMA ArithmeticType ==
  ASSUME NEW x \in Int, NEW y \in Int
  PROVE  Plus(x, y) \in Amount /\ Minus(x, y) \in Amount
BY ModulusAssumption, SMT DEF Plus, Minus, Amount

\* Crediting an address keeps the type of the state and every nonce.
LEMMA CreditFacts ==
  ASSUME NEW s \in ChainStates, NEW a \in Addr, NEW v \in Amount
  PROVE  /\ Credit(s, a, v) \in ChainStates
         /\ \A b \in Addr : Credit(s, a, v)[b].nonce = s[b].nonce
<1>1. s[a].balance \in Int /\ v \in Int
  BY ModulusAssumption DEF ChainStates, Account, Amount
<1>2. Plus(s[a].balance, v) \in Amount
  BY <1>1, ArithmeticType
<1>3. QED
  BY <1>2 DEF Credit, ChainStates, Account

\* Debiting an address keeps the type and advances that address's nonce alone.
LEMMA DebitFacts ==
  ASSUME NEW s \in ChainStates, NEW a \in Addr, NEW v \in Amount
  PROVE  /\ Debit(s, a, v) \in ChainStates
         /\ Debit(s, a, v)[a].nonce = s[a].nonce + 1
         /\ \A b \in Addr : b # a => Debit(s, a, v)[b].nonce = s[b].nonce
<1>1. s[a].balance \in Int /\ v \in Int
  BY ModulusAssumption DEF ChainStates, Account, Amount
<1>2. Minus(s[a].balance, v) \in Amount
  BY <1>1, ArithmeticType
<1>3. QED
  BY <1>2 DEF Debit, ChainStates, Account

\* The reward keeps the type and every nonce.
LEMMA RewardFacts ==
  ASSUME NEW s \in ChainStates, NEW m \in Addr \cup {NoAddr}, NEW v \in Amount
  PROVE  /\ ApplyBlockReward(s, m, v) \in ChainStates
         /\ \A b \in Addr : ApplyBlockReward(s, m, v)[b].nonce = s[b].nonce
BY CreditFacts, AddrAssumption DEF ApplyBlockReward

\* A transaction advances the nonce of its sender by one and no other nonce.
LEMMA AfterTxFacts ==
  ASSUME NEW s \in ChainStates, NEW tx \in Transaction,
         NEW m \in Addr \cup {NoAddr}
  PROVE  /\ AfterTx(s, tx, m) \in ChainStates
         /\ \A b \in Addr : AfterTx(s, tx, m)[b].nonce =
              IF b = tx.from THEN s[b].nonce + 1 ELSE s[b].nonce
<1> DEFINE v == Plus(tx.amount, tx.fee)
           d == Debit(s, tx.from, v)
           p == Credit(d, tx.to, tx.amount)
<1>0. /\ tx.from \in Addr \cup {NoAddr} /\ tx.to \in Addr
      /\ tx.amount \in Amount /\ tx.fee \in Amount
  BY DEF Transaction
<1>1. CASE tx.from = NoAddr
  BY <1>0, <1>1, CreditFacts, AddrAssumption DEF AfterTx
<1>2. CASE tx.from # NoAddr
  <2>1. tx.from \in Addr /\ v \in Amount
    <3>1. tx.amount \in Int /\ tx.fee \in Int
      BY <1>0, ModulusAssumption DEF Amount
    <3>2. QED  BY <1>0, <1>2, <3>1, ArithmeticType
  <2>2. /\ d \in ChainStates
        /\ d[tx.from].nonce = s[tx.from].nonce + 1
        /\ \A b \in Addr : b # tx.from => d[b].nonce = s[b].nonce
    BY <2>1, DebitFacts
  <2> HIDE DEF d
  <2>3. p \in ChainStates /\ \A b \in Addr : p[b].nonce = d[b].nonce
    BY <1>0, <2>2, CreditFacts
  <2> HIDE DEF p
  <2>4. AfterTx(s, tx, m) = IF tx.fee > 0 /\ m # NoAddr
                            THEN Credit(p, m, tx.fee) ELSE p
    BY <1>2 DEF AfterTx, p, d
  <2>5. CASE tx.fee > 0 /\ m # NoAddr
    <3>1. m \in Addr  BY <2>5
    <3>2. /\ Credit(p, m, tx.fee) \in ChainStates
          /\ \A b \in Addr : Credit(p, m, tx.fee)[b].nonce = p[b].nonce
      BY <1>0, <2>3, <3>1, CreditFacts
    <3>3. QED  BY <2>2, <2>3, <2>4, <2>5, <3>2
  <2>6. CASE ~(tx.fee > 0 /\ m # NoAddr)
    BY <2>2, <2>3, <2>4, <2>6
  <2>7. QED  BY <2>5, <2>6
<1>3. QED  BY <1>1, <1>2

\* The genesis allocation is an account state.
LEMMA GenesisStateType == GenesisState \in ChainStates
<1>0. \A k \in 1 .. Len(GenesisTxs) : GenesisTxs[k].amount \in Amount
  <2>1. \A k \in 1 .. Len(GenesisTxs) : GenesisTxs[k] \in Transaction
    BY BlockchainAssumption
  <2>2. QED  BY <2>1 DEF Transaction
<1>1. \A a \in Addr : GenesisAlloc(a) \subseteq Amount
  BY <1>0 DEF GenesisAlloc
<1>2. \A a \in Addr : GenesisAlloc(a) # {} =>
        (CHOOSE v \in GenesisAlloc(a) : TRUE) \in Amount
  BY <1>1
<1>3. QED
  BY <1>2, ModulusAssumption DEF GenesisState, ChainStates, Account, Amount

(***************************************************************************)
(* What the serving node knows of its tip and of a block it executes.      *)
(***************************************************************************)

\* The tip of a serving node is a stored block whose index is the height.
LEMMA TipFacts ==
  ASSUME TypeOK, DiskInv, proc = "up"
  PROVE  /\ metaMem \in Height /\ metaMem \in readable
         /\ BlockOK(Tip) /\ Tip.index = metaMem
<1>1. metaMem \in Height /\ metaMem \in readable
  BY BlockchainAssumption DEF TypeOK, DiskInv, Height
<1>2. QED
  BY <1>1 DEF TypeOK, Tip

\* A block from a peer is well formed, and one that is executed extends the tip.
LEMMA PeerBlockFacts ==
  ASSUME TypeOK, DiskInv, proc = "up", NEW b \in PeerBlocks
  PROVE  /\ BlockOK(b)
         /\ Verdict(b) = "execute" => /\ b.index = metaMem + 1 /\ b.prev = HashOf(Tip)
                                     /\ b.txs \in Batches /\ b.miner = PeerMiner
<1> USE BlockchainAssumption
<1>1. metaMem \in Height /\ BlockOK(Tip) /\ Tip.index = metaMem
  BY TipFacts
<1>2. CASE \E i \in 0 .. metaMem : b = blockFile[i]
  <2>1. PICK i \in 0 .. metaMem : b = blockFile[i]
    BY <1>2
  <2>2. BlockOK(b) /\ b.index = i
    BY <2>1 DEF TypeOK, DiskInv
  <2>3. ASSUME Verdict(b) = "execute" PROVE FALSE
    <3>1. i < metaMem \/ b = Tip
      BY <1>1, <2>1 DEF Tip, Height
    <3>2. b.index # Tip.index + 1 /\ b.index <= Tip.index
      BY <1>1, <2>1, <2>2 DEF Height
    <3>3. ~(b.index = 0 /\ Tip.index = 0 /\ HashOf(b) # HashOf(Tip))
      BY <1>1, <2>1, <2>2, <3>1 DEF Height
    <3>4. QED
      BY <2>3, <3>2, <3>3 DEF Verdict
  <2>4. QED
    BY <2>2, <2>3
<1>3. CASE b \in [index : {Tip.index + 1}, ts : {Tip.ts + 1}, prev : {HashOf(Tip)},
                  root : {EmptyState}, miner : {PeerMiner}, txs : Batches,
                  pow : BOOLEAN] /\ metaMem # MaxHeight
  <2>1. b.index \in Height /\ b.ts \in Nat
    BY <1>1, <1>3 DEF Height, BlockOK
  <2>2. QED
    BY <1>1, <1>3, <2>1, EmptyStateType DEF BlockOK
<1>4. CASE b \in [index : 1 .. MaxHeight, ts : Clock,
                  prev : {[HashOf(Tip) EXCEPT !.ts = @ + 1]},
                  root : {EmptyState}, miner : {PeerMiner}, txs : {<<>>}, pow : {TRUE}]
  <2>1. BlockOK(b)
    <3>1. b.txs \in Seq(Transaction)
      <4>1. b.txs = << >>  BY <1>4
      <4>2. << >> \in Seq(Transaction)  OBVIOUS
      <4>3. QED  BY <4>1, <4>2
    <3>2. b.index \in Height /\ b.ts \in Nat /\ b.miner \in Addr
      BY <1>4 DEF Height
    <3>3. b.root \in ChainStates /\ b.pow \in BOOLEAN
      BY <1>4, EmptyStateType
    <3>4. QED  BY <3>1, <3>2, <3>3 DEF BlockOK
  <2>2. b.prev.ts = Tip.ts + 1 /\ HashOf(Tip).ts = Tip.ts
    BY <1>4 DEF HashOf
  <2>3. b.prev # HashOf(Tip)
    BY <1>1, <2>2 DEF BlockOK
  <2>4. b.index \in Int /\ b.index > 0
    BY <1>4
  <2>5. Verdict(b) # "execute"
    BY <2>3, <2>4 DEF Verdict
  <2>6. QED
    BY <2>1, <2>5
<1>5. QED
  BY <1>2, <1>3, <1>4 DEF PeerBlocks

(***************************************************************************)
(* Type correctness, the control structure and the files.                  *)
(***************************************************************************)

StructInv == TypeOK /\ ControlInv /\ DiskInv

LEMMA StructInit == Init => StructInv
BY EmptyStateType, BlockchainAssumption
   DEF Init, StructInv, TypeOK, ControlInv, DiskInv, LoadMeta, Height

LEMMA StructStartGenesis == StructInv /\ StartGenesis => StructInv'
<1> SUFFICES ASSUME StructInv, StartGenesis PROVE StructInv'
  OBVIOUS
<1> USE BlockchainAssumption DEF StructInv
<1>1. PICK now \in Clock : work' = NewGenesisBlock(now)
  BY DEF StartGenesis
<1>2. BlockOK(work') /\ work'.index = 0
  <2>1. /\ work'.index = 0 /\ work'.ts = now /\ work'.root = GenesisState
        /\ work'.miner = NoAddr /\ work'.txs = GenesisTxs /\ work'.pow = TRUE
    BY <1>1 DEF NewGenesisBlock
  <2>2. now \in Nat /\ 0 \in Height /\ GenesisTxs \in Seq(Transaction)
    BY DEF Height
  <2> HIDE BlockchainAssumption
  <2>3. QED
    BY <2>1, <2>2, GenesisStateType DEF BlockOK
<1>3. TypeOK'
  BY <1>2, GenesisStateType DEF StartGenesis, TypeOK, files, faults, Height, BlockOK
<1>4. ControlInv'
  BY <1>2 DEF StartGenesis, ControlInv
<1>5. DiskInv'
  BY DEF StartGenesis, DiskInv, LoadMeta, files
<1>6. QED
  BY <1>3, <1>4, <1>5

LEMMA StructStartRebuild == StructInv /\ StartRebuild => StructInv'
<1> SUFFICES ASSUME StructInv, StartRebuild PROVE StructInv'
  OBVIOUS
<1> USE BlockchainAssumption DEF StructInv
<1>1. LoadMeta \in Height /\ LoadMeta = metaFile
  BY DEF StartRebuild, LoadMeta, TypeOK
<1>2. TypeOK'
  BY <1>1 DEF StartRebuild, TypeOK, files, faults, BlockOK
<1>3. ControlInv'
  BY <1>1 DEF StartRebuild, ControlInv, files, Height
<1>4. DiskInv'
  BY DEF StartRebuild, DiskInv, LoadMeta, files
<1>5. QED
  BY <1>2, <1>3, <1>4

\* Whatever ends the process, a file it was writing may be left unreadable.
LEMMA StructHalt ==
  ASSUME StructInv, Halt, UNCHANGED blockFile,
         \/ UNCHANGED readable
         \/ pc = "putblock" /\ readable' = readable \ {work.index},
         metaFile' \in {metaFile, Unreadable},
         crashes' \in 0 .. MaxCrashes, diskErrors' \in 0 .. MaxDiskErrors
  PROVE  StructInv'
<1> USE BlockchainAssumption DEF StructInv
<1>1. TypeOK'
  <2>1. /\ proc' = "down" /\ st' = EmptyState /\ metaMem' = 0 /\ sim' = EmptyState
        /\ pc' = "idle" /\ mode' = "none"
        /\ result' \in [{"mine", "sync"} -> {"none", "ok", "error"}]
    BY DEF Halt, Unlock
  <2>2. readable' \subseteq readable
    OBVIOUS
  <2>3. metaFile' \in Height \cup {Unreadable} /\ 0 \in Height
    BY DEF TypeOK, Height
  <2>4. \A i \in readable' : BlockOK(blockFile'[i]) /\ blockFile'[i].index = i
    BY <2>2 DEF TypeOK
  <2>5. readable' \subseteq Height /\ DOMAIN blockFile' = Height
    BY <2>2 DEF TypeOK
  <2>6. QED
    BY <2>1, <2>3, <2>4, <2>5, EmptyStateType DEF TypeOK, BlockOK
<1>2. ControlInv'
  BY DEF Halt, Unlock, ControlInv
<1>3. proc' = "down" /\ pc' = "idle" /\ mode' = "none"
  BY DEF Halt, Unlock
<1>4. LoadMeta \in Nat /\ LoadMeta' \in {LoadMeta, 0}
  BY DEF LoadMeta, TypeOK, Height
<1>5. LoadMeta' > 0 => 0 .. LoadMeta' \subseteq readable'
  <2>1. CASE UNCHANGED readable
    BY <1>4, <2>1 DEF DiskInv
  <2>2. CASE pc = "putblock" /\ readable' = readable \ {work.index}
    <3>1. LoadMeta <= metaMem /\ metaMem \in Nat
      BY <2>2 DEF ControlInv, DiskInv, TypeOK, Height
    <3>2. metaMem = 0 \/ work.index = metaMem + 1
      BY <2>2 DEF ControlInv
    <3>3. QED
      BY <1>4, <2>2, <3>1, <3>2 DEF DiskInv
  <2>3. QED
    BY <2>1, <2>2
<1>6. DiskInv'
  BY <1>3, <1>5 DEF DiskInv
<1>7. QED
  BY <1>1, <1>2, <1>6

\* A call that returns to a serving node: the height and the blocks are as they
\* were, the file it was writing may be left unreadable or, meta.json, catch up.
LEMMA StructReturn ==
  ASSUME StructInv, Unlock, UNCHANGED <<st, metaMem, blockFile>>, proc' = "up",
         \/ proc = "up"
         \/ mode = "genesis" /\ pc = "savemeta" /\ UNCHANGED readable,
         \/ UNCHANGED readable
         \/ pc = "putblock" /\ readable' = readable \ {work.index},
         metaFile' \in {metaFile, Unreadable, metaMem},
         result' \in [{"mine", "sync"} -> {"none", "ok", "error"}],
         crashes' \in 0 .. MaxCrashes, diskErrors' \in 0 .. MaxDiskErrors
  PROVE  StructInv'
<1> USE BlockchainAssumption DEF StructInv
<1>1. pc' = "idle" /\ mode' = "none" /\ sim' = EmptyState
  BY DEF Unlock
<1>2. readable' \subseteq readable /\ metaMem \in Height /\ metaMem \in Nat
  BY DEF TypeOK, Height
<1>3. TypeOK'
  <2>1. \A i \in readable' : BlockOK(blockFile'[i]) /\ blockFile'[i].index = i
    BY <1>2 DEF TypeOK
  <2>2. readable' \subseteq Height /\ DOMAIN blockFile' = Height
    BY <1>2 DEF TypeOK
  <2>3. metaFile' \in Height \cup {Unreadable}
    BY <1>2 DEF TypeOK
  <2>4. st' \in ChainStates /\ metaMem' \in Height
    BY DEF TypeOK
  <2>5. QED
    BY <1>1, <2>1, <2>2, <2>3, <2>4, EmptyStateType DEF TypeOK, BlockOK
<1>4. ControlInv'
  BY <1>1 DEF ControlInv
<1>5. 0 .. metaMem \subseteq readable'
  <2>1. 0 .. metaMem \subseteq readable
    BY DEF DiskInv
  <2>2. pc = "putblock" => work.index \notin 0 .. metaMem
    BY <1>2 DEF ControlInv
  <2>3. QED
    BY <2>1, <2>2
<1>6. LoadMeta <= metaMem /\ LoadMeta \in Nat
  BY DEF ControlInv, DiskInv, TypeOK, LoadMeta, Height
<1>7. LoadMeta' \in {LoadMeta, 0, metaMem}
  BY <1>2 DEF LoadMeta
<1>8. LoadMeta' <= metaMem' /\ LoadMeta' \in Nat
  BY <1>2, <1>6, <1>7
<1>9. \A i \in 1 .. metaMem : blockFile[i].prev = HashOf(blockFile[i-1])
  BY <1>2 DEF ControlInv, DiskInv
<1>10. (\A i \in 1 .. metaMem : blockFile[i].prev = HashOf(blockFile[i-1]))'
  BY <1>9
<1>11. (0 .. LoadMeta \subseteq readable)'
  BY <1>2, <1>5, <1>8
<1>12. QED
  BY <1>1, <1>3, <1>4, <1>5, <1>8, <1>10, <1>11 DEF DiskInv

\* A call that takes the lock to execute a child of the tip.
LEMMA StructExecute ==
  ASSUME StructInv, proc = "up", NEW b, BlockOK(b), NEW c \in {"mine", "sync"},
         b.index = metaMem + 1, b.prev = HashOf(Tip), Execute(b, c)
  PROVE  StructInv'
<1> USE BlockchainAssumption DEF StructInv
<1>1. TypeOK'
  <2>1. Len(b.txs) \in Nat
    BY DEF BlockOK
  <2>2. 0 \in 0 .. Len(b.txs)
    BY <2>1
  <2>3. QED
    BY <2>2 DEF Execute, TypeOK, files, faults, BlockOK
<1>2. ControlInv'
  BY DEF Execute, ControlInv, files, Tip, HashOf
<1>3. DiskInv'
  BY DEF Execute, DiskInv, LoadMeta, files, HashOf
<1>4. QED
  BY <1>1, <1>2, <1>3

LEMMA StructRebuildRejected == StructInv /\ RebuildRejected => StructInv'
BY StructHalt DEF RebuildRejected, files, faults, StructInv, TypeOK

\* The node mines a batch of whatever transactions its pool holds.
LEMMA StructMine ==
  ASSUME NEW txs \in Seq(Transaction)
  PROVE  StructInv /\ FinalizeAndMineBlock(txs) => StructInv'
<1> SUFFICES ASSUME StructInv, FinalizeAndMineBlock(txs) PROVE StructInv'
  OBVIOUS
<1> DEFINE b == [index |-> Tip.index + 1, ts |-> Tip.ts + 1, prev |-> HashOf(Tip),
                 root |-> EmptyState, miner |-> Miner, txs |-> txs, pow |-> TRUE]
<1>1. proc = "up" /\ metaMem < MaxHeight /\ Execute(b, "mine")
  BY DEF FinalizeAndMineBlock
<1>2. metaMem \in Height /\ BlockOK(Tip) /\ Tip.index = metaMem
  BY <1>1, TipFacts DEF StructInv
<1>3. BlockOK(b) /\ b.index = metaMem + 1 /\ b.prev = HashOf(Tip)
  <2>1. b.index \in Height /\ b.ts \in Nat
    BY <1>1, <1>2, BlockchainAssumption DEF BlockOK, Height
  <2>2. b.txs \in Seq(Transaction) /\ b.miner \in Addr
    BY BlockchainAssumption
  <2>3. QED
    BY <1>2, <2>1, <2>2, EmptyStateType DEF BlockOK
<1> HIDE DEF b
<1>4. QED
  BY <1>1, <1>3, StructExecute

LEMMA StructReceive == StructInv /\ ReceiveBlock => StructInv'
<1> SUFFICES ASSUME StructInv, ReceiveBlock PROVE StructInv'
  OBVIOUS
<1>1. PICK b \in PeerBlocks : ApplyBlock(b)
  BY DEF ReceiveBlock
<1>2. proc = "up"
  BY DEF ReceiveBlock
<1>3. CASE Verdict(b) = "execute" /\ Execute(b, "sync")
  BY <1>2, <1>3, PeerBlockFacts, StructExecute DEF StructInv
<1>4. CASE ~(Verdict(b) = "execute" /\ Execute(b, "sync"))
  <2>1. /\ UNCHANGED <<proc, st, metaMem, files, call, faults>>
        /\ \E o \in {"ok", "error"} : result' = [result EXCEPT !["sync"] = o]
    BY <1>1, <1>4 DEF ApplyBlock
  <2>2. result' \in [{"mine", "sync"} -> {"none", "ok", "error"}]
    BY <2>1 DEF StructInv, TypeOK
  <2>3. TypeOK'
    BY <2>1, <2>2 DEF StructInv, TypeOK, files, call, faults, BlockOK
  <2>4. ControlInv' /\ DiskInv'
    BY <2>1 DEF StructInv, ControlInv, DiskInv, LoadMeta, files, call, faults, Tip, HashOf
  <2>5. QED
    BY <2>3, <2>4 DEF StructInv
<1>5. QED
  BY <1>3, <1>4

LEMMA StructSimulateTx == StructInv /\ SimulateTx => StructInv'
<1> SUFFICES ASSUME StructInv, SimulateTx PROVE StructInv'
  OBVIOUS
<1> USE DEF StructInv
<1>1. /\ BlockOK(work) /\ step \in 0 .. Len(work.txs) /\ step < Len(work.txs)
      /\ Len(work.txs) \in Nat
  BY DEF SimulateTx, TypeOK, BlockOK
<1>2. work.txs[step + 1] \in Transaction
  BY <1>1 DEF BlockOK
<1>3. sim' \in ChainStates
  BY <1>1, <1>2, AfterTxFacts DEF SimulateTx, TypeOK, BlockOK
<1>4. step' \in 0 .. Len(work.txs)
  BY <1>1 DEF SimulateTx
<1>5. TypeOK'
  BY <1>3, <1>4 DEF SimulateTx, TypeOK, files, faults, BlockOK
<1>6. ControlInv' /\ DiskInv'
  BY DEF SimulateTx, ControlInv, DiskInv, LoadMeta, files, faults, Tip, HashOf
<1>7. QED
  BY <1>5, <1>6

LEMMA StructCommitState == StructInv /\ CommitState => StructInv'
<1> SUFFICES ASSUME StructInv, CommitState PROVE StructInv'
  OBVIOUS
<1> USE DEF StructInv
<1>1. BlockOK(work) /\ pc = "sim" /\ mode \in {"mine", "sync"} /\ proc = "up"
  BY DEF CommitState, Executed, TypeOK, ControlInv
<1>2. st' \in ChainStates
  BY <1>1, RewardFacts, BlockchainAssumption DEF CommitState, TypeOK, BlockOK
<1>3. work' = [work EXCEPT !.root = st']
  BY DEF CommitState
<1>4. BlockOK(work') /\ work'.index = work.index /\ work'.prev = work.prev
  BY <1>1, <1>2, <1>3 DEF BlockOK
<1>5. TypeOK'
  BY <1>2, <1>4 DEF CommitState, TypeOK, files, faults, BlockOK
<1>6. ControlInv'
  BY <1>1, <1>4 DEF CommitState, ControlInv, files, Tip, HashOf
<1>7. DiskInv'
  BY <1>1 DEF CommitState, DiskInv, LoadMeta, files, HashOf
<1>8. QED
  BY <1>5, <1>6, <1>7

LEMMA StructWriteBlock == StructInv /\ WriteBlock => StructInv'
<1> SUFFICES ASSUME StructInv, WriteBlock PROVE StructInv'
  OBVIOUS
<1> USE BlockchainAssumption DEF StructInv
<1>1. /\ pc = "putblock" /\ BlockOK(work) /\ metaMem \in Height
      /\ blockFile' = [blockFile EXCEPT ![work.index] = work]
      /\ readable' = readable \cup {work.index}
  BY DEF WriteBlock, TypeOK
<1>2. metaMem' = work.index /\ work.index \in Height
  BY <1>1 DEF WriteBlock, ControlInv, BlockOK, Height
<1>3. TypeOK'
  <2>1. \A i \in readable' : BlockOK(blockFile'[i]) /\ blockFile'[i].index = i
    BY <1>1, <1>2 DEF TypeOK
  <2>2. readable' \subseteq Height /\ DOMAIN blockFile' = Height
    BY <1>1, <1>2 DEF TypeOK
  <2>3. QED
    BY <1>1, <1>2, <2>1, <2>2 DEF WriteBlock, TypeOK, faults, BlockOK
<1>4. ControlInv'
  BY <1>1, <1>2 DEF WriteBlock, ControlInv
<1>5. ASSUME mode = "genesis" PROVE DiskInv'
  <2>1. proc = "starting" /\ metaMem = 0 /\ work.index = 0
    BY <1>1, <1>5 DEF ControlInv
  <2>2. LoadMeta' = LoadMeta /\ mode' = mode /\ proc' = "starting"
    BY <2>1 DEF WriteBlock, LoadMeta
  <2>3. (0 .. metaMem)' \subseteq readable'
    BY <1>1, <1>2, <2>1
  <2>4. QED
    BY <1>1, <1>2, <1>5, <2>1, <2>2, <2>3 DEF DiskInv
<1>6. ASSUME mode # "genesis" PROVE DiskInv'
  <2>1. proc = "up" /\ work.index = metaMem + 1 /\ work.prev = HashOf(Tip)
    BY <1>1, <1>6 DEF ControlInv
  <2>2. (0 .. metaMem \subseteq readable)'
    BY <1>1, <1>2, <2>1 DEF DiskInv, Height
  <2>3. \A i \in 1 .. metaMem' : blockFile'[i].prev = HashOf(blockFile'[i-1])
    <3>1. \A i \in Height : i # work.index => blockFile'[i] = blockFile[i]
      BY <1>1 DEF TypeOK
    <3>2. blockFile'[work.index] = work
      BY <1>1, <1>2 DEF TypeOK
    <3>3. metaMem \in Nat /\ metaMem' = metaMem + 1 /\ metaMem + 1 \in Height
      BY <1>1, <1>2, <2>1 DEF Height
    <3>4. ASSUME NEW i \in 1 .. metaMem PROVE blockFile'[i].prev = HashOf(blockFile'[i-1])
      <4>1. i \in Height /\ i - 1 \in Height /\ i # work.index /\ i - 1 # work.index
        BY <2>1, <3>3 DEF Height
      <4>2. QED
        BY <2>1, <3>1, <4>1 DEF DiskInv
    <3>5. blockFile'[metaMem] = Tip
      BY <2>1, <3>1, <3>3 DEF Tip, Height
    <3>6. blockFile'[metaMem + 1].prev = HashOf(blockFile'[(metaMem + 1) - 1])
      BY <2>1, <3>2, <3>3, <3>5
    <3>7. QED
      BY <3>3, <3>4, <3>6
  <2>4. LoadMeta' <= metaMem'
    BY <1>2, <2>1 DEF WriteBlock, DiskInv, LoadMeta, TypeOK, Height
  <2>5. (LoadMeta > 0 => 0 .. LoadMeta \subseteq readable)'
    BY <1>1 DEF WriteBlock, DiskInv, LoadMeta
  <2>6. QED
    BY <2>2, <2>3, <2>4, <2>5 DEF DiskInv
<1>7. QED
  BY <1>3, <1>4, <1>5, <1>6

LEMMA StructSimulateFails ==
  StructInv /\ (SimulateFails \/ RootMismatch) => StructInv'
<1> SUFFICES ASSUME StructInv, SimulateFails \/ RootMismatch PROVE StructInv'
  OBVIOUS
<1>1. /\ pc = "sim" /\ mode \in {"mine", "sync"} /\ proc = "up"
      /\ Return("error") /\ UNCHANGED <<files, faults>>
  BY DEF StructInv, ControlInv, SimulateFails, RootMismatch, Executed
<1>2. result' \in [{"mine", "sync"} -> {"none", "ok", "error"}]
  BY <1>1 DEF Return, StructInv, TypeOK
<1>3. QED
  BY <1>1, <1>2, StructReturn DEF Return, files, faults, StructInv, TypeOK

LEMMA StructWriteBlockFails == StructInv /\ WriteBlockFails => StructInv'
<1> SUFFICES ASSUME StructInv, WriteBlockFails PROVE StructInv'
  OBVIOUS
<1>1. /\ pc = "putblock" /\ Return("error")
      /\ UNCHANGED <<blockFile, metaFile, crashes>>
      /\ diskErrors' \in 0 .. MaxDiskErrors /\ crashes' \in 0 .. MaxCrashes
      /\ UNCHANGED readable \/ readable' = readable \ {work.index}
  BY BlockchainAssumption DEF WriteBlockFails, TearBlock, StructInv, TypeOK
<1>2. CASE mode = "genesis"
  BY <1>1, <1>2, StructHalt DEF Return
<1>3. CASE mode # "genesis"
  <2>1. proc = "up" /\ mode \in {"mine", "sync"}
    BY <1>1, <1>3 DEF StructInv, ControlInv
  <2>2. result' \in [{"mine", "sync"} -> {"none", "ok", "error"}]
    BY <1>1, <1>3, <2>1 DEF Return, StructInv, TypeOK
  <2>3. QED
    BY <1>1, <1>3, <2>1, <2>2, StructReturn DEF Return
<1>4. QED
  BY <1>2, <1>3

LEMMA StructSaveMeta == StructInv /\ SaveMeta => StructInv'
<1> SUFFICES ASSUME StructInv, SaveMeta PROVE StructInv'
  OBVIOUS
<1>1. /\ pc = "savemeta" /\ Return("ok") /\ metaFile' = metaMem
      /\ UNCHANGED <<blockFile, readable, crashes, diskErrors>>
      /\ diskErrors' \in 0 .. MaxDiskErrors /\ crashes' \in 0 .. MaxCrashes
  BY DEF SaveMeta, faults, StructInv, TypeOK
<1>2. CASE mode = "genesis"
  <2>1. proc' = "up" /\ Unlock /\ UNCHANGED <<st, metaMem, result>>
    BY <1>1, <1>2 DEF Return
  <2>2. result' \in [{"mine", "sync"} -> {"none", "ok", "error"}]
    BY <2>1 DEF StructInv, TypeOK
  <2>3. QED
    BY <1>1, <1>2, <2>1, <2>2, StructReturn
<1>3. CASE mode # "genesis"
  <2>1. proc = "up" /\ mode \in {"mine", "sync"}
    BY <1>1, <1>3 DEF StructInv, ControlInv
  <2>2. result' \in [{"mine", "sync"} -> {"none", "ok", "error"}]
    BY <1>1, <1>3, <2>1 DEF Return, StructInv, TypeOK
  <2>3. QED
    BY <1>1, <1>3, <2>1, <2>2, StructReturn DEF Return
<1>4. QED
  BY <1>2, <1>3

LEMMA StructSaveMetaFails == StructInv /\ SaveMetaFails => StructInv'
<1> SUFFICES ASSUME StructInv, SaveMetaFails PROVE StructInv'
  OBVIOUS
<1>1. /\ pc = "savemeta" /\ Return("error") /\ metaFile' \in {metaFile, Unreadable}
      /\ UNCHANGED <<blockFile, readable>>
      /\ diskErrors' \in 0 .. MaxDiskErrors /\ crashes' \in 0 .. MaxCrashes
  BY BlockchainAssumption DEF SaveMetaFails, TearMeta, StructInv, TypeOK
<1>2. CASE mode = "genesis"
  BY <1>1, <1>2, StructHalt DEF Return
<1>3. CASE mode # "genesis"
  <2>1. proc = "up" /\ mode \in {"mine", "sync"}
    BY <1>1, <1>3 DEF StructInv, ControlInv
  <2>2. result' \in [{"mine", "sync"} -> {"none", "ok", "error"}]
    BY <1>1, <1>3, <2>1 DEF Return, StructInv, TypeOK
  <2>3. QED
    BY <1>1, <1>3, <2>1, <2>2, StructReturn DEF Return
<1>4. QED
  BY <1>2, <1>3

LEMMA StructCrash == StructInv /\ Crash => StructInv'
<1> SUFFICES ASSUME StructInv, Crash PROVE StructInv'
  OBVIOUS
<1>1. /\ Halt /\ UNCHANGED blockFile /\ metaFile' \in {metaFile, Unreadable}
      /\ diskErrors' \in 0 .. MaxDiskErrors /\ crashes' \in 0 .. MaxCrashes
  BY BlockchainAssumption DEF Crash, TearMeta, StructInv, TypeOK
<1>2. \/ UNCHANGED readable
      \/ pc = "putblock" /\ readable' = readable \ {work.index}
  BY DEF Crash, TearBlock
<1>3. QED
  BY <1>1, <1>2, StructHalt

LEMMA StructStutter == StructInv /\ UNCHANGED vars => StructInv'
BY DEF StructInv, TypeOK, ControlInv, DiskInv, LoadMeta, vars, files, call, faults,
       BlockOK, Tip, HashOf

\* Every step keeps the structural invariant.
LEMMA StructStep == StructInv /\ [Next]_vars => StructInv'
BY StructStartGenesis, StructStartRebuild, StructRebuildRejected, StructMine,
   StructReceive, StructSimulateTx, StructSimulateFails, StructCommitState,
   StructWriteBlock, StructWriteBlockFails, StructSaveMeta, StructSaveMetaFails,
   StructCrash, StructStutter, BlockchainAssumption
   DEF Next, StartUp, ExecuteBlock, PutBlock

LEMMA StructInvariance == Spec => []StructInv
<1>1. QED  BY StructInit, StructStep, PTL DEF Spec

\* Type correctness: whatever stops or fails, accounts hold uint64 balances, a
\* readable block file holds a well-formed block of its own index, and a block
\* is executed at a position inside its transaction list.
THEOREM TypeCorrect == Spec => []TypeOK
<1>1. StructInv => TypeOK
  BY DEF StructInv
<1>2. QED  BY <1>1, StructInvariance, PTL

\* The chain a node serves is linked: every block up to the height is on disk
\* under its index and names the header of the block before it.
THEOREM ServedChainIsLinked == Spec => []ChainLinked
<1>1. StructInv => ChainLinked
  BY BlockchainAssumption DEF StructInv, TypeOK, DiskInv, ChainLinked, Height
<1>2. QED  BY <1>1, StructInvariance, PTL

\* A node whose meta.json records a block besides the genesis block cannot be
\* started: the first block rebuildState applies is refused.
THEOREM RebuildIsRefused == Spec => []RebuildRefused
<1>1. StructInv => RebuildRefused
  <2> SUFFICES ASSUME StructInv, pc = "rebuild" PROVE Verdict(blockFile[0]) = "reject"
    BY DEF RebuildRefused
  <2>1. metaMem \in Nat /\ metaMem > 0 /\ LoadMeta = metaMem
    BY BlockchainAssumption
       DEF StructInv, TypeOK, ControlInv, LoadMeta, Height
  <2>2. 0 \in readable /\ metaMem \in readable
    BY <2>1 DEF StructInv, DiskInv
  <2>3. blockFile[0].index = 0 /\ Tip.index = metaMem
    BY <2>2 DEF StructInv, TypeOK, Tip
  <2>4. HashOf(blockFile[0]) # HashOf(Tip)
    <3>1. HashOf(blockFile[0]).index = 0 /\ HashOf(Tip).index = metaMem
      BY <2>3 DEF HashOf
    <3>2. QED  BY <2>1, <3>1
  <2>5. QED
    BY <2>1, <2>3, <2>4 DEF Verdict
<1>2. QED  BY <1>1, StructInvariance, PTL

\* No step touches a block that meta.json counts.
LEMMA DurableStep == StructInv /\ [Next]_vars => [KeepsDurable]_vars
<1> SUFFICES ASSUME StructInv, Next, metaFile \in Height, NEW i \in 1 .. metaFile
             PROVE  i \in readable' /\ blockFile'[i] = blockFile[i]
  BY DEF KeepsDurable
<1>1. i \in readable /\ LoadMeta = metaFile /\ metaFile \in Nat /\ i \in Height
  BY BlockchainAssumption DEF StructInv, DiskInv, LoadMeta, Height
<1>2. pc = "putblock" => work.index # i
  BY <1>1, BlockchainAssumption
     DEF StructInv, ControlInv, DiskInv, TypeOK, Height
<1>3. CASE WriteBlock
  BY <1>1, <1>2, <1>3 DEF WriteBlock, StructInv, TypeOK
<1>4. CASE WriteBlockFails
  BY <1>1, <1>2, <1>4 DEF WriteBlockFails, TearBlock
<1>5. CASE Crash
  BY <1>1, <1>2, <1>5 DEF Crash, TearBlock
<1>6. CASE ~(WriteBlock \/ WriteBlockFails \/ Crash)
  <2>1. UNCHANGED <<blockFile, readable>>
    BY <1>6 DEF Next, StartUp, StartGenesis, StartRebuild, RebuildRejected,
         FinalizeAndMineBlock, ReceiveBlock, ApplyBlock, Execute, ExecuteBlock,
         SimulateTx, SimulateFails, RootMismatch, CommitState, PutBlock, SaveMeta,
         SaveMetaFails, files
  <2>2. QED  BY <1>1, <2>1
<1>7. QED  BY <1>3, <1>4, <1>5, <1>6

\* No block that meta.json counts is ever touched again, whatever is written,
\* fails or is torn.
THEOREM DurableBlocksStay == Spec => DurablePrefix
<1>1. QED  BY DurableStep, StructInvariance, PTL DEF Spec, DurablePrefix

(***************************************************************************)
(* No transaction is executed twice.                                       *)
(***************************************************************************)

\* The transactions of the stored chain are transactions.
LEMMA StoredTxType ==
  ASSUME StructInv, proc = "up", NEW i \in 1 .. metaMem,
         NEW k \in 1 .. Len(blockFile[i].txs)
  PROVE  blockFile[i].txs[k] \in Transaction
<1>1. i \in readable
  BY BlockchainAssumption DEF StructInv, DiskInv, TypeOK, Height
<1>2. blockFile[i].txs \in Seq(Transaction)
  BY <1>1 DEF StructInv, TypeOK, BlockOK
<1>3. QED  BY <1>2

\* Growing nonces keep a transaction included.
LEMMA IncludesGrows ==
  ASSUME NEW s \in ChainStates, NEW t \in ChainStates, NEW tx \in Transaction,
         \A a \in Addr : s[a].nonce <= t[a].nonce, Includes(s, tx)
  PROVE  Includes(t, tx)
<1>1. CASE tx.from = NoAddr
  BY <1>1 DEF Includes
<1>2. CASE tx.from # NoAddr
  <2>1. tx.from \in Addr /\ tx.nonce \in Nat
    BY <1>2 DEF Transaction
  <2>2. s[tx.from].nonce \in Nat /\ t[tx.from].nonce \in Nat
    BY <2>1 DEF ChainStates, Account
  <2>3. QED  BY <1>2, <2>1, <2>2 DEF Includes
<1>3. QED  BY <1>1, <1>2

\* A transaction that the state includes and one that it accepts are different
\* spends.
LEMMA AcceptedIsFresh ==
  ASSUME NEW s \in ChainStates, NEW tx \in Transaction, NEW ty \in Transaction,
         Includes(s, tx), TxApplies(s, ty)
  PROVE  ~SameSpend(tx, ty) /\ ~SameSpend(ty, tx)
<1> SUFFICES ASSUME SameSpend(tx, ty) \/ SameSpend(ty, tx) PROVE FALSE
  OBVIOUS
<1>1. tx.from = ty.from /\ tx.nonce = ty.nonce /\ tx.from # NoAddr
  BY DEF SameSpend
<1>2. tx.nonce < s[tx.from].nonce /\ s[ty.from].nonce = ty.nonce
  BY <1>1 DEF Includes, TxApplies
<1>3. tx.nonce \in Nat
  BY DEF Transaction
<1>4. QED  BY <1>1, <1>2, <1>3

ReplayInv == NonceInv /\ NoReplay

\* A step that leaves the served chain and its accounts alone, and executes no
\* block, keeps the invariant.
LEMMA ReplayUnlocked ==
  ASSUME ReplayInv, proc = "up" \/ proc' = "down" \/ proc' = "starting" \/ metaMem' = 0,
         proc' = "up" => /\ pc' \notin {"sim", "putblock"}
                         /\ metaMem' = 0 \/ UNCHANGED <<st, metaMem, blockFile>>
  PROVE  ReplayInv'
<1>1. CASE proc' # "up"
  BY <1>1 DEF ReplayInv, NonceInv, NoReplay
<1>2. CASE proc' = "up" /\ metaMem' = 0
  BY <1>2 DEF ReplayInv, NonceInv, NoReplay
<1>3. CASE proc' = "up" /\ proc = "up" /\ UNCHANGED <<st, metaMem, blockFile>>
  BY <1>3 DEF ReplayInv, NonceInv, NoReplay, Includes
<1>4. QED  BY <1>1, <1>2, <1>3

LEMMA ReplayExecute ==
  ASSUME StructInv, ReplayInv, proc = "up", NEW b, NEW c \in {"mine", "sync"}, Execute(b, c)
  PROVE  ReplayInv'
<1>1. /\ pc' = "sim" /\ step' = 0 /\ sim' = st
      /\ UNCHANGED <<proc, st, metaMem, blockFile>>
  BY DEF Execute, files
<1>2. NoReplay'
  BY <1>1 DEF ReplayInv, NoReplay
<1>3. \A a \in Addr : st[a].nonce <= st[a].nonce
  BY DEF StructInv, TypeOK, ChainStates, Account
<1>4. FreshUpTo(0, st)'
  BY DEF FreshUpTo
<1>5. NonceInv'
  BY <1>1, <1>3, <1>4 DEF ReplayInv, NonceInv, Includes, FreshUpTo
<1>6. QED  BY <1>2, <1>5 DEF ReplayInv

LEMMA ReplaySimulateTx == StructInv /\ ReplayInv /\ SimulateTx => ReplayInv'
<1> SUFFICES ASSUME StructInv, ReplayInv, SimulateTx PROVE ReplayInv'
  OBVIOUS
<1> DEFINE tx == work.txs[step + 1]
<1>1. /\ pc = "sim" /\ proc = "up" /\ TxApplies(sim, tx)
      /\ sim' = AfterTx(sim, tx, work.miner) /\ step' = step + 1
      /\ UNCHANGED <<proc, st, metaMem, blockFile, pc, work>>
  BY DEF SimulateTx, files, StructInv, ControlInv
<1>2. /\ BlockOK(work) /\ step \in Nat /\ step + 1 \in 1 .. Len(work.txs)
      /\ st \in ChainStates /\ sim \in ChainStates
  BY <1>1 DEF SimulateTx, StructInv, TypeOK, BlockOK
<1>3. \A k \in 1 .. step + 1 : work.txs[k] \in Transaction
  BY <1>2 DEF BlockOK
<1>4. tx \in Transaction
  BY <1>2, <1>3
<1>5. /\ sim' \in ChainStates
      /\ \A a \in Addr : sim'[a].nonce = IF a = tx.from THEN sim[a].nonce + 1
                                         ELSE sim[a].nonce
  BY <1>1, <1>2, <1>4, AfterTxFacts DEF BlockOK
<1>6. \A a \in Addr : sim[a].nonce <= sim'[a].nonce
  BY <1>2, <1>5 DEF ChainStates, Account
<1>7. \A a \in Addr : st[a].nonce <= sim[a].nonce
  BY <1>1 DEF ReplayInv, NonceInv
<1>8. \A a \in Addr : st[a].nonce <= sim'[a].nonce
  BY <1>2, <1>5, <1>6, <1>7 DEF ChainStates, Account
<1>9. FreshUpTo(step, sim)
  BY <1>1 DEF ReplayInv, NonceInv
<1>10. Includes(sim', tx)
  <2>1. CASE tx.from = NoAddr
    BY <2>1 DEF Includes
  <2>2. CASE tx.from # NoAddr
    <3>1. tx.from \in Addr /\ tx.nonce \in Nat /\ sim[tx.from].nonce = tx.nonce
      BY <1>1, <1>4, <2>2 DEF TxApplies, Transaction
    <3>2. QED  BY <1>5, <3>1 DEF Includes
  <2>3. QED  BY <2>1, <2>2
<1>11. \A k \in 1 .. step : /\ Includes(sim, work.txs[k]) /\ Includes(sim', work.txs[k])
                            /\ ~SameSpend(work.txs[k], tx) /\ ~SameSpend(tx, work.txs[k])
  <2> SUFFICES ASSUME NEW k \in 1 .. step
               PROVE  /\ Includes(sim, work.txs[k]) /\ Includes(sim', work.txs[k])
                      /\ ~SameSpend(work.txs[k], tx) /\ ~SameSpend(tx, work.txs[k])
    OBVIOUS
  <2>1. work.txs[k] \in Transaction /\ Includes(sim, work.txs[k])
    BY <1>2, <1>3, <1>9 DEF FreshUpTo
  <2>2. QED
    BY <1>1, <1>2, <1>4, <1>5, <1>6, <2>1, IncludesGrows, AcceptedIsFresh
<1>12. \A i \in 1 .. metaMem : \A l \in 1 .. Len(blockFile[i].txs) :
         ~SameSpend(blockFile[i].txs[l], tx)
  <2> SUFFICES ASSUME NEW i \in 1 .. metaMem, NEW l \in 1 .. Len(blockFile[i].txs)
               PROVE  ~SameSpend(blockFile[i].txs[l], tx)
    OBVIOUS
  <2>1. blockFile[i].txs[l] \in Transaction
    BY <1>1, StoredTxType
  <2>2. Includes(st, blockFile[i].txs[l])
    BY <1>1 DEF ReplayInv, NonceInv
  <2>3. Includes(sim, blockFile[i].txs[l])
    BY <1>2, <1>7, <2>1, <2>2, IncludesGrows
  <2>4. QED  BY <1>1, <1>2, <1>4, <2>1, <2>3, AcceptedIsFresh
<1> HIDE DEF tx
<1>13. \A k \in 1 .. step + 1 : k \in 1 .. step \/ (k = step + 1 /\ work.txs[k] = tx)
  BY <1>2 DEF tx
<1>14. FreshUpTo(step + 1, sim')
  <2>1. \A k \in 1 .. step + 1 : Includes(sim', work.txs[k])
    BY <1>10, <1>11, <1>13
  <2>2. \A k, l \in 1 .. step + 1 : SameSpend(work.txs[k], work.txs[l]) => k = l
    BY <1>2, <1>9, <1>11, <1>13 DEF FreshUpTo
  <2>3. \A k \in 1 .. step + 1 : \A i \in 1 .. metaMem : \A l \in 1 .. Len(blockFile[i].txs) :
          ~SameSpend(blockFile[i].txs[l], work.txs[k])
    BY <1>9, <1>12, <1>13 DEF FreshUpTo
  <2>4. QED  BY <2>1, <2>2, <2>3 DEF FreshUpTo
<1>15. FreshUpTo(step, sim)'
  BY <1>1, <1>14 DEF FreshUpTo
<1>16. NonceInv'
  BY <1>1, <1>8, <1>15 DEF ReplayInv, NonceInv, Includes
<1>17. NoReplay'
  BY <1>1 DEF ReplayInv, NoReplay
<1>18. QED  BY <1>16, <1>17 DEF ReplayInv

LEMMA ReplayCommitState == StructInv /\ ReplayInv /\ CommitState => ReplayInv'
<1> SUFFICES ASSUME StructInv, ReplayInv, CommitState PROVE ReplayInv'
  OBVIOUS
<1>1. /\ pc = "sim" /\ proc = "up" /\ step = Len(work.txs)
      /\ st' = ApplyBlockReward(sim, work.miner, BlockReward)
      /\ work' = [work EXCEPT !.root = st'] /\ pc' = "putblock"
      /\ UNCHANGED <<proc, metaMem, blockFile>>
  BY DEF CommitState, Executed, files, StructInv, ControlInv
<1>2. BlockOK(work) /\ st \in ChainStates /\ sim \in ChainStates
  BY <1>1 DEF StructInv, TypeOK
<1>3. st' \in ChainStates /\ \A a \in Addr : st'[a].nonce = sim[a].nonce
  BY <1>1, <1>2, RewardFacts, BlockchainAssumption DEF BlockOK
<1>4. \A a \in Addr : st[a].nonce <= st'[a].nonce
  BY <1>1, <1>3 DEF ReplayInv, NonceInv
<1>5. \A a \in Addr : sim[a].nonce <= st'[a].nonce
  BY <1>2, <1>3 DEF ChainStates, Account
<1>6. work'.txs = work.txs /\ Len(work.txs) \in Nat
  BY <1>1, <1>2 DEF BlockOK
<1>7. FreshUpTo(Len(work.txs), sim)
  BY <1>1 DEF ReplayInv, NonceInv
<1>8. \A k \in 1 .. Len(work.txs) : Includes(st', work.txs[k])
  <2> SUFFICES ASSUME NEW k \in 1 .. Len(work.txs) PROVE Includes(st', work.txs[k])
    OBVIOUS
  <2>1. work.txs[k] \in Transaction
    BY <1>2 DEF BlockOK
  <2>2. QED  BY <1>2, <1>3, <1>5, <1>7, <2>1, IncludesGrows DEF FreshUpTo
<1>9. FreshUpTo(Len(work.txs), st)'
  BY <1>1, <1>6, <1>7, <1>8 DEF FreshUpTo
<1>10. \A i \in 1 .. metaMem : \A k \in 1 .. Len(blockFile[i].txs) :
         Includes(st', blockFile[i].txs[k])
  <2> SUFFICES ASSUME NEW i \in 1 .. metaMem, NEW k \in 1 .. Len(blockFile[i].txs)
               PROVE  Includes(st', blockFile[i].txs[k])
    OBVIOUS
  <2>1. blockFile[i].txs[k] \in Transaction /\ Includes(st, blockFile[i].txs[k])
    BY <1>1, StoredTxType DEF ReplayInv, NonceInv
  <2>2. QED  BY <1>2, <1>3, <1>4, <2>1, IncludesGrows
<1>11. NonceInv'
  BY <1>1, <1>9, <1>10 DEF NonceInv
<1>12. NoReplay'
  BY <1>1 DEF ReplayInv, NoReplay
<1>13. QED  BY <1>11, <1>12 DEF ReplayInv

LEMMA ReplayWriteBlock == StructInv /\ ReplayInv /\ WriteBlock => ReplayInv'
<1> SUFFICES ASSUME StructInv, ReplayInv, WriteBlock PROVE ReplayInv'
  OBVIOUS
<1> USE BlockchainAssumption
<1>1. /\ pc = "putblock" /\ pc' = "savemeta" /\ UNCHANGED <<proc, st>>
      /\ blockFile' = [blockFile EXCEPT ![work.index] = work]
      /\ metaMem \in Nat /\ DOMAIN blockFile = Height
  BY DEF WriteBlock, StructInv, TypeOK, Height
<1>2. CASE mode = "genesis"
  BY <1>1, <1>2 DEF StructInv, ControlInv, ReplayInv, NonceInv, NoReplay
<1>3. CASE mode # "genesis"
  <2>1. proc = "up" /\ work.index = metaMem + 1 /\ BlockOK(work)
    BY <1>1, <1>3 DEF StructInv, ControlInv, TypeOK
  <2>2. metaMem' = metaMem + 1 /\ metaMem + 1 \in Height
    BY <1>1, <2>1 DEF WriteBlock, BlockOK
  <2>3. /\ \A i \in 1 .. metaMem : blockFile'[i] = blockFile[i]
        /\ blockFile'[metaMem + 1] = work
    BY <1>1, <2>1, <2>2 DEF Height
  <2>4. FreshUpTo(Len(work.txs), st)
    BY <1>1, <2>1 DEF ReplayInv, NonceInv
  <2>5. NonceInv'
    <3>1. \A i \in 1 .. metaMem + 1 : \A k \in 1 .. Len(blockFile'[i].txs) :
            Includes(st, blockFile'[i].txs[k])
      <4> SUFFICES ASSUME NEW i \in 1 .. metaMem + 1, NEW k \in 1 .. Len(blockFile'[i].txs)
                   PROVE  Includes(st, blockFile'[i].txs[k])
        OBVIOUS
      <4>1. CASE i \in 1 .. metaMem
        BY <2>1, <2>3, <4>1 DEF ReplayInv, NonceInv
      <4>2. CASE i = metaMem + 1
        BY <2>3, <2>4, <4>2 DEF FreshUpTo
      <4>3. QED  BY <1>1, <4>1, <4>2
    <3>2. QED  BY <1>1, <2>2, <3>1 DEF NonceInv, Includes
  <2>6. ASSUME NEW i \in 1 .. metaMem + 1, NEW j \in 1 .. metaMem + 1,
               NEW k \in 1 .. Len(blockFile'[i].txs), NEW l \in 1 .. Len(blockFile'[j].txs),
               SameSpend(blockFile'[i].txs[k], blockFile'[j].txs[l])
        PROVE  i = j /\ k = l
    <3>1. i \in 1 .. metaMem \/ i = metaMem + 1
      BY <1>1
    <3>2. j \in 1 .. metaMem \/ j = metaMem + 1
      BY <1>1
    <3>3. SameSpend(blockFile'[j].txs[l], blockFile'[i].txs[k])
      BY <2>6 DEF SameSpend
    <3>4. CASE i \in 1 .. metaMem /\ j \in 1 .. metaMem
      <4>1. /\ k \in 1 .. Len(blockFile[i].txs) /\ l \in 1 .. Len(blockFile[j].txs)
            /\ SameSpend(blockFile[i].txs[k], blockFile[j].txs[l])
        BY <2>3, <2>6, <3>4
      <4>2. QED  BY <2>1, <3>4, <4>1 DEF ReplayInv, NoReplay
    <3>5. CASE i \in 1 .. metaMem /\ j = metaMem + 1
      BY <2>3, <2>4, <2>6, <3>5 DEF FreshUpTo
    <3>6. CASE i = metaMem + 1 /\ j \in 1 .. metaMem
      BY <2>3, <2>4, <3>3, <3>6 DEF FreshUpTo
    <3>7. CASE i = metaMem + 1 /\ j = metaMem + 1
      BY <2>3, <2>4, <2>6, <3>7 DEF FreshUpTo
    <3>8. QED  BY <3>1, <3>2, <3>4, <3>5, <3>6, <3>7
  <2>7. NoReplay'
    BY <2>2, <2>6 DEF NoReplay, SameSpend
  <2>8. QED  BY <2>5, <2>7 DEF ReplayInv
<1>4. QED  BY <1>2, <1>3

LEMMA ReplayMine ==
  ASSUME NEW txs
  PROVE  StructInv /\ ReplayInv /\ FinalizeAndMineBlock(txs) => ReplayInv'
BY ReplayExecute DEF FinalizeAndMineBlock

\* Every step keeps the invariant.
LEMMA ReplayStep == StructInv /\ ReplayInv /\ [Next]_vars => ReplayInv'
<1> SUFFICES ASSUME StructInv, ReplayInv, [Next]_vars PROVE ReplayInv'
  OBVIOUS
<1>1. CASE StartGenesis \/ StartRebuild
  BY <1>1, ReplayUnlocked DEF StartGenesis, StartRebuild
<1>2. CASE RebuildRejected \/ Crash
  BY <1>2, ReplayUnlocked DEF RebuildRejected, Crash, Halt
<1>3. CASE \E txs \in Batches : FinalizeAndMineBlock(txs)
  BY <1>3, ReplayMine
<1>4. CASE ReceiveBlock
  <2>1. PICK b \in PeerBlocks : ApplyBlock(b)
    BY <1>4 DEF ReceiveBlock
  <2>2. CASE Execute(b, "sync")
    BY <1>4, <2>2, ReplayExecute DEF ReceiveBlock
  <2>3. CASE ~Execute(b, "sync")
    BY <1>4, <2>1, <2>3, ReplayUnlocked DEF ReceiveBlock, ApplyBlock, files, call
  <2>4. QED  BY <2>2, <2>3
<1>5. CASE SimulateTx
  BY <1>5, ReplaySimulateTx
<1>6. CASE SimulateFails \/ RootMismatch
  <2>1. proc = "up" /\ mode # "genesis" /\ Return("error") /\ UNCHANGED files
    BY <1>6 DEF SimulateFails, RootMismatch, Executed, StructInv, ControlInv
  <2>2. QED  BY <2>1, ReplayUnlocked DEF Return, Unlock, files
<1>7. CASE CommitState
  BY <1>7, ReplayCommitState
<1>8. CASE WriteBlock
  BY <1>8, ReplayWriteBlock
<1>9. CASE WriteBlockFails \/ SaveMeta \/ SaveMetaFails
  <2>1. /\ pc \in {"putblock", "savemeta"} /\ UNCHANGED blockFile
        /\ Return("error") \/ Return("ok")
    BY <1>9 DEF WriteBlockFails, SaveMeta, SaveMetaFails
  <2>2. CASE mode = "genesis"
    <3>1. metaMem = 0
      BY <2>1, <2>2 DEF StructInv, ControlInv
    <3>2. metaMem' = 0 /\ pc' = "idle"
      BY <2>1, <2>2, <3>1 DEF Return, Halt, Unlock
    <3>3. QED  BY <3>2, ReplayUnlocked
  <2>3. CASE mode # "genesis"
    <3>1. proc = "up"
      BY <2>1, <2>3 DEF StructInv, ControlInv
    <3>2. pc' = "idle" /\ UNCHANGED <<st, metaMem>>
      BY <2>1, <2>3 DEF Return, Unlock
    <3>3. QED  BY <2>1, <3>1, <3>2, ReplayUnlocked
  <2>4. QED  BY <2>2, <2>3
<1>10. CASE UNCHANGED vars
  BY <1>10 DEF ReplayInv, NonceInv, NoReplay, Includes, FreshUpTo, SameSpend,
       vars, files, call
<1>11. QED
  BY <1>1, <1>2, <1>3, <1>4, <1>5, <1>6, <1>7, <1>8, <1>9, <1>10
     DEF Next, StartUp, ExecuteBlock, PutBlock

\* No replay: whatever is mined or received, and however often the node crashes
\* or fails to write, no sender and nonce occurs twice in the chain it serves.
THEOREM NoTransactionTwice == Spec => []NoReplay
<1>1. Init => ReplayInv
  BY DEF Init, ReplayInv, NonceInv, NoReplay
<1>2. ReplayInv => NoReplay
  BY DEF ReplayInv
<1>3. QED  BY <1>1, <1>2, StructInvariance, ReplayStep, PTL DEF Spec

\* The invariant that the model checker evaluates is the one of these proofs.
THEOREM InductiveInvariantHolds == Spec => []IndInv
<1>1. Init => ReplayInv
  BY DEF Init, ReplayInv, NonceInv, NoReplay
<1>2. StructInv /\ ReplayInv => IndInv
  BY DEF StructInv, ReplayInv, IndInv
<1>3. QED  BY <1>1, <1>2, StructInvariance, ReplayStep, PTL DEF Spec

(***************************************************************************)
(* The accounts in memory are the ones of the tip.                         *)
(***************************************************************************)

\* The root follows the block: it is the tip's while no block is on its way, and
\* that of the block on its way once its effects are in memory.
RootInv ==
  diskErrors = 0 =>
    /\ proc = "up" /\ pc \in {"idle", "sim"} => st = Tip.root
    /\ pc \in {"putblock", "savemeta"} => st = work.root
    /\ pc = "savemeta" => Tip = work

\* A step that leaves accounts and tip alone, and puts no block on its way.
LEMMA RootUnlocked ==
  ASSUME StructInv, RootInv, diskErrors' = diskErrors,
         proc' = "up" => /\ pc' \in {"idle", "sim"} /\ UNCHANGED <<st, metaMem, blockFile>>
                         /\ \/ proc = "up" /\ pc \in {"idle", "sim"}
                            \/ pc = "savemeta",
         pc' \notin {"putblock", "savemeta"}
  PROVE  RootInv'
<1> SUFFICES ASSUME diskErrors = 0, proc' = "up" PROVE st' = Tip'.root
  BY DEF RootInv
<1>1. Tip' = Tip /\ st' = st
  BY DEF Tip
<1>2. QED  BY <1>1 DEF RootInv

LEMMA RootWriteBlock == StructInv /\ RootInv /\ WriteBlock => RootInv'
<1> SUFFICES ASSUME StructInv, RootInv, WriteBlock, diskErrors = 0
             PROVE  RootInv'
  BY DEF RootInv, WriteBlock, faults
<1>1. /\ pc = "putblock" /\ pc' = "savemeta" /\ UNCHANGED <<st, work>>
      /\ blockFile' = [blockFile EXCEPT ![work.index] = work]
      /\ DOMAIN blockFile = Height /\ work.index \in Height /\ metaMem \in Height
  BY DEF WriteBlock, StructInv, TypeOK, BlockOK
<1>2. metaMem' = work.index
  BY <1>1, BlockchainAssumption DEF WriteBlock, StructInv, ControlInv, Height
<1>3. Tip' = work
  BY <1>1, <1>2 DEF Tip
<1>4. QED  BY <1>1, <1>3 DEF RootInv

LEMMA RootMine ==
  ASSUME NEW txs
  PROVE  StructInv /\ RootInv /\ FinalizeAndMineBlock(txs) => RootInv'
BY RootUnlocked DEF FinalizeAndMineBlock, Execute, files, faults

\* Every step keeps it.
LEMMA RootStep == StructInv /\ StructInv' /\ RootInv /\ [Next]_vars => RootInv'
<1> SUFFICES ASSUME StructInv, StructInv', RootInv, [Next]_vars PROVE RootInv'
  OBVIOUS
<1>1. CASE StartGenesis
  <2>1. st' = GenesisState /\ proc' = "starting" /\ pc' = "putblock"
    BY <1>1 DEF StartGenesis
  <2>2. work'.root = GenesisState
    BY <1>1 DEF StartGenesis, NewGenesisBlock
  <2>3. QED  BY <2>1, <2>2 DEF RootInv
<1>2. CASE StartRebuild
  BY <1>2, RootUnlocked DEF StartRebuild, faults
<1>3. CASE RebuildRejected
  BY <1>3, RootUnlocked DEF RebuildRejected, Halt, Unlock, faults
<1>4. CASE Crash
  BY <1>4, RootUnlocked DEF Crash, Halt, Unlock
<1>5. CASE \E txs \in Batches : FinalizeAndMineBlock(txs)
  BY <1>5, RootMine
<1>6. CASE ReceiveBlock
  <2>1. PICK b \in PeerBlocks : ApplyBlock(b)
    BY <1>6 DEF ReceiveBlock
  <2>2. proc = "up" /\ pc = "idle" /\ UNCHANGED <<proc, st, metaMem, blockFile, diskErrors>>
        /\ pc' \in {"idle", "sim"}
    BY <1>6, <2>1 DEF ReceiveBlock, ApplyBlock, Execute, files, faults, call
  <2>3. QED  BY <2>2, RootUnlocked
<1>7. CASE SimulateTx
  <2>1. proc = "up"
    BY <1>7 DEF SimulateTx, StructInv, ControlInv
  <2>2. QED  BY <1>7, <2>1, RootUnlocked DEF SimulateTx, files, faults
<1>8. CASE SimulateFails \/ RootMismatch
  <2>1. proc = "up" /\ pc = "sim" /\ mode # "genesis" /\ Return("error")
        /\ UNCHANGED <<files, faults>>
    BY <1>8 DEF SimulateFails, RootMismatch, Executed, StructInv, ControlInv
  <2>2. QED  BY <2>1, RootUnlocked DEF Return, Unlock, files, faults
<1>9. CASE CommitState
  <2>1. pc' = "putblock" /\ work' = [work EXCEPT !.root = st'] /\ BlockOK(work)
    BY <1>9 DEF CommitState, Executed, StructInv, TypeOK
  <2>2. work'.root = st'
    BY <2>1, <1>9 DEF CommitState, StructInv, TypeOK, RootInv
  <2>3. QED  BY <2>1, <2>2 DEF RootInv
<1>10. CASE WriteBlock
  BY <1>10, RootWriteBlock
<1>11. CASE WriteBlockFails \/ SaveMetaFails
  <2>1. diskErrors' # 0
    BY <1>11, BlockchainAssumption DEF WriteBlockFails, SaveMetaFails, StructInv, TypeOK
  <2>2. QED  BY <2>1 DEF RootInv
<1>12. CASE SaveMeta
  <2>1. pc = "savemeta" /\ Return("ok") /\ UNCHANGED <<blockFile, diskErrors>>
    BY <1>12 DEF SaveMeta, faults
  <2>2. pc' = "idle" /\ UNCHANGED <<st, metaMem>>
    BY <2>1 DEF Return, Unlock
  <2>3. QED  BY <2>1, <2>2, RootUnlocked
<1>13. CASE UNCHANGED vars
  BY <1>13 DEF RootInv, Tip, vars, files, call, faults
<1>14. QED
  BY <1>1, <1>2, <1>3, <1>4, <1>5, <1>6, <1>7, <1>8, <1>9, <1>10, <1>11, <1>12, <1>13
     DEF Next, StartUp, ExecuteBlock, PutBlock

LEMMA RootInvariance == Spec => []RootInv
<1>1. Init => RootInv
  BY DEF Init, RootInv
<1>2. QED  BY <1>1, StructInvariance, RootStep, PTL DEF Spec

\* As long as no write has failed, the accounts a node serves are those whose
\* root its tip carries, after any crashes and refused blocks.
THEOREM AccountsMatchTip == Spec => []StateMatchesTip
<1>1. RootInv => StateMatchesTip
  BY DEF RootInv, StateMatchesTip
<1>2. QED  BY <1>1, RootInvariance, PTL

(***************************************************************************)
(* Coins are created by rewards alone.                                     *)
(***************************************************************************)

\* Sums and differences that stay in range are exact.
LEMMA ExactArithmetic ==
  ASSUME NEW x \in Nat, NEW y \in Nat
  PROVE  /\ x + y < Modulus => Plus(x, y) = x + y
         /\ y <= x /\ x < Modulus => Minus(x, y) = x - y
BY ModulusAssumption DEF Plus, Minus

\* The balances of an account state, as a function.
BalancesOf(s) == [a \in Addr |-> s[a].balance]

LEMMA BalancesType ==
  ASSUME IsFiniteSet(Addr), NEW s \in ChainStates
  PROVE  /\ BalancesOf(s) \in [Addr -> Nat] /\ BalancesOf(s) \in [Addr -> Int]
         /\ Supply(s) \in Nat /\ Supply(s) = Total(BalancesOf(s))
         /\ \A a \in Addr : BalancesOf(s)[a] = s[a].balance /\ s[a].balance <= Supply(s)
         /\ \A a \in Addr : s[a].balance \in Nat /\ s[a].balance < Modulus
<1>1. BalancesOf(s) \in [Addr -> Nat] /\ \A a \in Addr : s[a].balance \in Nat /\ s[a].balance < Modulus
  BY ModulusAssumption DEF BalancesOf, ChainStates, Account, Amount
<1>2. \A a \in Addr : BalancesOf(s)[a] = s[a].balance
  BY DEF BalancesOf
<1>3. Supply(s) = Total(BalancesOf(s))
  BY DEF Supply, BalancesOf
<1> HIDE DEF BalancesOf
<1>4. BalancesOf(s) \in [Addr -> Int]
  BY <1>1
<1>5. QED  BY <1>1, <1>2, <1>3, <1>4, TotalNat, TotalBounds

\* An account state that differs in one balance.
LEMMA SupplyUpdate ==
  ASSUME IsFiniteSet(Addr), NEW s \in ChainStates, NEW t \in ChainStates, NEW a \in Addr,
         \A b \in Addr \ {a} : t[b].balance = s[b].balance
  PROVE  Supply(t) = Supply(s) - s[a].balance + t[a].balance
<1>1. \A b \in Addr \ {a} : BalancesOf(t)[b] = BalancesOf(s)[b]
  BY BalancesType
<1>2. Total(BalancesOf(t)) = Total(BalancesOf(s)) - BalancesOf(s)[a] + BalancesOf(t)[a]
  BY <1>1, BalancesType, TotalUpdate
<1>3. QED  BY <1>2, BalancesType

\* A credit that fits adds its amount, a debit that is covered takes it away.
LEMMA CreditSupply ==
  ASSUME IsFiniteSet(Addr), NEW s \in ChainStates, NEW a \in Addr, NEW v \in Amount,
         Supply(s) + v < Modulus
  PROVE  Supply(Credit(s, a, v)) = Supply(s) + v
<1> DEFINE t == Credit(s, a, v)
<1>1. t \in ChainStates
  BY CreditFacts
<1>2. s[a].balance \in Nat /\ s[a].balance <= Supply(s) /\ Supply(s) \in Nat /\ v \in Nat
  BY BalancesType, ModulusAssumption DEF Amount
<1>3. Plus(s[a].balance, v) = s[a].balance + v
  BY <1>2, ExactArithmetic, ModulusAssumption
<1>4. t[a].balance = s[a].balance + v /\ \A b \in Addr \ {a} : t[b].balance = s[b].balance
  BY <1>3 DEF Credit, ChainStates, Account
<1> HIDE DEF t
<1>5. Supply(t) = Supply(s) - s[a].balance + t[a].balance
  BY <1>1, <1>4, SupplyUpdate
<1>6. QED  BY <1>2, <1>4, <1>5 DEF t

LEMMA DebitSupply ==
  ASSUME IsFiniteSet(Addr), NEW s \in ChainStates, NEW a \in Addr, NEW v \in Amount,
         v <= s[a].balance
  PROVE  Supply(Debit(s, a, v)) = Supply(s) - v
<1> DEFINE t == Debit(s, a, v)
<1>1. t \in ChainStates
  BY DebitFacts
<1>2. s[a].balance \in Nat /\ s[a].balance < Modulus /\ Supply(s) \in Nat /\ v \in Nat
  BY BalancesType, ModulusAssumption DEF Amount
<1>3. Minus(s[a].balance, v) = s[a].balance - v
  BY <1>2, ExactArithmetic
<1>4. t[a].balance = s[a].balance - v /\ \A b \in Addr \ {a} : t[b].balance = s[b].balance
  BY <1>3 DEF Debit, ChainStates, Account
<1> HIDE DEF t
<1>5. Supply(t) = Supply(s) - s[a].balance + t[a].balance
  BY <1>1, <1>4, SupplyUpdate
<1>6. QED  BY <1>2, <1>4, <1>5 DEF t

\* A transfer moves coins, to the miner too and to its own sender.
LEMMA TxSupply ==
  ASSUME IsFiniteSet(Addr), NEW s \in ChainStates, NEW tx \in Transaction, NEW m \in Addr,
         tx.from # NoAddr, tx.amount + tx.fee < Modulus, TxApplies(s, tx), Supply(s) < Modulus
  PROVE  Supply(AfterTx(s, tx, m)) = Supply(s)
<1> DEFINE v == Plus(tx.amount, tx.fee)
           d == Debit(s, tx.from, v)
           p == Credit(d, tx.to, tx.amount)
<1>1. /\ tx.from \in Addr /\ tx.to \in Addr /\ tx.amount \in Amount /\ tx.fee \in Amount
      /\ tx.amount \in Nat /\ tx.fee \in Nat
  BY ModulusAssumption DEF Transaction, Amount
<1>2. v = tx.amount + tx.fee /\ v \in Amount
  BY <1>1, ExactArithmetic, ModulusAssumption DEF Amount
<1>3. v <= s[tx.from].balance
  BY <1>1, <1>2, BalancesType DEF TxApplies
<1> HIDE DEF v
<1>4. d \in ChainStates /\ Supply(d) = Supply(s) - v
  BY <1>1, <1>2, <1>3, DebitFacts, DebitSupply
<1> HIDE DEF d
<1>5. Supply(s) \in Nat /\ Supply(d) \in Nat
  BY <1>4, BalancesType
<1>6. p \in ChainStates /\ Supply(p) = Supply(s) - tx.fee
  <2>1. Supply(d) + tx.amount < Modulus
    BY <1>1, <1>2, <1>4, <1>5, ModulusAssumption
  <2>2. p \in ChainStates /\ Supply(p) = Supply(d) + tx.amount
    BY <1>1, <1>4, <2>1, CreditFacts, CreditSupply
  <2>3. QED  BY <1>1, <1>2, <1>4, <1>5, <2>2
<1> HIDE DEF p
<1>7. AfterTx(s, tx, m) = IF tx.fee > 0 /\ m # NoAddr THEN Credit(p, m, tx.fee) ELSE p
  BY DEF AfterTx, p, d, v
<1>8. m # NoAddr
  BY AddrAssumption
<1>9. CASE tx.fee > 0
  <2>1. Supply(p) + tx.fee < Modulus
    BY <1>1, <1>5, <1>6, ModulusAssumption
  <2>2. Supply(Credit(p, m, tx.fee)) = Supply(p) + tx.fee
    BY <1>1, <1>6, <2>1, CreditSupply
  <2>3. QED  BY <1>1, <1>5, <1>6, <1>7, <1>8, <1>9, <2>2
<1>10. CASE ~(tx.fee > 0)
  BY <1>1, <1>5, <1>6, <1>7, <1>10
<1>11. QED  BY <1>9, <1>10

\* The reward is what a block adds.
LEMMA RewardSupply ==
  ASSUME IsFiniteSet(Addr), NEW s \in ChainStates, NEW m \in Addr,
         Supply(s) + BlockReward < Modulus
  PROVE  Supply(ApplyBlockReward(s, m, BlockReward)) = Supply(s) + BlockReward
<1>1. m # NoAddr /\ BlockReward \in Amount /\ Supply(s) \in Nat
  BY AddrAssumption, BlockchainAssumption, BalancesType
<1>2. CASE BlockReward = 0
  BY <1>1, <1>2 DEF ApplyBlockReward
<1>3. CASE BlockReward # 0
  BY <1>1, <1>3, CreditSupply DEF ApplyBlockReward
<1>4. QED  BY <1>2, <1>3

\* The coins issued up to a height the node may reach.
LEMMA IssuedFacts ==
  ASSUME CoinsFit, NEW h \in Height
  PROVE  /\ Issued(h) \in Nat /\ Issued(h) < Modulus
         /\ h + 1 \in Height => Issued(h + 1) = Issued(h) + BlockReward /\ Issued(h + 1) < Modulus
<1>1. Supply(GenesisState) \in Nat /\ BlockReward \in Nat /\ MaxHeight \in Nat
  BY GenesisStateType, BalancesType, BlockchainAssumption, ModulusAssumption DEF CoinsFit, Amount
<1>2. \A i \in Height : BlockReward * i \in Nat /\ BlockReward * i <= BlockReward * MaxHeight
  BY <1>1 DEF Height
<1>3. \A i \in Height : Issued(i) \in Nat /\ Issued(i) < Modulus
  BY <1>1, <1>2, ModulusAssumption DEF CoinsFit, Issued
<1>4. BlockReward * (h + 1) = BlockReward * h + BlockReward
  BY <1>1 DEF Height
<1>5. Issued(h + 1) = Issued(h) + BlockReward
  BY <1>1, <1>2, <1>4 DEF Issued
<1>6. QED  BY <1>3, <1>5

\* The block a serving node executes carries a list it was given and a miner.
WorkInv ==
  pc \in {"sim", "putblock", "savemeta"} /\ mode # "genesis" =>
    work.txs \in Batches /\ work.miner \in {Miner, PeerMiner}

LEMMA WorkStep == StructInv /\ WorkInv /\ [Next]_vars => WorkInv'
<1> SUFFICES ASSUME StructInv, WorkInv, [Next]_vars PROVE WorkInv'
  OBVIOUS
<1>1. CASE StartUp
  BY <1>1 DEF StartUp, StartGenesis, StartRebuild, RebuildRejected, Halt, Unlock, WorkInv
<1>2. CASE \E txs \in Batches : FinalizeAndMineBlock(txs)
  BY <1>2 DEF FinalizeAndMineBlock, Execute, WorkInv
<1>3. CASE ReceiveBlock
  <2>1. PICK b \in PeerBlocks : ApplyBlock(b)
    BY <1>3 DEF ReceiveBlock
  <2>2. CASE Verdict(b) = "execute" /\ Execute(b, "sync")
    BY <1>3, <2>2, PeerBlockFacts DEF ReceiveBlock, Execute, StructInv, WorkInv
  <2>3. CASE ~(Verdict(b) = "execute" /\ Execute(b, "sync"))
    BY <2>1, <2>3 DEF ApplyBlock, call, WorkInv
  <2>4. QED  BY <2>2, <2>3
<1>4. CASE SimulateTx \/ WriteBlock
  BY <1>4 DEF SimulateTx, WriteBlock, WorkInv
<1>5. CASE CommitState
  <2>1. work' = [work EXCEPT !.root = st'] /\ BlockOK(work) /\ pc = "sim" /\ UNCHANGED mode
    BY <1>5 DEF CommitState, Executed, StructInv, TypeOK
  <2>2. work'.txs = work.txs /\ work'.miner = work.miner
    BY <2>1
  <2>3. QED  BY <2>1, <2>2 DEF WorkInv
<1>6. CASE SimulateFails \/ RootMismatch \/ WriteBlockFails \/ SaveMeta \/ SaveMetaFails \/ Crash
  <2>1. pc' = "idle"
    BY <1>6 DEF SimulateFails, RootMismatch, WriteBlockFails, SaveMeta, SaveMetaFails, Crash,
                Return, Halt, Unlock
  <2>2. QED  BY <2>1 DEF WorkInv
<1>7. CASE UNCHANGED vars
  BY <1>7 DEF WorkInv, vars, call
<1>8. QED  BY <1>1, <1>2, <1>3, <1>4, <1>5, <1>6, <1>7 DEF Next, ExecuteBlock, PutBlock

\* The inductive invariant: the coins in memory are those of the height, and of
\* the height the block in work will have once its reward is paid.
SupplyInv ==
  diskErrors = 0 =>
    /\ proc = "up" /\ pc \in {"idle", "sim"} => Supply(st) = Issued(metaMem)
    /\ pc = "sim" => Supply(sim) = Issued(metaMem)
    /\ pc \in {"putblock", "savemeta"} => Supply(st) = Issued(work.index)
    /\ pc = "savemeta" => work.index = metaMem

\* A step that leaves the accounts, the height and the block in work alone.
LEMMA SupplyUnlocked ==
  ASSUME SupplyInv, diskErrors' = diskErrors,
         proc' = "up" => /\ pc' = "idle" /\ UNCHANGED <<st, metaMem>>
                         /\ (proc = "up" /\ pc \in {"idle", "sim"}) \/ pc = "savemeta",
         pc' \notin {"sim", "putblock", "savemeta"}
  PROVE  SupplyInv'
BY DEF SupplyInv, Issued, Supply

LEMMA SupplyExecute ==
  ASSUME SupplyInv, proc = "up", pc = "idle", NEW b, NEW c, Execute(b, c)
  PROVE  SupplyInv'
BY DEF SupplyInv, Execute, faults, Issued, Supply

\* What the amounts need of it: ordinary transfers, and a miner to reward.
ExactWork ==
  pc = "sim" /\ mode # "genesis" =>
    /\ work.miner \in Addr
    /\ \A k \in 1 .. Len(work.txs) : Ordinary(work.txs[k])

LEMMA SupplySimulateTx == CoinsFit /\ StructInv /\ ExactWork /\ SupplyInv /\ SimulateTx => SupplyInv'
<1> SUFFICES ASSUME CoinsFit, StructInv, ExactWork, SupplyInv, SimulateTx, diskErrors = 0
             PROVE  SupplyInv'
  BY DEF SupplyInv, SimulateTx, faults
<1> DEFINE tx == work.txs[step + 1]
<1>1. /\ pc = "sim" /\ proc = "up" /\ mode # "genesis" /\ TxApplies(sim, tx)
      /\ sim' = AfterTx(sim, tx, work.miner)
      /\ UNCHANGED <<proc, st, metaMem, pc, work>>
  BY DEF SimulateTx, StructInv, ControlInv
<1>2. /\ BlockOK(work) /\ step + 1 \in 1 .. Len(work.txs) /\ sim \in ChainStates
      /\ metaMem \in Height
  BY <1>1 DEF SimulateTx, StructInv, TypeOK, BlockOK
<1>3. tx \in Transaction
  BY <1>2 DEF BlockOK
<1>4. Ordinary(tx) /\ work.miner \in Addr
  BY <1>1, <1>2 DEF ExactWork
<1>5. tx.from # NoAddr /\ tx.amount + tx.fee < Modulus
  BY <1>4 DEF Ordinary
<1> HIDE DEF tx
<1>6. Supply(sim) = Issued(metaMem) /\ Issued(metaMem) < Modulus
  BY <1>1, <1>2, IssuedFacts DEF SupplyInv
<1>7. Supply(sim') = Supply(sim)
  BY <1>1, <1>2, <1>3, <1>4, <1>5, <1>6, TxSupply DEF CoinsFit
<1>8. QED  BY <1>1, <1>6, <1>7 DEF SupplyInv, Issued, Supply

LEMMA SupplyCommitState == CoinsFit /\ StructInv /\ ExactWork /\ SupplyInv /\ CommitState => SupplyInv'
<1> SUFFICES ASSUME CoinsFit, StructInv, ExactWork, SupplyInv, CommitState, diskErrors = 0
             PROVE  SupplyInv'
  BY DEF SupplyInv, CommitState, faults
<1>1. /\ pc = "sim" /\ mode # "genesis" /\ pc' = "putblock"
      /\ st' = ApplyBlockReward(sim, work.miner, BlockReward)
      /\ work' = [work EXCEPT !.root = st']
  BY DEF CommitState, Executed, StructInv, ControlInv
<1>2. BlockOK(work) /\ sim \in ChainStates /\ metaMem \in Height /\ work.index = metaMem + 1
  BY <1>1 DEF StructInv, TypeOK, ControlInv
<1>3. work'.index = metaMem + 1 /\ metaMem + 1 \in Height
  BY <1>1, <1>2 DEF BlockOK
<1>4. work.miner \in Addr
  BY <1>1 DEF ExactWork
<1>5. /\ Supply(sim) = Issued(metaMem) /\ Issued(metaMem + 1) = Issued(metaMem) + BlockReward
      /\ Issued(metaMem + 1) < Modulus
  BY <1>1, <1>2, <1>3, IssuedFacts DEF SupplyInv
<1>6. Supply(st') = Issued(work'.index)
  BY <1>1, <1>2, <1>3, <1>4, <1>5, RewardSupply DEF CoinsFit
<1>7. QED  BY <1>1, <1>6 DEF SupplyInv, Issued, Supply

LEMMA SupplyWriteBlock == StructInv /\ SupplyInv /\ WriteBlock => SupplyInv'
<1> SUFFICES ASSUME StructInv, SupplyInv, WriteBlock PROVE SupplyInv'
  OBVIOUS
<1>1. /\ pc = "putblock" /\ pc' = "savemeta" /\ UNCHANGED <<st, work, diskErrors>>
      /\ BlockOK(work) /\ metaMem \in Height
  BY DEF WriteBlock, faults, StructInv, TypeOK
<1>2. metaMem' = work.index
  BY <1>1, BlockchainAssumption DEF WriteBlock, StructInv, ControlInv, Height
<1>3. QED  BY <1>1, <1>2 DEF SupplyInv, Issued, Supply

LEMMA SupplyMine ==
  ASSUME NEW txs
  PROVE  SupplyInv /\ FinalizeAndMineBlock(txs) => SupplyInv'
BY SupplyExecute DEF FinalizeAndMineBlock

\* Every step keeps it.
LEMMA SupplyStep == CoinsFit /\ StructInv /\ ExactWork /\ SupplyInv /\ [Next]_vars => SupplyInv'
<1> SUFFICES ASSUME CoinsFit, StructInv, ExactWork, SupplyInv, [Next]_vars PROVE SupplyInv'
  OBVIOUS
<1>1. CASE StartGenesis
  <2>1. /\ st' = GenesisState /\ proc' = "starting" /\ pc' = "putblock" /\ work'.index = 0
    BY <1>1 DEF StartGenesis, NewGenesisBlock
  <2>2. Supply(GenesisState) \in Nat /\ BlockReward * 0 = 0
    BY GenesisStateType, BalancesType, BlockchainAssumption, ModulusAssumption DEF CoinsFit, Amount
  <2>3. Supply(GenesisState) = Issued(0)
    BY <2>2 DEF Issued
  <2>4. Supply(st') = Issued(work'.index)
    BY <2>1, <2>3
  <2>5. QED  BY <2>1, <2>4 DEF SupplyInv, Issued, Supply
<1>2. CASE StartRebuild
  BY <1>2, SupplyUnlocked DEF StartRebuild, faults
<1>3. CASE RebuildRejected
  BY <1>3, SupplyUnlocked DEF RebuildRejected, Halt, Unlock, faults
<1>4. CASE Crash
  BY <1>4, SupplyUnlocked DEF Crash, Halt, Unlock
<1>5. CASE \E txs \in Batches : FinalizeAndMineBlock(txs)
  BY <1>5, SupplyMine
<1>6. CASE ReceiveBlock
  <2>1. PICK b \in PeerBlocks : ApplyBlock(b)
    BY <1>6 DEF ReceiveBlock
  <2>2. proc = "up" /\ pc = "idle"
    BY <1>6 DEF ReceiveBlock
  <2>3. CASE Execute(b, "sync")
    BY <2>2, <2>3, SupplyExecute
  <2>4. CASE ~Execute(b, "sync")
    BY <2>1, <2>2, <2>4, SupplyUnlocked DEF ApplyBlock, faults, call
  <2>5. QED  BY <2>3, <2>4
<1>7. CASE SimulateTx
  BY <1>7, SupplySimulateTx
<1>8. CASE SimulateFails \/ RootMismatch
  <2>1. proc = "up" /\ pc = "sim" /\ mode # "genesis" /\ Return("error") /\ UNCHANGED faults
    BY <1>8 DEF SimulateFails, RootMismatch, Executed, StructInv, ControlInv
  <2>2. QED  BY <2>1, SupplyUnlocked DEF Return, Unlock, faults
<1>9. CASE CommitState
  BY <1>9, SupplyCommitState
<1>10. CASE WriteBlock
  BY <1>10, SupplyWriteBlock
<1>11. CASE WriteBlockFails \/ SaveMetaFails
  <2>1. diskErrors' # 0
    BY <1>11, BlockchainAssumption DEF WriteBlockFails, SaveMetaFails, StructInv, TypeOK
  <2>2. QED  BY <2>1 DEF SupplyInv
<1>12. CASE SaveMeta
  <2>1. pc = "savemeta" /\ Return("ok") /\ UNCHANGED diskErrors
    BY <1>12 DEF SaveMeta, faults
  <2>2. pc' = "idle" /\ UNCHANGED <<st, metaMem>>
    BY <2>1 DEF Return, Unlock
  <2>3. UNCHANGED <<st, metaMem, diskErrors>> /\ pc = "savemeta" /\ pc' = "idle"
    BY <2>1, <2>2
  <2>4. QED  BY <2>3 DEF SupplyInv, Issued, Supply
<1>13. CASE UNCHANGED vars
  BY <1>13 DEF SupplyInv, Issued, Supply, vars, call, faults
<1>14. QED
  BY <1>1, <1>2, <1>3, <1>4, <1>5, <1>6, <1>7, <1>8, <1>9, <1>10, <1>11, <1>12, <1>13
     DEF Next, StartUp, ExecuteBlock, PutBlock

\* Where the coins that can exist fit below the modulus and blocks carry ordinary
\* transfers, a node whose writes do not fail holds at every height the coins of
\* its genesis and of that many rewards: fees and transfers only move them.
THEOREM CoinsAreConserved ==
  CoinsFit /\ MaxDiskErrors = 0 => (Spec => []SupplyConserved)
<1> SUFFICES ASSUME CoinsFit, MaxDiskErrors = 0 PROVE Spec => []SupplyConserved
  OBVIOUS
<1>1. Init => WorkInv /\ SupplyInv
  BY DEF Init, WorkInv, SupplyInv
<1>2. StructInv /\ SupplyInv => SupplyConserved
  BY DEF StructInv, TypeOK, SupplyInv, SupplyConserved, Issued
<1>3. WorkInv => ExactWork
  BY BlockchainAssumption DEF WorkInv, ExactWork, CoinsFit
<1>4. StructInv /\ WorkInv /\ SupplyInv /\ [Next]_vars => WorkInv' /\ SupplyInv'
  BY <1>3, WorkStep, SupplyStep
<1>5. QED  BY <1>1, <1>2, <1>4, StructInvariance, PTL DEF Spec

(***************************************************************************)
(* The durable chain implements AppendOnlyLedger.                          *)
(***************************************************************************)

\* The ledger executes transactions as the node does.
LEMMA SameExecution ==
  /\ \A s, tx : Ledger!TxApplies(s, tx) = TxApplies(s, tx)
  /\ \A s, tx, m : Ledger!AfterTx(s, tx, m) = AfterTx(s, tx, m)
  /\ \A s, m : Ledger!ApplyBlockReward(s, m, BlockReward) = ApplyBlockReward(s, m, BlockReward)
BY DEF Ledger!TxApplies, TxApplies, Ledger!AfterTx, AfterTx, Ledger!ApplyBlockReward,
   ApplyBlockReward, Ledger!Credit, Credit, Ledger!Debit, Debit, Ledger!Plus, Plus,
   Ledger!Minus, Minus

\* f gives the states after each of the first n transactions.
IsExecution(f, n, s, txs, m) ==
  f = [k \in 0 .. n |-> IF k = 0 THEN s ELSE Ledger!AfterTx(f[k-1], txs[k], m)]

\* The recursion of Execution has a solution, so that Execution is one.
LEMMA ExecutionExists ==
  ASSUME NEW s, NEW txs \in Seq(Transaction), NEW m
  PROVE  \E f : IsExecution(f, Len(txs), s, txs, m)
<1> DEFINE L == Len(txs)
           Good == {n \in 0 .. L : \E f : IsExecution(f, n, s, txs, m)}
<1>1. L \in Nat
  OBVIOUS
<1>2. 0 \in Good
  <2> DEFINE f == [k \in 0 .. 0 |-> s]
  <2>1. IsExecution(f, 0, s, txs, m)
    BY DEF IsExecution
  <2>2. QED  BY <1>1, <2>1
<1>3. ASSUME NEW n \in 0 .. L - 1, n \in Good
      PROVE  n + 1 \in Good
  <2>1. PICK f : IsExecution(f, n, s, txs, m)
    BY <1>3
  <2> DEFINE g == [k \in 0 .. n + 1 |-> IF k = n + 1 THEN Ledger!AfterTx(f[n], txs[n + 1], m) ELSE f[k]]
  <2>2. \A k \in 0 .. n : f[k] = IF k = 0 THEN s ELSE Ledger!AfterTx(f[k-1], txs[k], m)
    BY <2>1 DEF IsExecution
  <2>3. \A k \in 0 .. n : g[k] = f[k]
    BY <1>1
  <2>4. g[n + 1] = Ledger!AfterTx(g[n], txs[n + 1], m)
    BY <1>1, <2>3
  <2>5. ASSUME NEW k \in 0 .. n + 1
        PROVE  g[k] = IF k = 0 THEN s ELSE Ledger!AfterTx(g[k-1], txs[k], m)
    <3>1. CASE k = n + 1
      BY <1>1, <2>4, <3>1
    <3>2. CASE k = 0
      BY <1>1, <2>2, <2>3, <3>2
    <3>3. CASE k \in 1 .. n
      <4>1. g[k] = f[k] /\ g[k-1] = f[k-1] /\ k # 0 /\ k \in 0 .. n
        BY <1>1, <2>3, <3>3
      <4> HIDE DEF g
      <4>2. QED  BY <2>2, <4>1
    <3>4. QED  BY <1>1, <3>1, <3>2, <3>3
  <2>6. g = [k \in 0 .. n + 1 |-> g[k]]
    OBVIOUS
  <2> HIDE DEF g
  <2>7. IsExecution(g, n + 1, s, txs, m)
    BY <2>5, <2>6 DEF IsExecution
  <2>8. QED  BY <1>1, <2>7
<1>4. Good \in SUBSET (0 .. L)
  OBVIOUS
<1> HIDE DEF Good
<1>5. Good = 0 .. L
  BY <1>1, <1>2, <1>3, <1>4, IntervalInduction
<1>6. L \in Good
  BY <1>1, <1>5
<1>7. QED  BY <1>6 DEF Good

LEMMA ExecutionFacts ==
  ASSUME NEW s, NEW txs \in Seq(Transaction), NEW m
  PROVE  /\ Ledger!Execution(s, txs, m)[0] = s
         /\ \A k \in 1 .. Len(txs) :
              Ledger!Execution(s, txs, m)[k] =
                AfterTx(Ledger!Execution(s, txs, m)[k-1], txs[k], m)
<1> DEFINE e == Ledger!Execution(s, txs, m)
<1>1. e = CHOOSE f : IsExecution(f, Len(txs), s, txs, m)
  BY Zenon DEF Ledger!Execution, IsExecution
<1> HIDE DEF e
<1>2. IsExecution(e, Len(txs), s, txs, m)
  BY <1>1, ExecutionExists
<1>3. Len(txs) \in Nat
  OBVIOUS
<1>4. e[0] = s /\ \A k \in 1 .. Len(txs) : e[k] = Ledger!AfterTx(e[k-1], txs[k], m)
  BY <1>2, <1>3 DEF IsExecution
<1>5. QED  BY <1>4, SameExecution DEF e

\* The inductive invariant.  While a node serves, what is durable is what it
\* serves; a block being executed has run, so far, as the ledger would run it on
\* the durable accounts; and the block on its way to the disk is the ledger's
\* next.
LedgerInv ==
  /\ proc = "up" /\ pc \in {"idle", "sim", "putblock"} => LoadMeta = metaMem
  /\ proc = "up" /\ pc \in {"idle", "sim"} => st = DurableState
  /\ mode = "genesis" => LoadMeta = 0 /\ st = GenesisState
  /\ pc = "sim" =>
       LET after == Ledger!Execution(DurableState, work.txs, work.miner)
       IN  /\ sim = after[step]
           /\ \A k \in 1 .. step : TxApplies(after[k-1], work.txs[k])
  /\ pc \in {"putblock", "savemeta"} /\ mode # "genesis" =>
       /\ Ledger!Executable(DurableState, work.txs, work.miner)
       /\ work.root = Ledger!AfterBlock(DurableState, work.txs, work.miner)
  /\ pc = "savemeta" /\ mode # "genesis" => LoadMeta = metaMem - 1 /\ Tip = work

\* What is durable depends on the blocks that meta.json counts alone.
LEMMA DurableSame ==
  ASSUME StructInv, UNCHANGED metaFile, \A i \in 1 .. LoadMeta : blockFile'[i] = blockFile[i]
  PROVE  LoadMeta' = LoadMeta /\ DurableLog' = DurableLog /\ DurableState' = DurableState
<1>1. LoadMeta' = LoadMeta /\ LoadMeta \in Nat
  BY BlockchainAssumption DEF LoadMeta, StructInv, TypeOK, Height
<1>2. LoadMeta # 0 => blockFile'[LoadMeta] = blockFile[LoadMeta]
  BY <1>1
<1>3. DurableState' = DurableState
  BY <1>1, <1>2 DEF DurableState
<1>4. DurableLog' = DurableLog
  BY <1>1 DEF DurableLog
<1>5. QED  BY <1>1, <1>3, <1>4

LEMMA LedgerExecute ==
  ASSUME StructInv, LedgerInv, proc = "up", pc = "idle", NEW b, BlockOK(b),
         NEW c \in {"mine", "sync"}, Execute(b, c)
  PROVE  LedgerInv'
<1>1. /\ pc' = "sim" /\ mode' = c /\ work' = b /\ sim' = st /\ step' = 0
      /\ UNCHANGED <<proc, st, metaMem, blockFile, metaFile>>
  BY DEF Execute, files
<1>2. LoadMeta' = LoadMeta /\ DurableState' = DurableState
  BY <1>1, DurableSame
<1>3. b.txs \in Seq(Transaction)
  BY DEF BlockOK
<1>4. Ledger!Execution(st, b.txs, b.miner)[0] = st
  BY <1>3, ExecutionFacts
<1>5. st = DurableState /\ LoadMeta = metaMem
  BY DEF LedgerInv
<1>6. 1 .. 0 = {}
  OBVIOUS
<1>7. QED
  BY <1>1, <1>2, <1>4, <1>5, <1>6 DEF LedgerInv

LEMMA LedgerSimulateTx == StructInv /\ LedgerInv /\ SimulateTx => LedgerInv'
<1> SUFFICES ASSUME StructInv, LedgerInv, SimulateTx PROVE LedgerInv'
  OBVIOUS
<1> DEFINE after == Ledger!Execution(DurableState, work.txs, work.miner)
<1>1. /\ pc = "sim" /\ TxApplies(sim, work.txs[step + 1]) /\ step' = step + 1
      /\ sim' = AfterTx(sim, work.txs[step + 1], work.miner)
      /\ UNCHANGED <<proc, st, metaMem, blockFile, metaFile, pc, mode, work>>
  BY DEF SimulateTx, files
<1>2. LoadMeta' = LoadMeta /\ DurableState' = DurableState
  BY <1>1, DurableSame
<1>3. work.txs \in Seq(Transaction) /\ step + 1 \in 1 .. Len(work.txs) /\ step \in Nat
  BY <1>1 DEF SimulateTx, StructInv, TypeOK, BlockOK
<1>4. after[step + 1] = AfterTx(after[step], work.txs[step + 1], work.miner)
  <2>1. \A k \in 1 .. Len(work.txs) : after[k] = AfterTx(after[k-1], work.txs[k], work.miner)
    BY <1>3, ExecutionFacts
  <2>2. (step + 1) - 1 = step
    BY <1>3
  <2> HIDE DEF after
  <2>3. after[step + 1] = AfterTx(after[(step + 1) - 1], work.txs[step + 1], work.miner)
    BY <1>3, <2>1
  <2>4. QED  BY <2>2, <2>3
<1>5. sim = after[step] /\ \A k \in 1 .. step : TxApplies(after[k-1], work.txs[k])
  BY <1>1 DEF LedgerInv
<1>6. sim' = after[step'] /\ \A k \in 1 .. step' : TxApplies(after[k-1], work.txs[k])
  BY <1>1, <1>3, <1>4, <1>5
<1> HIDE DEF after
<1>7. after' = after
  BY <1>1, <1>2 DEF after, Ledger!Execution
<1>8. QED
  BY <1>1, <1>2, <1>6 DEF LedgerInv, after

LEMMA LedgerCommitState == StructInv /\ LedgerInv /\ CommitState => LedgerInv'
<1> SUFFICES ASSUME StructInv, LedgerInv, CommitState PROVE LedgerInv'
  OBVIOUS
<1> DEFINE after == Ledger!Execution(DurableState, work.txs, work.miner)
<1>1. /\ pc = "sim" /\ step = Len(work.txs) /\ mode # "genesis" /\ pc' = "putblock" /\ proc = "up"
      /\ st' = ApplyBlockReward(sim, work.miner, BlockReward)
      /\ work' = [work EXCEPT !.root = st']
      /\ UNCHANGED <<proc, metaMem, blockFile, metaFile, mode>>
  BY DEF CommitState, Executed, files, StructInv, ControlInv
<1>2. LoadMeta' = LoadMeta /\ DurableState' = DurableState
  BY <1>1, DurableSame
<1>3. BlockOK(work)
  BY <1>1 DEF StructInv, TypeOK
<1>4. work'.txs = work.txs /\ work'.miner = work.miner /\ work'.root = st'
  BY <1>1, <1>3 DEF BlockOK
<1>5. sim = after[Len(work.txs)] /\ \A k \in 1 .. Len(work.txs) : TxApplies(after[k-1], work.txs[k])
  BY <1>1 DEF LedgerInv
<1>6. Ledger!Executable(DurableState, work.txs, work.miner)
  BY <1>5, SameExecution DEF Ledger!Executable
<1>7. st' = Ledger!AfterBlock(DurableState, work.txs, work.miner)
  BY <1>1, <1>5, SameExecution DEF Ledger!AfterBlock
<1> HIDE DEF after
<1>8. /\ Ledger!Executable(DurableState', work'.txs, work'.miner)
      /\ work'.root = Ledger!AfterBlock(DurableState', work'.txs, work'.miner)
  BY <1>2, <1>4, <1>6, <1>7
<1>9. LoadMeta = metaMem
  BY <1>1 DEF LedgerInv
<1>10. QED
  BY <1>1, <1>2, <1>8, <1>9 DEF LedgerInv

LEMMA LedgerWriteBlock == StructInv /\ LedgerInv /\ WriteBlock => LedgerInv'
<1> SUFFICES ASSUME StructInv, LedgerInv, WriteBlock PROVE LedgerInv'
  OBVIOUS
<1>1. /\ pc = "putblock" /\ pc' = "savemeta" /\ UNCHANGED <<proc, st, metaFile, mode, work>>
      /\ blockFile' = [blockFile EXCEPT ![work.index] = work]
      /\ DOMAIN blockFile = Height /\ work.index \in Height /\ metaMem \in Height
  BY BlockchainAssumption DEF WriteBlock, StructInv, TypeOK, BlockOK, Height
<1>2. CASE mode = "genesis"
  <2>1. LoadMeta = 0 /\ st = GenesisState /\ LoadMeta' = LoadMeta
    BY <1>1, <1>2 DEF LedgerInv, LoadMeta
  <2>2. proc = "starting"
    BY <1>1, <1>2 DEF StructInv, ControlInv
  <2>3. QED  BY <1>1, <1>2, <2>1, <2>2 DEF LedgerInv
<1>3. CASE mode # "genesis"
  <2>1. proc = "up" /\ LoadMeta = metaMem /\ work.index = metaMem + 1
    BY <1>1, <1>3 DEF StructInv, ControlInv, LedgerInv
  <2>2. \A i \in 1 .. LoadMeta : blockFile'[i] = blockFile[i]
    <3> SUFFICES ASSUME NEW i \in 1 .. LoadMeta PROVE blockFile'[i] = blockFile[i]
      OBVIOUS
    <3>1. i # work.index /\ i \in Height
      BY <1>1, <2>1, BlockchainAssumption DEF Height
    <3>2. QED  BY <1>1, <3>1
  <2>3. LoadMeta' = LoadMeta /\ DurableState' = DurableState
    BY <1>1, <2>2, DurableSame
  <2>4. metaMem' = metaMem + 1
    BY <1>1, <2>1 DEF WriteBlock, Height
  <2>5. Tip' = work
    BY <1>1, <2>1, <2>4 DEF Tip
  <2>6. LoadMeta' = metaMem' - 1
    BY <1>1, <2>1, <2>3, <2>4, BlockchainAssumption DEF Height
  <2>7. /\ Ledger!Executable(DurableState', work'.txs, work'.miner)
        /\ work'.root = Ledger!AfterBlock(DurableState', work'.txs, work'.miner)
    BY <1>1, <1>3, <2>3 DEF LedgerInv
  <2>8. pc' = "savemeta" /\ mode' # "genesis" /\ Tip' = work'
    BY <1>1, <1>3, <2>5
  <2>9. QED
    BY <2>6, <2>7, <2>8 DEF LedgerInv
<1>4. QED  BY <1>2, <1>3

\* Before SaveMeta returns, what it makes durable is the block in work.
LEMMA SaveMetaFacts ==
  ASSUME StructInv, LedgerInv, SaveMeta, mode # "genesis"
  PROVE  /\ LoadMeta = metaMem - 1 /\ metaMem \in Nat /\ LoadMeta \in Nat
         /\ LoadMeta' = metaMem /\ UNCHANGED blockFile
         /\ Tip = work /\ DurableState' = work.root
<1>1. pc = "savemeta" /\ metaFile' = metaMem /\ UNCHANGED blockFile
  BY DEF SaveMeta
<1>2. LoadMeta = metaMem - 1 /\ Tip = work /\ metaMem \in Nat /\ LoadMeta \in Nat
  BY <1>1, BlockchainAssumption DEF LedgerInv, LoadMeta, StructInv, TypeOK, Height
<1>3. LoadMeta' = metaMem
  BY <1>1, <1>2, BlockchainAssumption DEF LoadMeta
<1>4. DurableState' = blockFile[metaMem].root
  BY <1>1, <1>2, <1>3 DEF DurableState
<1>5. QED  BY <1>1, <1>2, <1>3, <1>4 DEF Tip

\* What the refinement needs of the disk: writes do not fail, and a meta.json
\* that is being replaced is the old one or the new one.
MetaAtomic == MaxDiskErrors = 0 /\ "meta" \notin TornFiles

LEMMA NoFailedWrite ==
  ASSUME MetaAtomic, StructInv
  PROVE  ~WriteBlockFails /\ ~SaveMetaFails /\ diskErrors = 0
BY DEF MetaAtomic, StructInv, TypeOK, WriteBlockFails, SaveMetaFails

\* A process that ends, or a call that returns without a block, leaves the files
\* that meta.json counts.
LEMMA LedgerUnlocked ==
  ASSUME StructInv, LedgerInv, UNCHANGED <<blockFile, metaFile>>,
         mode' = "genesis" => UNCHANGED <<mode, st>>,
         pc' \notin {"sim", "putblock", "savemeta"},
         proc' = "up" => proc = "up" /\ pc \in {"idle", "sim"} /\ UNCHANGED <<st, metaMem>>
  PROVE  LedgerInv'
<1>1. LoadMeta' = LoadMeta /\ DurableState' = DurableState
  BY DurableSame
<1>2. QED  BY <1>1 DEF LedgerInv

\* Every step keeps it.
LEMMA LedgerStep ==
  MetaAtomic /\ StructInv /\ RootInv /\ LedgerInv /\ [Next]_vars => LedgerInv'
<1> SUFFICES ASSUME MetaAtomic, StructInv, RootInv, LedgerInv, [Next]_vars PROVE LedgerInv'
  OBVIOUS
<1>1. CASE StartGenesis
  <2>1. /\ LoadMeta = 0 /\ st' = GenesisState /\ proc' = "starting" /\ pc' = "putblock"
        /\ mode' = "genesis" /\ UNCHANGED metaFile
    BY <1>1 DEF StartGenesis, files
  <2>2. LoadMeta' = 0
    BY <2>1 DEF LoadMeta
  <2>3. QED  BY <2>1, <2>2 DEF LedgerInv
<1>2. CASE StartRebuild
  BY <1>2, LedgerUnlocked DEF StartRebuild, files
<1>3. CASE RebuildRejected
  BY <1>3, LedgerUnlocked DEF RebuildRejected, Halt, Unlock, files
<1>4. CASE Crash
  <2>1. UNCHANGED <<blockFile, metaFile>>
    BY <1>4 DEF Crash, TearMeta, MetaAtomic
  <2>2. QED  BY <1>4, <2>1, LedgerUnlocked DEF Crash, Halt, Unlock
<1>5. CASE \E txs \in Batches : FinalizeAndMineBlock(txs)
  <2>1. PICK txs \in Batches : FinalizeAndMineBlock(txs)
    BY <1>5
  <2> DEFINE b == [index |-> Tip.index + 1, ts |-> Tip.ts + 1, prev |-> HashOf(Tip),
                   root |-> EmptyState, miner |-> Miner, txs |-> txs, pow |-> TRUE]
  <2>2. proc = "up" /\ pc = "idle" /\ Execute(b, "mine")
    BY <2>1 DEF FinalizeAndMineBlock
  <2>3. BlockOK(b)
    <3>1. StructInv'
      BY <2>1, StructMine, BlockchainAssumption
    <3>2. work' = b /\ pc' = "sim"
      BY <2>2 DEF Execute
    <3> HIDE DEF b
    <3>3. BlockOK(work')
      BY <3>1, <3>2 DEF StructInv, TypeOK, BlockOK
    <3>4. QED  BY <3>2, <3>3
  <2> HIDE DEF b
  <2>4. QED  BY <2>2, <2>3, LedgerExecute
<1>6. CASE ReceiveBlock
  <2>1. PICK b \in PeerBlocks : ApplyBlock(b)
    BY <1>6 DEF ReceiveBlock
  <2>2. proc = "up" /\ pc = "idle"
    BY <1>6 DEF ReceiveBlock
  <2>3. CASE Execute(b, "sync")
    BY <2>2, <2>3, PeerBlockFacts, LedgerExecute DEF StructInv
  <2>4. CASE ~Execute(b, "sync")
    <3>1. UNCHANGED <<proc, st, metaMem, blockFile, metaFile, pc, mode>>
      BY <2>1, <2>2, <2>4 DEF ApplyBlock, files, call, StructInv, DiskInv, LedgerInv, ControlInv
    <3>2. pc' \notin {"sim", "putblock", "savemeta"}
      BY <2>2, <3>1
    <3>3. QED  BY <2>2, <3>1, <3>2, LedgerUnlocked
  <2>5. QED  BY <2>3, <2>4
<1>7. CASE SimulateTx
  BY <1>7, LedgerSimulateTx
<1>8. CASE SimulateFails \/ RootMismatch
  <2>1. /\ proc = "up" /\ pc = "sim" /\ mode # "genesis" /\ Return("error")
        /\ UNCHANGED <<files, faults>>
    BY <1>8 DEF SimulateFails, RootMismatch, Executed, StructInv, ControlInv
  <2>2. QED  BY <2>1, LedgerUnlocked DEF Return, Unlock, files
<1>9. CASE CommitState
  BY <1>9, LedgerCommitState
<1>10. CASE WriteBlock
  BY <1>10, LedgerWriteBlock
<1>11. CASE SaveMeta /\ mode = "genesis"
  <2>1. LoadMeta = 0 /\ st = GenesisState /\ metaMem = 0 /\ metaFile' = 0
    BY <1>11 DEF SaveMeta, LedgerInv, StructInv, ControlInv
  <2>2. pc' = "idle" /\ mode' = "none" /\ UNCHANGED <<st, metaMem>>
    BY <1>11 DEF SaveMeta, Return, Unlock
  <2>3. LoadMeta' = 0
    BY <2>1 DEF LoadMeta
  <2>4. DurableState' = GenesisState
    BY <2>3 DEF DurableState
  <2>5. QED  BY <2>1, <2>2, <2>3, <2>4 DEF LedgerInv
<1>12. CASE SaveMeta /\ mode # "genesis"
  <2>1. LoadMeta' = metaMem /\ DurableState' = work.root
    BY <1>12, SaveMetaFacts
  <2>2. pc' = "idle" /\ mode' = "none" /\ UNCHANGED <<st, metaMem>>
    BY <1>12 DEF SaveMeta, Return, Unlock
  <2>3. st = work.root
    BY <1>12, NoFailedWrite DEF SaveMeta, RootInv
  <2>4. QED  BY <2>1, <2>2, <2>3 DEF LedgerInv
<1>13. CASE UNCHANGED vars
  <2>1. LoadMeta' = LoadMeta /\ DurableState' = DurableState
    BY <1>13, DurableSame DEF vars, files
  <2>2. QED  BY <1>13, <2>1 DEF LedgerInv, Tip, vars, files, call
<1>14. QED
  BY <1>1, <1>2, <1>3, <1>4, <1>5, <1>6, <1>7, <1>8, <1>9, <1>10, <1>11, <1>12, <1>13,
     NoFailedWrite
     DEF Next, StartUp, ExecuteBlock, PutBlock

\* A step that makes a block durable is the ledger's step, for that block.
LEMMA SaveMetaExtends ==
  ASSUME StructInv, WorkInv, LedgerInv, SaveMeta, mode # "genesis"
  PROVE  Ledger!Next
<1>1. /\ LoadMeta = metaMem - 1 /\ metaMem \in Nat /\ LoadMeta \in Nat
      /\ LoadMeta' = metaMem /\ UNCHANGED blockFile
      /\ Tip = work /\ DurableState' = work.root
  BY SaveMetaFacts
<1>2. /\ Ledger!Executable(DurableState, work.txs, work.miner)
      /\ work.root = Ledger!AfterBlock(DurableState, work.txs, work.miner)
  BY DEF SaveMeta, LedgerInv
<1>3. DurableLog' = Append(DurableLog, [txs |-> work.txs, miner |-> work.miner])
  <2> DEFINE entry(i) == [txs |-> blockFile[i].txs, miner |-> blockFile[i].miner]
             n == LoadMeta
  <2>1. DurableLog' = [i \in 1 .. n + 1 |-> entry(i)]
    BY <1>1 DEF DurableLog
  <2>2. entry(n + 1) = [txs |-> work.txs, miner |-> work.miner]
    BY <1>1 DEF Tip
  <2>3. DurableLog = [i \in 1 .. n |-> entry(i)]
    <3>1. CASE n = 0
      <4>1. [i \in 1 .. 0 |-> entry(i)] = <<>>
        OBVIOUS
      <4>2. QED  BY <3>1, <4>1 DEF DurableLog
    <3>2. CASE n # 0
      BY <3>2 DEF DurableLog
    <3>3. QED  BY <3>1, <3>2
  <2> DEFINE S == {entry(i) : i \in 1 .. n + 1}
  <2>4. \A i \in 1 .. n + 1 : entry(i) \in S
    OBVIOUS
  <2> HIDE DEF entry, S
  <2>5. [i \in 1 .. n |-> entry(i)] \in Seq(S) /\ [i \in 1 .. n + 1 |-> entry(i)] \in Seq(S)
    BY <1>1, <2>4
  <2> DEFINE l == [i \in 1 .. n |-> entry(i)]
             m == [i \in 1 .. n + 1 |-> entry(i)]
  <2>6. Len(l) = n /\ Len(m) = n + 1
    BY <1>1
  <2>7. \A i \in 1 .. n : l[i] = entry(i)
    OBVIOUS
  <2>8. \A i \in 1 .. n + 1 : m[i] = entry(i)
    OBVIOUS
  <2>9. n + 1 \in 1 .. n + 1 /\ entry(n + 1) \in S
    BY <1>1, <2>4
  <2>14. l \in Seq(S) /\ m \in Seq(S)
    BY <2>5
  <2> HIDE DEF l, m
  <2>10. /\ Append(l, entry(n + 1)) \in Seq(S) /\ Len(Append(l, entry(n + 1))) = n + 1
         /\ \A i \in 1 .. n : Append(l, entry(n + 1))[i] = entry(i)
         /\ Append(l, entry(n + 1))[n + 1] = entry(n + 1)
    BY <2>14, <2>6, <2>7, <2>9, AppendProperties
  <2>11. \A i \in 1 .. n + 1 : m[i] = Append(l, entry(n + 1))[i]
    BY <1>1, <2>8, <2>10
  <2>12. m = Append(l, entry(n + 1))
    BY <2>14, <2>6, <2>10, <2>11, SeqEqual
  <2>13. QED  BY <2>1, <2>2, <2>3, <2>12 DEF l, m
<1>4. Ledger!Extend(work.txs, work.miner)
  BY <1>1, <1>2, <1>3 DEF Ledger!Extend
<1>5. work.txs \in Batches /\ work.miner \in {Miner, PeerMiner}
  BY DEF SaveMeta, WorkInv
<1>6. QED  BY <1>4, <1>5 DEF Ledger!Next

\* Every other step leaves the durable chain as it is.
LEMMA LedgerSimulation ==
  MetaAtomic /\ StructInv /\ WorkInv /\ LedgerInv /\ [Next]_vars => [Ledger!Next]_(Ledger!vars)
<1> SUFFICES ASSUME MetaAtomic, StructInv, WorkInv, LedgerInv, [Next]_vars
             PROVE  Ledger!Next \/ UNCHANGED <<DurableLog, DurableState>>
  BY DEF Ledger!vars
<1>1. CASE SaveMeta /\ mode # "genesis"
  BY <1>1, SaveMetaExtends
<1>2. CASE SaveMeta /\ mode = "genesis"
  <2>1. LoadMeta = 0 /\ metaFile' = 0
    BY <1>2 DEF SaveMeta, LedgerInv, StructInv, ControlInv
  <2>2. LoadMeta' = 0
    BY <2>1 DEF LoadMeta
  <2>3. QED  BY <2>1, <2>2 DEF DurableLog, DurableState
<1>3. CASE ~SaveMeta
  <2>1. UNCHANGED metaFile
    BY <1>3, NoFailedWrite DEF MetaAtomic, Next, StartUp, StartGenesis, StartRebuild,
       RebuildRejected, FinalizeAndMineBlock, ReceiveBlock, ApplyBlock, Execute, ExecuteBlock,
       SimulateTx, SimulateFails, RootMismatch, CommitState, PutBlock, WriteBlock, Crash,
       TearMeta, files, vars
  <2>2. \A i \in 1 .. LoadMeta : blockFile'[i] = blockFile[i]
    <3>1. CASE LoadMeta = 0
      BY <3>1
    <3>2. CASE LoadMeta # 0
      <4>1. metaFile \in Height /\ LoadMeta = metaFile
        BY <3>2 DEF LoadMeta, StructInv, TypeOK
      <4>2. [KeepsDurable]_vars
        BY DurableStep
      <4>3. QED  BY <4>1, <4>2 DEF KeepsDurable, vars, files
    <3>3. QED  BY <3>1, <3>2
  <2>3. QED  BY <2>1, <2>2, DurableSame
<1>4. QED  BY <1>1, <1>2, <1>3

\* Where meta.json is replaced in one piece and writes do not fail, the blocks
\* it counts, whatever the crashes and torn block files, behave as the ledger:
\* one executable block at a time is appended, and none is ever lost.
THEOREM NodeImplementsLedger == MetaAtomic => (Spec => ImplementsLedger)
<1> SUFFICES ASSUME MetaAtomic PROVE Spec => ImplementsLedger
  OBVIOUS
<1>1. Init => Ledger!Init
  BY DEF Init, Ledger!Init, DurableLog, DurableState, LoadMeta
<1>2. Init => WorkInv /\ LedgerInv
  BY DEF Init, WorkInv, LedgerInv
<1>3. StructInv /\ WorkInv /\ RootInv /\ LedgerInv /\ [Next]_vars => WorkInv' /\ LedgerInv'
  BY WorkStep, LedgerStep
<1>4. StructInv /\ WorkInv /\ LedgerInv /\ [Next]_vars => [Ledger!Next]_(Ledger!vars)
  BY LedgerSimulation
<1>5. QED
  BY <1>1, <1>2, <1>3, <1>4, StructInvariance, RootInvariance, PTL
     DEF Spec, ImplementsLedger, Ledger!Spec
===========================================================================
