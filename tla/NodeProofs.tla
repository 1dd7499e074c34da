---------------------------- MODULE NodeProofs ----------------------------
(***************************************************************************)
(* Proofs about Node for every number of handlers, every set of requests   *)
(* and every limit on the batch: what holds of the chain alone holds of    *)
(* the chain under the mining loop, and the mempool loses nothing.         *)
(***************************************************************************)
EXTENDS Node, BlockchainProofs

(***************************************************************************)
(* The mempool.                                                            *)
(***************************************************************************)

\* The pool is a finite map, and keys lists its keys, each once.
PoolOK ==
  /\ IsFiniteSet(DOMAIN poolTxs)
  /\ \A k \in DOMAIN poolTxs : poolTxs[k] \in Transaction /\ txKey(poolTxs[k]) = k
  /\ poolKeys \in Seq(DOMAIN poolTxs)
  /\ IsInjective(poolKeys) /\ ToSet(poolKeys) = DOMAIN poolTxs

\* A listing of a finite set as RemoveIncluded makes it has every element once.
LEMMA ListingFacts ==
  ASSUME NEW S, IsFiniteSet(S), NEW s \in SetToSeqs(S)
  PROVE  s \in Seq(S) /\ IsInjective(s) /\ ToSet(s) = S
<1> DEFINE n == Cardinality(S)
           D == 1 .. n
<1>1. n \in Nat
  BY FS_CardinalityType
<1>2. s \in [D -> S] /\ \A i, j \in D : i # j => s[i] # s[j]
  BY DEF SetToSeqs
<1>3. DOMAIN s = D /\ s \in Seq(S)
  BY <1>1, <1>2
<1>4. IsInjective(s)
  BY <1>2, <1>3 DEF IsInjective
<1>5. s \in Injection(D, S)
  BY <1>2, <1>4 DEF Injection
<1>6. Cardinality(D) = n
  BY <1>1, FS_Interval
<1>7. s \in Surjection(D, S)
  BY <1>5, <1>6, FS_Injection
<1>8. ToSet(s) = S
  BY <1>2, <1>3, <1>7 DEF ToSet, Surjection
<1>9. QED  BY <1>3, <1>4, <1>8

\* The empty pool of a process that starts, and of one that has crashed.
LEMMA PoolEmpty ==
  ASSUME poolTxs = <<>>, poolKeys = <<>>
  PROVE  PoolOK /\ PoolTxs = {}
<1>1. DOMAIN poolTxs = {} /\ DOMAIN poolKeys = {}
  OBVIOUS
<1>2. IsFiniteSet({}) /\ <<>> \in Seq({})
  BY FS_EmptySet
<1>3. QED  BY <1>1, <1>2 DEF PoolOK, PoolTxs, IsInjective, ToSet

LEMMA PoolCrashed ==
  ASSUME poolTxs' = <<>>, poolKeys' = <<>>
  PROVE  PoolOK' /\ PoolTxs' = {}
<1>1. DOMAIN poolTxs' = {} /\ DOMAIN poolKeys' = {}
  OBVIOUS
<1>2. IsFiniteSet({}) /\ <<>> \in Seq({})
  BY FS_EmptySet
<1>3. QED  BY <1>1, <1>2 DEF PoolOK, PoolTxs, IsInjective, ToSet

\* Add puts a transaction under its key, unless the key is taken.
LEMMA AddFacts ==
  ASSUME PoolOK, NEW tx \in Transaction, Add(tx)
  PROVE  /\ PoolOK'
         /\ \E other \in PoolTxs' : txKey(other) = txKey(tx)
         /\ PoolTxs \subseteq PoolTxs'
         /\ PoolTxs' = IF txKey(tx) \in DOMAIN poolTxs THEN PoolTxs ELSE PoolTxs \cup {tx}
<1> DEFINE k == txKey(tx)
           D == DOMAIN poolTxs
<1>1. CASE k \in D
  <2>1. UNCHANGED <<poolTxs, poolKeys>>
    BY <1>1 DEF Add, poolVars
  <2>2. poolTxs[k] \in PoolTxs /\ txKey(poolTxs[k]) = k
    BY <1>1 DEF PoolOK, PoolTxs
  <2>3. QED  BY <1>1, <2>1, <2>2 DEF PoolOK, PoolTxs
<1>2. CASE k \notin D
  <2>1. poolTxs' = Put(poolTxs, k, tx) /\ poolKeys' = Append(poolKeys, k)
    BY <1>2 DEF Add
  <2> HIDE DEF k
  <2>2. /\ DOMAIN poolTxs' = D \cup {k} /\ poolTxs'[k] = tx
        /\ \A j \in D : poolTxs'[j] = poolTxs[j]
    BY <1>2, <2>1 DEF Put
  <2>3. IsFiniteSet(D \cup {k})
    BY FS_AddElement DEF PoolOK
  <2>4. \A j \in D \cup {k} : poolTxs'[j] \in Transaction /\ txKey(poolTxs'[j]) = j
    BY <2>2 DEF PoolOK, k
  <2>5. /\ poolKeys' \in Seq(D \cup {k}) /\ Len(poolKeys') = Len(poolKeys) + 1
        /\ \A i \in 1 .. Len(poolKeys) : poolKeys'[i] = poolKeys[i]
        /\ poolKeys'[Len(poolKeys) + 1] = k
        /\ Len(poolKeys) \in Nat
    <3>1. poolKeys \in Seq(D \cup {k})
      BY DEF PoolOK
    <3>2. QED  BY <2>1, <3>1
  <2>6. /\ \A i \in 1 .. Len(poolKeys) : poolKeys[i] \in D
        /\ \A i, j \in 1 .. Len(poolKeys) : poolKeys[i] = poolKeys[j] => i = j
        /\ \A d \in D : \E i \in 1 .. Len(poolKeys) : poolKeys[i] = d
    BY DEF PoolOK, IsInjective, ToSet
  <2>7. DOMAIN poolKeys' = 1 .. Len(poolKeys) + 1
    BY <2>5
  <2>8. IsInjective(poolKeys')
    <3> SUFFICES ASSUME NEW i \in 1 .. Len(poolKeys) + 1, NEW j \in 1 .. Len(poolKeys) + 1,
                        poolKeys'[i] = poolKeys'[j]
                 PROVE  i = j
      BY <2>7 DEF IsInjective
    <3>1. CASE i \in 1 .. Len(poolKeys) /\ j \in 1 .. Len(poolKeys)
      BY <2>5, <2>6, <3>1
    <3>2. CASE i \in 1 .. Len(poolKeys) /\ j = Len(poolKeys) + 1
      BY <1>2, <2>5, <2>6, <3>2
    <3>3. CASE i = Len(poolKeys) + 1 /\ j \in 1 .. Len(poolKeys)
      BY <1>2, <2>5, <2>6, <3>3
    <3>4. QED  BY <2>5, <3>1, <3>2, <3>3
  <2>9. ToSet(poolKeys') = D \cup {k}
    <3>1. ASSUME NEW d \in D \cup {k} PROVE \E i \in 1 .. Len(poolKeys) + 1 : poolKeys'[i] = d
      <4>1. CASE d = k
        BY <2>5, <4>1
      <4>2. CASE d \in D
        <5>1. PICK i \in 1 .. Len(poolKeys) : poolKeys[i] = d
          BY <2>6, <4>2
        <5>2. QED  BY <2>5, <5>1
      <4>3. QED  BY <4>1, <4>2
    <3>2. \A i \in 1 .. Len(poolKeys) + 1 : poolKeys'[i] \in D \cup {k}
      BY <2>5
    <3>3. QED  BY <2>7, <3>1, <3>2 DEF ToSet
  <2>10. PoolOK'
    BY <2>2, <2>3, <2>4, <2>5, <2>8, <2>9 DEF PoolOK
  <2>11. PoolTxs' = PoolTxs \cup {tx}
    BY <2>2 DEF PoolTxs
  <2>12. QED  BY <1>2, <2>10, <2>11 DEF k
<1>3. QED  BY <1>1, <1>2

\* RemoveIncluded takes out the transactions whose keys a block has used, and
\* those alone.
LEMMA RemoveFacts ==
  ASSUME PoolOK, NEW txs, RemoveIncluded(txs)
  PROVE  /\ PoolOK'
         /\ PoolTxs' = {tx \in PoolTxs : \A ty \in ToSet(txs) : txKey(ty) # txKey(tx)}
<1> DEFINE left == DOMAIN poolTxs \ {txKey(tx) : tx \in ToSet(txs)}
<1>1. poolTxs' = [k \in left |-> poolTxs[k]] /\ poolKeys' \in SetToSeqs(left)
  BY DEF RemoveIncluded
<1>2. left \in SUBSET DOMAIN poolTxs
  OBVIOUS
<1>3. IsFiniteSet(left)
  BY <1>2, FS_Subset DEF PoolOK
<1>4. PoolTxs' = {tx \in PoolTxs : \A ty \in ToSet(txs) : txKey(ty) # txKey(tx)}
  <2>1. PoolTxs' = {poolTxs[k] : k \in left}
    BY <1>1 DEF PoolTxs
  <2>2. \A k \in DOMAIN poolTxs : txKey(poolTxs[k]) = k
    BY DEF PoolOK
  <2>3. QED  BY <2>1, <2>2 DEF PoolTxs
<1> HIDE DEF left
<1>5. poolKeys' \in Seq(left) /\ IsInjective(poolKeys') /\ ToSet(poolKeys') = left
  BY <1>1, <1>3, ListingFacts
<1>6. DOMAIN poolTxs' = left /\ \A k \in left : poolTxs'[k] = poolTxs[k]
  BY <1>1
<1>7. PoolOK'
  BY <1>2, <1>3, <1>5, <1>6 DEF PoolOK
<1>8. QED  BY <1>4, <1>7

\* What Pending copies: distinct transactions of the pool.
LEMMA PendingFacts ==
  ASSUME PoolOK
  PROVE  /\ Pending(MaxBatch) \in Seq(Transaction)
         /\ ToSet(Pending(MaxBatch)) \subseteq PoolTxs
         /\ IsInjective(Pending(MaxBatch))
         /\ Len(poolKeys) <= MaxBatch => ToSet(Pending(MaxBatch)) = PoolTxs
<1> DEFINE n == IF MaxBatch > Len(poolKeys) THEN Len(poolKeys) ELSE MaxBatch
           p == Pending(MaxBatch)
<1>1. n \in Nat /\ n <= Len(poolKeys) /\ Len(poolKeys) \in Nat
  BY NodeAssumption DEF PoolOK
<1>2. p = [i \in 1 .. n |-> poolTxs[poolKeys[i]]]
  BY DEF Pending
<1>3. /\ \A i \in 1 .. Len(poolKeys) : poolKeys[i] \in DOMAIN poolTxs
      /\ \A i, j \in 1 .. Len(poolKeys) : poolKeys[i] = poolKeys[j] => i = j
      /\ \A d \in DOMAIN poolTxs : \E i \in 1 .. Len(poolKeys) : poolKeys[i] = d
      /\ \A d \in DOMAIN poolTxs : poolTxs[d] \in Transaction /\ txKey(poolTxs[d]) = d
  BY DEF PoolOK, IsInjective, ToSet
<1> HIDE DEF n, p
<1>4. DOMAIN p = 1 .. n /\ \A i \in 1 .. n : i \in 1 .. Len(poolKeys) /\ p[i] = poolTxs[poolKeys[i]]
  BY <1>1, <1>2
<1>5. p \in Seq(Transaction)
  <2>1. p \in [1 .. n -> Transaction]
    BY <1>2, <1>3, <1>4
  <2>2. QED  BY <1>1, <2>1
<1>6. ToSet(p) \subseteq PoolTxs
  BY <1>3, <1>4 DEF ToSet, PoolTxs
<1>7. IsInjective(p)
  <2> SUFFICES ASSUME NEW i \in 1 .. n, NEW j \in 1 .. n, p[i] = p[j] PROVE i = j
    BY <1>4 DEF IsInjective
  <2>1. poolKeys[i] = poolKeys[j]
    BY <1>3, <1>4
  <2>2. QED  BY <1>3, <1>4, <2>1
<1>8. ASSUME Len(poolKeys) <= MaxBatch PROVE ToSet(p) = PoolTxs
  <2>1. n = Len(poolKeys)
    BY <1>1, <1>8, NodeAssumption DEF n
  <2>2. ASSUME NEW d \in DOMAIN poolTxs PROVE poolTxs[d] \in ToSet(p)
    <3>1. PICK i \in 1 .. Len(poolKeys) : poolKeys[i] = d
      BY <1>3
    <3>2. QED  BY <1>4, <2>1, <3>1 DEF ToSet
  <2>3. QED  BY <1>6, <2>2 DEF PoolTxs
<1>9. QED  BY <1>5, <1>6, <1>7, <1>8 DEF p

(***************************************************************************)
(* The chain under the mining loop.                                        *)
(***************************************************************************)

\* What the node does to the chain: a step of its own, or mining whatever the
\* pool held.
ChainNext == Next \/ \E txs \in Seq(Transaction) : FinalizeAndMineBlock(txs)

LEMMA NodeStepsChain == NodeTypeOK /\ [NodeNext]_allVars => [ChainNext]_vars
<1> SUFFICES ASSUME NodeTypeOK, [NodeNext]_allVars PROVE [ChainNext]_vars
  OBVIOUS
<1>1. CASE ChainStep
  BY <1>1 DEF ChainStep, ChainNext, Next
<1>2. CASE NodeCrash
  BY <1>2 DEF NodeCrash, ChainNext, Next
<1>3. CASE Mine
  BY <1>3 DEF Mine, ChainNext, NodeTypeOK
<1>4. CASE ~(ChainStep \/ NodeCrash \/ Mine)
  <2>1. UNCHANGED vars
    BY <1>4 DEF NodeNext, Validate, AddValidated, BuildDrip, SendDrip, CooldownEnds, Tick,
                MineReturns, allVars
  <2>2. QED  BY <2>1
<1>5. QED  BY <1>1, <1>2, <1>3, <1>4

LEMMA NodeStruct == StructInv /\ [ChainNext]_vars => StructInv'
BY StructStep, StructMine DEF ChainNext

LEMMA NodeReplay == StructInv /\ ReplayInv /\ [ChainNext]_vars => ReplayInv'
BY ReplayStep, ReplayMine DEF ChainNext

LEMMA NodeRoot == StructInv /\ RootInv /\ [ChainNext]_vars => RootInv'
BY RootStep, RootMine, NodeStruct DEF ChainNext

(***************************************************************************)
(* Types.                                                                  *)
(***************************************************************************)

NodeTypeInv == StructInv /\ PoolOK /\ NodeTypeOK

LEMMA NodeTypeInit == NodeInit => NodeTypeInv
<1> SUFFICES ASSUME NodeInit PROVE NodeTypeInv
  OBVIOUS
<1>1. StructInv
  BY StructInit DEF NodeInit
<1>2. PoolOK
  BY PoolEmpty DEF NodeInit
<1>3. <<>> \in Seq(Transaction) /\ DOMAIN <<>> = {} /\ ToSet(<<>>) = {}
  BY DEF ToSet
<1>4. NodeTypeOK
  BY <1>2, <1>3, NodeAssumption DEF NodeInit, NodeTypeOK, PoolOK
<1>5. QED  BY <1>1, <1>2, <1>4 DEF NodeTypeInv

\* What the handlers hold are transactions.
LEMMA HandlerType ==
  ASSUME NodeTypeOK, NEW h \in Handlers, handler[h] # NoTx
  PROVE  handler[h] \in Requests /\ handler[h] \in Transaction
BY NodeAssumption DEF NodeTypeOK

\* A height noted for one request.
LEMMA AdmittedFacts ==
  ASSUME DOMAIN admitted \subseteq Requests, ToSet(admitted) \subseteq Height,
         NEW tx \in Requests, metaMem \in Height,
         admitted' = Put(admitted, tx, metaMem)
  PROVE  /\ DOMAIN admitted' = DOMAIN admitted \cup {tx}
         /\ DOMAIN admitted' \subseteq Requests /\ ToSet(admitted') \subseteq Height
         /\ admitted'[tx] = metaMem
         /\ \A ty \in DOMAIN admitted \ {tx} : admitted'[ty] = admitted[ty]
<1>1. /\ DOMAIN admitted' = DOMAIN admitted \cup {tx}
      /\ admitted'[tx] = metaMem
      /\ \A ty \in DOMAIN admitted \ {tx} : admitted'[ty] = admitted[ty]
  BY DEF Put
<1>2. \A ty \in DOMAIN admitted : admitted[ty] \in Height
  BY DEF ToSet
<1>3. \A ty \in DOMAIN admitted' : admitted'[ty] \in Height
  BY <1>1, <1>2
<1>4. QED  BY <1>1, <1>3 DEF ToSet

LEMMA TypeAddValidated ==
  ASSUME NodeTypeInv, NEW h \in Handlers, AddValidated(h)
  PROVE  PoolOK' /\ NodeTypeOK'
<1> DEFINE tx == handler[h]
<1>1. tx \in Requests /\ tx \in Transaction
  BY HandlerType DEF AddValidated, NodeTypeInv
<1>2. PoolOK'
  BY <1>1, AddFacts DEF AddValidated, NodeTypeInv
<1>3. DOMAIN admitted' \subseteq Requests /\ ToSet(admitted') \subseteq Height
  <2>1. CASE tx \in DOMAIN admitted
    BY <2>1 DEF AddValidated, NodeTypeInv, NodeTypeOK
  <2>2. CASE tx \notin DOMAIN admitted
    BY <1>1, <2>2, AdmittedFacts DEF AddValidated, NodeTypeInv, NodeTypeOK, StructInv, TypeOK
  <2>3. QED  BY <2>1, <2>2
<1>4. handler' \in [Handlers -> Requests \cup {NoTx}]
  BY DEF AddValidated, NodeTypeInv, NodeTypeOK
<1>5. QED
  BY <1>2, <1>3, <1>4 DEF AddValidated, NodeTypeInv, NodeTypeOK, PoolOK, minerVars, faucetVars

LEMMA TypeBuildDrip ==
  ASSUME NodeTypeInv, NEW to \in Addr, BuildDrip(to)
  PROVE  PoolOK' /\ NodeTypeOK'
<1>1. st[FaucetAddr].nonce \in Nat
  BY NodeAssumption DEF NodeTypeInv, StructInv, TypeOK, ChainStates, Account
<1>2. 0 \in Amount
  BY ModulusAssumption DEF Amount
<1>3. drip' \in Transaction
  BY <1>1, <1>2, NodeAssumption DEF BuildDrip, Transaction
<1>4. QED
  BY <1>3 DEF BuildDrip, NodeTypeInv, NodeTypeOK, PoolOK, poolVars, minerVars, clientVars

LEMMA TypeStep == NodeTypeInv /\ [NodeNext]_allVars => NodeTypeInv'
<1> SUFFICES ASSUME NodeTypeInv, [NodeNext]_allVars PROVE NodeTypeInv'
  OBVIOUS
<1>1. StructInv'
  BY NodeStepsChain, NodeStruct DEF NodeTypeInv
<1> USE DEF NodeTypeInv
<1>2. CASE ChainStep \/ UNCHANGED allVars \/ Mine
  <2>1. UNCHANGED <<poolVars, batch, clientVars, faucetVars>>
        /\ minerPc' \in {minerPc, "mining"}
    BY <1>2 DEF ChainStep, Mine, allVars, nodeVars, minerVars
  <2>2. QED
    BY <1>1, <2>1 DEF NodeTypeOK, PoolOK, poolVars, clientVars, faucetVars
<1>3. CASE NodeCrash
  <2>1. PoolOK'
    BY <1>3, PoolCrashed DEF NodeCrash
  <2>2. <<>> \in Seq(Transaction)
    OBVIOUS
  <2>3. NodeTypeOK'
    BY <1>3, <2>1, <2>2 DEF NodeCrash, NodeTypeOK, PoolOK
  <2>4. QED  BY <1>1, <2>1, <2>3
<1>4. CASE \E h \in Handlers, tx \in Requests : Validate(h, tx)
  <2>1. PICK h \in Handlers, tx \in Requests : Validate(h, tx)
    BY <1>4
  <2>2. handler' \in [Handlers -> Requests \cup {NoTx}] /\ sends' \in [Requests -> 0 .. MaxSends]
    BY <2>1, NodeAssumption DEF Validate, NodeTypeOK
  <2>3. QED
    BY <1>1, <2>1, <2>2 DEF Validate, NodeTypeOK, PoolOK, poolVars, minerVars, faucetVars
<1>5. CASE \E h \in Handlers : AddValidated(h)
  BY <1>1, <1>5, TypeAddValidated
<1>6. CASE \E to \in Addr : BuildDrip(to)
  BY <1>1, <1>6, TypeBuildDrip
<1>7. CASE \E to \in Addr : CooldownEnds(to)
  BY <1>1, <1>7 DEF CooldownEnds, NodeTypeOK, PoolOK, poolVars, minerVars, clientVars
<1>8. CASE SendDrip
  <2>1. drip \in Transaction /\ drip.to \in Addr
    BY <1>8, NodeAssumption DEF SendDrip, NodeTypeOK, Transaction
  <2>2. PoolOK'
    BY <1>8, <2>1, AddFacts DEF SendDrip
  <2>3. QED
    BY <1>1, <1>8, <2>1, <2>2 DEF SendDrip, NodeTypeOK, PoolOK, minerVars, clientVars
<1>9. CASE Tick
  <2>1. batch' \in Seq(Transaction)
    BY <1>9, PendingFacts DEF Tick
  <2>2. QED
    BY <1>1, <1>9, <2>1 DEF Tick, NodeTypeOK, PoolOK, poolVars, clientVars, faucetVars
<1>10. CASE MineReturns
  <2>1. PoolOK'
    BY <1>10, RemoveFacts DEF MineReturns, PoolOK, poolVars
  <2>2. <<>> \in Seq(Transaction)
    OBVIOUS
  <2>3. QED
    BY <1>1, <1>10, <2>1, <2>2 DEF MineReturns, NodeTypeOK, PoolOK, clientVars, faucetVars
<1>11. QED
  BY <1>2, <1>3, <1>4, <1>5, <1>6, <1>7, <1>8, <1>9, <1>10 DEF NodeNext

LEMMA NodeTypeInvariance == NodeSpec => []NodeTypeInv
<1>1. QED  BY NodeTypeInit, TypeStep, PTL DEF NodeSpec

\* The mempool is a map with its keys listed once, and every goroutine holds what
\* its place in the code allows, whatever clients, peers, the faucet and crashes
\* do in between.
THEOREM NodeTypeCorrect == NodeSpec => []NodeTypeOK
<1>1. NodeTypeInv => NodeTypeOK
  BY DEF NodeTypeInv
<1>2. QED  BY <1>1, NodeTypeInvariance, PTL

\* A node that mines its own pool, takes peers' blocks and hands out drips, and
\* whose clients retry, still never holds a sender and nonce twice.
THEOREM MinedOnce == NodeSpec => []NoReplay
<1>1. NodeInit => ReplayInv
  BY DEF NodeInit, Init, ReplayInv, NonceInv, NoReplay
<1>2. ReplayInv => NoReplay
  BY DEF ReplayInv
<1>3. NodeTypeInv /\ ReplayInv /\ [NodeNext]_allVars => ReplayInv'
  BY NodeStepsChain, NodeReplay DEF NodeTypeInv
<1>4. QED  BY <1>1, <1>2, <1>3, NodeTypeInvariance, PTL DEF NodeSpec

LEMMA NodeRootInvariance == NodeSpec => []RootInv
<1>1. NodeInit => RootInv
  BY DEF NodeInit, Init, RootInv
<1>2. NodeTypeInv /\ RootInv /\ [NodeNext]_allVars => RootInv'
  BY NodeStepsChain, NodeRoot DEF NodeTypeInv
<1>3. QED  BY <1>1, <1>2, NodeTypeInvariance, PTL DEF NodeSpec

\* As long as no write has failed, what the handlers validate against are the
\* accounts of the tip.
THEOREM HandlersReadTheTip == NodeSpec => []StateMatchesTip
<1>1. RootInv => StateMatchesTip
  BY DEF RootInv, StateMatchesTip
<1>2. QED  BY <1>1, NodeRootInvariance, PTL

(***************************************************************************)
(* Nothing is dropped.                                                     *)
(***************************************************************************)

\* Writing a block adds its transactions to the stored chain.
LEMMA WriteExtends ==
  ASSUME StructInv, WriteBlock, mode # "genesis"
  PROVE  /\ metaMem' = metaMem + 1 /\ Tip' = work
         /\ ChainTxs' = ChainTxs \cup ToSet(work.txs)
<1>1. /\ pc = "putblock" /\ BlockOK(work) /\ metaMem \in Height /\ DOMAIN blockFile = Height
      /\ work.index = metaMem + 1 /\ work.index \in Height
      /\ blockFile' = [blockFile EXCEPT ![work.index] = work]
  BY DEF WriteBlock, StructInv, TypeOK, ControlInv, BlockOK
<1>2. metaMem' = metaMem + 1 /\ metaMem \in Nat
  BY <1>1, BlockchainAssumption DEF WriteBlock, Height
<1>3. /\ blockFile'[metaMem + 1] = work
      /\ \A i \in 1 .. metaMem : blockFile'[i] = blockFile[i]
  BY <1>1, <1>2, BlockchainAssumption DEF Height
<1>4. \A x : x \in ChainTxs' <=> \E i \in 1 .. metaMem + 1 : x \in ToSet(blockFile'[i].txs)
  BY <1>2 DEF ChainTxs
<1>5. \A x : x \in ChainTxs <=> \E i \in 1 .. metaMem : x \in ToSet(blockFile[i].txs)
  BY DEF ChainTxs
<1>6. \A i : i \in 1 .. metaMem + 1 <=> i \in 1 .. metaMem \/ i = metaMem + 1
  BY <1>2
<1>7. \A x : x \in ChainTxs' <=> x \in ChainTxs \/ x \in ToSet(work.txs)
  BY <1>3, <1>4, <1>5, <1>6, Zenon
<1>8. ChainTxs' = ChainTxs \cup ToSet(work.txs)
  BY <1>7
<1>9. Tip' = work
  BY <1>2, <1>3 DEF Tip
<1>10. QED  BY <1>2, <1>8, <1>9

\* No other step of a serving node changes the stored chain.
LEMMA OnlyWriteExtends ==
  ASSUME StructInv, [ChainNext]_vars, ~WriteBlock, proc = "up", proc' = "up"
  PROVE  UNCHANGED <<metaMem, blockFile>> /\ ChainTxs' = ChainTxs
<1>1. UNCHANGED <<metaMem, blockFile>>
  <2>1. CASE SimulateFails \/ RootMismatch \/ WriteBlockFails \/ SaveMeta \/ SaveMetaFails
    <3>1. UNCHANGED blockFile /\ pc \in {"sim", "putblock", "savemeta"} /\ mode # "genesis"
          /\ (Return("ok") \/ Return("error"))
      BY <2>1 DEF SimulateFails, RootMismatch, Executed, WriteBlockFails, SaveMeta,
                  SaveMetaFails, files, StructInv, ControlInv
    <3>2. QED  BY <3>1 DEF Return
  <2>2. CASE ~(SimulateFails \/ RootMismatch \/ WriteBlockFails \/ SaveMeta \/ SaveMetaFails)
    BY <2>2 DEF ChainNext, Next, StartUp, StartGenesis, StartRebuild, RebuildRejected, Halt,
       FinalizeAndMineBlock, ReceiveBlock, ApplyBlock, Execute, ExecuteBlock, SimulateTx,
       CommitState, PutBlock, Crash, files, vars
  <2>3. QED  BY <2>1, <2>2
<1>2. QED  BY <1>1 DEF ChainTxs

\* The stored chain of a serving node only grows.
LEMMA ChainGrows ==
  ASSUME StructInv, [ChainNext]_vars, proc = "up", proc' = "up"
  PROVE  ChainTxs \subseteq ChainTxs'
<1>1. CASE WriteBlock
  <2>1. mode # "genesis"
    BY <1>1 DEF WriteBlock, StructInv, ControlInv
  <2>2. QED  BY <1>1, <2>1, WriteExtends
<1>2. QED  BY <1>1, OnlyWriteExtends

\* A process that does not serve has no goroutine at work and an empty pool; and
\* as long as none has crashed, one that does not serve has never served.
DownInv ==
  proc # "up" =>
    /\ minerPc = "tick" /\ batch = <<>> /\ PoolTxs = {} /\ drip = NoTx
    /\ \A h \in Handlers : handler[h] = NoTx
    /\ crashes = 0 => DOMAIN admitted = {}

\* Where the batch is while the loop waits for FinalizeAndMineBlock: in the block
\* being executed and stored, and then, unless there was an error, in the chain.
LoopInv ==
  /\ mode = "mine" =>
       /\ proc = "up" /\ pc \in {"sim", "putblock", "savemeta"}
       /\ minerPc = "mining" /\ work.txs = batch
  /\ pc = "savemeta" /\ mode # "genesis" => Tip = work /\ metaMem > 0
  /\ minerPc = "mining" /\ mode # "mine" /\ result["mine"] = "ok" => ToSet(batch) \subseteq ChainTxs

\* The block that was stored is in the chain.
LEMMA TipInChain ==
  ASSUME metaMem \in Nat, metaMem > 0
  PROVE  ToSet(Tip.txs) \subseteq ChainTxs
<1>1. metaMem \in 1 .. metaMem
  OBVIOUS
<1>2. QED  BY <1>1 DEF ChainTxs, Tip

LEMMA DownStep ==
  ASSUME NodeTypeInv, DownInv, [NodeNext]_allVars
  PROVE  DownInv'
<1>1. CASE proc' = "up"
  BY <1>1 DEF DownInv
<1>2. CASE NodeCrash
  <2>1. crashes' # 0
    BY <1>2, BlockchainAssumption DEF NodeCrash, Crash, NodeTypeInv, StructInv, TypeOK
  <2>2. PoolTxs' = {}
    BY <1>2, PoolCrashed DEF NodeCrash
  <2>3. QED  BY <1>2, <2>1, <2>2 DEF NodeCrash, DownInv
<1>3. CASE proc' # "up" /\ ~NodeCrash
  <2>1. proc # "up"
    <3>1. CASE ChainStep
      <4>1. CASE SimulateFails \/ RootMismatch \/ WriteBlockFails \/ SaveMeta \/ SaveMetaFails
        <5>1. /\ pc \in {"sim", "putblock", "savemeta"}
              /\ (Return("ok") \/ Return("error"))
          BY <4>1 DEF SimulateFails, RootMismatch, Executed, WriteBlockFails, SaveMeta, SaveMetaFails
        <5>2. QED  BY <1>3, <5>1 DEF Return, NodeTypeInv, StructInv, ControlInv
      <4>2. CASE ~(SimulateFails \/ RootMismatch \/ WriteBlockFails \/ SaveMeta \/ SaveMetaFails)
        BY <1>3, <3>1, <4>2 DEF ChainStep, StartUp, StartGenesis, StartRebuild, RebuildRejected,
           ReceiveBlock, ApplyBlock, Execute, ExecuteBlock, SimulateTx,
           CommitState, PutBlock, WriteBlock, NodeTypeInv, StructInv, ControlInv
      <4>3. QED  BY <4>1, <4>2
    <3>2. CASE ~ChainStep
      BY <1>3, <3>2 DEF NodeNext, Validate, AddValidated, BuildDrip, SendDrip, CooldownEnds, Tick,
         Mine, FinalizeAndMineBlock, Execute, MineReturns, allVars, vars
    <3>3. QED  BY <3>1, <3>2
  <2>2. CASE ChainStep \/ UNCHANGED allVars
    <3>1. UNCHANGED <<nodeVars>> /\ (crashes' = 0 => crashes = 0)
      BY <1>3, <2>2 DEF ChainStep, StartUp, StartGenesis, StartRebuild, RebuildRejected,
         ReceiveBlock, ApplyBlock, Execute, ExecuteBlock, SimulateTx, SimulateFails, RootMismatch,
         CommitState, PutBlock, WriteBlock, WriteBlockFails, SaveMeta, SaveMetaFails,
         allVars, vars, faults
    <3>2. QED
      BY <2>1, <3>1 DEF DownInv, PoolTxs, nodeVars, poolVars, minerVars, clientVars, faucetVars
  <2>3. CASE \E to \in Addr : CooldownEnds(to)
    BY <2>1, <2>3 DEF DownInv, CooldownEnds, PoolTxs, vars, faults, poolVars, minerVars, clientVars
  <2>4. ~(\E h \in Handlers, tx \in Requests : Validate(h, tx))
        /\ ~(\E h \in Handlers : AddValidated(h)) /\ ~(\E to \in Addr : BuildDrip(to))
        /\ ~SendDrip /\ ~Tick /\ ~Mine /\ ~MineReturns
    BY <2>1 DEF DownInv, Validate, AddValidated, BuildDrip, SendDrip, Tick, Mine, MineReturns
  <2>5. QED  BY <1>3, <2>2, <2>3, <2>4 DEF NodeNext
<1>4. QED  BY <1>1, <1>2, <1>3

\* A call of a serving node that returns leaves the lock free and notes its outcome.
LEMMA ServingReturn ==
  ASSUME NodeTypeInv, proc = "up", pc \in {"sim", "putblock", "savemeta"},
         NEW outcome \in {"ok", "error"}, Return(outcome), UNCHANGED blockFile
  PROVE  /\ pc' = "idle" /\ mode' = "none" /\ UNCHANGED <<proc, st, metaMem, ChainTxs>>
         /\ mode \in {"mine", "sync"}
         /\ result'["mine"] = IF mode = "mine" THEN outcome ELSE result["mine"]
<1>1. mode \in {"mine", "sync"} /\ result \in [{"mine", "sync"} -> {"none", "ok", "error"}]
  BY DEF NodeTypeInv, StructInv, TypeOK, ControlInv
<1>2. QED  BY <1>1 DEF Return, Unlock, ChainTxs

LEMMA LoopChain ==
  ASSUME NodeTypeInv, DownInv, LoopInv, ChainStep
  PROVE  LoopInv'
<1> USE DEF NodeTypeInv
<1>1. UNCHANGED <<minerPc, batch>>
  BY DEF ChainStep, nodeVars, minerVars
<1>2. CASE StartUp
  <2>1. proc # "up"
    BY <1>2 DEF StartUp, StartGenesis, StartRebuild, RebuildRejected, StructInv, ControlInv
  <2>2. minerPc' = "tick" /\ mode' # "mine" /\ pc' # "savemeta"
    BY <1>1, <1>2, <2>1 DEF DownInv, StartUp, StartGenesis, StartRebuild, RebuildRejected, Halt, Unlock
  <2>3. QED  BY <2>2 DEF LoopInv
<1>3. CASE ReceiveBlock
  <2>1. PICK b \in PeerBlocks : ApplyBlock(b)
    BY <1>3 DEF ReceiveBlock
  <2>2. /\ proc = "up" /\ pc = "idle" /\ UNCHANGED <<proc, metaMem, blockFile>>
        /\ pc' \in {"idle", "sim"} /\ mode' \in {mode, "sync"}
        /\ result'["mine"] = result["mine"]
    BY <1>3, <2>1 DEF ReceiveBlock, ApplyBlock, Execute, files, call, StructInv, TypeOK
  <2>3. mode # "mine"
    BY <2>2 DEF LoopInv
  <2>4. QED  BY <1>1, <2>2, <2>3 DEF LoopInv, ChainTxs
<1>4. CASE SimulateTx
  BY <1>1, <1>4 DEF LoopInv, SimulateTx, files, ChainTxs
<1>5. CASE CommitState
  <2>1. /\ work' = [work EXCEPT !.root = st'] /\ BlockOK(work) /\ pc = "sim" /\ pc' = "putblock"
        /\ UNCHANGED <<proc, metaMem, blockFile, mode, result>>
    BY <1>5 DEF CommitState, Executed, StructInv, TypeOK, files
  <2>2. work'.txs = work.txs
    BY <2>1
  <2>3. QED  BY <1>1, <2>1, <2>2 DEF LoopInv, ChainTxs
<1>6. CASE WriteBlock
  <2>1. pc = "putblock" /\ pc' = "savemeta" /\ UNCHANGED <<proc, mode, work, result>>
        /\ metaMem \in Nat
    BY <1>6, BlockchainAssumption DEF WriteBlock, StructInv, TypeOK, Height
  <2>2. CASE mode = "genesis"
    <3>1. proc # "up"
      BY <2>1, <2>2 DEF StructInv, ControlInv
    <3>2. QED  BY <1>1, <2>1, <2>2, <3>1 DEF LoopInv, DownInv
  <2>3. CASE mode # "genesis"
    <3>1. metaMem' = metaMem + 1 /\ Tip' = work /\ ChainTxs \subseteq ChainTxs'
      BY <1>6, <2>3, WriteExtends
    <3>2. QED  BY <1>1, <2>1, <3>1 DEF LoopInv
  <2>4. QED  BY <2>2, <2>3
<1>7. CASE SimulateFails \/ RootMismatch \/ WriteBlockFails \/ SaveMetaFails
  <2>1. pc \in {"sim", "putblock", "savemeta"} /\ Return("error") /\ UNCHANGED blockFile
    BY <1>7 DEF SimulateFails, RootMismatch, Executed, WriteBlockFails, SaveMetaFails, files
  <2>2. CASE proc = "up"
    BY <1>1, <2>1, <2>2, ServingReturn DEF LoopInv
  <2>3. CASE proc # "up"
    <3>1. minerPc' = "tick" /\ mode' = "none" /\ pc' = "idle"
      BY <1>1, <2>1, <2>3 DEF DownInv, Return, Halt, Unlock
    <3>2. QED  BY <3>1 DEF LoopInv
  <2>4. QED  BY <2>2, <2>3
<1>8. CASE SaveMeta
  <2>1. pc = "savemeta" /\ Return("ok") /\ UNCHANGED blockFile /\ metaMem \in Nat
    BY <1>8, BlockchainAssumption DEF SaveMeta, StructInv, TypeOK, Height
  <2>2. CASE proc = "up"
    <3>1. /\ pc' = "idle" /\ mode' = "none" /\ UNCHANGED <<ChainTxs>> /\ mode \in {"mine", "sync"}
          /\ result'["mine"] = IF mode = "mine" THEN "ok" ELSE result["mine"]
      BY <2>1, <2>2, ServingReturn
    <3>2. CASE mode = "mine"
      <4>1. work.txs = batch /\ Tip = work /\ metaMem > 0
        BY <2>1, <3>2 DEF LoopInv
      <4>2. ToSet(batch) \subseteq ChainTxs
        BY <2>1, <4>1, TipInChain
      <4>3. QED  BY <1>1, <3>1, <4>2 DEF LoopInv
    <3>3. CASE mode # "mine"
      BY <1>1, <3>1, <3>3 DEF LoopInv
    <3>4. QED  BY <3>2, <3>3
  <2>3. CASE proc # "up"
    <3>1. minerPc' = "tick" /\ mode' = "none" /\ pc' = "idle"
      BY <1>1, <2>1, <2>3 DEF DownInv, Return, Halt, Unlock
    <3>2. QED  BY <3>1 DEF LoopInv
  <2>4. QED  BY <2>2, <2>3
<1>9. QED
  BY <1>2, <1>3, <1>4, <1>5, <1>6, <1>7, <1>8 DEF ChainStep, ExecuteBlock, PutBlock

LEMMA LoopStep ==
  ASSUME NodeTypeInv, DownInv, LoopInv, [NodeNext]_allVars
  PROVE  LoopInv'
<1>1. CASE ChainStep
  BY <1>1, LoopChain
<1>2. CASE NodeCrash
  BY <1>2 DEF NodeCrash, Crash, Halt, Unlock, LoopInv
<1>3. CASE Mine
  BY <1>3 DEF Mine, FinalizeAndMineBlock, Execute, LoopInv
<1>4. CASE Tick
  <2>1. UNCHANGED <<vars, ChainTxs, Tip>> /\ minerPc = "tick" /\ minerPc' = "mine"
    BY <1>4 DEF Tick, vars, files, ChainTxs, Tip
  <2>2. QED  BY <2>1 DEF LoopInv, vars, call
<1>5. CASE MineReturns
  <2>1. UNCHANGED <<vars, ChainTxs, Tip>> /\ mode # "mine" /\ minerPc' = "tick"
    BY <1>5 DEF MineReturns, vars, files, ChainTxs, Tip
  <2>2. QED  BY <2>1 DEF LoopInv, vars, call
<1>6. CASE ~(ChainStep \/ NodeCrash \/ Mine \/ Tick \/ MineReturns)
  <2>1. UNCHANGED <<vars, minerVars>>
    BY <1>6 DEF NodeNext, Validate, AddValidated, BuildDrip, SendDrip, CooldownEnds,
                allVars, nodeVars
  <2>2. UNCHANGED <<ChainTxs, Tip>>
    BY <2>1 DEF vars, files, ChainTxs, Tip
  <2>3. QED  BY <2>1, <2>2 DEF LoopInv, vars, call, minerVars
<1>7. QED  BY <1>1, <1>2, <1>3, <1>4, <1>5, <1>6

\* Only the loop takes transactions out of the pool, and a crash.
LEMMA PoolGrows ==
  ASSUME NodeTypeInv, [NodeNext]_allVars, ~MineReturns, ~NodeCrash
  PROVE  PoolTxs \subseteq PoolTxs'
<1>1. CASE \E h \in Handlers : AddValidated(h)
  <2>1. PICK h \in Handlers : AddValidated(h)
    BY <1>1
  <2>2. QED  BY <2>1, HandlerType, AddFacts DEF AddValidated, NodeTypeInv
<1>2. CASE SendDrip
  BY <1>2, AddFacts DEF SendDrip, NodeTypeInv, NodeTypeOK
<1>3. CASE ~(SendDrip \/ \E h \in Handlers : AddValidated(h))
  <2>1. UNCHANGED poolTxs
    BY <1>3 DEF NodeNext, ChainStep, Validate, BuildDrip, CooldownEnds, Tick, Mine,
                allVars, nodeVars, poolVars
  <2>2. QED  BY <2>1 DEF PoolTxs
<1>4. QED  BY <1>1, <1>2, <1>3

LEMMA DropStep ==
  ASSUME NodeTypeInv, DownInv, DownInv', LoopInv, NothingDropped, [NodeNext]_allVars
  PROVE  NothingDropped'
<1> SUFFICES ASSUME proc' = "up", crashes' = 0, NEW tx \in DOMAIN admitted'
             PROVE  \E other \in ChainTxs' \cup PoolTxs' : txKey(other) = txKey(tx)
  BY DEF NothingDropped, txKey
<1>1. crashes = 0 /\ ~NodeCrash
  <2>1. crashes' = crashes \/ (crashes' = crashes + 1 /\ crashes \in Nat)
    BY BlockchainAssumption
       DEF NodeTypeInv, StructInv, TypeOK, NodeNext, NodeCrash, Crash, ChainStep, StartUp,
       StartGenesis, StartRebuild, RebuildRejected, ReceiveBlock, ApplyBlock, Execute,
       ExecuteBlock, SimulateTx, SimulateFails, RootMismatch, CommitState, PutBlock, WriteBlock,
       WriteBlockFails, SaveMeta, SaveMetaFails, Validate, AddValidated, BuildDrip, SendDrip,
       CooldownEnds, Tick, Mine, FinalizeAndMineBlock, MineReturns, allVars, vars, faults
  <2>2. ~NodeCrash
    BY DEF NodeCrash, Crash, Halt
  <2>3. QED  BY <2>1, <2>2
<1>2. CASE \E h \in Handlers : AddValidated(h) /\ tx \notin DOMAIN admitted
  <2>1. PICK h \in Handlers : AddValidated(h) /\ tx \notin DOMAIN admitted
    BY <1>2
  <2>2. handler[h] \in Requests /\ handler[h] \in Transaction
    BY <2>1, HandlerType DEF AddValidated, NodeTypeInv
  <2>3. tx = handler[h]
    BY <2>1 DEF AddValidated, Put
  <2>4. QED  BY <2>1, <2>2, <2>3, AddFacts DEF AddValidated, NodeTypeInv
<1>3. CASE tx \in DOMAIN admitted
  <2>1. proc = "up"
    BY <1>1, <1>3 DEF DownInv
  <2>2. PICK other \in ChainTxs \cup PoolTxs : txKey(other) = txKey(tx)
    BY <1>1, <1>3, <2>1 DEF NothingDropped
  <2>3. ChainTxs \subseteq ChainTxs'
    BY <2>1, NodeStepsChain, ChainGrows DEF NodeTypeInv
  <2>4. CASE ~MineReturns
    BY <1>1, <2>2, <2>3, <2>4, PoolGrows
  <2>5. CASE MineReturns /\ result["mine"] = "ok"
    <3>1. ToSet(batch) \subseteq ChainTxs
      BY <2>5 DEF MineReturns, LoopInv
    <3>2. PoolTxs' = {ty \in PoolTxs : \A tz \in ToSet(batch) : txKey(tz) # txKey(ty)}
      BY <2>5, RemoveFacts DEF MineReturns, NodeTypeInv
    <3>3. QED  BY <2>2, <2>3, <3>1, <3>2
  <2>6. CASE MineReturns /\ result["mine"] # "ok"
    BY <2>2, <2>3, <2>6 DEF MineReturns, poolVars, PoolTxs
  <2>7. QED  BY <2>4, <2>5, <2>6
<1>4. CASE tx \notin DOMAIN admitted /\ ~(\E h \in Handlers : AddValidated(h))
  <2>1. UNCHANGED admitted
    BY <1>4 DEF NodeNext, ChainStep, NodeCrash, Validate, BuildDrip, SendDrip, CooldownEnds,
       Tick, Mine, MineReturns, allVars, nodeVars, clientVars
  <2>2. QED  BY <1>4, <2>1
<1>5. QED  BY <1>2, <1>3, <1>4

LEMMA LoopInit == NodeInit => DownInv /\ LoopInv /\ NothingDropped
BY DEF NodeInit, Init, DownInv, LoopInv, NothingDropped, PoolTxs

\* A transaction the node has accepted is in its pool or in its chain as long as
\* the process lives, unless another with its sender and nonce took its place:
\* no interleaving of handlers, faucet, mining loop and peers' blocks loses one.
THEOREM AcceptedIsNotDropped == NodeSpec => []NothingDropped
<1>1. NodeTypeInv /\ DownInv /\ LoopInv /\ NothingDropped /\ [NodeNext]_allVars
        => DownInv' /\ LoopInv' /\ NothingDropped'
  BY DownStep, LoopStep, DropStep
<1>2. QED  BY <1>1, LoopInit, NodeTypeInvariance, PTL DEF NodeSpec

(***************************************************************************)
(* A batch of validated transactions never fails.                          *)
(***************************************************************************)

\* Under exact amounts a credit lowers no balance.
LEMMA CreditGrows ==
  ASSUME IsFiniteSet(Addr), NEW s \in ChainStates, NEW a \in Addr, NEW v \in Amount,
         Supply(s) + v < Modulus
  PROVE  /\ Credit(s, a, v) \in ChainStates /\ Supply(Credit(s, a, v)) = Supply(s) + v
         /\ \A b \in Addr : /\ Credit(s, a, v)[b].balance >= s[b].balance
                            /\ Credit(s, a, v)[b].nonce = s[b].nonce
<1> DEFINE t == Credit(s, a, v)
<1>1. t \in ChainStates /\ Supply(t) = Supply(s) + v
  BY CreditFacts, CreditSupply
<1>2. s[a].balance \in Nat /\ s[a].balance <= Supply(s) /\ v \in Nat /\ Supply(s) \in Nat
  BY BalancesType, ModulusAssumption DEF Amount
<1>3. Plus(s[a].balance, v) = s[a].balance + v
  BY <1>2, ExactArithmetic, ModulusAssumption
<1>4. t[a].balance = s[a].balance + v /\ t[a].nonce = s[a].nonce
      /\ \A b \in Addr \ {a} : t[b] = s[b]
  BY <1>3 DEF Credit, ChainStates, Account
<1>5. \A b \in Addr : s[b].balance \in Nat
  BY BalancesType
<1> HIDE DEF t
<1>6. ASSUME NEW b \in Addr
      PROVE  t[b].balance >= s[b].balance /\ t[b].nonce = s[b].nonce
  <2>1. CASE b = a
    BY <1>2, <1>4, <2>1
  <2>2. CASE b # a
    BY <1>4, <1>5, <2>2
  <2>3. QED  BY <2>1, <2>2
<1>7. QED  BY <1>1, <1>6 DEF t

\* An ordinary transfer lowers no balance and moves no nonce but its sender's.
LEMMA TxSparesOthers ==
  ASSUME IsFiniteSet(Addr), NEW s \in ChainStates, NEW tx \in Transaction, NEW m \in Addr,
         Ordinary(tx), TxApplies(s, tx), Supply(s) < Modulus
  PROVE  \A a \in Addr \ {tx.from} : /\ AfterTx(s, tx, m)[a].balance >= s[a].balance
                                     /\ AfterTx(s, tx, m)[a].nonce = s[a].nonce
<1> DEFINE v == Plus(tx.amount, tx.fee)
           d == Debit(s, tx.from, v)
           p == Credit(d, tx.to, tx.amount)
           e == AfterTx(s, tx, m)
<1>1. /\ tx.from \in Addr /\ tx.to \in Addr /\ tx.amount \in Amount /\ tx.fee \in Amount
      /\ tx.amount \in Nat /\ tx.fee \in Nat /\ tx.from # NoAddr
  BY ModulusAssumption DEF Transaction, Amount, Ordinary
<1>2. v = tx.amount + tx.fee /\ v \in Amount
  BY <1>1, ExactArithmetic, ModulusAssumption DEF Amount, Ordinary
<1>3. v <= s[tx.from].balance
  BY <1>1, <1>2, BalancesType DEF TxApplies
<1> HIDE DEF v
<1>4. d \in ChainStates /\ Supply(d) = Supply(s) - v /\ \A a \in Addr \ {tx.from} : d[a] = s[a]
  <2>1. d \in ChainStates /\ Supply(d) = Supply(s) - v
    BY <1>1, <1>2, <1>3, DebitFacts, DebitSupply
  <2>2. \A a \in Addr \ {tx.from} : d[a] = s[a]
    BY <1>1 DEF Debit, ChainStates
  <2>3. QED  BY <2>1, <2>2
<1> HIDE DEF d
<1>5. Supply(s) \in Nat /\ Supply(d) \in Nat
  BY <1>4, BalancesType
<1>6. /\ p \in ChainStates /\ Supply(p) = Supply(d) + tx.amount
      /\ \A a \in Addr : p[a].balance >= d[a].balance /\ p[a].nonce = d[a].nonce
  <2>1. Supply(d) + tx.amount < Modulus
    BY <1>1, <1>2, <1>4, <1>5, ModulusAssumption
  <2>2. QED  BY <1>1, <1>4, <2>1, CreditGrows
<1> HIDE DEF p
<1>7. e = IF tx.fee > 0 THEN Credit(p, m, tx.fee) ELSE p
  <2>1. m # NoAddr
    BY AddrAssumption
  <2>2. QED  BY <1>1, <2>1 DEF AfterTx, p, d, v
<1> HIDE DEF e
<1>8. \A a \in Addr : e[a].balance >= p[a].balance /\ e[a].nonce = p[a].nonce
  <2>1. CASE tx.fee > 0
    <3>1. Supply(p) + tx.fee < Modulus
      BY <1>1, <1>2, <1>4, <1>5, <1>6, ModulusAssumption
    <3>2. QED  BY <1>1, <1>6, <1>7, <2>1, <3>1, CreditGrows
  <2>2. CASE ~(tx.fee > 0)
    <3>1. \A a \in Addr : p[a].balance \in Nat
      BY <1>6, BalancesType
    <3>2. e = p
      BY <1>7, <2>2
    <3>3. \A x \in Nat : x >= x
      OBVIOUS
    <3>4. QED  BY <3>1, <3>2, <3>3
  <2>3. QED  BY <2>1, <2>2
<1>9. ASSUME NEW a \in Addr \ {tx.from}
      PROVE  e[a].balance >= s[a].balance /\ e[a].nonce = s[a].nonce
  <2>1. e[a].balance \in Nat /\ p[a].balance \in Nat /\ s[a].balance \in Nat
    <3>1. e \in ChainStates
      BY <1>1, AfterTxFacts DEF e
    <3>2. QED  BY <1>6, <3>1, BalancesType
  <2>2. p[a].balance >= s[a].balance /\ p[a].nonce = s[a].nonce
    BY <1>4, <1>6, <1>9
  <2>3. QED  BY <1>8, <1>9, <2>1, <2>2
<1>10. QED  BY <1>9 DEF e

\* An account that lost nothing can still pay for what it signed.
LEMMA StillApplies ==
  ASSUME IsFiniteSet(Addr), NEW s \in ChainStates, NEW t \in ChainStates,
         NEW tx \in Transaction, Ordinary(tx), TxApplies(s, tx),
         t[tx.from].balance >= s[tx.from].balance, t[tx.from].nonce = s[tx.from].nonce
  PROVE  TxApplies(t, tx)
<1>1. tx.from \in Addr /\ tx.from # NoAddr /\ Plus(tx.amount, tx.fee) \in Int
  BY ModulusAssumption DEF Transaction, Ordinary, Plus, Amount
<1>2. s[tx.from].balance \in Nat /\ t[tx.from].balance \in Nat
  BY <1>1, BalancesType
<1>3. QED  BY <1>1, <1>2 DEF TxApplies

\* What one transaction leaves of another's conditions.
LEMMA OthersStillApply ==
  ASSUME LoneMiner, NEW s \in ChainStates, NEW m \in Addr, Supply(s) < Modulus,
         NEW tx \in Requests, NEW ty \in Requests, tx # ty, TxApplies(s, tx), TxApplies(s, ty)
  PROVE  TxApplies(AfterTx(s, tx, m), ty)
<1>1. tx \in Transaction /\ ty \in Transaction /\ Ordinary(tx) /\ Ordinary(ty)
  BY NodeAssumption DEF LoneMiner
<1>2. txKey(tx) # txKey(ty) /\ IsFiniteSet(Addr)
  BY DEF LoneMiner, CoinsFit
<1>3. tx.from # ty.from
  BY <1>1, <1>2 DEF TxApplies, txKey, Ordinary
<1>4. AfterTx(s, tx, m) \in ChainStates
  BY <1>1, AfterTxFacts
<1>5. ty.from \in Addr
  BY <1>1 DEF Transaction, Ordinary
<1>6. QED  BY <1>1, <1>2, <1>3, <1>4, <1>5, TxSparesOthers, StillApplies

\* The reward takes nothing from anyone.
LEMMA RewardStillApplies ==
  ASSUME LoneMiner, NEW s \in ChainStates, NEW m \in Addr, Supply(s) + BlockReward < Modulus,
         NEW tx \in Requests, TxApplies(s, tx)
  PROVE  TxApplies(ApplyBlockReward(s, m, BlockReward), tx)
<1>1. tx \in Transaction /\ Ordinary(tx) /\ IsFiniteSet(Addr) /\ BlockReward \in Amount
      /\ tx.from \in Addr
  BY NodeAssumption, BlockchainAssumption DEF LoneMiner, CoinsFit, Transaction, Ordinary
<1>2. CASE m = NoAddr \/ BlockReward = 0
  BY <1>2 DEF ApplyBlockReward
<1>3. CASE ~(m = NoAddr \/ BlockReward = 0)
  <2>1. ApplyBlockReward(s, m, BlockReward) = Credit(s, m, BlockReward)
    BY <1>3 DEF ApplyBlockReward
  <2>2. QED  BY <1>1, <2>1, CreditGrows, StillApplies
<1>4. QED  BY <1>2, <1>3

\* The transactions handlers are about to add.
Validated == {handler[h] : h \in Handlers} \ {NoTx}

\* The transactions whose effects the accounts have: those of the chain, and of
\* the block about to be stored; and those the running execution has passed.
Done == ChainTxs \cup (IF pc = "putblock" THEN ToSet(work.txs) ELSE {})
Ran  == IF pc = "sim" THEN {work.txs[k] : k \in 1 .. step} ELSE {}

\* The accounts as far as the running execution has come.
Current == IF pc = "sim" THEN sim ELSE st

\* No drips, no peers' blocks, no failed batch.
QuietInv ==
  /\ drips = {} /\ drip = NoTx
  /\ mode # "sync" /\ (mode = "mine" => work.miner \in Addr)
  /\ result["mine"] # "error"

\* A request is in one place at a time: not yet sent, with one handler, or beyond.
OnceInv ==
  proc = "up" =>
    /\ PoolTxs \cup ToSet(batch) \cup Done \subseteq Requests
    /\ \A tx \in Requests : sends[tx] = 0 =>
         tx \notin Validated \cup PoolTxs \cup ToSet(batch) \cup Done
    /\ Validated \cap (PoolTxs \cup ToSet(batch) \cup Done) = {}
    /\ \A g, h \in Handlers : handler[g] = handler[h] /\ handler[g] # NoTx => g = h

\* The batch: distinct transactions of the pool, which are executed by the loop
\* alone, and which the loop takes out of the pool afterwards.
BatchInv ==
  proc = "up" =>
    /\ minerPc = "tick" => batch = <<>> /\ PoolTxs \cap Done = {}
    /\ minerPc = "mine" \/ pc = "sim" =>
         IsInjective(batch) /\ ToSet(batch) \subseteq PoolTxs /\ PoolTxs \cap Done = {}
    /\ minerPc = "mining" => PoolTxs \cap Done \subseteq ToSet(batch)
    /\ minerPc = "mining" /\ mode # "mine" => result["mine"] = "ok"

\* Whatever was validated and not executed since is applicable now.
ApplyInv ==
  proc = "up" =>
    \A tx \in (Validated \cup PoolTxs) \ (Done \cup Ran) : TxApplies(Current, tx)

LoneInv == QuietInv /\ OnceInv /\ BatchInv /\ ApplyInv

\* What the lemmas below know of the state a step starts from.
LoneState ==
  LoneMiner /\ NodeTypeInv /\ DownInv /\ LoopInv /\ SupplyInv /\ LoneInv

\* Only the loop executes blocks.
LEMMA LoneExecution ==
  ASSUME LoneState, pc \in {"sim", "putblock", "savemeta"}, proc = "up"
  PROVE  mode = "mine" /\ work.txs = batch /\ minerPc = "mining" /\ work.miner \in Addr
BY DEF LoneState, LoneInv, QuietInv, LoopInv, NodeTypeInv, StructInv, ControlInv

\* A step that leaves the chain and its execution, the batch and the outcome of
\* the last mining call alone, and gives neither pool nor handlers anything new.
LEMMA LoneUntouched ==
  ASSUME LoneState, UNCHANGED <<proc, st, sim, step, pc, mode, work, ChainTxs, minerPc, batch>>,
         UNCHANGED <<handler, sends, PoolTxs, drip, drips>>, result'["mine"] = result["mine"]
  PROVE  LoneInv'
<1>1. UNCHANGED <<Validated, Done, Ran, Current>>
  BY DEF Validated, Done, Ran, Current
<1>2. QuietInv' /\ BatchInv'
  BY <1>1 DEF LoneState, LoneInv, QuietInv, BatchInv
<1>3. OnceInv' /\ ApplyInv'
  BY <1>1 DEF LoneState, LoneInv, OnceInv, ApplyInv
<1>4. QED  BY <1>2, <1>3 DEF LoneInv

LEMMA LoneValidate ==
  ASSUME LoneState, NEW h \in Handlers, NEW tx \in Requests, Validate(h, tx)
  PROVE  LoneInv'
<1> USE DEF LoneState, LoneInv
<1>1. /\ proc = "up" /\ pc = "idle" /\ handler[h] = NoTx /\ TxApplies(st, tx)
      /\ handler' = [handler EXCEPT ![h] = tx] /\ sends' = [sends EXCEPT ![tx] = @ + 1]
      /\ UNCHANGED <<vars, poolVars, minerVars, admitted, faucetVars>>
      /\ sends[tx] < MaxSends
  BY DEF Validate
<1>2. sends[tx] = 0 /\ sends'[tx] # 0 /\ (\A ty \in Requests \ {tx} : sends'[ty] = sends[ty])
      /\ tx # NoTx
  BY <1>1, NodeAssumption DEF NodeTypeInv, NodeTypeOK, LoneMiner
<1>3. /\ handler'[h] = tx /\ \A g \in Handlers \ {h} : handler'[g] = handler[g]
  BY <1>1 DEF NodeTypeInv, NodeTypeOK
<1>4. UNCHANGED <<ChainTxs, PoolTxs, Done, Ran, Current, batch>>
  BY <1>1 DEF ChainTxs, PoolTxs, Done, Ran, Current, vars, files, call, poolVars, minerVars
<1>5. Validated' = Validated \cup {tx}
  BY <1>1, <1>2, <1>3 DEF Validated
<1>6. tx \notin Validated \cup PoolTxs \cup ToSet(batch) \cup Done
  BY <1>1, <1>2 DEF OnceInv
<1>7. QuietInv' /\ BatchInv'
  BY <1>1, <1>4 DEF QuietInv, BatchInv, vars, call, faucetVars, minerVars
<1>8. OnceInv'
  <2>1. \A g \in Handlers : handler[g] # tx
    BY <1>2, <1>6 DEF Validated
  <2>2. \A f, g \in Handlers : handler'[f] = handler'[g] /\ handler'[f] # NoTx => f = g
    BY <1>1, <1>3, <2>1 DEF OnceInv
  <2>3. QED  BY <1>1, <1>2, <1>4, <1>5, <1>6, <2>2 DEF OnceInv
<1>9. ApplyInv'
  BY <1>1, <1>4, <1>5 DEF ApplyInv, Current
<1>10. QED  BY <1>7, <1>8, <1>9

\* A handler's transaction is new to the pool, and so is its key.
LEMMA HandlerAdds ==
  ASSUME LoneState, NEW h \in Handlers, AddValidated(h)
  PROVE  /\ handler[h] # NoTx /\ handler[h] \in Requests /\ proc = "up"
         /\ handler[h] \notin PoolTxs \cup ToSet(batch) \cup Done
         /\ PoolTxs' = PoolTxs \cup {handler[h]}
<1> USE DEF LoneState, LoneInv
<1> DEFINE tx == handler[h]
<1>1. tx # NoTx /\ Add(tx)
  BY DEF AddValidated
<1>2. tx \in Requests /\ tx \in Transaction /\ proc = "up" /\ tx \in Validated
  BY <1>1, HandlerType DEF NodeTypeInv, DownInv, Validated
<1>3. tx \notin PoolTxs \cup ToSet(batch) \cup Done
  BY <1>2 DEF OnceInv
<1>4. txKey(tx) \notin DOMAIN poolTxs
  <2> SUFFICES ASSUME txKey(tx) \in DOMAIN poolTxs PROVE FALSE
    OBVIOUS
  <2>1. poolTxs[txKey(tx)] \in PoolTxs /\ txKey(poolTxs[txKey(tx)]) = txKey(tx)
    BY DEF NodeTypeInv, PoolOK, PoolTxs
  <2>2. poolTxs[txKey(tx)] = tx
    BY <1>2, <2>1 DEF OnceInv, LoneMiner
  <2>3. QED  BY <1>3, <2>1, <2>2
<1>5. PoolTxs' = PoolTxs \cup {tx}
  BY <1>1, <1>2, <1>4, AddFacts DEF NodeTypeInv
<1>6. QED  BY <1>1, <1>2, <1>3, <1>5

LEMMA LoneAdd ==
  ASSUME LoneState, NEW h \in Handlers, AddValidated(h)
  PROVE  LoneInv'
<1> USE DEF LoneState, LoneInv
<1> DEFINE tx == handler[h]
<1>1. /\ handler' = [handler EXCEPT ![h] = NoTx]
      /\ UNCHANGED <<vars, minerVars, sends, faucetVars>>
  BY DEF AddValidated
<1>2. tx # NoTx /\ tx \in Requests /\ proc = "up"
  BY HandlerAdds
<1>3. tx \notin PoolTxs \cup ToSet(batch) \cup Done
  BY HandlerAdds
<1>4. tx \in Validated
  BY <1>2 DEF Validated
<1>5. PoolTxs' = PoolTxs \cup {tx}
  BY HandlerAdds
<1>6. UNCHANGED <<ChainTxs, Done, Ran, Current, batch>>
  BY <1>1 DEF ChainTxs, Done, Ran, Current, vars, files, call, minerVars
<1>7. /\ handler'[h] = NoTx /\ \A g \in Handlers \ {h} : handler'[g] = handler[g]
  BY <1>1 DEF NodeTypeInv, NodeTypeOK
<1>8. \A g \in Handlers \ {h} : handler[g] # tx
  BY <1>2 DEF OnceInv
<1>9. Validated' = Validated \ {tx}
  BY <1>2, <1>7, <1>8 DEF Validated
<1> HIDE DEF tx
<1>10. QuietInv'
  BY <1>1 DEF QuietInv, vars, call, faucetVars
<1>11. BatchInv'
  BY <1>1, <1>2, <1>3, <1>5, <1>6 DEF BatchInv, vars, call, minerVars
<1>12. OnceInv'
  <2>1. \A f, g \in Handlers : handler'[f] = handler'[g] /\ handler'[f] # NoTx => f = g
    BY <1>2, <1>7 DEF OnceInv
  <2>2. QED  BY <1>1, <1>2, <1>3, <1>4, <1>5, <1>6, <1>9, <2>1 DEF OnceInv, vars, minerVars
<1>13. ApplyInv'
  BY <1>1, <1>2, <1>4, <1>5, <1>6, <1>9 DEF ApplyInv
<1>14. QED  BY <1>10, <1>11, <1>12, <1>13

LEMMA LoneTick ==
  ASSUME LoneState, Tick
  PROVE  LoneInv'
<1> USE DEF LoneState, LoneInv
<1>1. /\ proc = "up" /\ minerPc = "tick" /\ minerPc' = "mine" /\ batch' = Pending(MaxBatch)
      /\ UNCHANGED <<vars, poolVars, clientVars, faucetVars>>
  BY DEF Tick
<1>2. UNCHANGED <<ChainTxs, PoolTxs, Validated, Done, Ran, Current>>
  BY <1>1 DEF ChainTxs, PoolTxs, Validated, Done, Ran, Current, vars, files, call, poolVars, clientVars
<1>3. IsInjective(batch') /\ ToSet(batch') \subseteq PoolTxs
  BY <1>1, PendingFacts DEF NodeTypeInv
<1>4. QuietInv'
  BY <1>1 DEF QuietInv, vars, call, faucetVars
<1>5. BatchInv'
  BY <1>1, <1>2, <1>3 DEF BatchInv, vars, call
<1>6. OnceInv'
  BY <1>1, <1>2, <1>3 DEF OnceInv, vars, clientVars
<1>7. ApplyInv'
  BY <1>1, <1>2 DEF ApplyInv, vars
<1>8. QED  BY <1>4, <1>5, <1>6, <1>7

LEMMA LoneMine ==
  ASSUME LoneState, Mine
  PROVE  LoneInv'
<1> USE DEF LoneState, LoneInv
<1>1. /\ minerPc = "mine" /\ minerPc' = "mining" /\ proc = "up" /\ pc = "idle" /\ pc' = "sim"
      /\ sim' = st /\ step' = 0 /\ work'.txs = batch /\ work'.miner = Miner /\ mode' = "mine"
      /\ UNCHANGED <<proc, st, metaMem, files, result, faults>>
      /\ UNCHANGED <<poolVars, batch, clientVars, faucetVars>>
  BY DEF Mine, FinalizeAndMineBlock, Execute
<1>2. UNCHANGED <<ChainTxs, PoolTxs, Validated, Done, Current>> /\ Ran' = {} /\ Ran = {}
  BY <1>1 DEF ChainTxs, PoolTxs, Validated, Done, Ran, Current, files, poolVars, clientVars
<1>3. QuietInv'
  BY <1>1, BlockchainAssumption DEF QuietInv, faucetVars
<1>4. BatchInv'
  BY <1>1, <1>2 DEF BatchInv
<1>5. OnceInv'
  BY <1>1, <1>2 DEF OnceInv, clientVars
<1>6. ApplyInv'
  BY <1>1, <1>2 DEF ApplyInv
<1>7. QED  BY <1>3, <1>4, <1>5, <1>6

LEMMA LoneReturns ==
  ASSUME LoneState, MineReturns
  PROVE  LoneInv'
<1> USE DEF LoneState, LoneInv
<1>1. /\ minerPc = "mining" /\ mode # "mine" /\ minerPc' = "tick" /\ batch' = <<>>
      /\ UNCHANGED <<vars, clientVars, faucetVars>>
  BY DEF MineReturns
<1>2. proc = "up"
  BY <1>1 DEF DownInv
<1>3. result["mine"] = "ok" /\ RemoveIncluded(batch)
  BY <1>1, <1>2 DEF MineReturns, BatchInv
<1>4. pc = "idle"
  BY <1>1, <1>2 DEF NodeTypeInv, StructInv, TypeOK, ControlInv, QuietInv
<1>5. PoolTxs' = PoolTxs \ ToSet(batch)
  <2>1. PoolTxs' = {tx \in PoolTxs : \A ty \in ToSet(batch) : txKey(ty) # txKey(tx)}
    BY <1>3, RemoveFacts DEF NodeTypeInv
  <2>2. \A tx \in PoolTxs : \A ty \in ToSet(batch) : txKey(ty) = txKey(tx) => tx = ty
    BY <1>2 DEF OnceInv, LoneMiner
  <2>3. QED  BY <2>1, <2>2
<1>6. UNCHANGED <<ChainTxs, Validated, Done, Ran, Current>>
  BY <1>1 DEF ChainTxs, Validated, Done, Ran, Current, vars, files, call, clientVars
<1>7. ToSet(batch') = {}
  BY <1>1 DEF ToSet
<1>8. QuietInv'
  BY <1>1 DEF QuietInv, vars, call, faucetVars
<1>9. BatchInv'
  BY <1>1, <1>2, <1>4, <1>5, <1>6, <1>7 DEF BatchInv, vars, call
<1>10. OnceInv'
  BY <1>1, <1>2, <1>5, <1>6, <1>7 DEF OnceInv, vars, clientVars
<1>11. ApplyInv'
  BY <1>1, <1>2, <1>5, <1>6 DEF ApplyInv, vars
<1>12. QED  BY <1>8, <1>9, <1>10, <1>11

LEMMA LoneSimulateTx ==
  ASSUME LoneState, SimulateTx, UNCHANGED nodeVars
  PROVE  LoneInv'
<1> USE DEF LoneState, LoneInv
<1> DEFINE tx == batch[step + 1]
<1>1. /\ pc = "sim" /\ step < Len(work.txs) /\ step' = step + 1
      /\ sim' = AfterTx(sim, work.txs[step + 1], work.miner)
      /\ UNCHANGED <<proc, st, metaMem, files, pc, mode, work, result, faults>>
  BY DEF SimulateTx
<1>2. proc = "up" /\ step \in Nat /\ sim \in ChainStates /\ batch \in Seq(Transaction)
      /\ metaMem \in Height
  BY <1>1 DEF NodeTypeInv, NodeTypeOK, StructInv, TypeOK, ControlInv, BlockOK
<1>3. work.txs = batch /\ work.miner \in Addr /\ minerPc = "mining" /\ mode = "mine"
  BY <1>1, <1>2, LoneExecution
<1>4. /\ step + 1 \in DOMAIN batch /\ (1 .. step) \subseteq DOMAIN batch
      /\ 1 .. step + 1 = (1 .. step) \cup {step + 1} /\ step + 1 \notin 1 .. step
  BY <1>1, <1>2, <1>3
<1>5. UNCHANGED <<ChainTxs, PoolTxs, Validated, Done, batch, minerPc>>
  BY <1>1 DEF ChainTxs, PoolTxs, Validated, Done, files, nodeVars, poolVars, clientVars, minerVars
<1>6. Ran = {batch[k] : k \in 1 .. step} /\ Ran' = Ran \cup {tx}
  BY <1>1, <1>3, <1>4 DEF Ran
<1>7. IsInjective(batch) /\ ToSet(batch) \subseteq PoolTxs /\ PoolTxs \cap Done = {}
  BY <1>1, <1>2 DEF BatchInv
<1>8. tx \in ToSet(batch) /\ tx \notin Ran
  BY <1>4, <1>6, <1>7 DEF ToSet, IsInjective
<1>9. \A ty \in (Validated \cup PoolTxs) \ (Done \cup Ran) : TxApplies(sim, ty) /\ ty \in Requests
  <2>1. Validated \subseteq Requests
    BY HandlerType DEF NodeTypeInv, Validated
  <2>2. QED  BY <1>1, <1>2, <2>1 DEF ApplyInv, Current, OnceInv
<1>10. Supply(sim) < Modulus
  <2>1. diskErrors = 0
    BY DEF NodeTypeInv, StructInv, TypeOK, LoneMiner
  <2>2. Supply(sim) = Issued(metaMem)
    BY <1>1, <1>2, <2>1 DEF SupplyInv
  <2>3. QED  BY <1>2, <2>2, IssuedFacts DEF LoneMiner
<1>11. ASSUME NEW ty \in (Validated \cup PoolTxs) \ (Done \cup Ran), ty # tx
       PROVE  TxApplies(sim', ty)
  <2>1. tx \in Requests /\ TxApplies(sim, tx)
    BY <1>7, <1>8, <1>9
  <2>2. ty \in Requests /\ TxApplies(sim, ty)
    BY <1>9
  <2> HIDE DEF tx
  <2>3. TxApplies(AfterTx(sim, tx, work.miner), ty)
    BY <1>2, <1>3, <1>10, <1>11, <2>1, <2>2, OthersStillApply
  <2>4. QED  BY <1>1, <1>3, <2>3 DEF tx
<1> HIDE DEF tx
<1>12. QuietInv'
  BY <1>1 DEF QuietInv, nodeVars, faucetVars
<1>13. BatchInv'
  BY <1>1, <1>5 DEF BatchInv
<1>14. OnceInv'
  BY <1>1, <1>5 DEF OnceInv, nodeVars, clientVars
<1>15. ApplyInv'
  BY <1>1, <1>5, <1>6, <1>11 DEF ApplyInv, Current
<1>16. QED  BY <1>12, <1>13, <1>14, <1>15

\* The point of it all: the execution of a batch never stops at a transaction.
LEMMA NeverFails ==
  ASSUME LoneState, SimulateFails
  PROVE  FALSE
<1> USE DEF LoneState, LoneInv
<1>1. pc = "sim" /\ step < Len(work.txs) /\ ~TxApplies(sim, work.txs[step + 1])
  BY DEF SimulateFails
<1>2. proc = "up" /\ step \in Nat /\ batch \in Seq(Transaction)
  BY <1>1 DEF NodeTypeInv, NodeTypeOK, StructInv, TypeOK, ControlInv, BlockOK
<1>3. work.txs = batch
  BY <1>1, <1>2, LoneExecution
<1>4. step + 1 \in DOMAIN batch /\ (1 .. step) \subseteq DOMAIN batch /\ step + 1 \notin 1 .. step
  BY <1>1, <1>2, <1>3
<1>5. IsInjective(batch) /\ ToSet(batch) \subseteq PoolTxs /\ PoolTxs \cap Done = {}
  BY <1>1, <1>2 DEF BatchInv
<1>6. batch[step + 1] \in ToSet(batch) /\ batch[step + 1] \notin Ran
  BY <1>1, <1>3, <1>4, <1>5 DEF ToSet, IsInjective, Ran
<1>7. QED  BY <1>1, <1>2, <1>3, <1>5, <1>6 DEF ApplyInv, Current

LEMMA LoneCommit ==
  ASSUME LoneState, CommitState, UNCHANGED nodeVars
  PROVE  LoneInv'
<1> USE DEF LoneState, LoneInv
<1>1. /\ pc = "sim" /\ step = Len(work.txs) /\ pc' = "putblock"
      /\ st' = ApplyBlockReward(sim, work.miner, BlockReward)
      /\ work' = [work EXCEPT !.root = st'] /\ BlockOK(work)
      /\ UNCHANGED <<proc, metaMem, files, mode, sim, step, result, faults>>
  BY DEF CommitState, Executed, NodeTypeInv, StructInv, TypeOK
<1>2. proc = "up" /\ sim \in ChainStates /\ batch \in Seq(Transaction) /\ metaMem \in Height
      /\ work.index = metaMem + 1 /\ work.index \in Height
  BY <1>1 DEF NodeTypeInv, NodeTypeOK, StructInv, TypeOK, ControlInv, BlockOK
<1>3. work.txs = batch /\ work.miner \in Addr /\ minerPc = "mining" /\ mode = "mine"
  BY <1>1, <1>2, LoneExecution
<1>4. work'.txs = batch /\ work'.miner = work.miner
  BY <1>1, <1>3
<1>5. Ran = ToSet(batch) /\ Ran' = {}
  BY <1>1, <1>2, <1>3 DEF Ran, ToSet
<1>6. UNCHANGED <<ChainTxs, PoolTxs, Validated, batch, minerPc>>
  BY <1>1 DEF ChainTxs, PoolTxs, Validated, files, nodeVars, poolVars, clientVars, minerVars
<1>7. Done = ChainTxs /\ Done' = Done \cup ToSet(batch)
  BY <1>1, <1>4, <1>6 DEF Done
<1>8. ToSet(batch) \subseteq PoolTxs /\ PoolTxs \cap Done = {}
  BY <1>1, <1>2 DEF BatchInv
<1>9. Supply(sim) + BlockReward < Modulus
  <2>1. diskErrors = 0
    BY DEF NodeTypeInv, StructInv, TypeOK, LoneMiner
  <2>2. Supply(sim) = Issued(metaMem)
    BY <1>1, <1>2, <2>1 DEF SupplyInv
  <2>3. QED  BY <1>2, <2>2, IssuedFacts DEF LoneMiner
<1>10. ASSUME NEW tx \in (Validated \cup PoolTxs) \ (Done \cup Ran)
       PROVE  TxApplies(st', tx)
  <2>1. tx \in Requests /\ TxApplies(sim, tx)
    <3>1. Validated \subseteq Requests
      BY HandlerType DEF NodeTypeInv, Validated
    <3>2. QED  BY <1>1, <1>2, <3>1 DEF ApplyInv, Current, OnceInv
  <2>2. QED  BY <1>1, <1>2, <1>3, <1>9, <2>1, RewardStillApplies
<1>11. QuietInv'
  BY <1>1, <1>4 DEF QuietInv, nodeVars, faucetVars
<1>12. BatchInv'
  BY <1>1, <1>3, <1>6, <1>7, <1>8 DEF BatchInv
<1>13. OnceInv'
  BY <1>1, <1>2, <1>6, <1>7 DEF OnceInv, nodeVars, clientVars
<1>14. ApplyInv'
  BY <1>1, <1>2, <1>5, <1>6, <1>7, <1>10 DEF ApplyInv, Current
<1>15. QED  BY <1>11, <1>12, <1>13, <1>14

\* Storing the block, then the height.
LEMMA LoneWrite ==
  ASSUME LoneState, WriteBlock, UNCHANGED nodeVars
  PROVE  LoneInv'
<1> USE DEF LoneState, LoneInv
<1>1. /\ pc = "putblock" /\ pc' = "savemeta"
      /\ UNCHANGED <<proc, st, metaFile, mode, work, sim, step, result, faults>>
  BY DEF WriteBlock
<1>2. QuietInv'
  BY <1>1 DEF QuietInv, nodeVars, faucetVars
<1>3. CASE proc # "up"
  BY <1>1, <1>2, <1>3 DEF OnceInv, BatchInv, ApplyInv
<1>4. CASE proc = "up"
  <2>1. work.txs = batch /\ minerPc = "mining" /\ mode = "mine"
    BY <1>1, <1>4, LoneExecution
  <2>2. ChainTxs' = ChainTxs \cup ToSet(batch)
    BY <2>1, WriteExtends DEF NodeTypeInv
  <2>3. Done' = Done
    BY <1>1, <2>1, <2>2 DEF Done
  <2>4. UNCHANGED <<PoolTxs, Validated, Ran, Current, batch, minerPc>>
    BY <1>1 DEF PoolTxs, Validated, Ran, Current, nodeVars, poolVars, clientVars, minerVars
  <2>5. BatchInv'
    BY <1>1, <1>4, <2>1, <2>3, <2>4 DEF BatchInv
  <2>6. OnceInv'
    BY <1>1, <1>4, <2>3, <2>4 DEF OnceInv, nodeVars, clientVars
  <2>7. ApplyInv'
    BY <1>1, <1>4, <2>3, <2>4 DEF ApplyInv
  <2>8. QED  BY <1>2, <2>5, <2>6, <2>7
<1>5. QED  BY <1>3, <1>4

LEMMA LoneSaveMeta ==
  ASSUME LoneState, SaveMeta, UNCHANGED nodeVars
  PROVE  LoneInv'
<1> USE DEF LoneState, LoneInv
<1>1. pc = "savemeta" /\ Return("ok") /\ UNCHANGED blockFile
  BY DEF SaveMeta
<1>2. UNCHANGED <<PoolTxs, Validated, batch, minerPc, handler, sends, drip, drips>>
  BY DEF PoolTxs, Validated, nodeVars, poolVars, clientVars, minerVars, faucetVars
<1>3. CASE proc = "up"
  <2>1. work.txs = batch /\ minerPc = "mining" /\ mode = "mine"
    BY <1>1, <1>3, LoneExecution
  <2>2. /\ pc' = "idle" /\ mode' = "none" /\ UNCHANGED <<proc, st, metaMem, ChainTxs>>
        /\ result'["mine"] = "ok"
    BY <1>1, <1>3, <2>1, ServingReturn DEF NodeTypeInv
  <2>3. UNCHANGED <<Done, Ran, Current>>
    BY <1>1, <2>2 DEF Done, Ran, Current
  <2>4. QuietInv'
    BY <1>2, <2>2 DEF QuietInv
  <2>5. BatchInv'
    BY <1>1, <1>2, <1>3, <2>1, <2>2, <2>3 DEF BatchInv
  <2>6. OnceInv' /\ ApplyInv'
    BY <1>2, <1>3, <2>2, <2>3 DEF OnceInv, ApplyInv
  <2>7. QED  BY <2>4, <2>5, <2>6
<1>4. CASE proc # "up"
  <2>1. mode = "genesis" /\ metaMem = 0
    BY <1>1, <1>4 DEF NodeTypeInv, StructInv, ControlInv
  <2>2. /\ pc' = "idle" /\ mode' = "none" /\ metaMem' = 0 /\ UNCHANGED <<st, result>>
    BY <1>1, <2>1 DEF Return, Unlock
  <2>3. Done' = {} /\ Ran' = {}
    <3>1. 1 .. 0 = {}
      OBVIOUS
    <3>2. QED  BY <2>2, <3>1 DEF Done, Ran, ChainTxs
  <2>4. /\ minerPc' = "tick" /\ batch' = <<>> /\ PoolTxs' = {} /\ Validated' = {}
        /\ \A h \in Handlers : handler'[h] = NoTx
    BY <1>2, <1>4 DEF DownInv, Validated
  <2>5. ToSet(batch') = {}
    BY <2>4 DEF ToSet
  <2>6. QuietInv'
    BY <1>2, <2>2 DEF QuietInv
  <2>7. BatchInv' /\ OnceInv' /\ ApplyInv'
    BY <2>2, <2>3, <2>4, <2>5 DEF BatchInv, OnceInv, ApplyInv
  <2>8. QED  BY <2>6, <2>7
<1>5. QED  BY <1>3, <1>4

\* What peers send is refused or known.
LEMMA LoneReceive ==
  ASSUME LoneState, ReceiveBlock, UNCHANGED nodeVars
  PROVE  LoneInv'
<1>1. PICK b \in PeerBlocks : ApplyBlock(b)
  BY DEF ReceiveBlock
<1>2. Verdict(b) # "execute"
  BY PeerBlockFacts DEF ReceiveBlock, LoneState, LoneMiner, NodeTypeInv, StructInv
<1>3. UNCHANGED <<proc, st, metaMem, files, call, faults>> /\ result'["mine"] = result["mine"]
  BY <1>1, <1>2 DEF ApplyBlock, LoneState, NodeTypeInv, StructInv, TypeOK
<1>4. UNCHANGED <<ChainTxs, PoolTxs>>
  BY <1>3 DEF ChainTxs, PoolTxs, files, nodeVars, poolVars
<1>5. QED
  BY <1>3, <1>4, LoneUntouched DEF call, nodeVars, minerVars, clientVars, faucetVars

LEMMA LoneChain ==
  ASSUME LoneState, ChainStep
  PROVE  LoneInv'
<1>1. UNCHANGED nodeVars
  BY DEF ChainStep
<1>2. CASE StartUp
  <2>1. proc' # "up" /\ mode' # "sync" /\ mode' # "mine" /\ result'["mine"] # "error"
    BY <1>2 DEF StartUp, StartGenesis, StartRebuild, RebuildRejected, Halt, Unlock, LoneState,
       LoneInv, QuietInv
  <2>2. QED
    BY <1>1, <2>1 DEF LoneState, LoneInv, QuietInv, OnceInv, BatchInv, ApplyInv, nodeVars, faucetVars
<1>3. ~(WriteBlockFails \/ SaveMetaFails \/ RootMismatch)
  BY DEF WriteBlockFails, SaveMetaFails, RootMismatch, LoneState, LoneMiner, LoneInv, QuietInv,
     NodeTypeInv, StructInv, TypeOK
<1>4. QED
  BY <1>1, <1>2, <1>3, LoneReceive, LoneSimulateTx, NeverFails, LoneCommit, LoneWrite, LoneSaveMeta
     DEF ChainStep, ExecuteBlock, PutBlock

LEMMA LoneStep ==
  ASSUME LoneState, [NodeNext]_allVars
  PROVE  LoneInv'
<1>1. CASE NodeCrash
  BY <1>1 DEF NodeCrash, Crash, Halt, Unlock, LoneState, LoneInv, QuietInv, OnceInv, BatchInv,
              ApplyInv
<1>2. CASE (\E to \in Addr : CooldownEnds(to)) \/ UNCHANGED allVars
  <2>1. UNCHANGED <<vars, poolVars, minerVars, clientVars, drip, drips>>
    BY <1>2 DEF CooldownEnds, allVars, nodeVars, faucetVars
  <2>2. UNCHANGED <<ChainTxs, PoolTxs>>
    BY <2>1 DEF ChainTxs, PoolTxs, vars, files, poolVars
  <2>3. QED
    BY <2>1, <2>2, LoneUntouched DEF vars, call, minerVars, clientVars
<1>3. ~SendDrip /\ ~(\E to \in Addr : BuildDrip(to))
  <2>1. Cardinality({}) = 0
    BY FS_EmptySet
  <2>2. QED  BY <2>1 DEF SendDrip, BuildDrip, LoneState, LoneMiner, LoneInv, QuietInv
<1>4. QED
  BY <1>1, <1>2, <1>3, LoneChain, LoneValidate, LoneAdd, LoneTick, LoneMine, LoneReturns DEF NodeNext

\* The coins of a lone miner are exact while it mines the batches it validated.
LEMMA LoneSupply ==
  ASSUME LoneState, [NodeNext]_allVars
  PROVE  SupplyInv'
<1>1. ExactWork
  <2> SUFFICES ASSUME pc = "sim", mode # "genesis"
               PROVE  work.miner \in Addr /\ \A k \in 1 .. Len(work.txs) : Ordinary(work.txs[k])
    BY DEF ExactWork
  <2>1. proc = "up"
    BY DEF LoneState, NodeTypeInv, StructInv, ControlInv
  <2>2. work.txs = batch /\ work.miner \in Addr
    BY <2>1, LoneExecution
  <2>3. ToSet(batch) \subseteq Requests
    BY <2>1 DEF LoneState, LoneInv, OnceInv
  <2>4. ASSUME NEW k \in 1 .. Len(batch) PROVE Ordinary(batch[k])
    <3>1. batch \in Seq(Transaction)
      BY DEF LoneState, NodeTypeInv, NodeTypeOK
    <3>2. batch[k] \in Requests
      BY <2>3, <3>1 DEF ToSet
    <3>3. QED  BY <3>2 DEF LoneState, LoneMiner
  <2>5. QED  BY <2>2, <2>4
<1>2. [ChainNext]_vars
  BY NodeStepsChain DEF LoneState, NodeTypeInv
<1>3. QED
  BY <1>1, <1>2, SupplyStep, SupplyMine DEF ChainNext, LoneState, LoneMiner, NodeTypeInv

LEMMA LoneInit == NodeInit => SupplyInv /\ LoneInv
BY DEF NodeInit, Init, SupplyInv, LoneInv, QuietInv, OnceInv, BatchInv, ApplyInv

LEMMA LoneInvariance == LoneMiner => (NodeSpec => []LoneState)
<1> SUFFICES ASSUME LoneMiner PROVE NodeSpec => []LoneState
  OBVIOUS
<1>1. NodeInit => DownInv /\ LoopInv /\ SupplyInv /\ LoneInv
  BY LoopInit, LoneInit
<1>2. /\ NodeTypeInv /\ DownInv /\ LoopInv /\ SupplyInv /\ LoneInv /\ [NodeNext]_allVars
      => DownInv' /\ LoopInv' /\ SupplyInv' /\ LoneInv'
  BY DownStep, LoopStep, LoneSupply, LoneStep DEF LoneState
<1>3. NodeTypeInv /\ DownInv /\ LoopInv /\ SupplyInv /\ LoneInv => LoneState
  BY DEF LoneState
<1>4. QED  BY <1>1, <1>2, <1>3, NodeTypeInvariance, PTL DEF NodeSpec

\* Requests that were validated one at a time, each against the accounts of its
\* moment, execute together in whatever order the pool lists them: a lone miner
\* never fails to mine a batch.
THEOREM ValidatedBatchesMine == LoneMiner => (NodeSpec => []BatchesMine)
<1> SUFFICES ASSUME LoneMiner PROVE NodeSpec => []BatchesMine
  OBVIOUS
<1>1. LoneState => BatchesMine
  BY DEF LoneState, LoneInv, QuietInv, BatchesMine
<1>2. QED  BY <1>1, LoneInvariance, PTL

(***************************************************************************)
(* A validated transaction is mined within two blocks.                     *)
(***************************************************************************)

\* A batch with room for every request takes the whole pool.
LEMMA WholePool ==
  ASSUME PoolOK, PoolTxs \subseteq Requests, RoomForAll
  PROVE  ToSet(Pending(MaxBatch)) = PoolTxs
<1> DEFINE n == Len(poolKeys)
           f == [i \in 1 .. n |-> poolTxs[poolKeys[i]]]
<1>1. /\ n \in Nat /\ \A i \in 1 .. n : poolKeys[i] \in DOMAIN poolTxs
      /\ \A i, j \in 1 .. n : poolKeys[i] = poolKeys[j] => i = j
  BY DEF PoolOK, IsInjective
<1>2. \A k \in DOMAIN poolTxs : poolTxs[k] \in Requests /\ txKey(poolTxs[k]) = k
  BY DEF PoolOK, PoolTxs
<1>3. f \in [1 .. n -> Requests]
  BY <1>1, <1>2
<1>4. IsInjective(f)
  BY <1>1, <1>2 DEF IsInjective
<1>5. f \in Injection(1 .. n, Requests)
  BY <1>3, <1>4 DEF Injection
<1>6. Cardinality(1 .. n) <= Cardinality(Requests)
  BY <1>5, FS_Injection DEF RoomForAll
<1>7. n <= MaxBatch
  <2> HIDE DEF n
  <2>1. Cardinality(1 .. n) = n
    <3>1. n >= 1 \/ n = 0
      BY <1>1
    <3>2. Cardinality(1 .. n) = IF 1 > n THEN 0 ELSE n - 1 + 1
      BY <1>1, FS_Interval
    <3>3. QED  BY <1>1, <3>1, <3>2
  <2>2. Cardinality(Requests) \in Nat
    BY FS_CardinalityType DEF RoomForAll
  <2>3. QED  BY <1>1, <1>6, <2>1, <2>2, NodeAssumption DEF RoomForAll
<1>8. QED  BY <1>7, PendingFacts DEF n

\* A transaction that waits has seen at most one block since it was admitted, and
\* that one was underway when it came.
TimelyInv ==
  proc = "up" =>
    \A tx \in DOMAIN admitted \ ChainTxs :
      /\ tx \in PoolTxs
      /\ metaMem <= admitted[tx] + 1
      /\ minerPc # "tick" /\ tx \notin ToSet(batch) =>
           \/ metaMem <= admitted[tx]
           \/ minerPc = "mining" /\ (pc = "savemeta" \/ mode # "mine")

LEMMA AdmittedType ==
  ASSUME LoneState
  PROVE  /\ \A tx \in DOMAIN admitted : admitted[tx] \in Nat
         /\ metaMem \in Nat
BY BlockchainAssumption
   DEF LoneState, NodeTypeInv, NodeTypeOK, StructInv, TypeOK, Height, ToSet

\* Nothing changes for the transactions that wait.
LEMMA TimelyUntouched ==
  ASSUME TimelyInv, proc' = "up" => proc = "up",
         UNCHANGED <<metaMem, ChainTxs, admitted, minerPc, batch>>,
         proc = "up" => PoolTxs \subseteq PoolTxs',
         (pc = "savemeta" \/ mode # "mine") => (pc' = "savemeta" \/ mode' # "mine")
  PROVE  TimelyInv'
BY DEF TimelyInv

LEMMA TimelyAdd ==
  ASSUME LoneState, TimelyInv, NEW h \in Handlers, AddValidated(h)
  PROVE  TimelyInv'
<1> DEFINE tx == handler[h]
<1>1. /\ admitted' = IF tx \in DOMAIN admitted THEN admitted ELSE Put(admitted, tx, metaMem)
      /\ UNCHANGED <<vars, minerVars>>
  BY DEF AddValidated
<1>2. tx \in Requests /\ proc = "up"
  BY HandlerAdds
<1>3. tx \notin PoolTxs \cup Done
  BY HandlerAdds
<1>4. PoolTxs' = PoolTxs \cup {tx}
  BY HandlerAdds
<1>5. UNCHANGED <<ChainTxs, metaMem, minerPc, batch, pc, mode, proc>>
  BY <1>1 DEF ChainTxs, vars, files, call, minerVars
<1>6. tx \notin DOMAIN admitted
  BY <1>2, <1>3 DEF TimelyInv, Done
<1>7. /\ DOMAIN admitted' = DOMAIN admitted \cup {tx} /\ admitted'[tx] = metaMem
      /\ \A ty \in DOMAIN admitted \ {tx} : admitted'[ty] = admitted[ty]
  BY <1>1, <1>2, <1>6, AdmittedFacts
     DEF LoneState, NodeTypeInv, NodeTypeOK, StructInv, TypeOK
<1>8. metaMem \in Nat
  BY AdmittedType
<1> HIDE DEF tx
<1>9. ASSUME NEW ty \in DOMAIN admitted' \ ChainTxs
       PROVE  /\ ty \in PoolTxs'
              /\ metaMem <= admitted'[ty] + 1
              /\ minerPc # "tick" /\ ty \notin ToSet(batch) =>
                   \/ metaMem <= admitted'[ty]
                   \/ minerPc = "mining" /\ (pc = "savemeta" \/ mode # "mine")
  <2>1. CASE ty = tx
    BY <1>4, <1>7, <1>8, <2>1
  <2>2. CASE ty # tx
    <3>1. ty \in DOMAIN admitted /\ admitted'[ty] = admitted[ty]
      BY <1>7, <2>2
    <3>2. QED  BY <1>2, <1>4, <3>1 DEF TimelyInv
  <2>3. QED  BY <2>1, <2>2
<1>10. QED  BY <1>5, <1>9 DEF TimelyInv

LEMMA TimelyLoop ==
  ASSUME LoneState, TimelyInv, RoomForAll, Tick \/ Mine \/ MineReturns
  PROVE  TimelyInv'
<1>1. CASE Tick
  <2>1. PoolTxs \subseteq Requests /\ proc = "up"
    BY <1>1 DEF Tick, LoneState, LoneInv, OnceInv
  <2>2. ToSet(batch') = PoolTxs
    BY <1>1, <2>1, WholePool DEF Tick, LoneState, NodeTypeInv
  <2>3. UNCHANGED <<metaMem, ChainTxs, PoolTxs, admitted, proc, pc, mode>>
    BY <1>1 DEF Tick, vars, files, call, ChainTxs, PoolTxs, poolVars, clientVars
  <2>4. QED  BY <2>2, <2>3 DEF TimelyInv
<1>2. CASE Mine
  <2>1. /\ minerPc = "mine" /\ minerPc' = "mining"
        /\ UNCHANGED <<metaMem, ChainTxs, PoolTxs, admitted, proc, batch>>
    BY <1>2 DEF Mine, FinalizeAndMineBlock, Execute, files, ChainTxs, PoolTxs, poolVars, clientVars
  <2>2. QED  BY <2>1 DEF TimelyInv
<1>3. CASE MineReturns
  <2>1. /\ minerPc = "mining" /\ mode # "mine" /\ minerPc' = "tick"
        /\ UNCHANGED <<metaMem, ChainTxs, admitted, proc, pc, mode>>
    BY <1>3 DEF MineReturns, vars, files, call, ChainTxs, clientVars
  <2>2. proc = "up"
    BY <2>1 DEF LoneState, DownInv
  <2>3. result["mine"] = "ok"
    BY <2>1, <2>2 DEF LoneState, LoneInv, BatchInv
  <2>4. ToSet(batch) \subseteq ChainTxs
    BY <2>1, <2>3 DEF LoneState, LoopInv
  <2>5. PoolTxs' = {tx \in PoolTxs : \A ty \in ToSet(batch) : txKey(ty) # txKey(tx)}
    BY <1>3, <2>3, RemoveFacts DEF MineReturns, LoneState, NodeTypeInv
  <2>6. \A tx \in PoolTxs : \A ty \in ToSet(batch) : txKey(ty) = txKey(tx) => tx = ty
    BY <2>2 DEF LoneState, LoneInv, OnceInv, LoneMiner
  <2>7. PoolTxs \ ChainTxs \subseteq PoolTxs'
    BY <2>4, <2>5, <2>6
  <2>8. QED  BY <2>1, <2>7 DEF TimelyInv
<1>4. QED  BY <1>1, <1>2, <1>3

LEMMA TimelyChain ==
  ASSUME LoneState, TimelyInv, RoomForAll, ChainStep
  PROVE  TimelyInv'
<1>1. UNCHANGED <<admitted, minerPc, batch, PoolTxs>>
  BY DEF ChainStep, nodeVars, minerVars, clientVars, poolVars, PoolTxs
<1>2. crashes = 0
  BY DEF LoneState, NodeTypeInv, StructInv, TypeOK, RoomForAll
<1>3. CASE proc # "up"
  <2>1. DOMAIN admitted' = {}
    BY <1>1, <1>2, <1>3 DEF LoneState, DownInv
  <2>2. QED  BY <2>1 DEF TimelyInv
<1>4. CASE proc' # "up"
  BY <1>4 DEF TimelyInv
<1>5. CASE proc = "up" /\ proc' = "up" /\ WriteBlock
  <2>1. pc = "putblock" /\ pc' = "savemeta" /\ UNCHANGED mode
    BY <1>5 DEF WriteBlock
  <2>2. work.txs = batch /\ minerPc = "mining" /\ mode = "mine"
    BY <1>5, <2>1, LoneExecution
  <2>3. metaMem' = metaMem + 1 /\ ChainTxs' = ChainTxs \cup ToSet(batch)
    BY <1>5, <2>2, WriteExtends DEF LoneState, NodeTypeInv
  <2>4. ASSUME NEW tx \in DOMAIN admitted \ ChainTxs'
        PROVE  tx \in PoolTxs /\ metaMem' <= admitted[tx] + 1
    <3>1. tx \in PoolTxs /\ metaMem <= admitted[tx]
      BY <1>5, <2>1, <2>2, <2>3 DEF TimelyInv
    <3>2. QED  BY <2>3, <3>1, AdmittedType
  <2>5. QED  BY <1>1, <2>1, <2>2, <2>4 DEF TimelyInv
<1>6. CASE proc = "up" /\ proc' = "up" /\ ~WriteBlock
  <2>1. [ChainNext]_vars
    BY DEF ChainStep, ChainNext, Next
  <2>2. UNCHANGED <<metaMem, ChainTxs>>
    BY <1>6, <2>1, OnlyWriteExtends DEF LoneState, NodeTypeInv
  <2>3. CASE SimulateFails \/ RootMismatch \/ WriteBlockFails \/ SaveMeta \/ SaveMetaFails
    <3>1. /\ pc \in {"sim", "putblock", "savemeta"} /\ (Return("ok") \/ Return("error"))
          /\ UNCHANGED blockFile
      BY <2>3 DEF SimulateFails, RootMismatch, Executed, WriteBlockFails, SaveMeta,
                  SaveMetaFails, files
    <3>2. mode' = "none"
      BY <1>6, <3>1, ServingReturn DEF LoneState
    <3>3. QED  BY <1>1, <1>6, <2>2, <3>2, TimelyUntouched
  <2>4. CASE ~(SimulateFails \/ RootMismatch \/ WriteBlockFails \/ SaveMeta \/ SaveMetaFails)
    <3>1. (pc = "savemeta" \/ mode # "mine") => (pc' = "savemeta" \/ mode' # "mine")
      BY <1>6, <2>4 DEF ChainStep, StartUp, StartGenesis, StartRebuild, RebuildRejected, Halt,
         ReceiveBlock, ApplyBlock, Execute, ExecuteBlock, SimulateTx, CommitState, Executed,
         PutBlock, call
    <3>2. QED  BY <1>1, <1>6, <2>2, <3>1, TimelyUntouched
  <2>5. QED  BY <2>3, <2>4
<1>7. QED  BY <1>3, <1>4, <1>5, <1>6

LEMMA TimelyStep ==
  ASSUME LoneState, TimelyInv, RoomForAll, [NodeNext]_allVars
  PROVE  TimelyInv'
<1>1. CASE NodeCrash
  BY <1>1 DEF NodeCrash, Crash, Halt, TimelyInv
<1>2. CASE \E h \in Handlers, tx \in Requests : Validate(h, tx)
  <2>1. UNCHANGED <<vars, poolVars, minerVars, admitted>>
    BY <1>2 DEF Validate
  <2>2. UNCHANGED <<ChainTxs, PoolTxs>>
    BY <2>1 DEF ChainTxs, PoolTxs, vars, files, poolVars
  <2>3. QED  BY <2>1, <2>2, TimelyUntouched DEF vars, call, minerVars
<1>3. CASE (\E to \in Addr : BuildDrip(to) \/ CooldownEnds(to)) \/ UNCHANGED allVars
  <2>1. UNCHANGED <<vars, poolVars, minerVars, admitted>>
    BY <1>3 DEF BuildDrip, CooldownEnds, allVars, nodeVars, clientVars
  <2>2. UNCHANGED <<ChainTxs, PoolTxs>>
    BY <2>1 DEF ChainTxs, PoolTxs, vars, files, poolVars
  <2>3. QED  BY <2>1, <2>2, TimelyUntouched DEF vars, call, minerVars
<1>4. ~SendDrip
  BY DEF SendDrip, LoneState, LoneInv, QuietInv
<1>5. QED
  BY <1>1, <1>2, <1>3, <1>4, TimelyAdd, TimelyLoop, TimelyChain DEF NodeNext

\* With room in the batch for every request, a lone miner that does not crash has
\* an accepted transaction in its chain two blocks later at the latest.
THEOREM MinedWithinTwoBlocks ==
  LoneMiner /\ RoomForAll => (NodeSpec => []TimelyInclusion)
<1> SUFFICES ASSUME LoneMiner, RoomForAll PROVE NodeSpec => []TimelyInclusion
  OBVIOUS
<1>1. NodeInit => TimelyInv
  BY DEF NodeInit, Init, TimelyInv
<1>2. LoneState /\ TimelyInv => TimelyInclusion
  <2> SUFFICES ASSUME LoneState, TimelyInv, NEW tx \in DOMAIN admitted,
                      metaMem >= admitted[tx] + 2
               PROVE  tx \in ChainTxs
    BY DEF TimelyInclusion
  <2>1. crashes = 0
    BY DEF LoneState, NodeTypeInv, StructInv, TypeOK, RoomForAll
  <2>2. proc = "up"
    BY <2>1 DEF LoneState, DownInv
  <2>3. QED  BY <2>2, AdmittedType DEF TimelyInv
<1>3. LoneState /\ TimelyInv /\ [NodeNext]_allVars => TimelyInv'
  BY TimelyStep
<1>4. QED  BY <1>1, <1>2, <1>3, LoneInvariance, PTL DEF NodeSpec
===========================================================================
