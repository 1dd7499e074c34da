------------------------------- MODULE Node -------------------------------
(***************************************************************************)
(* A mining node: the chain, the mempool, the mining loop, the handlers    *)
(* that admit transactions (REST, JSON-RPC and gossip) and the faucet, all *)
(* goroutines of one process that meet only at bc.mu and pool.mu.          *)
(*                                                                         *)
(* A handler reads the chain under bc.mu, lets go of it, and writes the    *)
(* pool later; the mining loop snapshots the pool, mines, and prunes the   *)
(* pool later.  Every such gap is a step boundary.  What a broadcast does  *)
(* to the peers is left to the peers: it changes nothing here.             *)
(***************************************************************************)
EXTENDS Blockchain, SequencesExt

CONSTANTS
  Handlers,     \* concurrent requests and connections that submit a transaction
  Requests,     \* the transactions wallets submit
  MaxSends,     \* bound: how often one of them is submitted (2: a retry)
  MaxBatch,     \* the 100 of Pending(100)
  FaucetAddr, DripAmount,
  MaxDrips,     \* bound: how many drips are asked for
  NoTx

ASSUME NodeAssumption ==
  /\ Requests \subseteq Transaction /\ NoTx \notin Transaction
  /\ FaucetAddr \in Addr /\ DripAmount \in Amount
  /\ MaxSends \in Nat /\ MaxBatch \in Nat /\ MaxDrips \in Nat

VARIABLES
  poolTxs,     \* Pool.txs: the transactions by key
  poolKeys,    \* Pool.keys: the order in which Pending lists them
  minerPc,     \* the mining loop: "tick", "mine" (batch taken), "mining"
  batch,       \* the batch it took
  handler,     \* the validated transaction a handler is about to add
  sends,       \* how often each request was submitted
  admitted,    \* the height at which each admitted request entered the pool
  drip,        \* the transfer the faucet is about to send, f.mu held
  cooling,     \* the addresses in f.last whose cooldown runs
  drips        \* the transfers reported as sent

poolVars   == <<poolTxs, poolKeys>>
minerVars  == <<minerPc, batch>>
clientVars == <<handler, sends, admitted>>
faucetVars == <<drip, cooling, drips>>
nodeVars   == <<poolVars, minerVars, clientVars, faucetVars>>
allVars    == <<vars, nodeVars>>

txKey(tx) == <<tx.from, tx.nonce>>

\* The map f with v at k.
Put(f, k, v) == [x \in DOMAIN f \cup {k} |-> IF x = k THEN v ELSE f[x]]

NodeInit ==
  /\ Init
  /\ poolTxs = <<>> /\ poolKeys = <<>>
  /\ minerPc = "tick" /\ batch = <<>>
  /\ handler = [h \in Handlers |-> NoTx]
  /\ sends = [tx \in Requests |-> 0] /\ admitted = <<>>
  /\ drip = NoTx /\ cooling = {} /\ drips = {}

-----------------------------------------------------------------------------
(* mempool.Pool. *)

\* Mutant: the key is listed again when it is taken.
Add_listedTwice(tx) ==
  /\ poolTxs' = Put(poolTxs, txKey(tx), tx)
  /\ poolKeys' = Append(poolKeys, txKey(tx))

\* A transaction whose key is taken is dropped without a word.
Add(tx) ==
  IF txKey(tx) \in DOMAIN poolTxs
  THEN UNCHANGED poolVars
  ELSE /\ poolTxs' = Put(poolTxs, txKey(tx), tx)
       /\ poolKeys' = Append(poolKeys, txKey(tx))

Pending(max) ==
  [i \in 1 .. (IF max > Len(poolKeys) THEN Len(poolKeys) ELSE max)
     |-> poolTxs[poolKeys[i]]]

\* Mutant: the keys are not collected again.
RemoveIncluded_oldKeys(txs) ==
  /\ poolTxs' = [k \in DOMAIN poolTxs \ {txKey(tx) : tx \in ToSet(txs)} |-> poolTxs[k]]
  /\ UNCHANGED poolKeys

\* Mutant: the whole pool is emptied once a block is mined.
RemoveIncluded_everything(txs) == poolTxs' = <<>> /\ poolKeys' = <<>>

\* The keys are collected again from the map, in whatever order it yields.
RemoveIncluded(txs) ==
  LET left == DOMAIN poolTxs \ {txKey(tx) : tx \in ToSet(txs)}
  IN  /\ poolTxs' = [k \in left |-> poolTxs[k]]
      /\ poolKeys' \in SetToSeqs(left)

-----------------------------------------------------------------------------
(* Admission: ValidateTx under the read lock, Add afterwards.  A request     *)
(* that does not validate is answered with an error and changes nothing.     *)

\* Mutant: the handler does not call ValidateTx.
Validate_nothing(h, tx) ==
  /\ proc = "up" /\ pc = "idle" /\ handler[h] = NoTx
  /\ sends[tx] < MaxSends
  /\ handler' = [handler EXCEPT ![h] = tx]
  /\ sends' = [sends EXCEPT ![tx] = @ + 1]
  /\ UNCHANGED <<vars, poolVars, minerVars, admitted, faucetVars>>

Validate(h, tx) ==
  /\ proc = "up" /\ pc = "idle" /\ handler[h] = NoTx
  /\ sends[tx] < MaxSends
  /\ TxApplies(st, tx)
  /\ handler' = [handler EXCEPT ![h] = tx]
  /\ sends' = [sends EXCEPT ![tx] = @ + 1]
  /\ UNCHANGED <<vars, poolVars, minerVars, admitted, faucetVars>>

AddValidated(h) ==
  /\ handler[h] # NoTx
  /\ Add(handler[h])
  /\ admitted' = IF handler[h] \in DOMAIN admitted THEN admitted
                 ELSE Put(admitted, handler[h], metaMem)
  /\ handler' = [handler EXCEPT ![h] = NoTx]
  /\ UNCHANGED <<vars, minerVars, sends, faucetVars>>

-----------------------------------------------------------------------------
(* Drip, all of it under f.mu: the nonce is the chain's, not the pool's, and *)
(* the transfer is added without validation.                                 *)

BuildDrip(to) ==
  /\ proc = "up" /\ pc = "idle" /\ drip = NoTx
  /\ to \notin cooling /\ Cardinality(drips) < MaxDrips
  /\ drip' = [from |-> FaucetAddr, to |-> to, amount |-> DripAmount, fee |-> 0,
              nonce |-> st[FaucetAddr].nonce, signed |-> TRUE]
  /\ UNCHANGED <<vars, poolVars, minerVars, clientVars, cooling, drips>>

SendDrip ==
  /\ drip # NoTx
  /\ Add(drip)
  /\ cooling' = cooling \cup {drip.to}
  /\ drips' = drips \cup {drip}
  /\ drip' = NoTx
  /\ UNCHANGED <<vars, minerVars, clientVars>>

CooldownEnds(a) ==
  /\ a \in cooling
  /\ cooling' = cooling \ {a}
  /\ UNCHANGED <<vars, poolVars, minerVars, clientVars, drip, drips>>

-----------------------------------------------------------------------------
(* mineLoop. *)

\* The ticker fires and the pool is copied.
Tick ==
  /\ proc = "up" /\ minerPc = "tick" /\ metaMem < MaxHeight
  /\ batch' = Pending(MaxBatch)
  /\ minerPc' = "mine"
  /\ UNCHANGED <<vars, poolVars, clientVars, faucetVars>>

Mine ==
  /\ minerPc = "mine"
  /\ FinalizeAndMineBlock(batch)
  /\ minerPc' = "mining"
  /\ UNCHANGED <<poolVars, batch, clientVars, faucetVars>>

\* Mutant: the mined transactions stay in the pool.
MineReturns_unpruned ==
  /\ minerPc = "mining" /\ mode # "mine"
  /\ minerPc' = "tick" /\ batch' = <<>>
  /\ UNCHANGED <<vars, poolVars, clientVars, faucetVars>>

\* FinalizeAndMineBlock has returned.  After an error the loop waits for the
\* next tick and the pool keeps the batch.
MineReturns ==
  /\ minerPc = "mining" /\ mode # "mine"
  /\ IF result["mine"] = "ok" THEN RemoveIncluded(batch) ELSE UNCHANGED poolVars
  /\ minerPc' = "tick" /\ batch' = <<>>
  /\ UNCHANGED <<vars, clientVars, faucetVars>>

-----------------------------------------------------------------------------
\* A step of the chain in which the rest of the node takes no part.
ChainStep == /\ StartUp \/ ReceiveBlock \/ ExecuteBlock \/ PutBlock
             /\ UNCHANGED nodeVars

\* The mempool and every goroutine are lost with the process.
NodeCrash ==
  /\ Crash
  /\ poolTxs' = <<>> /\ poolKeys' = <<>>
  /\ minerPc' = "tick" /\ batch' = <<>>
  /\ handler' = [h \in Handlers |-> NoTx]
  /\ drip' = NoTx /\ cooling' = {}
  /\ UNCHANGED <<sends, admitted, drips>>

NodeNext ==
  \/ ChainStep \/ NodeCrash
  \/ \E h \in Handlers, tx \in Requests : Validate(h, tx)
  \/ \E h \in Handlers : AddValidated(h)
  \/ \E to \in Addr : BuildDrip(to) \/ CooldownEnds(to)
  \/ SendDrip
  \/ Tick \/ Mine \/ MineReturns

NodeSpec == NodeInit /\ [][NodeNext]_allVars

\* The scheduler runs every goroutine that can run; clients, peers and crashes
\* owe nothing.
NodeFairness ==
  /\ WF_allVars(StartUp /\ UNCHANGED nodeVars)
  /\ WF_allVars((ExecuteBlock \/ PutBlock) /\ UNCHANGED nodeVars)
  /\ WF_allVars(Tick) /\ WF_allVars(Mine) /\ WF_allVars(MineReturns)
  /\ \A h \in Handlers : WF_allVars(AddValidated(h))
  /\ WF_allVars(SendDrip)

FairNodeSpec == NodeSpec /\ NodeFairness

-----------------------------------------------------------------------------
(* Properties. *)

\* Type invariant of the mempool and of the goroutines around it: keys lists
\* the keys of txs, each once, and each transaction sits under its own key.
NodeTypeOK ==
  /\ \A k \in DOMAIN poolTxs : poolTxs[k] \in Transaction /\ txKey(poolTxs[k]) = k
  /\ IsInjective(poolKeys) /\ ToSet(poolKeys) = DOMAIN poolTxs
  /\ minerPc \in {"tick", "mine", "mining"} /\ batch \in Seq(Transaction)
  /\ handler \in [Handlers -> Requests \cup {NoTx}]
  /\ sends \in [Requests -> 0 .. MaxSends]
  /\ DOMAIN admitted \subseteq Requests /\ ToSet(admitted) \subseteq Height
  /\ drip \in Transaction \cup {NoTx} /\ cooling \subseteq Addr
  /\ drips \subseteq Transaction

ChainTxs == UNION {ToSet(blockFile[i].txs) : i \in 1 .. metaMem}
PoolTxs  == {poolTxs[k] : k \in DOMAIN poolTxs}

\* As long as the process lives, an admitted transaction is in the pool or in
\* the chain, or one with its sender and nonce is: RemoveIncluded and the
\* rebuilding of the keys lose nothing, whoever adds in between.
NothingDropped ==
  proc = "up" /\ crashes = 0 =>
    \A tx \in DOMAIN admitted :
      \E other \in ChainTxs \cup PoolTxs : txKey(other) = txKey(tx)

\* Nobody but this node extends the chain, its disk works, every request is sent
\* once and has its own sender and nonce, nothing enters the pool unvalidated,
\* and amounts are exact.
LoneMiner ==
  /\ Batches = {} /\ MaxDrips = 0 /\ MaxDiskErrors = 0 /\ MaxSends <= 1
  /\ \A tx \in Requests : Ordinary(tx)
  /\ \A tx, ty \in Requests : txKey(tx) = txKey(ty) => tx = ty
  /\ CoinsFit

\* Under these conditions a batch never fails: transactions validated one by one
\* against different states are executable together, in any order the keys come
\* in (ValidateTx, Pending, FinalizeAndMineBlock).
BatchesMine == result["mine"] # "error"

\* Room in the batch for every request, and a process that lives on.
RoomForAll ==
  IsFiniteSet(Requests) /\ Cardinality(Requests) <= MaxBatch /\ MaxCrashes = 0

\* Under both conditions an admitted transaction is in the chain two blocks
\* later: it misses at most the block whose batch was taken before it came.
TimelyInclusion ==
  \A tx \in DOMAIN admitted : metaMem >= admitted[tx] + 2 => tx \in ChainTxs

\* The node keeps producing blocks, up to the bound on the height.
KeepsMining == <>(metaMem = MaxHeight)
=============================================================================
