------------------------------- MODULE Bridge -------------------------------
(***************************************************************************)
(* The bridge daemon's portfolio, DeFi operations, pools and token         *)
(* platform (internal/bridge).  It serves one wallet, and every HTTP       *)
(* request runs in a goroutine of its own.                                 *)
(*                                                                         *)
(* A request loads a copy of the portfolio, changes it and saves it; only  *)
(* loading and saving hold the store's lock.  What is saved is the very    *)
(* object the request goes on changing, so that an operation that fails    *)
(* later has changed what the next one loads: "holder" names the request   *)
(* whose object is in the cache.  A pool, likewise, is taken as a copy     *)
(* and put back whole.                                                     *)
(*                                                                         *)
(* Lists are kept oldest first and a record's place stands for its id.     *)
(* Requests that fail before they touch the portfolio change nothing and   *)
(* are left out.  Which requests clients send, how many at a time, in      *)
(* which mode and with which faults is chosen once, as the menu.           *)
(***************************************************************************)
EXTENDS AMM, Sequences, Sums

CONSTANTS
  Client, Nobody,
  Key,          \* "chain:token" balance keys, and those of pool shares
  ONEX,         \* the key that follows the node's balance
  OnexKey,      \* the keys of the OneX chain, whose deposits count at once
  LpKey,        \* the key of a pool's shares
  Pairs,        \* the token pairs that may have a pool, in the order of PoolID
  SeedPools,    \* configs/amm-pools.json
  Prefunded,    \* the balances of defaultPortfolio
  OnChain,      \* what ReadEVMEntries finds for the holder
  NodeBalance,  \* the wallet's balance at the node, at first
  StakePools,   \* configs/stake-pools.json
  Rate,         \* the numerator of a swap pair's rate, 0 for no pair
  RateBase, BonusBase, RewardBase, \* denominators of rates, bonus and rewards
  Reward,       \* defaultTasks: what a task pays, as [key, amt]
  Listed,       \* configs/tokens.json
  WrappedKey,   \* WrapTokenID of a key on the other chain
  SuffixedKey,  \* the keys of ids with a random suffix
  Coin,         \* 10^8 units are one coin
  Amounts,      \* the amounts clients ask for, in units
  Menu, Offered(_), Using(_), Production(_), Faulty(_), \* what is chosen once
  BadAmount, NoPool, NoPortfolio, Unreadable,
  MaxServed, MaxCrashes, MaxDay   \* bounds

\* The configuration files hold what their readers expect; a configured pool
\* with shares has both tokens.
ASSUME BridgeAssumption ==
  /\ Nobody \notin Client /\ NoPool \notin PoolState /\ BadAmount \notin Amounts
  /\ ONEX \in Key /\ SuffixedKey \subseteq Key
  /\ Pairs \subseteq Key \X Key /\ LpKey \in [Pairs -> Key]
  /\ \A q, o \in Pairs : {q[1], q[2]} = {o[1], o[2]} => q = o
  /\ SeedPools \in [Pairs -> PoolState \cup {NoPool}]
  /\ \A q \in Pairs : SeedPools[q] # NoPool /\ SeedPools[q].shares > 0
                       => SeedPools[q].r0 > 0 /\ SeedPools[q].r1 > 0
  /\ Prefunded \in [Key -> UInt] /\ OnChain \in [Key -> UInt] /\ NodeBalance \in UInt
  /\ StakePools \subseteq [stake : Key, receipt : Key, min : Nat, lock : Nat, apy : Nat]
  /\ Rate \in [Key \X Key -> Nat] /\ {RateBase, BonusBase, RewardBase} \subseteq Nat \ {0}
  /\ Reward \in [DOMAIN Reward -> [key : Key, amt : Nat]] /\ IsFiniteSet(DOMAIN Reward)
  /\ {"deposit", "first-swap", "first-stake", "mint-nft", "create-token"} \subseteq DOMAIN Reward
  /\ WrappedKey \in [DOMAIN WrappedKey -> Key] /\ DOMAIN WrappedKey \subseteq Key
  /\ \A k \in DOMAIN WrappedKey : WrappedKey[k] # k
  /\ Coin \in Nat /\ Amounts \subseteq UInt

\* The tokens with a key are a list.
ASSUME KeyAssumption == IsFiniteSet(Key)

\* What a pool's shares are kept under, "lp:" and the pool's id.
ShareKeys == {LpKey[q] : q \in Pairs}

\* Every other key is "chain:token" of the registry, which has no chain "lp": so
\* are those of the configuration, and a token is deployed, wrapped or counted
\* as a deposit on a chain of the registry only.
ASSUME ShareKeyAssumption ==
  /\ \A q, o \in Pairs : LpKey[q] = LpKey[o] => q = o
  /\ ({ONEX} \cup OnexKey \cup SuffixedKey) \cap ShareKeys = {}
  /\ \A k \in DOMAIN WrappedKey : WrappedKey[k] \notin ShareKeys
  /\ \A t \in DOMAIN Reward : Reward[t].key \notin ShareKeys
  /\ \A s \in StakePools : s.stake \notin ShareKeys /\ s.receipt \notin ShareKeys
  /\ \A k \in ShareKeys : Prefunded[k] = 0 /\ OnChain[k] = 0 /\ \A o \in Key : Rate[o, k] = 0
  /\ \A m \in Menu : \A r \in Offered(m) : r.op = "deploy" => r.key \notin ShareKeys

\* A portfolio and its records (portfolio.Data), times in days.
StakeRecord   == [pool : StakePools, amt : Nat, receipt : Nat, from : Nat, until : Nat,
                  active : BOOLEAN]
LoanRecord    == [type : {"borrow", "lend"}, colKey : Key, col : Nat, debtKey : Key, debt : Nat,
                  active : BOOLEAN]
DepositRecord == [key : Key, amt : Nat, status : {"confirmed", "pending"}]
SwapRecord    == [from : Key, to : Key, in : Nat, out : Nat]

Portfolio == [bal : [Key -> UInt], done : SUBSET DOMAIN Reward, stakes : Seq(StakeRecord),
              loans : Seq(LoanRecord), nfts : Seq({"self", "other"}),
              deposits : Seq(DepositRecord), swaps : Seq(SwapRecord), created : SUBSET Key]

\* No portfolio is taken for a missing or a torn file.
ASSUME PortfolioAssumption ==
  NoPortfolio # Unreadable /\ NoPortfolio \notin Portfolio /\ Unreadable \notin Portfolio

VARIABLES
  menu,
  cache, holder,  \* ps.data[addr], and whose object it still is
  file,           \* portfolio_<hash>.json
  pools,          \* amm.Store: its map, and the file written with it
  tokens, wraps,  \* platform-tokens.json and platform-wraps.json
  custom,         \* custom-tokens.json, from which the registry is completed
  nodeBal, day,
  client,         \* the requests being served
  served, crashes

platform == <<tokens, wraps, custom>>
bounds   == <<menu, served, crashes>>
vars     == <<cache, holder, file, pools, platform, nodeBal, day, client, bounds>>

Idle == [pc |-> "idle"]

DefaultPortfolio ==
  [bal |-> IF Production(menu) THEN [k \in Key |-> 0] ELSE Prefunded,
   done |-> {}, stakes |-> <<>>, loans |-> <<>>, nfts |-> <<>>,
   deposits |-> <<>>, swaps |-> <<>>, created |-> {}]

Init ==
  /\ menu \in Menu
  /\ cache = NoPortfolio /\ holder = Nobody /\ file = NoPortfolio
  /\ pools = SeedPools /\ tokens = <<>> /\ wraps = <<>> /\ custom = {}
  /\ nodeBal = NodeBalance /\ day = 0
  /\ client = [c \in Client |-> Idle]
  /\ served = 0 /\ crashes = 0

-----------------------------------------------------------------------------
(* The portfolio: GetBalance, AddBalance, SubBalance, tasks. *)

\* Mutant: the balance is only looked for.
Covers_any(p, k, n) == p.bal[k] > 0

Covers(p, k, n) == p.bal[k] >= n

Debit(p, k, n)  == [p EXCEPT !.bal[k] = @ - n]
Credit(p, k, n) == [p EXCEPT !.bal[k] = (@ + n) % Word]

\* Mutant: the reward is paid whether or not the task was open.
completeTask_again(p, t) == [Credit(p, Reward[t].key, Reward[t].amt) EXCEPT !.done = @ \cup {t}]

\* An open task is done and pays its reward; otherwise nothing happens.
completeTask(p, t) ==
  IF t \in p.done THEN p
  ELSE [Credit(p, Reward[t].key, Reward[t].amt) EXCEPT !.done = @ \cup {t}]

\* Load: the cached object's copy, the file's, or a new portfolio.
CanLoad == cache # NoPortfolio \/ file # Unreadable
Load == IF cache # NoPortfolio THEN cache
        ELSE IF file # NoPortfolio THEN file ELSE DefaultPortfolio

\* syncOneXBalance (unless the node is down), then syncRealPortfolio: in
\* production every balance but ONEX is replaced by what is on chain.
Synced(p, up) ==
  LET onex == IF up THEN nodeBal ELSE p.bal[ONEX]
  IN  [p EXCEPT !.bal = IF Production(menu)
                        THEN [k \in Key |-> IF k = ONEX THEN onex ELSE OnChain[k]]
                        ELSE [@ EXCEPT ![ONEX] = onex]]

\* The request c ends with the object p, saved, after it completed a task.
Done(c, p, t) ==
  LET last == IF t = "none" THEN p ELSE completeTask(p, t)
  IN  /\ cache' = last /\ holder' = Nobody
      /\ file' \in IF Faulty(menu) THEN {file, p, last} ELSE {last}
      /\ client' = [client EXCEPT ![c] = Idle]

\* It ends with an error after having changed its object to p: unsaved, but
\* seen by the next request when that object is still the cached one.
Drop(c, p) ==
  /\ cache' = IF holder = c THEN p ELSE cache
  /\ holder' = IF holder = c THEN Nobody ELSE holder
  /\ client' = [client EXCEPT ![c] = Idle]
  /\ UNCHANGED file

-----------------------------------------------------------------------------
(* The HTTP handlers: what passes their checks of method, body and defaults *)
(* and reaches the bridge.                                                  *)

Id == 1 .. MaxServed

handlePortfolio    == [op : {"read"}]
handleStake        == [op : {"stake"}, pool : StakePools, amt : Amounts]
handleUnstake      == [op : {"unstake"}, id : Id]
handleDeposit      == [op : {"deposit"}, key : Key, amt : Amounts]
handleSwap         == [op : {"swap"}, from : Key, to : Key, amt : Amounts]
handleNFTMint      == [op : {"mint"}]
handleNFTTransfer  == [op : {"give"}, id : Id, to : {"other"}]
handleTaskComplete == [op : {"task"}, id : DOMAIN Reward]
handleLoanCreate   == [op : {"loan"}, type : {"borrow", "lend"}, colKey : Key,
                       col : Amounts, debtKey : Key, debt : Amounts \cup {BadAmount}]
handleLoanRepay    == [op : {"repay"}, id : Id]
handleSendToken    == [op : {"send"}, key : Key, amt : Amounts]

\* A slippage of 0 means 50 basis points; the bound is computed from the same
\* copy of the pool as the swap itself and never binds.
handleOneXSwapExec      == [op : {"amm"}, from : Key, to : Key, amt : Amounts]
handleBridgeExec        == [op : {"bridge"}, from : Key, to : Key, amt : Amounts]
handleOneXSwapAddLiq    == [op : {"add"}, t0 : Key, t1 : Key, a0 : Amounts, a1 : Amounts]
handleOneXSwapRemoveLiq == [op : {"remove"}, pool : Pairs, shares : Amounts]

handlePlatformDeploy == [op : {"deploy"}, key : Key, supply : Amounts \ {0}]
handlePlatformWrap   == [op : {"wrap"}, key : DOMAIN WrappedKey, amt : Amounts \ {0}]

PortfolioRequest ==
  handlePortfolio \cup handleStake \cup handleUnstake \cup handleDeposit \cup handleSwap
  \cup handleNFTMint \cup handleNFTTransfer \cup handleTaskComplete \cup handleLoanCreate
  \cup handleLoanRepay \cup handleSendToken \cup handleOneXSwapExec \cup handleBridgeExec
  \cup handleOneXSwapAddLiq \cup handleOneXSwapRemoveLiq \cup handlePlatformDeploy
  \cup handlePlatformWrap

-----------------------------------------------------------------------------
(* Where a request goes. *)

HasPool(a, b) == \E q \in Pairs : {q[1], q[2]} = {a, b} /\ pools[q] # NoPool
PoolID(a, b)  == CHOOSE q \in Pairs : {q[1], q[2]} = {a, b}

\* SwapExecute goes to the pool of its pair when there is one.
SwapByPool(r) == r.op = "amm" \/ (r.op = "swap" /\ HasPool(r.from, r.to))

\* BridgeExecute: one swap when ONEX is on one side, else through ONEX.
TwoLegs(r) == r.op = "bridge" /\ ONEX \notin {r.from, r.to}

\* The second leg sells the first leg's quoted output, whose units ParseAmount
\* reads as whole coins.
SecondLeg(r) ==
  LET q == PoolID(r.from, ONEX)
  IN  [op |-> "amm", from |-> ONEX, to |-> r.to,
       amt |-> (AmountOut(pools[q], r.from = q[1], r.amt) * Coin) % Word]

-----------------------------------------------------------------------------
(* A request up to its GetPortfolio. *)

\* GetPortfolio for c: the loaded and synced copy is saved and is c's object.
\* What c worked out before is kept in "work", what it goes on with in "next".
GetPortfolio(c, r, work, next) ==
  /\ CanLoad
  /\ \E up \in IF Faulty(menu) THEN BOOLEAN ELSE {TRUE} :
       LET p == Synced(Load, up)
       IN  /\ cache' = p /\ holder' = c
           /\ file' \in IF Faulty(menu) THEN {file, p} ELSE {p}
           /\ client' = [client EXCEPT ![c] =
                [pc |-> "loaded", req |-> r, p |-> p, work |-> work, next |-> next]]

\* OneXSwapQuote has an answer.
SwapQuoted(r) ==
  HasPool(r.from, r.to) /\ LET q == PoolID(r.from, r.to)
                           IN  CanSwap(pools[q], r.from = q[1], r.amt)

\* OneXSwapExecute swaps on a copy of the pool.
PrepareSwap(c, r, next) ==
  /\ SwapQuoted(r)
  /\ LET q == PoolID(r.from, r.to)
         zeroIn == r.from = q[1]
     IN  GetPortfolio(c, [r EXCEPT !.op = "amm"],
                      [id |-> q, copy |-> Swap(pools[q], zeroIn, r.amt),
                       out |-> AmountOut(pools[q], zeroIn, r.amt)], next)

\* Mutant: a new pool takes the amounts in the order the client gave them.
PrepareAdd_unordered(c, r) ==
  \E q \in Pairs :
    LET old == IF pools[q] = NoPool THEN EmptyPool ELSE pools[q]
    IN  /\ {q[1], q[2]} = {r.t0, r.t1}
        /\ CanAdd(old, r.a0, r.a1)
        /\ GetPortfolio(c, [r EXCEPT !.t0 = q[1], !.t1 = q[2], !.a0 = r.a1, !.a1 = r.a0],
             [id |-> q, copy |-> AddLiquidity(old, r.a0, r.a1),
              out |-> Minted(old, r.a0, r.a1)], <<>>)

\* Only for a new pool are the tokens and their amounts put in the pool's
\* order: an existing one takes the amount the client names first for its first
\* token, whichever token the client named first.
PrepareAdd(c, r) ==
  \E q \in Pairs :
    LET flip == pools[q] = NoPool /\ r.t0 = q[2]
        s    == IF flip THEN [r EXCEPT !.t0 = r.t1, !.t1 = r.t0, !.a0 = r.a1, !.a1 = r.a0]
                ELSE r
        old  == IF pools[q] = NoPool THEN EmptyPool ELSE pools[q]
    IN  /\ {q[1], q[2]} = {r.t0, r.t1}
        /\ CanAdd(old, s.a0, s.a1)
        /\ GetPortfolio(c, s, [id |-> q, copy |-> AddLiquidity(old, s.a0, s.a1),
                               out |-> Minted(old, s.a0, s.a1)], <<>>)

\* Mutant: the pool pays out and keeps counting the shares.
PrepareRemove_uncounted(c, r) ==
  LET q == r.pool
  IN  /\ pools[q] # NoPool
      /\ CanRemove(pools[q], r.shares)
      /\ GetPortfolio(c, r,
           [id |-> q,
            copy |-> [RemoveLiquidity(pools[q], r.shares) EXCEPT !.shares = pools[q].shares],
            out |-> <<Paid0(pools[q], r.shares) % Word, Paid1(pools[q], r.shares) % Word>>],
           <<>>)

PrepareRemove(c, r) ==
  LET q == r.pool
  IN  /\ pools[q] # NoPool
      /\ CanRemove(pools[q], r.shares)
      /\ GetPortfolio(c, r, [id |-> q, copy |-> RemoveLiquidity(pools[q], r.shares),
           out |-> <<Paid0(pools[q], r.shares) % Word, Paid1(pools[q], r.shares) % Word>>],
           <<>>)

\* The requests that work nothing out before; WrapPlatformToken has read the
\* list of tokens.
PrepareOther(c, r) ==
  /\ r.op \in {"read", "stake", "unstake", "deposit", "swap", "mint", "give", "task",
               "loan", "repay", "send", "wrap"}
  /\ r.op = "stake" => r.amt >= r.pool.min
  /\ r.op = "swap" => ~HasPool(r.from, r.to) /\ Rate[r.from, r.to] > 0
  /\ r.op = "send" => r.key # ONEX
  /\ GetPortfolio(c, r, IF r.op = "wrap" THEN tokens ELSE <<>>, <<>>)

Accept(c) ==
  /\ client[c] = Idle /\ c \in Using(menu) /\ served < MaxServed
  /\ \E r \in Offered(menu) :
       \/ SwapByPool(r) /\ PrepareSwap(c, r, <<>>)
       \/ r.op = "bridge" /\ ~TwoLegs(r) /\ PrepareSwap(c, r, <<>>)
       \/ /\ r.op = "bridge" /\ TwoLegs(r) /\ HasPool(r.from, ONEX)
          /\ PrepareSwap(c, [r EXCEPT !.to = ONEX], <<SecondLeg(r)>>)
       \/ r.op = "add" /\ PrepareAdd(c, r)
       \/ r.op = "remove" /\ PrepareRemove(c, r)
       \/ PrepareOther(c, r)
  /\ served' = served + 1
  /\ UNCHANGED <<pools, platform, nodeBal, day, menu, crashes>>

\* The second leg of BridgeExecute, which may be refused: the first one stays.
AcceptLeg(c) ==
  /\ client[c].pc = "leg"
  /\ LET r == client[c].req
     IN  \/ PrepareSwap(c, r, <<>>)
         \/ /\ ~SwapQuoted(r) \/ ~CanLoad
            /\ client' = [client EXCEPT ![c] = Idle]
            /\ UNCHANGED <<cache, holder, file>>
  /\ UNCHANGED <<pools, platform, nodeBal, day, bounds>>

-----------------------------------------------------------------------------
(* A request from its GetPortfolio to its answer. *)

Serving(c, op) == client[c].pc = "loaded" /\ client[c].req.op = op

Elsewhere == UNCHANGED <<pools, platform, nodeBal, day, bounds>>

\* The lists read: GET of the portfolio, the tasks, stakes, loans, NFTs.
Read(c) == Serving(c, "read") /\ Drop(c, client[c].p) /\ Elsewhere

Stake(c) ==
  LET p == client[c].p  r == client[c].req
      receipt == r.amt + r.amt \div BonusBase
  IN  /\ Serving(c, "stake")
      /\ \/ /\ Covers(p, r.pool.stake, r.amt)
            /\ Done(c, [Credit(Debit(p, r.pool.stake, r.amt), r.pool.receipt, receipt)
                          EXCEPT !.stakes = Append(@,
                            [pool |-> r.pool, amt |-> r.amt, receipt |-> receipt,
                             from |-> day, until |-> day + r.pool.lock, active |-> TRUE])],
                    "first-stake")
         \/ ~Covers(p, r.pool.stake, r.amt) /\ Drop(c, p)
      /\ Elsewhere

StakeReward(s, t) == (s.amt * s.pool.apy * (t - s.from)) \div RewardBase

\* The receipts are taken back and the principal returned with its reward; a
\* locked or closed stake, or missing receipts, change nothing.
Unstake(c) ==
  LET p == client[c].p  i == client[c].req.id
      open == /\ i \in DOMAIN p.stakes /\ p.stakes[i].active /\ day >= p.stakes[i].until
              /\ Covers(p, p.stakes[i].pool.receipt, p.stakes[i].receipt)
  IN  /\ Serving(c, "unstake")
      /\ \/ /\ open
            /\ LET s == p.stakes[i]
                   q == Debit(p, s.pool.receipt, s.receipt)
               IN  Done(c, [Credit(q, s.pool.stake, s.amt + StakeReward(s, day))
                              EXCEPT !.stakes[i].active = FALSE], "none")
         \/ ~open /\ Drop(c, p)
      /\ Elsewhere

\* Deposits count at once on the OneX chain only, others wait for ever; an error
\* of the save ends the request before the task.
RecordDeposit(c) ==
  LET p == client[c].p  r == client[c].req
      own == r.key \in OnexKey
      q == [IF own THEN Credit(p, r.key, r.amt) ELSE p EXCEPT !.deposits =
              Append(@, [key |-> r.key, amt |-> r.amt,
                         status |-> IF own THEN "confirmed" ELSE "pending"])]
  IN  /\ Serving(c, "deposit")
      /\ Done(c, q, "deposit") \/ (Faulty(menu) /\ Done(c, q, "none"))
      /\ Elsewhere

\* SwapExecute at the registry's rate.
SwapExecute(c) ==
  LET p == client[c].p  r == client[c].req
      out == (r.amt * Rate[r.from, r.to]) \div RateBase
  IN  /\ Serving(c, "swap")
      /\ \/ /\ Covers(p, r.from, r.amt)
            /\ Done(c, [Credit(Debit(p, r.from, r.amt), r.to, out) EXCEPT !.swaps =
                          Append(@, [from |-> r.from, to |-> r.to, in |-> r.amt, out |-> out])],
                    "first-swap")
         \/ ~Covers(p, r.from, r.amt) /\ Drop(c, p)
      /\ Elsewhere

\* The portfolio is saved before the pool is put back: c has still to do so.
SaveFirst(c, p) ==
  /\ cache' = p /\ holder' = c
  /\ file' \in IF Faulty(menu) THEN {file, p} ELSE {p}
  /\ client' = [client EXCEPT ![c].pc = "update", ![c].p = p]

OneXSwapExecute(c) ==
  LET p == client[c].p  r == client[c].req
  IN  /\ Serving(c, "amm")
      /\ \/ /\ Covers(p, r.from, r.amt)
            /\ SaveFirst(c, Credit(Debit(p, r.from, r.amt), r.to, client[c].work.out))
         \/ ~Covers(p, r.from, r.amt) /\ Drop(c, p)
      /\ Elsewhere

\* When the second token is missing the first one is gone all the same.
OneXSwapAddLiquidity(c) ==
  LET p == client[c].p  r == client[c].req
      q == Debit(p, r.t0, r.a0)
  IN  /\ Serving(c, "add")
      /\ \/ /\ Covers(p, r.t0, r.a0) /\ Covers(q, r.t1, r.a1)
            /\ SaveFirst(c, Credit(Debit(q, r.t1, r.a1),
                                   LpKey[client[c].work.id], client[c].work.out))
         \/ Covers(p, r.t0, r.a0) /\ ~Covers(q, r.t1, r.a1) /\ Drop(c, q)
         \/ ~Covers(p, r.t0, r.a0) /\ Drop(c, p)
      /\ Elsewhere

\* Mutant: the shares are left in the portfolio.
OneXSwapRemoveLiquidity_kept(c) ==
  LET p == client[c].p  r == client[c].req  out == client[c].work.out
  IN  /\ Serving(c, "remove")
      /\ Covers(p, LpKey[r.pool], r.shares)
      /\ SaveFirst(c, Credit(Credit(p, r.pool[1], out[1]), r.pool[2], out[2]))
      /\ Elsewhere

\* All the shares asked for are taken, those the pool did not burn included.
OneXSwapRemoveLiquidity(c) ==
  LET p == client[c].p  r == client[c].req  out == client[c].work.out
      q == Debit(p, LpKey[r.pool], r.shares)
  IN  /\ Serving(c, "remove")
      /\ \/ /\ Covers(p, LpKey[r.pool], r.shares)
            /\ SaveFirst(c, Credit(Credit(q, r.pool[1], out[1]), r.pool[2], out[2]))
         \/ ~Covers(p, LpKey[r.pool], r.shares) /\ Drop(c, p)
      /\ Elsewhere

\* Store.Update puts the copy in the place of whatever the pool is by now.  A
\* swap is then recorded, its task completed, and a second leg may follow.
UpdatePool(c) ==
  LET p == client[c].p  r == client[c].req  w == client[c].work
  IN  /\ client[c].pc = "update"
      /\ pools' = [pools EXCEPT ![w.id] = w.copy]
      /\ \/ /\ r.op = "amm"
            /\ LET q == [p EXCEPT !.swaps =
                          Append(@, [from |-> r.from, to |-> r.to, in |-> r.amt, out |-> w.out])]
                   last == completeTask(q, "first-swap")
               IN  /\ cache' = last /\ holder' = Nobody
                   /\ file' \in IF Faulty(menu) THEN {file, q, last} ELSE {last}
            /\ client' = [client EXCEPT ![c] =
                 IF client[c].next = <<>> THEN Idle
                 ELSE [pc |-> "leg", req |-> Head(client[c].next)]]
         \/ /\ r.op \in {"add", "remove"}
            /\ client' = [client EXCEPT ![c] = Idle]
            /\ holder' = IF holder = c THEN Nobody ELSE holder
            /\ UNCHANGED <<cache, file>>
      /\ UNCHANGED <<platform, nodeBal, day, bounds>>

MintNFT(c) ==
  /\ Serving(c, "mint")
  /\ Done(c, [client[c].p EXCEPT !.nfts = Append(@, "self")], "mint-nft")
  /\ Elsewhere

\* Whoever owns it now.
TransferNFT(c) ==
  LET p == client[c].p  r == client[c].req
  IN  /\ Serving(c, "give")
      /\ \/ r.id \in DOMAIN p.nfts /\ Done(c, [p EXCEPT !.nfts[r.id] = r.to], "none")
         \/ r.id \notin DOMAIN p.nfts /\ Drop(c, p)
      /\ Elsewhere

CompleteTask(c) ==
  LET p == client[c].p  r == client[c].req
  IN  /\ Serving(c, "task")
      /\ \/ r.id \notin p.done /\ Done(c, p, r.id)
         \/ r.id \in p.done /\ Drop(c, p)
      /\ Elsewhere

\* The collateral is taken before the debt is parsed: an amount that does not
\* parse leaves it taken.
CreateLoan(c) ==
  LET p == client[c].p  r == client[c].req
      q == Debit(p, r.colKey, r.col)
      lent == IF r.type = "borrow" THEN Credit(q, r.debtKey, r.debt) ELSE q
  IN  /\ Serving(c, "loan")
      /\ \/ /\ Covers(p, r.colKey, r.col) /\ r.debt # BadAmount
            /\ Done(c, [lent EXCEPT !.loans = Append(@,
                 [type |-> r.type, colKey |-> r.colKey, col |-> r.col,
                  debtKey |-> r.debtKey, debt |-> r.debt, active |-> TRUE])], "none")
         \/ Covers(p, r.colKey, r.col) /\ r.debt = BadAmount /\ Drop(c, q)
         \/ ~Covers(p, r.colKey, r.col) /\ Drop(c, p)
      /\ Elsewhere

RepayLoan(c) ==
  LET p == client[c].p  i == client[c].req.id
      open == /\ i \in DOMAIN p.loans /\ p.loans[i].active
              /\ Covers(p, p.loans[i].debtKey, p.loans[i].debt)
  IN  /\ Serving(c, "repay")
      /\ \/ /\ open
            /\ LET l == p.loans[i]
               IN  Done(c, [Credit(Debit(p, l.debtKey, l.debt), l.colKey, l.col)
                              EXCEPT !.loans[i].active = FALSE], "none")
         \/ ~open /\ Drop(c, p)
      /\ Elsewhere

\* A token other than ONEX is "sent" by forgetting it.
SendToken(c) ==
  LET p == client[c].p  r == client[c].req
  IN  /\ Serving(c, "send")
      /\ \/ Covers(p, r.key, r.amt) /\ Done(c, Debit(p, r.key, r.amt), "none")
         \/ ~Covers(p, r.key, r.amt) /\ Drop(c, p)
      /\ Elsewhere

\* ONEX is sent by the node: its balance falls when the transfer is mined.
Send(c) ==
  /\ client[c] = Idle /\ c \in Using(menu) /\ served < MaxServed
  /\ \E r \in Offered(menu) : /\ r.op = "send" /\ r.key = ONEX /\ nodeBal >= r.amt
                              /\ nodeBal' \in {nodeBal, nodeBal - r.amt}
  /\ served' = served + 1
  /\ UNCHANGED <<cache, holder, file, pools, platform, day, client, menu, crashes>>

-----------------------------------------------------------------------------
(* The token platform. *)

\* The list of tokens is read, and an id taken that it does not have: the
\* symbol's own, or one with a random suffix.  Listed tokens are not asked: a new
\* token may have the key of one.
AcceptDeploy(c) ==
  /\ client[c] = Idle /\ c \in Using(menu) /\ served < MaxServed
  /\ \E r \in Offered(menu) :
       /\ r.op = "deploy"
       /\ \E k \in IF r.key \in DOMAIN tokens THEN SuffixedKey ELSE {r.key} :
            /\ k \notin DOMAIN tokens
            /\ client' = [client EXCEPT ![c] =
                 [pc |-> "deploy", req |-> [r EXCEPT !.key = k], work |-> tokens]]
  /\ served' = served + 1
  /\ UNCHANGED <<cache, holder, file, pools, platform, nodeBal, day, menu, crashes>>

\* The token is written to the list read before, registered, and its supply
\* credited; the portfolio is loaded once more for the task, which in
\* production takes the supply away again.  Either file may refuse the write,
\* which ends the request: after the first write the token is left without its
\* supply.
DeployPlatformToken(c) ==
  LET r == client[c].req
      p == Synced(Load, TRUE)
      q == [Credit(p, r.key, r.supply) EXCEPT !.created = @ \cup {r.key}]
      listed == [k \in DOMAIN client[c].work \cup {r.key} |->
                  IF k = r.key THEN [supply |-> r.supply, origin |-> "none", wrapped |-> 0]
                  ELSE client[c].work[k]]
      ends == /\ client' = [client EXCEPT ![c] = Idle]
              /\ UNCHANGED <<cache, holder, file>>
  IN  /\ client[c].pc = "deploy"
      /\ \/ /\ tokens' = listed /\ custom' = custom \cup {r.key}
            /\ (CanLoad /\ Done(c, Synced(q, TRUE), "create-token")) \/ (~CanLoad /\ ends)
         \/ Faulty(menu) /\ tokens' \in {tokens, listed} /\ UNCHANGED custom /\ ends
      /\ UNCHANGED <<pools, wraps, nodeBal, day, bounds>>

\* Mutant: a token wrapped before gets the new amount as its supply.
Wrapping_replaced(list, k, n) ==
  LET w == WrappedKey[k]
  IN  [t \in DOMAIN list \cup {w} |->
        IF t = w THEN [supply |-> n, origin |-> k,
                       wrapped |-> IF w \in DOMAIN list THEN list[w].wrapped ELSE 0]
        ELSE IF t = k THEN [list[t] EXCEPT !.wrapped = @ + n]
        ELSE list[t]]

\* The list of tokens after n of k were wrapped: the wrapped token is there or
\* gets more supply, and a platform token remembers what was wrapped of it.
Wrapping(list, k, n) ==
  LET w == WrappedKey[k]
      old == IF w \in DOMAIN list THEN list[w] ELSE [supply |-> 0, wrapped |-> 0]
  IN  [t \in DOMAIN list \cup {w} |->
        IF t = w THEN [supply |-> (old.supply + n) % Word, origin |-> k, wrapped |-> old.wrapped]
        ELSE IF t = k THEN [list[t] EXCEPT !.wrapped = @ + n]
        ELSE list[t]]

\* The registry, the tokens and the wraps are written before the balance is
\* touched; an error of the second or third write ends the request there.
WrapPlatformToken(c) ==
  LET p == client[c].p  r == client[c].req
      w == WrappedKey[r.key]
      known == r.key \in DOMAIN client[c].work \cup custom \cup Listed
      open  == known /\ Covers(p, r.key, r.amt)
      list  == Wrapping(client[c].work, r.key, r.amt)
  IN  /\ Serving(c, "wrap")
      /\ \/ /\ open
            /\ tokens' = list /\ custom' = custom \cup {w}
            /\ wraps' = Append(wraps, [origin |-> r.key, target |-> w, amt |-> r.amt])
            /\ Done(c, Credit(Debit(p, r.key, r.amt), w, r.amt), "none")
         \/ /\ open /\ Faulty(menu)
            /\ tokens' \in {tokens, list} /\ custom' = custom \cup {w} /\ UNCHANGED wraps
            /\ Drop(c, p)
         \/ ~open /\ Drop(c, p) /\ UNCHANGED platform
      /\ UNCHANGED <<pools, nodeBal, day, bounds>>

-----------------------------------------------------------------------------
(* The environment. *)

Tick == /\ day < MaxDay /\ day' = day + 1
        /\ UNCHANGED <<cache, holder, file, pools, platform, nodeBal, client, bounds>>

\* The process stops and starts again.  os.WriteFile truncates first: the file
\* being written may be lost, and unreadable pools are no pools.
Crash ==
  /\ crashes < MaxCrashes /\ Faulty(menu)
  /\ cache' = NoPortfolio /\ holder' = Nobody
  /\ client' = [c \in Client |-> Idle]
  /\ file' \in {file} \cup (IF client = [c \in Client |-> Idle] THEN {} ELSE {Unreadable})
  /\ pools' \in {pools} \cup (IF \E c \in Client : client[c].pc = "update"
                              THEN {[q \in Pairs |-> NoPool]} ELSE {})
  /\ crashes' = crashes + 1
  /\ UNCHANGED <<platform, nodeBal, day, menu, served>>

Serve(c) ==
  \/ Accept(c) \/ AcceptLeg(c) \/ AcceptDeploy(c) \/ Send(c)
  \/ Read(c) \/ Stake(c) \/ Unstake(c) \/ RecordDeposit(c) \/ SwapExecute(c)
  \/ OneXSwapExecute(c) \/ OneXSwapAddLiquidity(c) \/ OneXSwapRemoveLiquidity(c)
  \/ UpdatePool(c) \/ MintNFT(c) \/ TransferNFT(c) \/ CompleteTask(c)
  \/ CreateLoan(c) \/ RepayLoan(c) \/ SendToken(c)
  \/ DeployPlatformToken(c) \/ WrapPlatformToken(c)

Next == (\E c \in Client : Serve(c)) \/ Tick \/ Crash

Spec == Init /\ [][Next]_vars
-----------------------------------------------------------------------------
(* Properties. *)

PortfolioOK(p) ==
  /\ p.bal \in [Key -> UInt] /\ p.done \subseteq DOMAIN Reward
  /\ \A i \in DOMAIN p.stakes : p.stakes[i].pool \in StakePools
  /\ \A i \in DOMAIN p.nfts : p.nfts[i] \in {"self", "other"}

\* The portfolios, pools and registers of the daemon have their types, and the
\* cached object belongs to at most one request, which still runs.
BridgeTypeOK ==
  /\ menu \in Menu /\ holder \in Client \cup {Nobody}
  /\ cache = NoPortfolio \/ PortfolioOK(cache)
  /\ file \in {NoPortfolio, Unreadable} \/ PortfolioOK(file)
  /\ pools \in [Pairs -> PoolState \cup {NoPool}]
  /\ custom \subseteq Key /\ DOMAIN tokens \subseteq Key
  /\ holder # Nobody => client[holder].pc \in {"loaded", "update"}

\* Requests are served one after the other and every write succeeds.
Serial == ~Faulty(menu) /\ \E c \in Client : Using(menu) = {c}
Quiet  == \A c \in Client : client[c] = Idle

Sum(list, Amount(_)) == Total([i \in DOMAIN list |-> Amount(list[i])])

\* What the records of a portfolio say was paid into k, and out of it.
PaidIn(p, k) ==
  Prefunded[k]
  + Total([t \in p.done |-> IF Reward[t].key = k THEN Reward[t].amt ELSE 0])
  + Sum(p.deposits, LAMBDA d : IF d.key = k /\ d.status = "confirmed" THEN d.amt ELSE 0)
  + Sum(p.swaps, LAMBDA s : IF s.to = k THEN s.out ELSE 0)
  + Sum(p.stakes, LAMBDA s : IF s.pool.receipt = k THEN s.receipt ELSE 0)
  + Sum(p.stakes, LAMBDA s : IF s.pool.stake = k /\ ~s.active
                             THEN s.amt + StakeReward(s, day) ELSE 0)
  + Sum(p.loans, LAMBDA l : IF l.debtKey = k /\ l.type = "borrow" THEN l.debt ELSE 0)
  + Sum(p.loans, LAMBDA l : IF l.colKey = k /\ ~l.active THEN l.col ELSE 0)

PaidOut(p, k) ==
    Sum(p.swaps, LAMBDA s : IF s.from = k THEN s.in ELSE 0)
  + Sum(p.stakes, LAMBDA s : IF s.pool.stake = k THEN s.amt ELSE 0)
  + Sum(p.stakes, LAMBDA s : IF s.pool.receipt = k /\ ~s.active THEN s.receipt ELSE 0)
  + Sum(p.loans, LAMBDA l : IF l.colKey = k THEN l.col ELSE 0)
  + Sum(p.loans, LAMBDA l : IF l.debtKey = k /\ ~l.active THEN l.debt ELSE 0)

\* The requests that keep a record of what they pay in.  Without the requests of
\* the first line there are only the pools of the configuration, through which
\* a swap does not go.
Recorded(r) ==
  /\ r.op \notin {"amm", "add", "remove", "bridge", "deploy", "wrap"}
  /\ r.op = "swap" => \A q \in Pairs : {q[1], q[2]} = {r.from, r.to} => SeedPools[q] = NoPool

\* However requests overlap, whichever fail halfway, are lost to another's save,
\* to a failed write or to a crash: no copy of the portfolio, in memory, in the
\* file or held by a request, has more of a token than its own records explain.
\* A lost update loses the balance together with the record that pays it back
\* (Stake, Unstake, RecordDeposit, SwapExecute, CreateLoan, RepayLoan,
\* completeTask).  ONEX is excepted, being read from the node.
Explained ==
  ~Production(menu) /\ (\A r \in Offered(menu) : Recorded(r)) =>
    \A p \in {cache, file} \cup {client[c].p : c \in {x \in Client : client[x].pc = "loaded"}} :
      p \notin {NoPortfolio, Unreadable} =>
        \A k \in Key \ {ONEX} : p.bal[k] + PaidOut(p, k) <= PaidIn(p, k)

\* Liquidity is offered in the order of the pool.
InPoolOrder(r) == r.op # "add" \/ <<r.t0, r.t1>> \in Pairs

Reserve(ps, k) ==
    Total([q \in Pairs |-> IF ps[q] # NoPool /\ q[1] = k THEN ps[q].r0 ELSE 0])
  + Total([q \in Pairs |-> IF ps[q] # NoPool /\ q[2] = k THEN ps[q].r1 ELSE 0])

ThroughPools ==
  Serial /\ ~Production(menu) /\ Quiet
    /\ \A r \in Offered(menu) : r.op \in {"amm", "add", "remove", "bridge"} /\ InPoolOrder(r)

Held(k) == Load.bal[k] + Reserve(pools, k)

\* Swaps, bridge routes of two legs and liquidity move a token between the
\* wallet and the pools and never make any: what both hold is at most what both
\* started with (OneXSwapExecute, OneXSwapAddLiquidity, OneXSwapRemoveLiquidity,
\* BridgeExecute).  It may be less: a deposit that lacks its second token loses
\* the first.
PooledConserved ==
  ThroughPools => \A k \in Key \ ({ONEX} \cup {LpKey[q] : q \in Pairs}) :
    Held(k) <= Prefunded[k] + Reserve(SeedPools, k)
               + Total([t \in Load.done |-> IF Reward[t].key = k THEN Reward[t].amt ELSE 0])

\* What onexswap.go:117 says of ONEX, which the node holds: "Swaps selling ONEX
\* will reflect after syncOneXBalance on next GetPortfolio."  ONEX paid into a
\* pool is no longer in the wallet.
OnexConserved ==
  ThroughPools => Held(ONEX) <= NodeBalance + Reserve(SeedPools, ONEX)

\* Shares are only paid in and out of their own pool.  The code does not see to
\* that: a loan may name any key (CreateLoan), and so may a new pool.
SharesApart ==
  /\ \A q \in Pairs : {q[1], q[2]} \cap ShareKeys = {}
  /\ \A r \in Offered(menu) : r.op = "loan" => {r.colKey, r.debtKey} \cap ShareKeys = {}

\* The wallet never holds more of a pool's shares than the pool knows of,
\* although RemoveLiquidity burns fewer than it takes and the portfolio is
\* written before the pool.
LpBacked ==
  Serial /\ Quiet /\ SharesApart =>
    \A q \in Pairs : Load.bal[LpKey[q]] <= IF pools[q] = NoPool THEN 0 ELSE pools[q].shares

PoolOf(q) == INSTANCE Pool WITH
  pool <- IF pools[q] = NoPool THEN EmptyPool ELSE pools[q]

\* However the copies taken of a pool are put back, over one another's and after
\* a torn file: no pool is left with shares and an empty side, on which the next
\* deposit would divide by zero (amm.Pool.AddLiquidity).
ReservesBacked == \A q \in Pairs : PoolOf(q)!SharesBacked

\* With one request at a time, and in spite of the copy that is taken before the
\* wallet is checked and put back after it is saved, each pool only makes the
\* steps of the abstract pool: the file never goes back to an older state
\* (OneXSwapExecute, Store.Get, Store.Update).
PoolsImplement ==
  [][Serial => \A q \in Pairs : pools'[q] # pools[q] => PoolOf(q)!PoolNext]_vars

\* The wrapped form of k is had by wrapping k only.  The code does not see to
\* that: a loan, a deposit or a new token may name its key, and the short hash
\* of WrapTokenID may give it to another token as well.
WrapApart(k) ==
  LET w == WrappedKey[k]
  IN  /\ \A o \in DOMAIN WrappedKey : WrappedKey[o] = w => o = k
      /\ w \notin {ONEX} \cup SuffixedKey \cup ShareKeys
      /\ \A q \in Pairs : w \notin {q[1], q[2]}
      /\ \A t \in DOMAIN Reward : Reward[t].key # w
      /\ \A s \in StakePools : w \notin {s.stake, s.receipt}
      /\ Prefunded[w] = 0 /\ OnChain[w] = 0 /\ \A o \in Key : Rate[o, w] = 0
      /\ \A r \in Offered(menu) :
           /\ r.op = "loan" => w \notin {r.colKey, r.debtKey}
           /\ r.op \in {"deposit", "deploy"} => r.key # w

Wrapped(k) == Sum(wraps, LAMBDA r : IF r.origin = k THEN r.amt ELSE 0)

\* A wrapped token's supply is what the records of wraps add up to, as a uint64,
\* nobody holds more of it, and its origin, when it is a platform token,
\* remembers as much: the three writes of WrapPlatformToken agree as long as
\* they succeed one after the other.  (A token deployed under the key of a
\* listed one knows of its own wraps only.)
WrappedBacked ==
  Serial /\ Quiet =>
    \A k \in DOMAIN WrappedKey :
      LET w == WrappedKey[k]
      IN  /\ WrapApart(k) /\ w \in DOMAIN tokens =>
               tokens[w].supply = Wrapped(k) % Word /\ Load.bal[w] <= Wrapped(k)
          /\ k \in DOMAIN tokens => tokens[k].wrapped <= Wrapped(k)
          /\ k \in DOMAIN tokens \ Listed => tokens[k].wrapped = Wrapped(k)
=============================================================================
