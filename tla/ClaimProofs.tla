---------------------------- MODULE ClaimProofs ----------------------------
(***************************************************************************)
(* A pool's shares and a wrapped token are claims on what the daemon has   *)
(* taken in: with one request at a time, the wallet never has more of them *)
(* than were given out for it.                                             *)
(***************************************************************************)
EXTENDS BridgeProofs

-----------------------------------------------------------------------------
(* A set K of keys of which only its own requests may give any: a bound b on *)
(* what a portfolio has of them.                                             *)

\* No loan gives any of K back.
LoansOff(p, K) == \A i \in DOMAIN p.loans : p.loans[i].colKey \notin K

Off(p, K, b) == LoansOff(p, K) /\ \A k \in K : p.bal[k] <= b[k]

\* Neither the node, the chains, the tasks, the stakes nor the registry's rates
\* give any.
Outside(K, b) ==
  /\ K \subseteq Key /\ ONEX \notin K /\ b \in [Key -> UInt]
  /\ \A t \in DOMAIN Reward : Reward[t].key \notin K
  /\ \A s \in StakePools : s.stake \notin K /\ s.receipt \notin K
  /\ \A k \in K : OnChain[k] = 0 /\ \A o \in Key : Rate[o, k] = 0

\* A loan, and a deposit that counts, name none of K.
NamesNone(r, K) ==
  /\ r.op = "loan" => r.colKey \notin K /\ r.debtKey \notin K
  /\ r.op = "deposit" => r.key \notin OnexKey \cap K

LEMMA OutsideTypes ==
  ASSUME NEW K, NEW b, Outside(K, b)
  PROVE  K \subseteq Key /\ \A k \in K : k \in Key /\ b[k] \in Nat
BY Integers64 DEF Outside

\* A portfolio that has no more of them stays within the bound.
LEMMA OffLess ==
  ASSUME NEW K, NEW b, Outside(K, b), NEW p \in Portfolio, NEW r \in Portfolio,
         Off(p, K, b), LoansOff(r, K), \A k \in K : r.bal[k] <= p.bal[k]
  PROVE  Off(r, K, b)
<1> SUFFICES ASSUME NEW k \in K PROVE r.bal[k] <= b[k]
  BY DEF Off
<1>1. k \in Key /\ b[k] \in Int
  BY OutsideTypes
<1>2. p.bal[k] \in Int /\ r.bal[k] \in Int
  BY <1>1, BalanceType
<1>3. r.bal[k] <= p.bal[k] /\ p.bal[k] <= b[k]
  BY DEF Off
<1> QED
  BY <1>1, <1>2, <1>3

\* So does one whose other fields have changed,
LEMMA OffSame ==
  ASSUME NEW K, NEW b, NEW p, NEW r, Off(p, K, b), r.bal = p.bal, r.loans = p.loans
  PROVE  Off(r, K, b)
BY DEF Off, LoansOff

\* one that pays,
LEMMA OffDebit ==
  ASSUME NEW K, NEW b, Outside(K, b), NEW p \in Portfolio, Off(p, K, b),
         NEW a \in Key, NEW n \in Nat, Covers(p, a, n)
  PROVE  Debit(p, a, n) \in Portfolio /\ Off(Debit(p, a, n), K, b)
<1> DEFINE r == Debit(p, a, n)
<1>1. r \in Portfolio /\ SameRecords(p, r) /\ \A k \in Key : r.bal[k] = p.bal[k] - (IF k = a THEN n ELSE 0)
  BY DebitBalances
<1> HIDE DEF r
<1>2. \A k \in Key : p.bal[k] \in Int
  BY BalanceType
<1>3. \A k \in Key : r.bal[k] <= p.bal[k]
  BY <1>1, <1>2
<1>4. \A k \in K : r.bal[k] <= p.bal[k]
  BY <1>3, OutsideTypes
<1>5. LoansOff(r, K)
  BY <1>1 DEF Off, LoansOff, SameRecords
<1>6. Off(r, K, b)
  BY <1>1, <1>4, <1>5, OffLess
<1> QED
  BY <1>1, <1>6 DEF r

\* or one that is paid something else.
LEMMA OffCredit ==
  ASSUME NEW K, NEW b, Outside(K, b), NEW p \in Portfolio, Off(p, K, b),
         NEW a \in Key, NEW n \in Int, a \notin K \/ n = 0
  PROVE  Credit(p, a, n) \in Portfolio /\ Off(Credit(p, a, n), K, b)
<1> DEFINE r == Credit(p, a, n)
<1>1. r \in Portfolio /\ r.loans = p.loans
  <2>1. r.loans = p.loans
    BY DEF Credit, Portfolio
  <2> QED
    BY <2>1, CreditOK
<1>2. ASSUME NEW k \in K PROVE r.bal[k] <= p.bal[k]
  <2>1. k \in Key /\ p.bal[k] \in Nat /\ p.bal \in [Key -> UInt]
    BY OutsideTypes, PortfolioFields, Integers64
  <2>2. CASE k # a
    <3>1. r.bal[k] = p.bal[k]
      BY <2>1, <2>2 DEF Credit, Portfolio
    <3> QED
      BY <2>1, <3>1
  <2>3. CASE k = a
    <3>1. n = 0
      BY <2>3
    <3>2. r.bal[k] <= p.bal[k] + 0
      BY <2>1, <2>3, <3>1, CreditBalances
    <3> QED
      BY <1>1, <2>1, <3>2, BalanceType
  <2> QED
    BY <2>2, <2>3
<1> HIDE DEF r
<1>3. LoansOff(r, K)
  BY <1>1 DEF Off, LoansOff
<1>4. Off(r, K, b)
  BY <1>1, <1>2, <1>3, OffLess
<1> QED
  BY <1>1, <1>4 DEF r

LEMMA OffTask ==
  ASSUME NEW K, NEW b, Outside(K, b), NEW p \in Portfolio, Off(p, K, b), NEW t \in DOMAIN Reward
  PROVE  completeTask(p, t) \in Portfolio /\ Off(completeTask(p, t), K, b)
<1> DEFINE q == Credit(p, Reward[t].key, Reward[t].amt)
           r == [q EXCEPT !.done = @ \cup {t}]
<1>1. Reward[t].key \in Key /\ Reward[t].amt \in Nat
  BY BridgeAssumption
<1>2. Reward[t].key \notin K
  BY DEF Outside
<1>3. q \in Portfolio /\ Off(q, K, b)
  BY <1>1, <1>2, OffCredit
<1> HIDE DEF q
<1>4. r.bal = q.bal /\ r.loans = q.loans
  BY <1>3 DEF Portfolio
<1> HIDE DEF r
<1>5. Off(r, K, b)
  BY <1>3, <1>4, OffSame
<1>6. completeTask(p, t) = p \/ completeTask(p, t) = r
  BY DEF completeTask, r, q
<1> QED
  BY <1>5, <1>6, TaskOK

LEMMA OffSynced ==
  ASSUME NEW K, NEW b, Outside(K, b), NEW p \in Portfolio, Off(p, K, b), nodeBal \in UInt, NEW up
  PROVE  Synced(p, up) \in Portfolio /\ Off(Synced(p, up), K, b)
<1> DEFINE r == Synced(p, up)
<1>1. r \in Portfolio
  BY SyncedOK
<1>2. r.loans = p.loans
  BY DEF Synced, Portfolio
<1>3. ASSUME NEW k \in K PROVE r.bal[k] <= p.bal[k]
  <2>1. k \in Key /\ k # ONEX /\ OnChain[k] = 0
    BY DEF Outside
  <2>2. r.bal[k] = IF Production(menu) THEN OnChain[k] ELSE p.bal[k]
    BY <2>1 DEF Synced, Portfolio
  <2>3. p.bal[k] \in Nat
    BY <2>1, PortfolioFields, Integers64
  <2> HIDE DEF r
  <2> QED
    BY <2>1, <2>2, <2>3
<1>4. LoansOff(r, K)
  BY <1>2 DEF Off, LoansOff
<1> HIDE DEF r
<1>5. Off(r, K, b)
  BY <1>1, <1>3, <1>4, OffLess
<1> QED
  BY <1>1, <1>5 DEF r

\* Records of other things than loans give nothing back.
LEMMA OffRecords ==
  ASSUME NEW K, NEW b, NEW p \in Portfolio, Off(p, K, b)
  PROVE  /\ \A l : Off([p EXCEPT !.stakes = l], K, b)
         /\ \A l : Off([p EXCEPT !.deposits = l], K, b)
         /\ \A l : Off([p EXCEPT !.swaps = l], K, b)
         /\ \A l : Off([p EXCEPT !.nfts = l], K, b)
         /\ \A l : Off([p EXCEPT !.created = l], K, b)
BY DEF Off, LoansOff, Portfolio

-----------------------------------------------------------------------------
(* The requests that end with their portfolio. *)

\* The request c has the cached copy, which is within the bound.
HasOff(c, K, b) ==
  /\ Copies /\ client[c].pc = "loaded"
  /\ client[c].p = cache /\ cache \in Portfolio /\ Off(cache, K, b)

KeepsOff(K, b) == cache' \in Portfolio /\ Off(cache', K, b)

\* What c has, to begin with.
LEMMA OffCopy ==
  ASSUME NEW K, NEW b, NEW c \in Client, HasOff(c, K, b)
  PROVE  /\ client[c].p \in Portfolio /\ Off(client[c].p, K, b)
         /\ client[c].req.op \notin {"amm", "add", "remove"} => client[c].req \in PlainRequest
<1>1. client[c].p \in Portfolio /\ Off(client[c].p, K, b)
  BY DEF HasOff
<1>2. RequestsOK /\ client[c].pc = "loaded"
  BY DEF HasOff, Copies
<1>3. ServedOK(client[c])
  BY <1>2, WhatIsServed
<1>4. client[c].req.op \notin {"amm", "add", "remove"} => client[c].req \in PlainRequest
  <2>1. \A r \in PoolRequest : r.op \in {"amm", "add", "remove"}
    BY DEF PoolRequest, PoolSwap, handleOneXSwapAddLiq, handleOneXSwapRemoveLiq
  <2> QED
    BY <1>3, <2>1 DEF ServedOK
<1> QED
  BY <1>1, <1>4

\* Swaps at the registry's rates pay none:
LEMMA OffRate ==
  ASSUME NEW K, NEW b, Outside(K, b), NEW o \in Key, NEW k \in K
  PROVE  Rate[o, k] = 0
<1>1. \A x \in Key : Rate[x, k] = 0
  BY Zenon DEF Outside
<1> QED
  BY Zenon, <1>1

\* nothing comes out of them.
LEMMA NothingOut ==
  ASSUME NEW a \in Nat, NEW n \in Nat, n = 0, NEW d \in Nat \ {0}
  PROVE  (a * n) \div d = 0
<1>1. a * n = 0
  BY SMT
<1>2. 0 \div d = 0
  BY SMT
<1> QED
  BY <1>1, <1>2

\* A request ends with a portfolio within the bound,
LEMMA OffDone ==
  ASSUME NEW K, NEW b, Outside(K, b), NEW c \in Client, NEW p \in Portfolio, Off(p, K, b),
         NEW t \in DOMAIN Reward \cup {"none"}, Done(c, p, t)
  PROVE  KeepsOff(K, b)
<1> DEFINE last == IF t = "none" THEN p ELSE completeTask(p, t)
<1>1. last \in Portfolio /\ Off(last, K, b)
  BY OffTask
<1>2. cache' = last
  BY DEF Done
<1> HIDE DEF last
<1> QED
  BY <1>1, <1>2 DEF KeepsOff

\* or fails with one.
LEMMA OffDrops ==
  ASSUME NEW K, NEW b, NEW c \in Client, HasOff(c, K, b), NEW p \in Portfolio, Off(p, K, b), Drop(c, p)
  PROVE  KeepsOff(K, b)
<1>1. cache' \in {cache, p}
  BY DEF Drop
<1> QED
  BY <1>1 DEF KeepsOff, HasOff

\* A payment for something else.
LEMMA OffExchange ==
  ASSUME NEW K, NEW b, Outside(K, b), NEW p \in Portfolio, Off(p, K, b),
         NEW a \in Key, NEW n \in Nat, Covers(p, a, n), NEW o \in Key, NEW m \in Int, o \notin K \/ m = 0
  PROVE  Credit(Debit(p, a, n), o, m) \in Portfolio /\ Off(Credit(Debit(p, a, n), o, m), K, b)
<1> DEFINE d == Debit(p, a, n)
<1>1. d \in Portfolio /\ Off(d, K, b)
  BY OffDebit
<1> HIDE DEF d
<1>2. Credit(d, o, m) \in Portfolio /\ Off(Credit(d, o, m), K, b)
  BY <1>1, OffCredit
<1> QED
  BY <1>2 DEF d

\* The requests that only hold the portfolio: reading,
LEMMA ReadOff ==
  ASSUME NEW K, NEW b, Outside(K, b), NEW c \in Client, HasOff(c, K, b), Read(c)
  PROVE  KeepsOff(K, b)
BY OffCopy, OffDrops DEF Read

\* staking, which pays receipts,
LEMMA StakeOff ==
  ASSUME NEW K, NEW b, Outside(K, b), NEW c \in Client, HasOff(c, K, b), Stake(c), day \in Nat
  PROVE  KeepsOff(K, b)
<1> DEFINE p == client[c].p
           r == client[c].req
           receipt == r.amt + r.amt \div BonusBase
           rec == [pool |-> r.pool, amt |-> r.amt, receipt |-> receipt,
                   from |-> day, until |-> day + r.pool.lock, active |-> TRUE]
           d == Credit(Debit(p, r.pool.stake, r.amt), r.pool.receipt, receipt)
           q == [d EXCEPT !.stakes = Append(@, rec)]
<1>1. p \in Portfolio /\ Off(p, K, b)
  BY OffCopy
<1>2. r \in PlainRequest /\ r.op = "stake"
  BY OffCopy DEF Stake, Serving
<1>3. /\ r.pool \in StakePools /\ r.amt \in Nat /\ BonusBase \in Nat \ {0} /\ r.pool.lock \in Nat
      /\ r.pool.stake \in Key /\ r.pool.receipt \in Key /\ r.pool.receipt \notin K
  <2>1. r.pool \in StakePools /\ r.amt \in Nat
    BY <1>2, PlainFields, Integers64
  <2>2. \A s \in StakePools : s.lock \in Nat /\ s.stake \in Key /\ s.receipt \in Key
    BY BridgeAssumption
  <2>3. \A s \in StakePools : s.receipt \notin K
    BY Zenon DEF Outside
  <2>4. BonusBase \in Nat \ {0}
    BY BridgeAssumption
  <2> HIDE DEF r
  <2> QED
    BY <2>1, <2>2, <2>3, <2>4
<1>4. receipt \in Nat
  BY <1>3
<1>5. rec \in StakeRecord
  BY <1>3, <1>4 DEF StakeRecord
<1>6. (Covers(p, r.pool.stake, r.amt) /\ Done(c, q, "first-stake")) \/ Drop(c, p)
  BY DEF Stake
<1> HIDE DEF p, rec, receipt
<1>7. CASE Covers(p, r.pool.stake, r.amt) /\ Done(c, q, "first-stake")
  <2>1. d \in Portfolio /\ Off(d, K, b)
    BY <1>1, <1>3, <1>4, <1>7, OffExchange
  <2> HIDE DEF d
  <2>2. q \in Portfolio /\ Off(q, K, b)
    BY <1>5, <2>1, RecordsOK, OffRecords
  <2> HIDE DEF q
  <2> QED
    BY <1>1, <1>7, <2>2, OffDone, BridgeAssumption
<1>8. CASE Drop(c, p)
  BY <1>1, <1>8, OffDrops
<1> QED
  BY <1>6, <1>7, <1>8

\* unstaking,
LEMMA UnstakeOff ==
  ASSUME NEW K, NEW b, Outside(K, b), NEW c \in Client, HasOff(c, K, b), Unstake(c), day \in Nat
  PROVE  KeepsOff(K, b)
<1> DEFINE p == client[c].p
           i == client[c].req.id
           s == p.stakes[i]
           d == Credit(Debit(p, s.pool.receipt, s.receipt), s.pool.stake, s.amt + StakeReward(s, day))
           q == [d EXCEPT !.stakes[i].active = FALSE]
           open == /\ i \in DOMAIN p.stakes /\ s.active /\ day >= s.until
                   /\ Covers(p, s.pool.receipt, s.receipt)
<1>1. p \in Portfolio /\ Off(p, K, b)
  BY OffCopy
<1>2. (open /\ Done(c, q, "none")) \/ Drop(c, p)
  BY DEF Unstake
<1> HIDE DEF p, i
<1>3. CASE open /\ Done(c, q, "none")
  <2>1. s \in StakeRecord
    BY <1>1, <1>3, PortfolioFields, ListDomain
  <2>2. StakeReward(s, day) \in Int
    BY <2>1, RewardGrows
  <2>3. s.pool \in StakePools /\ s.receipt \in Nat /\ s.amt \in Nat
    BY <2>1 DEF StakeRecord
  <2>4. s.pool.receipt \in Key /\ s.pool.stake \in Key /\ s.pool.stake \notin K
    <3>1. \A x \in StakePools : x.stake \notin K
      BY Zenon DEF Outside
    <3> QED
      BY <2>3, <3>1, BridgeAssumption
  <2> DEFINE n == s.amt + StakeReward(s, day)
  <2>5. n \in Int
    BY <2>2, <2>3
  <2>6. d \in Portfolio /\ Off(d, K, b) /\ d.stakes = p.stakes
    <3> DEFINE e == Debit(p, s.pool.receipt, s.receipt)
    <3>1. Covers(p, s.pool.receipt, s.receipt)
      BY <1>3
    <3> HIDE DEF n
    <3>2. e \in Portfolio /\ Off(e, K, b) /\ SameRecords(p, e)
      BY <1>1, <2>3, <2>4, <3>1, OffDebit, DebitBalances
    <3> HIDE DEF e
    <3>3. Credit(e, s.pool.stake, n) \in Portfolio /\ Off(Credit(e, s.pool.stake, n), K, b)
      BY <1>1, <2>4, <2>5, <3>2, OffCredit
    <3>4. Credit(e, s.pool.stake, n).stakes = e.stakes
      BY <3>2 DEF Credit, Portfolio
    <3> QED
      BY <3>2, <3>3, <3>4 DEF e, n, SameRecords
  <2> HIDE DEF d
  <2>7. i \in DOMAIN d.stakes
    BY <1>3, <2>6
  <2>8. q \in Portfolio
    BY <2>6, <2>7, ClosedOK
  <2>9. q.bal = d.bal /\ q.loans = d.loans
    BY <2>6 DEF Portfolio
  <2>10. Done(c, q, "none")
    BY <1>3
  <2> HIDE DEF q
  <2>11. Off(q, K, b)
    BY <2>6, <2>9, OffSame
  <2> QED
    BY <1>1, <2>8, <2>10, <2>11, OffDone
<1>4. CASE Drop(c, p)
  BY <1>1, <1>4, OffDrops
<1> QED
  BY <1>2, <1>3, <1>4

\* a deposit, counted on the chain of the daemon only,
LEMMA DepositOff ==
  ASSUME NEW K, NEW b, Outside(K, b), NEW c \in Client, HasOff(c, K, b), RecordDeposit(c),
         NamesNone(client[c].req, K)
  PROVE  KeepsOff(K, b)
<1> DEFINE p == client[c].p
           r == client[c].req
           own == r.key \in OnexKey
           rec == [key |-> r.key, amt |-> r.amt, status |-> IF own THEN "confirmed" ELSE "pending"]
           d == IF own THEN Credit(p, r.key, r.amt) ELSE p
           q == [d EXCEPT !.deposits = Append(@, rec)]
<1>1. p \in Portfolio /\ Off(p, K, b)
  BY OffCopy
<1>2. r \in PlainRequest /\ r.op = "deposit"
  BY OffCopy DEF RecordDeposit, Serving
<1>3. r.key \in Key /\ r.amt \in Nat
  BY <1>2, PlainFields, Integers64
<1>4. Done(c, q, "deposit") \/ Done(c, q, "none")
  BY DEF RecordDeposit
<1> HIDE DEF p
<1>5. rec \in DepositRecord
  BY <1>3 DEF DepositRecord
<1> HIDE DEF rec
<1>6. d \in Portfolio /\ Off(d, K, b)
  <2>1. own => r.key \notin K
    BY <1>2 DEF NamesNone
  <2>2. own => Credit(p, r.key, r.amt) \in Portfolio /\ Off(Credit(p, r.key, r.amt), K, b)
    BY <1>1, <1>3, <2>1, OffCredit
  <2> QED
    BY <1>1, <2>2
<1> HIDE DEF d
<1>7. q \in Portfolio /\ Off(q, K, b)
  BY <1>5, <1>6, RecordsOK, OffRecords
<1> HIDE DEF q
<1> QED
  BY <1>1, <1>4, <1>7, OffDone, BridgeAssumption

\* a swap at the rate of the registry,
LEMMA SwapOff ==
  ASSUME NEW K, NEW b, Outside(K, b), NEW c \in Client, HasOff(c, K, b), SwapExecute(c)
  PROVE  KeepsOff(K, b)
<1> DEFINE p == client[c].p
           r == client[c].req
           out == (r.amt * Rate[r.from, r.to]) \div RateBase
           rec == [from |-> r.from, to |-> r.to, in |-> r.amt, out |-> out]
           d == Credit(Debit(p, r.from, r.amt), r.to, out)
           q == [d EXCEPT !.swaps = Append(@, rec)]
<1>1. p \in Portfolio /\ Off(p, K, b)
  BY OffCopy
<1>2. r \in PlainRequest /\ r.op = "swap"
  BY OffCopy DEF SwapExecute, Serving
<1>3. r.from \in Key /\ r.to \in Key /\ r.amt \in Nat
  BY <1>2, PlainFields, Integers64
<1>4. (Covers(p, r.from, r.amt) /\ Done(c, q, "first-swap")) \/ Drop(c, p)
  BY DEF SwapExecute
<1> HIDE DEF p
<1>5. out \in Nat /\ (r.to \notin K \/ out = 0)
  <2> DEFINE rate == Rate[r.from, r.to]
  <2>1. rate \in Nat
    <3>1. Rate \in [Key \X Key -> Nat]
      BY BridgeAssumption
    <3>2. <<r.from, r.to>> \in Key \X Key
      BY <1>3
    <3> QED
      BY <3>1, <3>2
  <2>2. r.to \in K => rate = 0
    BY <1>3, OffRate
  <2>3. RateBase \in Nat \ {0}
    BY BridgeAssumption
  <2> HIDE DEF rate, r
  <2>4. r.amt * rate \in Nat
    BY <1>3, <2>1, ProductType
  <2>5. (r.amt * rate) \div RateBase \in Nat
    BY <2>3, <2>4, Quotient
  <2>6. r.to \in K => (r.amt * rate) \div RateBase = 0
    BY <1>3, <2>1, <2>2, <2>3, NothingOut
  <2> QED
    BY <2>5, <2>6 DEF rate, r
<1> HIDE DEF out
<1>6. rec \in SwapRecord
  BY <1>3, <1>5 DEF SwapRecord
<1> HIDE DEF rec
<1>7. CASE Covers(p, r.from, r.amt) /\ Done(c, q, "first-swap")
  <2>1. d \in Portfolio /\ Off(d, K, b)
    BY <1>1, <1>3, <1>5, <1>7, OffExchange
  <2> HIDE DEF d
  <2>2. q \in Portfolio /\ Off(q, K, b)
    BY <1>6, <2>1, RecordsOK, OffRecords
  <2> HIDE DEF q
  <2> QED
    BY <1>1, <1>7, <2>2, OffDone, BridgeAssumption
<1>8. CASE Drop(c, p)
  BY <1>1, <1>8, OffDrops
<1> QED
  BY <1>4, <1>7, <1>8

\* the collectibles,
LEMMA NftOff ==
  ASSUME NEW K, NEW b, Outside(K, b), NEW c \in Client, HasOff(c, K, b), MintNFT(c) \/ TransferNFT(c)
  PROVE  KeepsOff(K, b)
<1> DEFINE p == client[c].p
           r == client[c].req
<1>1. p \in Portfolio /\ Off(p, K, b)
  BY OffCopy
<1>2. "mint-nft" \in DOMAIN Reward
  BY BridgeAssumption
<1>3. CASE MintNFT(c)
  <2> DEFINE q == [p EXCEPT !.nfts = Append(@, "self")]
  <2>1. Done(c, q, "mint-nft")
    BY <1>3 DEF MintNFT
  <2> HIDE DEF p
  <2>2. q \in Portfolio /\ Off(q, K, b)
    BY <1>1, RecordsOK, OffRecords
  <2> HIDE DEF q
  <2> QED
    BY <1>1, <1>2, <2>1, <2>2, OffDone
<1>4. CASE TransferNFT(c)
  <2> DEFINE l == [p.nfts EXCEPT ![r.id] = r.to]
             q == [p EXCEPT !.nfts[r.id] = r.to]
  <2>1. r \in PlainRequest /\ r.op = "give"
    BY <1>4, OffCopy DEF TransferNFT, Serving
  <2>2. r.to = "other"
    BY <2>1, PlainFields
  <2>3. (r.id \in DOMAIN p.nfts /\ Done(c, q, "none")) \/ Drop(c, p)
    BY <1>4 DEF TransferNFT
  <2>4. CASE Drop(c, p)
    BY <1>1, <2>4, OffDrops
  <2>5. CASE r.id \in DOMAIN p.nfts /\ Done(c, q, "none")
    <3>1. l \in Seq({"self", "other"})
      BY <1>1, <2>2, <2>5, PortfolioFields
    <3>2. q = [p EXCEPT !.nfts = l]
      OBVIOUS
    <3> HIDE DEF l, p
    <3>3. q \in Portfolio /\ Off(q, K, b)
      BY <1>1, <3>1, <3>2, ListsOK, OffRecords
    <3> HIDE DEF q
    <3> QED
      BY <1>1, <2>5, <3>3, OffDone
  <2> QED
    BY <2>3, <2>4, <2>5
<1> QED
  BY <1>3, <1>4

\* a task,
LEMMA TaskOff ==
  ASSUME NEW K, NEW b, Outside(K, b), NEW c \in Client, HasOff(c, K, b), CompleteTask(c)
  PROVE  KeepsOff(K, b)
<1>1. client[c].p \in Portfolio /\ Off(client[c].p, K, b)
  BY OffCopy
<1>2. client[c].req \in PlainRequest /\ client[c].req.op = "task"
  BY OffCopy DEF CompleteTask, Serving
<1>3. client[c].req.id \in DOMAIN Reward
  BY <1>2, PlainFields
<1>4. Done(c, client[c].p, client[c].req.id) \/ Drop(c, client[c].p)
  BY DEF CompleteTask
<1> QED
  BY <1>1, <1>3, <1>4, OffDone, OffDrops

\* A loan that names none of them.
LEMMA LoanOff ==
  ASSUME NEW K, NEW b, Outside(K, b), NEW c \in Client, HasOff(c, K, b), CreateLoan(c),
         NamesNone(client[c].req, K)
  PROVE  KeepsOff(K, b)
<1> DEFINE p == client[c].p
           r == client[c].req
           q == Debit(p, r.colKey, r.col)
           lent == IF r.type = "borrow" THEN Credit(q, r.debtKey, r.debt) ELSE q
           rec == [type |-> r.type, colKey |-> r.colKey, col |-> r.col,
                   debtKey |-> r.debtKey, debt |-> r.debt, active |-> TRUE]
           last == [lent EXCEPT !.loans = Append(@, rec)]
<1>1. p \in Portfolio /\ Off(p, K, b)
  BY OffCopy
<1>2. r \in PlainRequest /\ r.op = "loan"
  BY OffCopy DEF CreateLoan, Serving
<1>3. /\ r.type \in {"borrow", "lend"} /\ r.colKey \in Key /\ r.col \in Nat /\ r.debtKey \in Key
      /\ r.debt # BadAmount => r.debt \in Nat
  BY <1>2, PlainFields, Integers64
<1>4. \/ Covers(p, r.colKey, r.col) /\ r.debt # BadAmount /\ Done(c, last, "none")
      \/ Covers(p, r.colKey, r.col) /\ Drop(c, q)
      \/ Drop(c, p)
  BY DEF CreateLoan
<1>5. r.colKey \notin K /\ r.debtKey \notin K
  BY <1>2 DEF NamesNone
<1> HIDE DEF p, r
<1>6. CASE Drop(c, p)
  BY <1>1, <1>6, OffDrops
<1>7. CASE Covers(p, r.colKey, r.col) /\ Drop(c, q)
  <2>1. q \in Portfolio /\ Off(q, K, b)
    BY <1>1, <1>3, <1>7, OffDebit
  <2> HIDE DEF q
  <2> QED
    BY <1>7, <2>1, OffDrops
<1>8. CASE Covers(p, r.colKey, r.col) /\ r.debt # BadAmount /\ Done(c, last, "none")
  <2>1. q \in Portfolio /\ Off(q, K, b)
    BY <1>1, <1>3, <1>8, OffDebit
  <2> HIDE DEF q
  <2>2. lent \in Portfolio /\ Off(lent, K, b)
    BY <1>1, <1>3, <1>5, <1>8, <2>1, OffCredit
  <2>3. rec \in LoanRecord /\ rec.colKey = r.colKey
    BY <1>3, <1>8 DEF LoanRecord
  <2> HIDE DEF lent, rec
  <2>4. last \in Portfolio
    BY <2>2, <2>3, RecordsOK
  <2>5. last.bal = lent.bal /\ last.loans = Append(lent.loans, rec) /\ lent.loans \in Seq(LoanRecord)
    BY <2>2 DEF Portfolio
  <2>6. Done(c, last, "none")
    BY <1>8
  <2> HIDE DEF last
  <2>7. ASSUME NEW j \in DOMAIN last.loans PROVE last.loans[j].colKey \notin K
    <3>1. (j \in DOMAIN lent.loans /\ last.loans[j] = lent.loans[j]) \/ last.loans[j] = rec
      BY <2>5, <2>7
    <3> QED
      BY <1>5, <2>2, <2>3, <3>1 DEF Off, LoansOff
  <2>8. Off(last, K, b)
    BY <2>2, <2>5, <2>7 DEF Off, LoansOff
  <2> QED
    BY <1>1, <2>4, <2>6, <2>8, OffDone
<1> QED
  BY <1>4, <1>6, <1>7, <1>8

\* Repaying a loan gives back what was taken for it.
LEMMA RepayOff ==
  ASSUME NEW K, NEW b, Outside(K, b), NEW c \in Client, HasOff(c, K, b), RepayLoan(c)
  PROVE  KeepsOff(K, b)
<1> DEFINE p == client[c].p
           i == client[c].req.id
           l == p.loans[i]
           v == Credit(Debit(p, l.debtKey, l.debt), l.colKey, l.col)
           q == [v EXCEPT !.loans[i].active = FALSE]
           open == i \in DOMAIN p.loans /\ l.active /\ Covers(p, l.debtKey, l.debt)
<1>1. p \in Portfolio /\ Off(p, K, b)
  BY OffCopy
<1>2. (open /\ Done(c, q, "none")) \/ Drop(c, p)
  BY DEF RepayLoan
<1> HIDE DEF p, i
<1>3. CASE Drop(c, p)
  BY <1>1, <1>3, OffDrops
<1>4. CASE open /\ Done(c, q, "none")
  <2>1. l \in LoanRecord
    BY <1>1, <1>4, PortfolioFields, ListDomain
  <2>2. l.debtKey \in Key /\ l.debt \in Nat /\ l.colKey \in Key /\ l.col \in Nat
    BY <2>1 DEF LoanRecord
  <2>3. l.colKey \notin K
    BY <1>1, <1>4 DEF Off, LoansOff
  <2>4. v \in Portfolio /\ Off(v, K, b) /\ SameRecords(p, v)
    <3>1. Covers(p, l.debtKey, l.debt)
      BY <1>4
    <3> HIDE DEF l
    <3>2. v \in Portfolio /\ Off(v, K, b)
      BY <1>1, <2>2, <2>3, <3>1, OffExchange
    <3>3. SameRecords(p, v)
      BY <1>1, <2>2, <3>1, ExchangeBalances
    <3> QED
      BY <3>2, <3>3
  <2> HIDE DEF v
  <2>5. i \in DOMAIN v.loans /\ v.loans \in Seq(LoanRecord) /\ v.loans = p.loans
    BY <1>4, <2>4, PortfolioFields DEF SameRecords
  <2>6. q \in Portfolio
    BY <2>4, <2>5, ClosedOK
  <2>7. q.bal = v.bal /\ q.loans = [v.loans EXCEPT ![i].active = FALSE]
    BY <2>4 DEF Portfolio
  <2>8. Done(c, q, "none")
    BY <1>4
  <2> HIDE DEF q
  <2>9. ASSUME NEW j \in DOMAIN q.loans PROVE q.loans[j].colKey \notin K
    <3>1. j \in DOMAIN v.loans
      BY <2>7, <2>9
    <3>2. v.loans[j] \in LoanRecord /\ v.loans[j].colKey \notin K
      BY <2>4, <2>5, <3>1, ListDomain DEF Off, LoansOff
    <3>3. q.loans[j].colKey = v.loans[j].colKey
      BY <2>5, <2>7, <3>1, <3>2 DEF LoanRecord
    <3> QED
      BY <3>2, <3>3
  <2>10. Off(q, K, b)
    BY <2>4, <2>7, <2>9 DEF Off, LoansOff
  <2> QED
    BY <1>1, <2>6, <2>8, <2>10, OffDone
<1> QED
  BY <1>2, <1>3, <1>4

\* Sending a token,
LEMMA SendOff ==
  ASSUME NEW K, NEW b, Outside(K, b), NEW c \in Client, HasOff(c, K, b), SendToken(c)
  PROVE  KeepsOff(K, b)
<1> DEFINE p == client[c].p
           r == client[c].req
           q == Debit(p, r.key, r.amt)
<1>1. p \in Portfolio /\ Off(p, K, b)
  BY OffCopy
<1>2. r \in PlainRequest /\ r.op = "send"
  BY OffCopy DEF SendToken, Serving
<1>3. r.key \in Key /\ r.amt \in Nat
  BY <1>2, PlainFields, Integers64
<1>4. (Covers(p, r.key, r.amt) /\ Done(c, q, "none")) \/ Drop(c, p)
  BY DEF SendToken
<1>5. Covers(p, r.key, r.amt) => q \in Portfolio /\ Off(q, K, b)
  BY <1>1, <1>3, OffDebit
<1> HIDE DEF p, q
<1> QED
  BY <1>1, <1>4, <1>5, OffDone, OffDrops

\* and wrapping one into a token that is none of them, pay none.
LEMMA WrapOff ==
  ASSUME NEW K, NEW b, Outside(K, b), NEW c \in Client, HasOff(c, K, b), WrapPlatformToken(c),
         WrappedKey[client[c].req.key] \notin K
  PROVE  KeepsOff(K, b)
<1> DEFINE p == client[c].p
           r == client[c].req
           w == WrappedKey[r.key]
           q == Credit(Debit(p, r.key, r.amt), w, r.amt)
<1>1. p \in Portfolio /\ Off(p, K, b)
  BY OffCopy
<1>2. r \in PlainRequest /\ r.op = "wrap"
  BY OffCopy DEF WrapPlatformToken, Serving
<1>3. r.key \in DOMAIN WrappedKey /\ r.key \in Key /\ r.amt \in Nat
  BY <1>2, PlainFields, Integers64
<1>4. w \in Key /\ w \notin K
  BY <1>3, BridgeAssumption
<1>5. (Covers(p, r.key, r.amt) /\ Done(c, q, "none")) \/ Drop(c, p)
  BY DEF WrapPlatformToken
<1>6. Covers(p, r.key, r.amt) => q \in Portfolio /\ Off(q, K, b)
  BY <1>1, <1>3, <1>4, OffExchange
<1> HIDE DEF p, q
<1> QED
  BY <1>1, <1>5, <1>6, OffDone, OffDrops

\* A deployed token that is none of them,
LEMMA DeployOff ==
  ASSUME NEW K, NEW b, Outside(K, b), Copies, nodeBal \in UInt, NEW c \in Client, DeployPlatformToken(c), CanLoad,
         ~Faulty(menu), Off(Load, K, b), client[c].req.key \notin K
  PROVE  KeepsOff(K, b)
<1> DEFINE r == client[c].req
           p == Synced(Load, TRUE)
           d == Credit(p, r.key, r.supply)
           q == [d EXCEPT !.created = @ \cup {r.key}]
<1>1. r \in handlePlatformDeploy
  <2>1. RequestOK(client[c]) /\ client[c].pc = "deploy"
    BY DEF Copies, RequestsOK, DeployPlatformToken
  <2> QED
    BY <2>1 DEF RequestOK, Idle, ServedOK
<1>2. r.key \in Key /\ r.supply \in Nat /\ r.key \notin K
  BY <1>1, BridgeAssumption, Integers64 DEF handlePlatformDeploy
<1>3. Load \in Portfolio
  BY LoadOK DEF Copies
<1>4. Done(c, Synced(q, TRUE), "create-token")
  BY DEF DeployPlatformToken
<1>5. p \in Portfolio /\ Off(p, K, b)
  BY <1>3, OffSynced
<1> HIDE DEF p
<1>6. d \in Portfolio /\ Off(d, K, b)
  BY <1>2, <1>3, <1>5, OffCredit
<1> HIDE DEF d
<1>7. q \in Portfolio /\ Off(q, K, b)
  <2>1. q \in Portfolio
    BY <1>2, <1>6 DEF Portfolio
  <2>2. Off(q, K, b)
    BY <1>6, OffRecords
  <2> QED
    BY <2>1, <2>2
<1> HIDE DEF q
<1>8. Synced(q, TRUE) \in Portfolio /\ Off(Synced(q, TRUE), K, b)
  BY <1>3, <1>7, OffSynced
<1>9. "create-token" \in DOMAIN Reward
  BY BridgeAssumption
<1> QED
  BY <1>4, <1>8, <1>9, OffDone

-----------------------------------------------------------------------------

\* What c asks for names none of K.
Aside(r, K) ==
  /\ r.pc \in {"loaded", "update"} => NamesNone(r.req, K)
  /\ r.pc = "deploy" => r.req.key \notin K

\* So that no request gives any of K, but a wrap into K.
LEMMA EndingOff ==
  ASSUME NEW K, Outside(K, Load.bal), BridgeInv, Serial, CopyCurrent, LoansOff(Load, K),
         NEW c \in Client, Ending(c), Aside(client[c], K),
         WrapPlatformToken(c) => WrappedKey[client[c].req.key] \notin K
  PROVE  KeepsOff(K, Load.bal)
<1> DEFINE b == Load.bal
<1>1. RequestsOK /\ Copies /\ nodeBal \in UInt /\ day \in Nat /\ ~Faulty(menu)
  BY DEF BridgeInv, Copies, Serial
<1>2. CanLoad /\ Load \in Portfolio
  BY <1>1, LoadCurrent
<1>3. Outside(K, b) /\ Off(Load, K, b)
  <2>1. \A k \in K : Load.bal[k] <= b[k]
    <3>1. \A k \in K : b[k] \in Nat
      BY OutsideTypes
    <3> QED
      BY <3>1
  <2> QED
    BY <2>1 DEF Off
<1>4. client[c].pc \in {"loaded", "deploy"}
  BY EndingEnds
<1>5. ASSUME client[c].pc = "loaded" PROVE HasOff(c, K, b) /\ NamesNone(client[c].req, K)
  BY <1>1, <1>2, <1>3, <1>5, LoadCurrent DEF HasOff, CopyCurrent, Aside
<1> HIDE DEF b
<1>6. CASE Read(c) \/ Stake(c) \/ Unstake(c) \/ RecordDeposit(c) \/ SwapExecute(c)
  <2>1. HasOff(c, K, b) /\ NamesNone(client[c].req, K)
    BY <1>5, <1>6 DEF Read, Stake, Unstake, RecordDeposit, SwapExecute, Serving
  <2>2. KeepsOff(K, b)
    BY <1>1, <1>3, <1>6, <2>1, ReadOff, StakeOff, UnstakeOff, DepositOff, SwapOff
  <2> QED
    BY <2>2 DEF b
<1>7. CASE MintNFT(c) \/ TransferNFT(c) \/ CompleteTask(c) \/ RepayLoan(c) \/ SendToken(c)
  <2>1. HasOff(c, K, b)
    BY <1>5, <1>7 DEF MintNFT, TransferNFT, CompleteTask, RepayLoan, SendToken, Serving
  <2>2. KeepsOff(K, b)
    BY <1>3, <1>7, <2>1, NftOff, TaskOff, RepayOff, SendOff
  <2> QED
    BY <2>2 DEF b
<1>8. CASE WrapPlatformToken(c) \/ CreateLoan(c)
  <2>1. HasOff(c, K, b) /\ NamesNone(client[c].req, K)
    BY <1>5, <1>8 DEF WrapPlatformToken, CreateLoan, Serving
  <2>2. KeepsOff(K, b)
    BY <1>3, <1>8, <2>1, WrapOff, LoanOff
  <2> QED
    BY <2>2 DEF b
<1>9. CASE DeployPlatformToken(c)
  <2>1. client[c].req.key \notin K
    BY <1>9 DEF DeployPlatformToken, Aside
  <2>2. KeepsOff(K, b)
    BY <1>1, <1>2, <1>3, <1>9, <2>1, DeployOff
  <2> QED
    BY <2>2 DEF b
<1> QED
  BY <1>6, <1>7, <1>8, <1>9 DEF Ending

-----------------------------------------------------------------------------
(* A request names none of K where the menu does not. *)

MenuAside(K) ==
  /\ \A r \in Offered(menu) : NamesNone(r, K) /\ (r.op = "deploy" => r.key \notin K)
  /\ SuffixedKey \cap K = {}

Asides(K) == Serial /\ MenuAside(K) => \A c \in Client : Aside(client[c], K)

LEMMA AsidePrepared ==
  ASSUME menu \in Menu, NEW K, MenuAside(K), NEW c \in Client, Accept(c)
  PROVE  \E s, w, next : GetPortfolio(c, s, w, next) /\ NamesNone(s, K)
<1> DEFINE Swaps == handleOneXSwapExec \cup handleSwap \cup handleBridgeExec \cup PoolSwap
           Goal == \E s, w, next : GetPortfolio(c, s, w, next) /\ NamesNone(s, K)
<1>1. PICK r \in Offered(menu) :
        \/ SwapByPool(r) /\ PrepareSwap(c, r, <<>>)
        \/ r.op = "bridge" /\ PrepareSwap(c, r, <<>>)
        \/ r.op = "bridge" /\ PrepareSwap(c, [r EXCEPT !.to = ONEX], <<SecondLeg(r)>>)
        \/ r.op = "add" /\ PrepareAdd(c, r)
        \/ r.op = "remove" /\ PrepareRemove(c, r)
        \/ PrepareOther(c, r)
  BY DEF Accept
<1>2. NamesNone(r, K)
  BY DEF MenuAside
<1>3. /\ r.op \in {"amm", "swap", "bridge"} => r \in Swaps
      /\ r.op = "add" => r \in handleOneXSwapAddLiq
      /\ r.op = "remove" => r \in handleOneXSwapRemoveLiq
  BY OfferedRequests
<1>4. ASSUME NEW s \in Swaps, NEW next, PrepareSwap(c, s, next) PROVE Goal
  <2> DEFINE z == [s EXCEPT !.op = "amm"]
             q == PoolID(s.from, s.to)
             w == [id |-> q, copy |-> Swap(pools[q], s.from = q[1], s.amt),
                   out |-> AmountOut(pools[q], s.from = q[1], s.amt)]
  <2>1. z.op = "amm"
    BY DEF handleOneXSwapExec, handleSwap, handleBridgeExec, PoolSwap
  <2>2. GetPortfolio(c, z, w, next)
    BY <1>4 DEF PrepareSwap
  <2> HIDE DEF z, w
  <2> QED
    BY <2>1, <2>2 DEF NamesNone
<1>5. CASE (SwapByPool(r) \/ r.op = "bridge") /\ PrepareSwap(c, r, <<>>)
  <2>1. r.op \in {"amm", "swap", "bridge"}
    BY <1>5 DEF SwapByPool
  <2> QED
    BY <1>3, <1>4, <1>5, <2>1
<1>6. CASE r.op = "bridge" /\ PrepareSwap(c, [r EXCEPT !.to = ONEX], <<SecondLeg(r)>>)
  <2>1. [r EXCEPT !.to = ONEX] \in Swaps
    BY <1>3, <1>6, KeptAsSwap, BridgeAssumption
  <2> QED
    BY <1>4, <1>6, <2>1
<1>7. CASE r.op = "add" /\ PrepareAdd(c, r)
  <2> DEFINE S(q) == IF pools[q] = NoPool /\ r.t0 = q[2]
                     THEN [r EXCEPT !.t0 = r.t1, !.t1 = r.t0, !.a0 = r.a1, !.a1 = r.a0]
                     ELSE r
             Old(q) == IF pools[q] = NoPool THEN EmptyPool ELSE pools[q]
             W(q) == [id |-> q, copy |-> AddLiquidity(Old(q), S(q).a0, S(q).a1),
                      out |-> Minted(Old(q), S(q).a0, S(q).a1)]
  <2>1. PICK q \in Pairs : GetPortfolio(c, S(q), W(q), <<>>)
    BY <1>7 DEF PrepareAdd
  <2>2. r \in handleOneXSwapAddLiq
    BY <1>3, <1>7
  <2>3. S(q).op = "add"
    BY <2>2 DEF handleOneXSwapAddLiq
  <2> HIDE DEF S, W
  <2> QED
    BY <2>1, <2>3 DEF NamesNone
<1>8. CASE PrepareRemove(c, r) \/ PrepareOther(c, r)
  <2>1. PICK w, next : GetPortfolio(c, r, w, next)
    BY <1>8 DEF PrepareRemove, PrepareOther
  <2> QED
    BY <1>2, <2>1
<1> QED
  BY <1>1, <1>5, <1>6, <1>7, <1>8

\* A token is deployed under a key that is none of K either.
LEMMA AsideDeploys ==
  ASSUME BridgeInv, NEW K, MenuAside(K), NEW c \in Client, AcceptDeploy(c)
  PROVE  Aside(client[c], K)'
<1>1. RequestsOK /\ menu \in Menu
  BY DEF BridgeInv, Copies
<1>2. PICK r \in Offered(menu) :
        /\ r.op = "deploy"
        /\ \E k \in IF r.key \in DOMAIN tokens THEN SuffixedKey ELSE {r.key} :
             client' = [client EXCEPT ![c] = [pc |-> "deploy", req |-> [r EXCEPT !.key = k], work |-> tokens]]
  BY DEF AcceptDeploy
<1>3. PICK k \in {r.key} \cup SuffixedKey :
        client' = [client EXCEPT ![c] = [pc |-> "deploy", req |-> [r EXCEPT !.key = k], work |-> tokens]]
  BY <1>2
<1>4. k \notin K
  BY <1>2 DEF MenuAside
<1>5. r \in handlePlatformDeploy
  BY <1>1, <1>2, OfferedRequests
<1> DEFINE s == [r EXCEPT !.key = k]
<1>6. s.key = k
  BY <1>5 DEF handlePlatformDeploy
<1> HIDE DEF s
<1>7. client'[c] = [pc |-> "deploy", req |-> s, work |-> tokens]
  BY <1>1, <1>3, OneSet DEF s
<1>8. client'[c].pc = "deploy" /\ client'[c].req = s
  BY <1>7
<1> QED
  BY <1>4, <1>6, <1>8 DEF Aside

\* What c goes on with names none of K.
LEMMA AsideServes ==
  ASSUME BridgeInv, Serial, NEW K, MenuAside(K), NEW c \in Client, Aside(client[c], K),
         Serve(c) \/ BookStep(c)
  PROVE  Aside(client[c], K)'
<1>1. RequestsOK /\ menu \in Menu
  BY DEF BridgeInv, Copies
<1>2. ASSUME client'[c].pc \notin {"loaded", "update", "deploy"} PROVE Aside(client[c], K)'
  BY <1>2 DEF Aside
<1>3. ASSUME NEW s, NEW w, NEW next, GetPortfolio(c, s, w, next), NamesNone(s, K)
      PROVE  Aside(client[c], K)'
  <2>1. client'[c].pc = "loaded" /\ client'[c].req = s
    BY <1>1, <1>3, SerialLoads
  <2> QED
    BY <1>3, <2>1 DEF Aside, NamesNone
<1>4. ASSUME client' = [client EXCEPT ![c] = Idle] PROVE Aside(client[c], K)'
  <2>1. client'[c] = Idle
    BY <1>1, <1>4, OneSet
  <2> QED
    BY <1>2, <2>1 DEF Idle
<1>5. CASE Accept(c)
  BY <1>1, <1>3, <1>5, AsidePrepared
<1>6. CASE AcceptLeg(c)
  <2>1. CASE \E s, w, next : GetPortfolio(c, s, w, next) /\ PoolDeal(s, w)
    <3>1. PICK s, w, next : GetPortfolio(c, s, w, next) /\ PoolDeal(s, w)
      BY <2>1
    <3>2. NamesNone(s, K)
      BY <3>1 DEF NamesNone, PoolDeal
    <3> QED
      BY <1>3, <3>1, <3>2
  <2> QED
    BY <1>4, <1>6, <2>1, LegPrepared
<1>7. CASE AcceptDeploy(c)
  BY <1>7, AsideDeploys
<1>8. CASE Send(c)
  <2>1. client[c] = Idle /\ client' = client
    BY <1>8 DEF Send
  <2> QED
    BY <1>2, <2>1 DEF Idle
<1>9. ASSUME NEW p, SaveFirst(c, p), client[c].pc = "loaded" PROVE Aside(client[c], K)'
  <2>1. client'[c].pc = "update" /\ client'[c].req = client[c].req
    BY <1>1, <1>9, SerialSaves
  <2> QED
    BY <1>9, <2>1 DEF Aside, NamesNone
<1>10. CASE OneXSwapExecute(c) \/ OneXSwapAddLiquidity(c) \/ OneXSwapRemoveLiquidity(c)
  <2>1. client[c].pc = "loaded"
    BY <1>10 DEF OneXSwapExecute, OneXSwapAddLiquidity, OneXSwapRemoveLiquidity, Serving
  <2>2. (\E p : SaveFirst(c, p)) \/ (\E p : Drop(c, p))
    BY <1>10, Zenon DEF OneXSwapExecute, OneXSwapAddLiquidity, OneXSwapRemoveLiquidity
  <2> QED
    BY <1>4, <1>9, <2>1, <2>2 DEF Drop
<1>11. CASE UpdatePool(c)
  <2> DEFINE left == [pc |-> "leg", req |-> Head(client[c].next)]
             z == IF client[c].next = <<>> THEN Idle ELSE left
  <2>1. client' = [client EXCEPT ![c] = z] \/ client' = [client EXCEPT ![c] = Idle]
    BY <1>11 DEF UpdatePool
  <2>2. z.pc \in {"idle", "leg"}
    BY DEF Idle
  <2> HIDE DEF z
  <2>3. CASE client' = [client EXCEPT ![c] = z]
    <3>1. client'[c] = z
      BY <1>1, <2>3, OneSet
    <3> QED
      BY <1>2, <2>2, <3>1
  <2> QED
    BY <1>4, <2>1, <2>3
<1>12. CASE Ending(c)
  BY <1>4, <1>12, EndingEnds
<1>13. CASE BookStep(c)
  <2>1. client'[c].pc \notin {"loaded", "update", "deploy"}
    BY <1>1, <1>13, BookAside, OneSet
  <2> QED
    BY <1>2, <2>1
<1> QED
  BY <1>5, <1>6, <1>7, <1>8, <1>10, <1>11, <1>12, <1>13 DEF Serve, Ending

LEMMA AsidesStay ==
  ASSUME NEW K, DaemonInv, InUse, Asides(K), [DaemonNext]_<<vars, bookVars>>
  PROVE  Asides(K)'
<1>1. BridgeInv /\ RequestsOK /\ menu' = menu
  BY MenuStays DEF DaemonInv, BridgeInv, Copies
<1> SUFFICES ASSUME Serial, MenuAside(K) PROVE \A d \in Client : Aside(client[d], K)'
  BY <1>1 DEF Asides, Serial, MenuAside
<1>2. \A d \in Client : Aside(client[d], K)
  BY DEF Asides
<1>3. ASSUME NEW c \in Client, Serve(c) \/ BookStep(c), NEW d \in Client PROVE Aside(client[d], K)'
  <2>1. Aside(client[c], K)'
    BY <1>1, <1>2, <1>3, AsideServes
  <2>2. d # c => client'[d] = client[d]
    BY <1>1, <1>3, ServesAlone, BooksAlone DEF OthersStay
  <2> QED
    BY <1>2, <2>1, <2>2 DEF Aside, NamesNone
<1>4. ASSUME UNCHANGED client PROVE \A d \in Client : Aside(client[d], K)'
  BY <1>2, <1>4 DEF Aside, NamesNone
<1>5. ~DaemonCrash
  BY DEF DaemonCrash, Crash, Serial
<1> QED
  BY <1>3, <1>4, <1>5 DEF DaemonNext, Tick, vars

LEMMA AsidesStart ==
  ASSUME NEW K, DaemonInit
  PROVE  Asides(K)
BY DEF DaemonInit, Init, Asides, Aside, Idle

-----------------------------------------------------------------------------
(* The shares of a pool are only those it knows of. *)

SharesOf(b) == IF b = NoPool THEN 0 ELSE b.shares

\* A portfolio p with the pools ps: no loan gives a share back, and the pool of
\* every share knows of it.
Safe(p, ps) == LoansOff(p, ShareKeys) /\ \A q \in Pairs : p.bal[LpKey[q]] <= SharesOf(ps[q])

\* Share keys are keys, and shares are numbers.
LEMMA ShareTypes ==
  /\ ShareKeys \subseteq Key /\ \A q \in Pairs : LpKey[q] \in ShareKeys
  /\ \A ps \in [Pairs -> PoolState \cup {NoPool}] : \A q \in Pairs : SharesOf(ps[q]) \in Nat
BY BridgeAssumption DEF ShareKeys, SharesOf, PoolState

\* A portfolio that has no more shares is as safe.
LEMMA SafeLess ==
  ASSUME NEW ps \in [Pairs -> PoolState \cup {NoPool}], NEW p \in Portfolio, NEW r \in Portfolio,
         Safe(p, ps), LoansOff(r, ShareKeys), \A k \in ShareKeys : r.bal[k] <= p.bal[k]
  PROVE  Safe(r, ps)
<1> SUFFICES ASSUME NEW q \in Pairs PROVE r.bal[LpKey[q]] <= SharesOf(ps[q])
  BY DEF Safe
<1>1. LpKey[q] \in ShareKeys /\ LpKey[q] \in Key
  BY ShareTypes
<1>2. p.bal[LpKey[q]] \in Int /\ r.bal[LpKey[q]] \in Int
  BY <1>1, BalanceType
<1>3. SharesOf(ps[q]) \in Int
  BY ShareTypes
<1>4. r.bal[LpKey[q]] <= p.bal[LpKey[q]] /\ p.bal[LpKey[q]] <= SharesOf(ps[q])
  BY <1>1 DEF Safe
<1> QED
  BY <1>2, <1>3, <1>4

\* Nothing but a pool gives shares.
LEMMA SharesOutside ==
  ASSUME NEW b \in [Key -> UInt]
  PROVE  Outside(ShareKeys, b)
<1>1. ShareKeys \subseteq Key
  BY ShareTypes
<1>2. \A k \in ShareKeys : OnChain[k] = 0 /\ \A o \in Key : Rate[o, k] = 0
  BY Zenon, ShareKeyAssumption
<1>3. /\ ONEX \notin ShareKeys /\ \A t \in DOMAIN Reward : Reward[t].key \notin ShareKeys
      /\ \A s \in StakePools : s.stake \notin ShareKeys /\ s.receipt \notin ShareKeys
  BY Zenon, ShareKeyAssumption
<1> QED
  BY <1>1, <1>2, <1>3, Zenon DEF Outside

\* A portfolio is within the bound of what it has itself.
LEMMA OwnBound ==
  ASSUME NEW p \in Portfolio, NEW K, Outside(K, p.bal), LoansOff(p, K)
  PROVE  Off(p, K, p.bal)
<1>1. \A k \in K : p.bal[k] \in Nat
  BY OutsideTypes
<1> QED
  BY <1>1 DEF Off

\* Whatever stays within it is as safe:
LEMMA SafeOff ==
  ASSUME NEW ps \in [Pairs -> PoolState \cup {NoPool}], NEW p \in Portfolio, Safe(p, ps)
  PROVE  /\ Outside(ShareKeys, p.bal) /\ Off(p, ShareKeys, p.bal)
         /\ \A r \in Portfolio : Off(r, ShareKeys, p.bal) => Safe(r, ps)
<1>1. Outside(ShareKeys, p.bal)
  BY SharesOutside, PortfolioFields
<1>2. Off(p, ShareKeys, p.bal)
  BY <1>1, OwnBound DEF Safe
<1>3. ASSUME NEW r \in Portfolio, Off(r, ShareKeys, p.bal) PROVE Safe(r, ps)
  BY <1>3, SafeLess DEF Off
<1> QED
  BY <1>1, <1>2, <1>3

\* a portfolio that pays,
LEMMA SafeDebit ==
  ASSUME NEW ps \in [Pairs -> PoolState \cup {NoPool}], NEW p \in Portfolio, Safe(p, ps),
         NEW a \in Key, NEW n \in Nat, Covers(p, a, n)
  PROVE  Debit(p, a, n) \in Portfolio /\ Safe(Debit(p, a, n), ps)
<1> DEFINE r == Debit(p, a, n)
<1>1. r \in Portfolio /\ Off(r, ShareKeys, p.bal)
  BY SafeOff, OffDebit
<1> HIDE DEF r
<1>2. Safe(r, ps)
  BY <1>1, SafeOff
<1> QED
  BY <1>1, <1>2 DEF r

\* one that completes a task,
LEMMA SafeTask ==
  ASSUME NEW ps \in [Pairs -> PoolState \cup {NoPool}], NEW p \in Portfolio, Safe(p, ps),
         NEW t \in DOMAIN Reward
  PROVE  completeTask(p, t) \in Portfolio /\ Safe(completeTask(p, t), ps)
<1> DEFINE r == completeTask(p, t)
<1>1. r \in Portfolio /\ Off(r, ShareKeys, p.bal)
  BY SafeOff, OffTask
<1> HIDE DEF r
<1>2. Safe(r, ps)
  BY <1>1, SafeOff
<1> QED
  BY <1>1, <1>2 DEF r

\* and one that is brought up to date.
LEMMA SafeSynced ==
  ASSUME NEW ps \in [Pairs -> PoolState \cup {NoPool}], NEW p \in Portfolio, Safe(p, ps),
         nodeBal \in UInt, NEW up
  PROVE  Synced(p, up) \in Portfolio /\ Safe(Synced(p, up), ps)
<1> DEFINE r == Synced(p, up)
<1>1. r \in Portfolio /\ Off(r, ShareKeys, p.bal)
  BY SafeOff, OffSynced
<1> HIDE DEF r
<1>2. Safe(r, ps)
  BY <1>1, SafeOff
<1> QED
  BY <1>1, <1>2 DEF r

\* A new portfolio has none.
LEMMA SafeDefault ==
  ASSUME NEW ps \in [Pairs -> PoolState \cup {NoPool}]
  PROVE  Safe(DefaultPortfolio, ps)
<1>1. \A k \in ShareKeys : DefaultPortfolio.bal[k] = 0
  BY ShareTypes, ShareKeyAssumption DEF DefaultPortfolio
<1>2. DefaultPortfolio.loans = <<>>
  BY DEF DefaultPortfolio
<1> QED
  BY <1>1, <1>2, ShareTypes DEF Safe, LoansOff

\* A record of a swap changes nothing.
LEMMA SafeRecords ==
  ASSUME NEW ps, NEW p \in Portfolio, Safe(p, ps)
  PROVE  \A l : Safe([p EXCEPT !.swaps = l], ps)
BY DEF Safe, LoansOff, Portfolio

\* Before the pool is put back, the portfolio saved goes with the copy.
LpSafe ==
  Serial /\ SharesApart =>
    /\ (\A c \in Client : client[c].pc # "update") => Safe(Load, pools)
    /\ \A c \in Client : client[c].pc = "update" =>
         Safe(client[c].p, [pools EXCEPT ![client[c].work.id] = client[c].work.copy])

\* What it says when c is the only one served.
SafeAt(c) ==
  IF client[c].pc = "update"
  THEN Safe(client[c].p, [pools EXCEPT ![client[c].work.id] = client[c].work.copy])
  ELSE Safe(Load, pools)

-----------------------------------------------------------------------------
(* What a request does to the shares of the pool it works on. *)

\* A wallet that gets no more shares of q than the pool puts into the world.
LEMMA SafeMoves ==
  ASSUME PoolsBacked, NEW p \in Portfolio, NEW x \in Portfolio, Safe(p, pools), x.loans = p.loans,
         NEW q \in Pairs, NEW n \in PoolState, NEW d \in Int, d <= n.shares - SharesOf(pools[q]),
         \A k \in ShareKeys : x.bal[k] <= p.bal[k] + (IF k = LpKey[q] THEN d ELSE 0)
  PROVE  Safe(x, [pools EXCEPT ![q] = n])
<1> DEFINE ps == [pools EXCEPT ![q] = n]
<1>1. pools \in [Pairs -> PoolState \cup {NoPool}] /\ NoPool \notin PoolState
  BY BridgeAssumption DEF PoolsBacked
<1>2. ps[q] = n /\ \A o \in Pairs \ {q} : ps[o] = pools[o]
  BY <1>1
<1> HIDE DEF ps
<1>3. ASSUME NEW o \in Pairs PROVE x.bal[LpKey[o]] <= SharesOf(ps[o])
  <2> DEFINE k == LpKey[o]
  <2>1. k \in ShareKeys /\ k \in Key
    BY ShareTypes
  <2>2. /\ x.bal[k] \in Int /\ p.bal[k] \in Int /\ p.bal[k] <= SharesOf(pools[o])
        /\ SharesOf(pools[o]) \in Int
    BY <1>1, <2>1, ShareTypes, BalanceType DEF Safe
  <2>3. x.bal[k] <= p.bal[k] + (IF k = LpKey[q] THEN d ELSE 0)
    BY <2>1
  <2>4. k = LpKey[q] => o = q
    BY Zenon, ShareKeyAssumption
  <2> HIDE DEF k
  <2>5. CASE o = q
    <3>1. SharesOf(ps[o]) = n.shares /\ n.shares \in Int
      BY <1>1, <1>2, <2>5 DEF SharesOf, PoolState
    <3>2. k = LpKey[q]
      BY <2>5 DEF k
    <3>3. x.bal[k] <= SharesOf(ps[o])
      BY <2>2, <2>3, <2>5, <3>1, <3>2
    <3> QED
      BY <3>3 DEF k
  <2>6. CASE o # q
    <3>1. SharesOf(ps[o]) = SharesOf(pools[o])
      BY <1>2, <2>6 DEF SharesOf
    <3>2. x.bal[k] <= SharesOf(ps[o])
      BY <2>2, <2>3, <2>4, <2>6, <3>1
    <3> QED
      BY <3>2 DEF k
  <2> QED
    BY <2>5, <2>6
<1>4. LoansOff(x, ShareKeys)
  BY DEF Safe, LoansOff
<1>5. Safe(x, ps)
  BY <1>3, <1>4 DEF Safe
<1> QED
  BY <1>5 DEF ps

\* The pool as it is copied.
LEMMA PresentShares ==
  ASSUME PoolsBacked, NEW q \in Pairs
  PROVE  Present(q).shares = SharesOf(pools[q]) /\ SharesOf(pools[q]) \in Nat /\ Present(q) \in PoolState
BY ShareTypes DEF Present, SharesOf, EmptyPool, PoolsBacked, PoolState

\* A swap moves no shares,
LEMMA SwapShares ==
  ASSUME PoolsBacked, NEW p \in Portfolio, NEW r \in PoolRequest, r.op = "amm", NEW w, SharesApart,
         WorkOK(r, w), WorkedOut(r, w), Covers(p, r.from, r.amt), Safe(p, pools)
  PROVE  Safe(Credit(Debit(p, r.from, r.amt), r.to, w.out), [pools EXCEPT ![w.id] = w.copy])
<1> DEFINE q == w.id
           n == w.copy
           x == Credit(Debit(p, r.from, r.amt), r.to, w.out)
<1>1. r.from \in Key /\ r.to \in Key /\ r.amt \in Nat /\ w.out \in Nat
  BY PoolFields, Integers64 DEF WorkOK
<1>2. /\ x \in Portfolio /\ SameRecords(p, x)
      /\ \A k \in Key : x.bal[k] - p.bal[k] <= (IF k = r.to THEN w.out ELSE 0) - (IF k = r.from THEN r.amt ELSE 0)
  BY <1>1, ExchangeBalances
<1>3. q \in Pairs /\ n \in PoolState
  BY DEF WorkOK, Backed
<1>4. {q[1], q[2]} = {r.from, r.to} /\ n = Swap(Present(q), r.from = q[1], r.amt)
  BY DEF WorkedOut
<1>5. n.shares = Present(q).shares
  BY <1>4 DEF Swap
<1>6. n.shares - SharesOf(pools[q]) = 0
  BY <1>3, <1>5, PresentShares
<1>7. r.from \notin ShareKeys /\ r.to \notin ShareKeys
  BY <1>3, <1>4 DEF SharesApart
<1> HIDE DEF x, n
<1>8. ASSUME NEW k \in ShareKeys PROVE x.bal[k] <= p.bal[k] + (IF k = LpKey[q] THEN 0 ELSE 0)
  <2>1. k \in Key /\ x.bal[k] \in Int /\ p.bal[k] \in Int
    BY <1>2, ShareTypes, BalanceType
  <2>2. x.bal[k] - p.bal[k] <= 0 - 0
    BY <1>2, <1>7, <2>1
  <2> QED
    BY <2>1, <2>2
<1>9. x.loans = p.loans
  BY <1>2 DEF SameRecords
<1>10. 0 <= n.shares - SharesOf(pools[q]) /\ 0 \in Int
  BY <1>6
<1>11. Safe(x, [pools EXCEPT ![q] = n])
  BY <1>2, <1>3, <1>8, <1>9, <1>10, SafeMoves
<1> QED
  BY <1>11 DEF x, n

\* added liquidity pays the shares the pool is put back with,
LEMMA AddShares ==
  ASSUME PoolsBacked, NEW p \in Portfolio, NEW r \in PoolRequest, r.op = "add", NEW w,
         WorkOK(r, w), WorkedOut(r, w),
         Covers(p, r.t0, r.a0), Covers(Debit(p, r.t0, r.a0), r.t1, r.a1), Safe(p, pools)
  PROVE  Safe(Credit(Debit(Debit(p, r.t0, r.a0), r.t1, r.a1), LpKey[w.id], w.out),
              [pools EXCEPT ![w.id] = w.copy])
<1> DEFINE q == w.id
           n == w.copy
           d == Debit(p, r.t0, r.a0)
           x == Credit(Debit(d, r.t1, r.a1), LpKey[q], w.out)
<1>1. r.t0 \in Key /\ r.t1 \in Key /\ r.a0 \in Nat /\ r.a1 \in Nat /\ w.out \in Nat /\ LpKey[q] \in Key
  BY PoolFields, Integers64, BridgeAssumption DEF WorkOK
<1>2. d \in Portfolio /\ SameRecords(p, d)
      /\ \A k \in Key : d.bal[k] = p.bal[k] - (IF k = r.t0 THEN r.a0 ELSE 0)
  BY <1>1, DebitBalances
<1>3. Covers(d, r.t1, r.a1)
  OBVIOUS
<1> HIDE DEF d
<1>4. /\ x \in Portfolio /\ SameRecords(d, x)
      /\ \A k \in Key : x.bal[k] - d.bal[k] <= (IF k = LpKey[q] THEN w.out ELSE 0) - (IF k = r.t1 THEN r.a1 ELSE 0)
  BY <1>1, <1>2, <1>3, ExchangeBalances
<1>5. q \in Pairs /\ n \in PoolState
  BY DEF WorkOK, Backed
<1>6. n.shares = Present(q).shares + w.out
  BY DEF WorkedOut, AddLiquidity
<1>7. w.out <= n.shares - SharesOf(pools[q])
  BY <1>1, <1>5, <1>6, PresentShares
<1> HIDE DEF x, n
<1>8. ASSUME NEW k \in ShareKeys PROVE x.bal[k] <= p.bal[k] + (IF k = LpKey[q] THEN w.out ELSE 0)
  <2>1. k \in Key /\ x.bal[k] \in Int /\ p.bal[k] \in Int /\ d.bal[k] \in Int
    BY <1>2, <1>4, ShareTypes, BalanceType
  <2>2. /\ x.bal[k] - d.bal[k] <= (IF k = LpKey[q] THEN w.out ELSE 0) - (IF k = r.t1 THEN r.a1 ELSE 0)
        /\ d.bal[k] = p.bal[k] - (IF k = r.t0 THEN r.a0 ELSE 0)
    BY <1>2, <1>4, <2>1
  <2> QED
    BY <1>1, <2>1, <2>2
<1>9. x.loans = p.loans
  BY <1>2, <1>4 DEF SameRecords
<1>10. w.out \in Int
  BY <1>1
<1>11. Safe(x, [pools EXCEPT ![q] = n])
  BY <1>4, <1>5, <1>7, <1>8, <1>9, <1>10, SafeMoves
<1> QED
  BY <1>11 DEF x, d, n

\* and removed liquidity takes at least those that are burnt.
LEMMA RemoveShares ==
  ASSUME PoolsBacked, NEW p \in Portfolio, NEW r \in PoolRequest, r.op = "remove", NEW w, SharesApart,
         WorkOK(r, w), WorkedOut(r, w), Covers(p, LpKey[r.pool], r.shares), Safe(p, pools)
  PROVE  Safe(Credit(Credit(Debit(p, LpKey[r.pool], r.shares), r.pool[1], w.out[1]), r.pool[2], w.out[2]),
              [pools EXCEPT ![w.id] = w.copy])
<1> DEFINE q == w.id
           n == w.copy
           d == Debit(p, LpKey[r.pool], r.shares)
           y == Credit(d, r.pool[1], w.out[1])
           x == Credit(y, r.pool[2], w.out[2])
<1>1. /\ q \in Pairs /\ q = r.pool /\ n \in PoolState /\ r.shares \in Nat
      /\ q[1] \in Key /\ q[2] \in Key /\ LpKey[q] \in Key
      /\ w.out[1] \in Nat /\ w.out[2] \in Nat
  <2>1. q \in Pairs /\ q = r.pool /\ n \in PoolState /\ r.shares \in Nat
    BY PoolFields, Integers64 DEF WorkOK, WorkedOut, Backed
  <2>2. w.out[1] \in Nat /\ w.out[2] \in Nat
    BY Integers64 DEF WorkOK
  <2> QED
    BY <2>1, <2>2, PairsFinite, BridgeAssumption
<1>2. n = RemoveLiquidity(Present(q), r.shares)
  BY DEF WorkedOut
<1>3. n.shares = Present(q).shares - Burnt(Present(q), r.shares)
  BY <1>2 DEF RemoveLiquidity
<1>4. 0 - r.shares <= n.shares - SharesOf(pools[q])
  <2>1. Present(q).shares = SharesOf(pools[q]) /\ SharesOf(pools[q]) \in Nat
    BY <1>1, PresentShares
  <2>2. Burnt(Present(q), r.shares) \in Int /\ Burnt(Present(q), r.shares) <= r.shares
    BY <1>1, <2>1 DEF Burnt
  <2> QED
    BY <1>1, <1>3, <2>1, <2>2
<1>5. q[1] \notin ShareKeys /\ q[2] \notin ShareKeys
  BY <1>1 DEF SharesApart
<1> HIDE DEF n
<1>6. d \in Portfolio /\ SameRecords(p, d)
      /\ \A k \in Key : d.bal[k] = p.bal[k] - (IF k = LpKey[q] THEN r.shares ELSE 0)
  BY <1>1, DebitBalances
<1> HIDE DEF d
<1>7. y \in Portfolio /\ SameRecords(d, y)
      /\ \A k \in Key : y.bal[k] <= d.bal[k] + (IF k = q[1] THEN w.out[1] ELSE 0)
  BY <1>1, <1>6, CreditBalances
<1> HIDE DEF y
<1>8. x \in Portfolio /\ SameRecords(y, x)
      /\ \A k \in Key : x.bal[k] <= y.bal[k] + (IF k = q[2] THEN w.out[2] ELSE 0)
  BY <1>1, <1>7, CreditBalances
<1> HIDE DEF x
<1> DEFINE m == 0 - r.shares
<1>9. ASSUME NEW k \in ShareKeys PROVE x.bal[k] <= p.bal[k] + (IF k = LpKey[q] THEN m ELSE 0)
  <2>1. k \in Key /\ x.bal[k] \in Int /\ p.bal[k] \in Int /\ d.bal[k] \in Int /\ y.bal[k] \in Int
    BY <1>6, <1>7, <1>8, ShareTypes, BalanceType
  <2>2. k # q[1] /\ k # q[2]
    BY <1>5
  <2>3. x.bal[k] <= y.bal[k] + 0 /\ y.bal[k] <= d.bal[k] + 0
    BY <1>7, <1>8, <2>1, <2>2
  <2>4. d.bal[k] = p.bal[k] - (IF k = LpKey[q] THEN r.shares ELSE 0)
    BY <1>6, <2>1
  <2> QED
    BY <1>1, <2>1, <2>3, <2>4
<1>10. x.loans = p.loans
  BY <1>6, <1>7, <1>8 DEF SameRecords
<1>11. m \in Int /\ m <= n.shares - SharesOf(pools[q])
  BY <1>1, <1>4
<1> HIDE DEF m
<1>12. Safe(x, [pools EXCEPT ![q] = n])
  BY <1>1, <1>8, <1>9, <1>10, <1>11, SafeMoves
<1> QED
  BY <1>1, <1>12 DEF x, y, d, n

-----------------------------------------------------------------------------
(* What a step of c keeps. *)

\* No request names shares if the menu has no loan that does.
LEMMA SharesAside == menu \in Menu /\ SharesApart => MenuAside(ShareKeys)
<1> SUFFICES ASSUME menu \in Menu, SharesApart PROVE MenuAside(ShareKeys)
  OBVIOUS
<1>1. OnexKey \cap ShareKeys = {} /\ SuffixedKey \cap ShareKeys = {}
  BY ShareKeyAssumption
<1>2. \A r \in Offered(menu) : r.op = "deploy" => r.key \notin ShareKeys
  BY ShareKeyAssumption
<1> QED
  BY <1>1, <1>2 DEF SharesApart, MenuAside, NamesNone

LEMMA AcceptGets ==
  ASSUME menu \in Menu, NEW c \in Client, Accept(c)
  PROVE  \E s, w, next : GetPortfolio(c, s, w, next)
<1>1. \E s, w, next : GetPortfolio(c, s, w, next) /\ NamesNone(s, {})
  <2>1. MenuAside({})
    BY DEF MenuAside, NamesNone
  <2> QED
    BY <2>1, AsidePrepared
<1> QED
  BY <1>1

\* GetPortfolio,
LEMMA SafeLoads ==
  ASSUME BridgeInv, Serial, CopyCurrent, NEW c \in Client, Safe(Load, pools),
         NEW r, NEW w, NEW next, GetPortfolio(c, r, w, next), pools' = pools
  PROVE  SafeAt(c)'
<1> DEFINE p == Synced(Load, TRUE)
<1>1. /\ RequestsOK /\ Copies /\ nodeBal \in UInt
      /\ pools \in [Pairs -> PoolState \cup {NoPool}]
  BY DEF BridgeInv, Copies, PoolsBacked
<1>2. Load \in Portfolio
  BY <1>1, LoadCurrent
<1>3. p \in Portfolio /\ Safe(p, pools)
  BY <1>1, <1>2, SafeSynced
<1>4. cache' = p /\ client'[c].pc = "loaded" /\ client'[c].req = r
  BY <1>1, SerialLoads
<1> HIDE DEF p
<1>5. Load' = p
  BY <1>3, <1>4, LoadIsCached
<1>6. Safe(Load, pools)'
  <2>1. Safe(Load', pools')
    BY <1>3, <1>5
  <2> QED
    BY <2>1 DEF Safe
<1> QED
  BY <1>4, <1>6 DEF SafeAt

\* the end of a request that leaves a safe portfolio in the cache,
LEMMA SafeEnds ==
  ASSUME NEW c \in Client, client'[c].pc \in {"idle", "leg"}, cache' \in Portfolio, Safe(cache', pools')
  PROVE  SafeAt(c)'
<1>1. Load' = cache'
  BY LoadIsCached
<1>2. Safe(Load, pools)'
  <2>1. Safe(Load', pools')
    BY <1>1
  <2> QED
    BY <2>1 DEF Safe
<1> QED
  BY <1>2 DEF SafeAt

\* the save before the pool is put back,
LEMMA SafeSaves ==
  ASSUME RequestsOK, Serial, NEW c \in Client, client[c].pc = "loaded",
         client[c].req.op \in {"amm", "add", "remove"}, NEW p, SaveFirst(c, p), pools' = pools,
         Safe(p, [pools EXCEPT ![client[c].work.id] = client[c].work.copy])
  PROVE  SafeAt(c)'
<1>1. /\ client'[c].pc = "update" /\ client'[c].req = client[c].req
      /\ client'[c].work = client[c].work /\ client'[c].p = p
  BY SerialSaves
<1>2. Safe(client[c].p, [pools EXCEPT ![client[c].work.id] = client[c].work.copy])'
  <2>1. Safe(client'[c].p, [pools' EXCEPT ![client'[c].work.id] = client'[c].work.copy])
    BY <1>1
  <2> QED
    BY <2>1 DEF Safe
<1> QED
  BY <1>1, <1>2 DEF SafeAt

\* and a request that ends early.
LEMMA SafeDrops ==
  ASSUME RequestsOK, NEW c \in Client, pools' = pools, cache \in Portfolio, Safe(cache, pools),
         NEW p \in Portfolio, Drop(c, p), Safe(p, pools)
  PROVE  SafeAt(c)'
<1>1. client' = [client EXCEPT ![c] = Idle] /\ Idle.pc = "idle" /\ (cache' = p \/ cache' = cache)
  BY DEF Drop, Idle
<1>2. client'[c] = Idle
  BY <1>1, OneSet
<1>3. cache' \in Portfolio /\ Safe(cache', pools')
  BY <1>1
<1> QED
  BY <1>1, <1>2, <1>3, SafeEnds

\* What a request of the pools has before it is checked.
LEMMA PoolServed ==
  ASSUME BridgeInv, Serial, CopyCurrent, PoolsFollow, NEW c \in Client,
         client[c].pc \in {"loaded", "update"}, client[c].req.op \in {"amm", "add", "remove"}
  PROVE  /\ client[c].req \in PoolRequest /\ WorkOK(client[c].req, client[c].work)
         /\ WorkedOut(client[c].req, client[c].work)
         /\ client[c].p = Load /\ client[c].p = cache /\ client[c].p \in Portfolio
         /\ PoolsBacked /\ RequestsOK
<1>1. RequestsOK /\ Copies /\ PoolsBacked
  BY DEF BridgeInv, Copies
<1>2. ServedOK(client[c]) /\ client[c].p \in Portfolio
  BY <1>1, ServedHas
<1>3. client[c].req \in PoolRequest /\ WorkOK(client[c].req, client[c].work)
  BY <1>2 DEF ServedOK
<1>4. WorkedOut(client[c].req, client[c].work)
  BY DEF PoolsFollow, Following, AtWork
<1>5. client[c].p = Load /\ client[c].p = cache
  BY <1>1, LoadCurrent DEF CopyCurrent
<1> QED
  BY <1>1, <1>2, <1>3, <1>4, <1>5

\* The requests of the pools,
LEMMA SafeSwaps ==
  ASSUME BridgeInv, Serial, SharesApart, CopyCurrent, PoolsFollow, NEW c \in Client, SafeAt(c),
         OneXSwapExecute(c)
  PROVE  SafeAt(c)'
<1> DEFINE p == client[c].p
           r == client[c].req
           w == client[c].work
<1>1. client[c].pc = "loaded" /\ r.op = "amm" /\ pools' = pools /\ Safe(Load, pools)
  BY DEF OneXSwapExecute, Serving, Elsewhere, SafeAt
<1>2. /\ r \in PoolRequest /\ WorkOK(r, w) /\ WorkedOut(r, w)
      /\ p = Load /\ p = cache /\ p \in Portfolio /\ PoolsBacked /\ RequestsOK
  BY <1>1, PoolServed
<1>3. CASE Covers(p, r.from, r.amt) /\ SaveFirst(c, Credit(Debit(p, r.from, r.amt), r.to, w.out))
  <2>1. Safe(Credit(Debit(p, r.from, r.amt), r.to, w.out), [pools EXCEPT ![w.id] = w.copy])
    BY <1>1, <1>2, <1>3, SwapShares
  <2> QED
    BY <1>1, <1>2, <1>3, <2>1, SafeSaves
<1>4. CASE Drop(c, p)
  BY <1>1, <1>2, <1>4, SafeDrops
<1> QED
  BY <1>3, <1>4 DEF OneXSwapExecute

\* added liquidity,
LEMMA SafeAdds ==
  ASSUME BridgeInv, Serial, CopyCurrent, PoolsFollow, NEW c \in Client, SafeAt(c),
         OneXSwapAddLiquidity(c)
  PROVE  SafeAt(c)'
<1> DEFINE p == client[c].p
           r == client[c].req
           w == client[c].work
           q == Debit(p, r.t0, r.a0)
           x == Credit(Debit(q, r.t1, r.a1), LpKey[w.id], w.out)
<1>1. client[c].pc = "loaded" /\ r.op = "add" /\ pools' = pools /\ Safe(Load, pools)
  BY DEF OneXSwapAddLiquidity, Serving, Elsewhere, SafeAt
<1>2. /\ r \in PoolRequest /\ WorkOK(r, w) /\ WorkedOut(r, w)
      /\ p = Load /\ p = cache /\ p \in Portfolio /\ PoolsBacked /\ RequestsOK
  BY <1>1, PoolServed
<1>3. CASE Covers(p, r.t0, r.a0) /\ Covers(q, r.t1, r.a1) /\ SaveFirst(c, x)
  <2>1. Safe(x, [pools EXCEPT ![w.id] = w.copy])
    BY <1>1, <1>2, <1>3, AddShares
  <2> QED
    BY <1>1, <1>2, <1>3, <2>1, SafeSaves
<1>4. CASE Covers(p, r.t0, r.a0) /\ Drop(c, q)
  <2>1. r.t0 \in Key /\ r.a0 \in Nat
    BY <1>1, <1>2, PoolFields, Integers64
  <2>2. pools \in [Pairs -> PoolState \cup {NoPool}]
    BY <1>2 DEF PoolsBacked
  <2>3. q \in Portfolio /\ Safe(q, pools)
    BY <1>1, <1>2, <1>4, <2>1, <2>2, SafeDebit
  <2> HIDE DEF q
  <2> QED
    BY <1>1, <1>2, <1>4, <2>3, SafeDrops
<1>5. CASE Drop(c, p)
  BY <1>1, <1>2, <1>5, SafeDrops
<1> QED
  BY <1>3, <1>4, <1>5 DEF OneXSwapAddLiquidity

\* removed liquidity,
LEMMA SafeRemoves ==
  ASSUME BridgeInv, Serial, SharesApart, CopyCurrent, PoolsFollow, NEW c \in Client, SafeAt(c),
         OneXSwapRemoveLiquidity(c)
  PROVE  SafeAt(c)'
<1> DEFINE p == client[c].p
           r == client[c].req
           w == client[c].work
           q == Debit(p, LpKey[r.pool], r.shares)
           x == Credit(Credit(q, r.pool[1], w.out[1]), r.pool[2], w.out[2])
<1>1. client[c].pc = "loaded" /\ r.op = "remove" /\ pools' = pools /\ Safe(Load, pools)
  BY DEF OneXSwapRemoveLiquidity, Serving, Elsewhere, SafeAt
<1>2. /\ r \in PoolRequest /\ WorkOK(r, w) /\ WorkedOut(r, w)
      /\ p = Load /\ p = cache /\ p \in Portfolio /\ PoolsBacked /\ RequestsOK
  BY <1>1, PoolServed
<1>3. CASE Covers(p, LpKey[r.pool], r.shares) /\ SaveFirst(c, x)
  <2>1. Safe(x, [pools EXCEPT ![w.id] = w.copy])
    BY <1>1, <1>2, <1>3, RemoveShares
  <2> QED
    BY <1>1, <1>2, <1>3, <2>1, SafeSaves
<1>4. CASE Drop(c, p)
  BY <1>1, <1>2, <1>4, SafeDrops
<1> QED
  BY <1>3, <1>4 DEF OneXSwapRemoveLiquidity

\* the pool that is put back,
LEMMA SafeUpdates ==
  ASSUME BridgeInv, BridgeInv', Serial, CopyCurrent, PoolsFollow, NEW c \in Client, SafeAt(c),
         UpdatePool(c)
  PROVE  SafeAt(c)'
<1> DEFINE p == client[c].p
           r == client[c].req
           w == client[c].work
           q == [p EXCEPT !.swaps = Append(@, [from |-> r.from, to |-> r.to, in |-> r.amt, out |-> w.out])]
           left == [pc |-> "leg", req |-> Head(client[c].next)]
           b == IF client[c].next = <<>> THEN Idle ELSE left
<1>1. /\ client[c].pc = "update" /\ pools' = [pools EXCEPT ![w.id] = w.copy]
      /\ r.op \in {"amm", "add", "remove"}
  BY DEF UpdatePool
<1>2. Safe(p, pools')
  BY <1>1 DEF SafeAt
<1>3. /\ r \in PoolRequest /\ WorkOK(r, w)
      /\ p = Load /\ p = cache /\ p \in Portfolio /\ RequestsOK
  BY <1>1, PoolServed
<1>4. b.pc \in {"idle", "leg"} /\ Idle.pc = "idle"
  BY DEF Idle
<1>5. CASE r.op = "amm" /\ cache' = completeTask(q, "first-swap") /\ client' = [client EXCEPT ![c] = b]
  <2> DEFINE rec == [from |-> r.from, to |-> r.to, in |-> r.amt, out |-> w.out]
  <2>1. rec \in SwapRecord
    BY <1>3, <1>5, PoolFields, Integers64 DEF SwapRecord, WorkOK
  <2> HIDE DEF rec
  <2>2. q \in Portfolio /\ Safe(q, pools')
    <3>1. [p EXCEPT !.swaps = Append(@, rec)] \in Portfolio
      BY <1>3, <2>1, RecordsOK
    <3>2. Safe([p EXCEPT !.swaps = Append(@, rec)], pools')
      BY <1>2, <1>3, SafeRecords
    <3> QED
      BY <3>1, <3>2 DEF rec
  <2> HIDE DEF q, b
  <2>3. pools' \in [Pairs -> PoolState \cup {NoPool}]
    BY DEF BridgeInv, PoolsBacked
  <2>4. "first-swap" \in DOMAIN Reward
    BY BridgeAssumption
  <2>5. completeTask(q, "first-swap") \in Portfolio /\ Safe(completeTask(q, "first-swap"), pools')
    BY <2>2, <2>3, <2>4, SafeTask
  <2>6. client'[c] = b
    BY <1>3, <1>5, OneSet
  <2> QED
    BY <1>4, <1>5, <2>5, <2>6, SafeEnds
<1>6. CASE client' = [client EXCEPT ![c] = Idle] /\ cache' = cache
  <2>1. client'[c] = Idle
    BY <1>3, <1>6, OneSet
  <2> QED
    BY <1>2, <1>3, <1>4, <1>6, <2>1, SafeEnds
<1> QED
  <2>1. Serial => ~Faulty(menu)
    BY DEF Serial
  <2> QED
    BY <1>5, <1>6, <2>1, Zenon DEF UpdatePool

\* and those that only hold the portfolio.
LEMMA SafeFinishes ==
  ASSUME BridgeInv, Serial, CopyCurrent, NEW c \in Client, SafeAt(c), Ending(c),
         Aside(client[c], ShareKeys)
  PROVE  SafeAt(c)'
<1>1. RequestsOK /\ Copies /\ pools \in [Pairs -> PoolState \cup {NoPool}]
  BY DEF BridgeInv, Copies, PoolsBacked
<1>2. client' = [client EXCEPT ![c] = Idle] /\ pools' = pools /\ client[c].pc \in {"loaded", "deploy"}
  BY EndingEnds
<1>3. client'[c] = Idle /\ Idle.pc = "idle"
  BY <1>1, <1>2, OneSet DEF Idle
<1>4. Safe(Load, pools) /\ Load \in Portfolio
  BY <1>1, <1>2, LoadCurrent DEF SafeAt
<1>5. Outside(ShareKeys, Load.bal) /\ LoansOff(Load, ShareKeys)
  BY <1>1, <1>4, SafeOff DEF Off
<1>6. ASSUME WrapPlatformToken(c) PROVE WrappedKey[client[c].req.key] \notin ShareKeys
  <2>1. client[c].pc = "loaded" /\ client[c].req.op = "wrap"
    BY <1>6 DEF WrapPlatformToken, Serving
  <2>2. client[c].req.key \in DOMAIN WrappedKey
    BY <1>1, <2>1, WhatIsServed, PlainFields
  <2> QED
    BY <2>2, Zenon, ShareKeyAssumption
<1>7. KeepsOff(ShareKeys, Load.bal)
  BY <1>5, <1>6, EndingOff
<1>8. cache' \in Portfolio /\ Safe(cache', pools)
  BY <1>1, <1>4, <1>7, SafeOff DEF KeepsOff
<1> QED
  BY <1>2, <1>3, <1>8, SafeEnds

\* A step that leaves the portfolio and the pools.
LEMMA SafeLeft ==
  ASSUME Safe(Load, pools), UNCHANGED <<cache, file, pools, menu>>
  PROVE  Safe(Load, pools)'
<1>1. Load' = Load
  BY DEF Load, DefaultPortfolio
<1>2. Safe(Load', pools')
  BY <1>1
<1> QED
  BY <1>2 DEF Safe

\* Every step of a request,
LEMMA SafeServes ==
  ASSUME BridgeInv, BridgeInv', Serial, SharesApart, CopyCurrent, PoolsFollow,
         NEW c \in Client, SafeAt(c), Aside(client[c], ShareKeys), Serve(c)
  PROVE  SafeAt(c)'
<1>1. RequestsOK /\ menu \in Menu
  BY DEF BridgeInv, Copies
<1>2. client[c].pc # "update" => Safe(Load, pools)
  BY DEF SafeAt
<1>3. CASE Accept(c)
  <2>1. PICK s, w, next : GetPortfolio(c, s, w, next)
    BY <1>1, <1>3, AcceptGets
  <2>2. Safe(Load, pools) /\ pools' = pools
    BY <1>2, <1>3 DEF Accept, Idle
  <2> QED
    BY <2>1, <2>2, SafeLoads
<1>4. CASE AcceptLeg(c)
  <2>1. Safe(Load, pools) /\ pools' = pools
    BY <1>2, <1>4 DEF AcceptLeg
  <2>2. CASE \E s, w, next : GetPortfolio(c, s, w, next) /\ PoolDeal(s, w)
    BY <2>1, <2>2, SafeLoads
  <2>3. CASE client' = [client EXCEPT ![c] = Idle] /\ UNCHANGED <<cache, file>>
    <3>1. client'[c] = Idle /\ Idle.pc = "idle"
      BY <1>1, <2>3, OneSet DEF Idle
    <3>2. menu' = menu
      BY <1>4 DEF AcceptLeg, bounds
    <3>3. Safe(Load, pools)'
      BY <2>1, <2>3, <3>2, SafeLeft
    <3> QED
      BY <3>1, <3>3 DEF SafeAt
  <2> QED
    BY <1>4, <2>2, <2>3, LegPrepared
<1>5. CASE AcceptDeploy(c) \/ Send(c)
  <2>1. Safe(Load, pools) /\ UNCHANGED <<cache, file, pools, menu>>
    BY <1>2, <1>5 DEF AcceptDeploy, Send, Idle
  <2>2. client'[c].pc # "update"
    <3>1. CASE AcceptDeploy(c)
      <4>1. PICK s : client' = [client EXCEPT ![c] = [pc |-> "deploy", req |-> s, work |-> tokens]]
        BY <3>1, Zenon DEF AcceptDeploy
      <4> DEFINE b == [pc |-> "deploy", req |-> s, work |-> tokens]
      <4>2. b.pc = "deploy"
        OBVIOUS
      <4> HIDE DEF b
      <4>3. client'[c] = b
        BY <1>1, <4>1, OneSet DEF b
      <4> QED
        BY <4>2, <4>3
    <3>2. CASE Send(c)
      BY <3>2 DEF Send, Idle
    <3> QED
      BY <1>5, <3>1, <3>2
  <2>3. Safe(Load, pools)'
    BY <2>1, SafeLeft
  <2> QED
    BY <2>2, <2>3 DEF SafeAt
<1>6. CASE OneXSwapExecute(c)
  BY <1>6, SafeSwaps
<1>7. CASE OneXSwapAddLiquidity(c)
  BY <1>7, SafeAdds
<1>8. CASE OneXSwapRemoveLiquidity(c)
  BY <1>8, SafeRemoves
<1>9. CASE UpdatePool(c)
  BY <1>9, SafeUpdates
<1>10. CASE Ending(c)
  BY <1>10, SafeFinishes
<1> QED
  BY <1>3, <1>4, <1>5, <1>6, <1>7, <1>8, <1>9, <1>10 DEF Serve, Ending

\* every step of the book,
LEMMA SafeBooks ==
  ASSUME BridgeInv, Serial, CopyCurrent, menu' = menu, NEW c \in Client, SafeAt(c), BookStep(c)
  PROVE  SafeAt(c)'
<1>1. RequestsOK /\ Copies /\ nodeBal \in UInt /\ pools \in [Pairs -> PoolState \cup {NoPool}]
  BY DEF BridgeInv, Copies, PoolsBacked
<1>2. client'[c].pc \notin {"loaded", "update", "deploy"}
  BY <1>1, BookAside, OneSet
<1>3. client[c].pc # "update"
  <2>1. client[c] = Idle \/ client[c].pc \in {"snapshot", "synced", "copied", "settle"}
    BY DEF BookStep, BookRequest, SyncFromSnapshot, Transfer, ApplyTransfer, Settle, SettleFails
  <2> QED
    BY <2>1 DEF Idle
<1>4. Safe(Load, pools) /\ CanLoad /\ Load \in Portfolio
  BY <1>1, <1>3, LoadCurrent DEF SafeAt
<1>5. pools' = pools
  BY DEF BookStep, BookRequest, SyncFromSnapshot, Transfer, ApplyTransfer, Settle, SettleFails, BookFrozen
<1>6. Safe(Load, pools)'
  <2>1. CASE BookRequest(c)
    <3>1. PICK up \in BOOLEAN : cache' = Synced(Load, up)
      BY <1>4, <2>1 DEF BookRequest
    <3> DEFINE p == Synced(Load, up)
    <3>2. p \in Portfolio /\ Safe(p, pools)
      BY <1>1, <1>4, SafeSynced
    <3> HIDE DEF p
    <3>3. Load' = p
      BY <3>1, <3>2, LoadIsCached DEF p
    <3>4. Safe(Load', pools')
      BY <1>5, <3>2, <3>3
    <3> QED
      BY <3>4 DEF Safe
  <2>2. CASE ~BookRequest(c)
    <3>1. UNCHANGED <<cache, file>>
      BY <2>2 DEF BookStep, SyncFromSnapshot, Transfer, ApplyTransfer, Settle, SettleFails, BookFrozen
    <3> QED
      BY <1>4, <1>5, <3>1, SafeLeft
  <2> QED
    BY <2>1, <2>2
<1> QED
  BY <1>2, <1>6 DEF SafeAt

\* and every step of the daemon.
LEMMA SafeStays ==
  ASSUME DaemonInv, InUse, PoolsFollow, CopyCurrent, Asides(ShareKeys), LpSafe, [DaemonNext]_<<vars, bookVars>>
  PROVE  LpSafe'
<1>1. BridgeInv /\ BridgeInv' /\ RequestsOK /\ menu' = menu
  BY DaemonStepKeeps, MenuStays DEF DaemonInv, BridgeInv, Copies
<1> SUFFICES ASSUME Serial, SharesApart PROVE LpSafe'
  BY <1>1 DEF LpSafe, Serial, SharesApart
<1>2. ASSUME NEW c \in Client, \A d \in Client \ {c} : client[d] = Idle PROVE SafeAt(c)
  <2>1. client[c].pc = "update" \/ \A d \in Client : client[d].pc # "update"
    BY <1>2 DEF Idle
  <2> QED
    BY <2>1 DEF LpSafe, SafeAt
<1>3. ASSUME NEW c \in Client, SafeAt(c)', \A d \in Client \ {c} : client'[d].pc = "idle" PROVE LpSafe'
  <2>1. (\A d \in Client : client'[d].pc # "update") => Safe(Load, pools)'
    BY <1>3 DEF SafeAt
  <2>2. ASSUME NEW d \in Client, client'[d].pc = "update"
        PROVE  Safe(client[d].p, [pools EXCEPT ![client[d].work.id] = client[d].work.copy])'
    <3>1. d = c
      BY <1>3, <2>2
    <3> QED
      BY <1>3, <2>2, <3>1 DEF SafeAt
  <2> QED
    BY <2>1, <2>2 DEF LpSafe
<1>4. \A d \in Client : Aside(client[d], ShareKeys)
  BY <1>1, SharesAside DEF Asides, BridgeInv
<1>5. ASSUME NEW c \in Client, Serve(c) \/ BookStep(c) PROVE LpSafe'
  <2>1. OthersStay(c) /\ (client[c] # Idle \/ c \in Using(menu))
    BY <1>1, <1>5, ServesAlone, BooksAlone
  <2>2. \A d \in Client \ {c} : client[d] = Idle /\ client'[d] = Idle
    BY <2>1, OthersIdle DEF OthersStay
  <2>3. SafeAt(c)
    BY <1>2, <2>2
  <2>4. SafeAt(c)'
    BY <1>1, <1>4, <1>5, <2>3, SafeServes, SafeBooks
  <2>5. \A d \in Client \ {c} : client'[d].pc = "idle"
    BY <2>2 DEF Idle
  <2> QED
    BY <1>3, <2>4, <2>5
<1>6. ASSUME UNCHANGED <<client, cache, file, pools>> PROVE LpSafe'
  <2>1. Load' = Load
    BY <1>1, <1>6 DEF Load, DefaultPortfolio
  <2>2. Safe(Load, pools) => Safe(Load, pools)'
    BY <1>6, <2>1 DEF Safe
  <2> QED
    BY <1>6, <2>2 DEF LpSafe, Safe
<1>7. ~DaemonCrash
  BY DEF DaemonCrash, Crash, Serial
<1> QED
  BY <1>5, <1>6, <1>7 DEF DaemonNext, Tick, vars

\* A new wallet has no shares.
LEMMA SafeStarts == DaemonInit => LpSafe
<1> SUFFICES ASSUME DaemonInit PROVE LpSafe
  OBVIOUS
<1>1. client = [c \in Client |-> Idle] /\ cache = NoPortfolio /\ file = NoPortfolio /\ pools = SeedPools
  BY DEF DaemonInit, Init
<1>2. Load = DefaultPortfolio
  BY <1>1 DEF Load
<1>3. Safe(Load, pools)
  BY <1>1, <1>2, BridgeAssumption, SafeDefault
<1> QED
  BY <1>1, <1>3 DEF LpSafe, Idle

\* The wallet never has more of a pool's shares than the pool counts, whatever
\* a removal burns fewer than it takes, whatever rounding leaves, and although
\* the wallet is saved before the pool (OneXSwapAddLiquidity,
\* OneXSwapRemoveLiquidity, Store.Update): as long as no loan and no pool deals
\* in shares.
THEOREM SharesAreBacked == DaemonSpec => []LpBacked
<1>1. DaemonInit => InUse /\ PoolsFollow /\ CopyCurrent /\ Asides(ShareKeys) /\ LpSafe
  BY InitialUse, CopyStarts, AsidesStart, SafeStarts
<1>2. /\ DaemonInv /\ InUse /\ PoolsFollow /\ CopyCurrent /\ Asides(ShareKeys) /\ LpSafe
      /\ [DaemonNext]_<<vars, bookVars>>
     => InUse' /\ PoolsFollow' /\ CopyCurrent' /\ Asides(ShareKeys)' /\ LpSafe'
  BY InUseStays, FollowingStays, CopyStays, AsidesStay, SafeStays
<1>3. LpSafe => LpBacked
  BY DEF LpSafe, LpBacked, Quiet, Idle, Safe, SharesOf
<1> QED
  BY <1>1, <1>2, <1>3, DaemonInvariantHolds, PTL DEF DaemonSpec

-----------------------------------------------------------------------------
(* A wrapped token is only given for what is wrapped. *)

\* What a step of c gives of K, nothing, when K is neither in a pool nor a share
\* and the step is no wrap into K.
LEMMA OffPools ==
  ASSUME BridgeInv, Serial, CopyCurrent, PoolsFollow, NEW K, Outside(K, Load.bal), K \cap ShareKeys = {},
         \A q \in Pairs : q[1] \notin K /\ q[2] \notin K, LoansOff(Load, K), NEW c \in Client,
         OneXSwapExecute(c) \/ OneXSwapAddLiquidity(c) \/ OneXSwapRemoveLiquidity(c)
  PROVE  Off(Load', K, Load.bal)
<1> DEFINE b == Load.bal
           p == client[c].p
           r == client[c].req
           w == client[c].work
<1>1. client[c].pc = "loaded" /\ r.op \in {"amm", "add", "remove"}
  BY DEF OneXSwapExecute, OneXSwapAddLiquidity, OneXSwapRemoveLiquidity, Serving
<1>2. /\ r \in PoolRequest /\ WorkOK(r, w) /\ WorkedOut(r, w)
      /\ p = Load /\ p = cache /\ p \in Portfolio /\ RequestsOK
  BY <1>1, PoolServed
<1>3. Outside(K, b) /\ Off(p, K, b)
  BY <1>2, OwnBound
<1>4. w.id \in Pairs /\ LpKey[w.id] \notin K /\ w.id[1] \notin K /\ w.id[2] \notin K
  BY <1>2 DEF WorkedOut, ShareKeys
<1>5. ASSUME NEW x \in Portfolio, Off(x, K, b), SaveFirst(c, x) \/ Drop(c, x) PROVE Off(Load', K, b)
  <2>1. cache' = x \/ cache' = cache
    BY <1>5 DEF SaveFirst, Drop
  <2>2. cache' \in Portfolio /\ Off(cache', K, b)
    BY <1>2, <1>3, <1>5, <2>1
  <2>3. Load' = cache'
    BY <2>2, LoadIsCached
  <2> QED
    BY <2>2, <2>3
<1> HIDE DEF b
<1>6. ASSUME Drop(c, p) PROVE Off(Load', K, b)
  BY <1>2, <1>3, <1>5, <1>6
<1>7. ASSUME OneXSwapExecute(c) PROVE Off(Load', K, b)
  <2> DEFINE x == Credit(Debit(p, r.from, r.amt), r.to, w.out)
  <2>1. r.op = "amm" /\ ((Covers(p, r.from, r.amt) /\ SaveFirst(c, x)) \/ Drop(c, p))
    BY <1>7 DEF OneXSwapExecute, Serving
  <2>2. CASE Covers(p, r.from, r.amt) /\ SaveFirst(c, x)
    <3>1. r.from \in Key /\ r.to \in Key /\ r.amt \in Nat /\ w.out \in Int
      BY <1>2, <2>1, PoolFields, Integers64 DEF WorkOK
    <3>2. r.to \notin K
      BY <1>2, <1>4, <2>1 DEF WorkedOut
    <3>3. x \in Portfolio /\ Off(x, K, b)
      BY <1>2, <1>3, <2>2, <3>1, <3>2, OffExchange
    <3> HIDE DEF x
    <3> QED
      BY <1>5, <2>2, <3>3
  <2> QED
    BY <1>6, <2>1, <2>2
<1>8. ASSUME OneXSwapAddLiquidity(c) PROVE Off(Load', K, b)
  <2> DEFINE q == Debit(p, r.t0, r.a0)
             x == Credit(Debit(q, r.t1, r.a1), LpKey[w.id], w.out)
  <2>1. /\ r.op = "add"
        /\ \/ Covers(p, r.t0, r.a0) /\ Covers(q, r.t1, r.a1) /\ SaveFirst(c, x)
           \/ Covers(p, r.t0, r.a0) /\ Drop(c, q)
           \/ Drop(c, p)
    BY <1>8 DEF OneXSwapAddLiquidity, Serving
  <2>2. r.t0 \in Key /\ r.t1 \in Key /\ r.a0 \in Nat /\ r.a1 \in Nat /\ w.out \in Int /\ LpKey[w.id] \in Key
    BY <1>2, <1>4, <2>1, PoolFields, Integers64, BridgeAssumption DEF WorkOK
  <2>3. Covers(p, r.t0, r.a0) => q \in Portfolio /\ Off(q, K, b)
    BY <1>2, <1>3, <2>2, OffDebit
  <2> HIDE DEF q
  <2>4. CASE Covers(p, r.t0, r.a0) /\ Covers(q, r.t1, r.a1) /\ SaveFirst(c, x)
    <3>1. x \in Portfolio /\ Off(x, K, b)
      BY <1>3, <1>4, <2>2, <2>3, <2>4, OffExchange
    <3> HIDE DEF x
    <3> QED
      BY <1>5, <2>4, <3>1
  <2>5. CASE Covers(p, r.t0, r.a0) /\ Drop(c, q)
    BY <1>5, <2>3, <2>5
  <2> QED
    BY <1>6, <2>1, <2>4, <2>5
<1>9. ASSUME OneXSwapRemoveLiquidity(c) PROVE Off(Load', K, b)
  <2> DEFINE q == Debit(p, LpKey[r.pool], r.shares)
             y == Credit(q, r.pool[1], w.out[1])
             x == Credit(y, r.pool[2], w.out[2])
  <2>1. r.op = "remove" /\ ((Covers(p, LpKey[r.pool], r.shares) /\ SaveFirst(c, x)) \/ Drop(c, p))
    BY <1>9 DEF OneXSwapRemoveLiquidity, Serving
  <2>2. CASE Covers(p, LpKey[r.pool], r.shares) /\ SaveFirst(c, x)
    <3>1. r.pool \in Pairs /\ r.shares \in Nat
      BY <1>2, <2>1, PoolFields, Integers64
    <3>2. w.out[1] \in Int /\ w.out[2] \in Int
      BY <1>2, <2>1, Integers64 DEF WorkOK
    <3>3. LpKey[r.pool] \in Key /\ r.pool[1] \in Key \ K /\ r.pool[2] \in Key \ K
      BY <3>1, PairsFinite, BridgeAssumption
    <3>4. q \in Portfolio /\ Off(q, K, b)
      BY <1>2, <1>3, <2>2, <3>1, <3>3, OffDebit
    <3> HIDE DEF q
    <3>5. y \in Portfolio /\ Off(y, K, b)
      BY <1>3, <3>2, <3>3, <3>4, OffCredit
    <3> HIDE DEF y
    <3>6. x \in Portfolio /\ Off(x, K, b)
      BY <1>3, <3>2, <3>3, <3>5, OffCredit
    <3> HIDE DEF x
    <3> QED
      BY <1>5, <2>2, <3>6
  <2> QED
    BY <1>6, <2>1, <2>2
<1>10. Off(Load', K, b)
  BY <1>7, <1>8, <1>9
<1> QED
  BY <1>10 DEF b

\* Nor does putting the pool back.
LEMMA OffUpdates ==
  ASSUME BridgeInv, Serial, CopyCurrent, PoolsFollow, NEW K, Outside(K, Load.bal), LoansOff(Load, K),
         NEW c \in Client, UpdatePool(c)
  PROVE  Off(Load', K, Load.bal)
<1> DEFINE b == Load.bal
           p == client[c].p
           r == client[c].req
           w == client[c].work
           rec == [from |-> r.from, to |-> r.to, in |-> r.amt, out |-> w.out]
           q == [p EXCEPT !.swaps = Append(@, rec)]
<1>1. client[c].pc = "update" /\ r.op \in {"amm", "add", "remove"} /\ ~Faulty(menu)
  BY DEF UpdatePool, Serial
<1>2. r \in PoolRequest /\ WorkOK(r, w) /\ p = Load /\ p = cache /\ p \in Portfolio
  BY <1>1, PoolServed
<1>3. Outside(K, b) /\ Off(p, K, b)
  BY <1>2, OwnBound
<1>4. (r.op = "amm" /\ cache' = completeTask(q, "first-swap")) \/ cache' = cache
  BY DEF UpdatePool
<1> HIDE DEF b
<1>5. ASSUME r.op = "amm"
      PROVE  completeTask(q, "first-swap") \in Portfolio /\ Off(completeTask(q, "first-swap"), K, b)
  <2>1. rec \in SwapRecord
    BY <1>2, <1>5, PoolFields, Integers64 DEF SwapRecord, WorkOK
  <2> HIDE DEF rec, p
  <2>2. q \in Portfolio /\ Off(q, K, b)
    BY <1>2, <1>3, <2>1, RecordsOK, OffRecords
  <2> HIDE DEF q
  <2>3. "first-swap" \in DOMAIN Reward
    BY BridgeAssumption
  <2> QED
    BY <1>3, <2>2, <2>3, OffTask
<1> HIDE DEF q
<1>6. cache' \in Portfolio /\ Off(cache', K, b)
  BY <1>2, <1>3, <1>4, <1>5
<1>7. Load' = cache'
  BY <1>6, LoadIsCached
<1> QED
  BY <1>6, <1>7 DEF b

\* Nor does bringing the portfolio up to date, or leaving it alone.
LEMMA OffLoads ==
  ASSUME BridgeInv, Serial, CopyCurrent, NEW K, Outside(K, Load.bal), LoansOff(Load, K),
         (\E up : cache' = Synced(Load, up)) \/ UNCHANGED <<cache, file, menu>>
  PROVE  Off(Load', K, Load.bal)
<1>1. Load \in Portfolio /\ nodeBal \in UInt
  BY LoadCurrent DEF BridgeInv
<1>2. Off(Load, K, Load.bal)
  BY <1>1, OwnBound
<1>3. CASE \E up : cache' = Synced(Load, up)
  <2>1. PICK up : cache' = Synced(Load, up)
    BY <1>3
  <2> DEFINE p == Synced(Load, up)
  <2>2. p \in Portfolio /\ Off(p, K, Load.bal)
    BY <1>1, <1>2, OffSynced
  <2>3. cache' = p
    BY <2>1
  <2> HIDE DEF p
  <2>4. Load' = p
    BY <2>2, <2>3, LoadIsCached
  <2> QED
    BY <2>2, <2>4
<1>4. CASE UNCHANGED <<cache, file, menu>>
  <2>1. Load' = Load
    BY <1>4 DEF Load, DefaultPortfolio
  <2> QED
    BY <1>2, <2>1
<1> QED
  BY <1>3, <1>4

\* Together:
LEMMA OffServes ==
  ASSUME BridgeInv, Serial, CopyCurrent, PoolsFollow, NEW K, Outside(K, Load.bal), K \cap ShareKeys = {},
         \A q \in Pairs : q[1] \notin K /\ q[2] \notin K, LoansOff(Load, K),
         NEW c \in Client, Aside(client[c], K), Serve(c) \/ BookStep(c), menu' = menu,
         WrapPlatformToken(c) => WrappedKey[client[c].req.key] \notin K
  PROVE  Off(Load', K, Load.bal)
<1>1. RequestsOK /\ menu \in Menu /\ CanLoad
  BY LoadCurrent DEF BridgeInv, Copies
<1>2. ASSUME NEW s, NEW w, NEW next, GetPortfolio(c, s, w, next) PROVE Off(Load', K, Load.bal)
  <2>1. cache' = Synced(Load, TRUE)
    BY <1>1, <1>2, SerialLoads
  <2> QED
    BY <2>1, OffLoads
<1>3. CASE Accept(c)
  BY <1>1, <1>2, <1>3, AcceptGets
<1>4. CASE AcceptLeg(c)
  <2>1. CASE UNCHANGED <<cache, file>>
    BY <2>1, OffLoads
  <2> QED
    BY <1>2, <1>4, <2>1, LegPrepared
<1>5. CASE AcceptDeploy(c) \/ Send(c)
  <2>1. UNCHANGED <<cache, file, menu>>
    BY <1>5 DEF AcceptDeploy, Send
  <2> QED
    BY <2>1, OffLoads
<1>6. CASE OneXSwapExecute(c) \/ OneXSwapAddLiquidity(c) \/ OneXSwapRemoveLiquidity(c)
  BY <1>6, OffPools
<1>7. CASE UpdatePool(c)
  BY <1>7, OffUpdates
<1>8. CASE Ending(c)
  <2>1. KeepsOff(K, Load.bal)
    BY <1>8, EndingOff
  <2> QED
    BY <2>1, LoadIsCached DEF KeepsOff
<1>9. CASE BookStep(c)
  <2>1. CASE BookRequest(c)
    <3>1. PICK up \in BOOLEAN : cache' = Synced(Load, up)
      BY <1>1, <2>1 DEF BookRequest
    <3> QED
      BY <3>1, OffLoads
  <2>2. CASE ~BookRequest(c)
    <3>1. UNCHANGED <<cache, file>>
      BY <1>9, <2>2 DEF BookStep, SyncFromSnapshot, Transfer, ApplyTransfer, Settle, SettleFails, BookFrozen
    <3> QED
      BY <3>1, OffLoads
  <2> QED
    BY <2>1, <2>2
<1> QED
  BY <1>3, <1>4, <1>5, <1>6, <1>7, <1>8, <1>9 DEF Serve, Ending

-----------------------------------------------------------------------------
(* The lists of tokens and of wraps. *)

TokenRecord == [supply : Nat, origin : Key \cup {"none"}, wrapped : Nat]
WrapRecord  == [origin : Key, target : Key, amt : Nat]

ListOK(list) == DOMAIN list \subseteq Key /\ \A t \in DOMAIN list : list[t] \in TokenRecord

\* What b read of the list of tokens is still what list has.
Working(b, list) ==
  /\ b.pc = "loaded" /\ b.req.op = "wrap" => b.work = list
  /\ b.pc = "deploy" => b.work = list /\ b.req.key \notin DOMAIN list

\* Every token is in the registry, and what is being worked on is current.
Registered ==
  Serial => /\ ListOK(tokens) /\ custom = DOMAIN tokens /\ wraps \in Seq(WrapRecord)
            /\ \A c \in Client : Working(client[c], tokens)

\* What the records of wraps say was wrapped of k.
Wrappings(k) == [x \in WrapRecord |-> IF x.origin = k THEN x.amt ELSE 0]

LEMMA WrappingsAdd ==
  ASSUME NEW k, NEW list \in Seq(WrapRecord)
  PROVE  /\ Total([i \in DOMAIN list |-> IF list[i].origin = k THEN list[i].amt ELSE 0])
              = ListTotal(list, Wrappings(k))
         /\ ListTotal(list, Wrappings(k)) \in Nat
<1> DEFINE f == [i \in DOMAIN list |-> IF list[i].origin = k THEN list[i].amt ELSE 0]
           g == [i \in DOMAIN list |-> Wrappings(k)[list[i]]]
<1>1. \A i \in DOMAIN list : list[i] \in WrapRecord
  BY ListDomain
<1>2. f = g
  BY <1>1 DEF Wrappings
<1>3. f \in [DOMAIN list -> Nat]
  BY <1>1 DEF WrapRecord
<1>4. IsFiniteSet(DOMAIN list)
  BY FS_Interval
<1>5. Total(f) \in Nat
  BY <1>3, <1>4, TotalNat
<1>6. ListTotal(list, Wrappings(k)) = Total(g)
  BY DEF ListTotal
<1> QED
  BY <1>2, <1>5, <1>6

LEMMA WrappedIs ==
  ASSUME NEW k, wraps \in Seq(WrapRecord)
  PROVE  Wrapped(k) = ListTotal(wraps, Wrappings(k)) /\ Wrapped(k) \in Nat
<1>1. Wrapped(k) = Total([i \in DOMAIN wraps |-> IF wraps[i].origin = k THEN wraps[i].amt ELSE 0])
  BY DEF Wrapped, Sum
<1> QED
  BY <1>1, WrappingsAdd

\* One more wrap counts for its own token.
LEMMA WrappedMore ==
  ASSUME NEW k, wraps \in Seq(WrapRecord), NEW x \in WrapRecord, wraps' = Append(wraps, x)
  PROVE  /\ Wrapped(k)' = Wrapped(k) + (IF x.origin = k THEN x.amt ELSE 0)
         /\ Wrapped(k) \in Nat /\ Wrapped(k)' \in Nat
<1> DEFINE f == Wrappings(k)
           list == Append(wraps, x)
<1>1. \A y \in WrapRecord : f[y] \in Int
  BY DEF Wrappings, WrapRecord
<1>2. f[x] = IF x.origin = k THEN x.amt ELSE 0
  BY DEF Wrappings
<1>3. list \in Seq(WrapRecord)
  OBVIOUS
<1>4. Wrapped(k) = ListTotal(wraps, f) /\ Wrapped(k) \in Nat
  BY WrappedIs
<1>5. Wrapped(k)' = ListTotal(wraps', f) /\ Wrapped(k)' \in Nat
  <2> DEFINE h == [i \in DOMAIN list |-> IF list[i].origin = k THEN list[i].amt ELSE 0]
  <2>1. Wrapped(k)' = Total(h)
    BY DEF Wrapped, Sum
  <2>2. Total(h) = ListTotal(list, f) /\ ListTotal(list, f) \in Nat
    BY <1>3, WrappingsAdd, Zenon
  <2> QED
    BY <2>1, <2>2, Zenon
<1> HIDE DEF f
<1>6. ListTotal(list, f) = ListTotal(wraps, f) + f[x]
  BY <1>1, ListAppend
<1> QED
  BY <1>2, <1>4, <1>5, <1>6

\* A sum of remainders is the remainder of the sum.
LEMMA ModuloSum ==
  ASSUME NEW a \in Nat, NEW n \in Nat, NEW m \in Nat \ {0}
  PROVE  ((a % m) + n) % m = (a + n) % m
<1> DEFINE q == a \div m
           r == a % m
<1>1. q \in Nat /\ r \in Nat /\ a = m * q + r /\ r < m
  BY SMT
<1> DEFINE x == r + n
           s == x \div m
           t == x % m
<1>2. s \in Nat /\ t \in Nat /\ x = m * s + t /\ t < m /\ x \in Nat
  BY <1>1, SMT
<1> HIDE DEF q, r, s, t, x
<1>3. x = r + n
  BY DEF x
<1>4. m * (q + s) = m * q + m * s
  BY <1>1, <1>2, SMT
<1>5. a + n = m * (q + s) + t
  <2>1. m * q \in Int /\ m * s \in Int
    BY <1>1, <1>2, SMT
  <2> QED
    BY <1>1, <1>2, <1>3, <1>4, <2>1, SMT
<1>6. \A u, v \in Nat : v < m => (m * u + v) % m = v
  OBVIOUS
<1>7. (a + n) % m = t
  <2> DEFINE u == q + s
  <2>1. u \in Nat
    BY <1>1, <1>2, SMT
  <2> HIDE DEF u
  <2>2. (m * u + t) % m = t
    BY <1>2, <1>6, <2>1, Zenon
  <2> QED
    BY <1>5, <2>2 DEF u
<1> QED
  BY <1>7 DEF t, x, r

-----------------------------------------------------------------------------
(* What deploying and wrapping do to them. *)

\* A token is deployed under a new key.
LEMMA Deploys ==
  ASSUME BridgeInv, Serial, CopyCurrent, ListOK(tokens), NEW c \in Client, Working(client[c], tokens),
         DeployPlatformToken(c)
  PROVE  \E k \in Key \ DOMAIN tokens :
           /\ client[c].pc = "deploy" /\ k = client[c].req.key
           /\ DOMAIN tokens' = DOMAIN tokens \cup {k} /\ \A t \in DOMAIN tokens : tokens'[t] = tokens[t]
           /\ tokens'[k] \in TokenRecord /\ tokens'[k].wrapped = 0
           /\ custom' = custom \cup {k} /\ wraps' = wraps
<1> DEFINE r == client[c].req
           k == r.key
           x == [supply |-> r.supply, origin |-> "none", wrapped |-> 0]
<1>1. RequestsOK /\ CanLoad /\ ~Faulty(menu) /\ client[c].pc = "deploy"
  BY LoadCurrent DEF BridgeInv, Copies, Serial, DeployPlatformToken
<1>2. r \in handlePlatformDeploy
  <2>1. RequestOK(client[c])
    BY <1>1 DEF RequestsOK
  <2> QED
    BY <1>1, <2>1 DEF RequestOK, Idle, ServedOK
<1>3. k \in Key /\ r.supply \in Nat /\ client[c].work = tokens /\ k \notin DOMAIN tokens
  BY <1>1, <1>2, BridgeAssumption, Integers64 DEF handlePlatformDeploy, Working
<1>4. /\ tokens' = [t \in DOMAIN client[c].work \cup {k} |-> IF t = k THEN x ELSE client[c].work[t]]
      /\ custom' = custom \cup {k} /\ wraps' = wraps
  BY <1>1 DEF DeployPlatformToken
<1>5. x \in TokenRecord /\ x.wrapped = 0
  BY <1>3 DEF TokenRecord
<1> HIDE DEF x
<1>6. tokens'[k] = x /\ DOMAIN tokens' = DOMAIN tokens \cup {k} /\ \A t \in DOMAIN tokens : tokens'[t] = tokens[t]
  BY <1>3, <1>4
<1> QED
  BY <1>1, <1>3, <1>4, <1>5, <1>6

\* What the list has of w, if anything.
SupplyIn(list, w)  == IF w \in DOMAIN list THEN list[w].supply ELSE 0
WrappedIn(list, w) == IF w \in DOMAIN list THEN list[w].wrapped ELSE 0

\* A list after n of k were wrapped.
Wrote(list, k, n, new) ==
  LET w == WrappedKey[k]
  IN  /\ DOMAIN new = DOMAIN list \cup {w}
      /\ new[w].supply = (SupplyIn(list, w) + n) % Word /\ new[w].wrapped = WrappedIn(list, w)
      /\ \A t \in DOMAIN list \ {w} :
           /\ new[t].supply = list[t].supply
           /\ new[t].wrapped = list[t].wrapped + (IF t = k THEN n ELSE 0)

LEMMA WrappingDoes ==
  ASSUME NEW list, ListOK(list), NEW k \in DOMAIN WrappedKey, NEW n \in Nat,
         NEW new, new = Wrapping(list, k, n)
  PROVE  ListOK(new) /\ Wrote(list, k, n, new)
<1> DEFINE w == WrappedKey[k]
           s == SupplyIn(list, w)
           v == WrappedIn(list, w)
           old == IF w \in DOMAIN list THEN list[w] ELSE [supply |-> 0, wrapped |-> 0]
           x == [supply |-> (s + n) % Word, origin |-> k, wrapped |-> v]
           y(t) == [list[t] EXCEPT !.wrapped = @ + n]
<1>1. w \in Key /\ w # k /\ k \in Key
  BY BridgeAssumption
<1>2. old.supply = s /\ old.wrapped = v
  BY DEF SupplyIn, WrappedIn
<1>3. new = [t \in DOMAIN list \cup {w} |-> IF t = w THEN x ELSE IF t = k THEN y(t) ELSE list[t]]
  <2>1. new =
          [t \in DOMAIN list \cup {w} |->
             IF t = w THEN [supply |-> (old.supply + n) % Word, origin |-> k, wrapped |-> old.wrapped]
             ELSE IF t = k THEN y(t) ELSE list[t]]
    BY DEF Wrapping
  <2> QED
    BY <1>2, <2>1
<1>4. s \in Nat /\ v \in Nat
  BY DEF ListOK, TokenRecord, SupplyIn, WrappedIn
<1>5. x \in TokenRecord /\ x.supply = (s + n) % Word /\ x.wrapped = v
  <2>1. (s + n) % Word \in Nat
    BY <1>4, Integers64
  <2> QED
    BY <1>1, <1>4, <2>1 DEF TokenRecord
<1>6. ASSUME NEW t \in DOMAIN list
      PROVE  /\ list[t] \in TokenRecord /\ list[t].wrapped \in Nat
             /\ y(t) \in TokenRecord /\ y(t).supply = list[t].supply /\ y(t).wrapped = list[t].wrapped + n
  BY DEF ListOK, TokenRecord
<1> HIDE DEF x, y, s, v, w
<1>7. /\ DOMAIN new = DOMAIN list \cup {w} /\ new[w] = x
      /\ \A t \in DOMAIN list \ {w} : new[t] = IF t = k THEN y(t) ELSE list[t]
  BY <1>3
<1>8. \A t \in DOMAIN list \ {w} :
        /\ new[t] \in TokenRecord /\ new[t].supply = list[t].supply
        /\ new[t].wrapped = list[t].wrapped + (IF t = k THEN n ELSE 0)
  BY <1>6, <1>7
<1>9. ListOK(new)
  BY <1>1, <1>5, <1>7, <1>8 DEF ListOK
<1> QED
  BY <1>1, <1>5, <1>7, <1>8, <1>9 DEF Wrote, s, v, w

\* A wrap changes nothing, or wraps a token there is and records it.
LEMMA Wraps ==
  ASSUME BridgeInv, Serial, ListOK(tokens), custom = DOMAIN tokens, NEW c \in Client,
         Working(client[c], tokens), WrapPlatformToken(c)
  PROVE  LET r == client[c].req
             x == [origin |-> r.key, target |-> WrappedKey[r.key], amt |-> r.amt]
         IN  /\ r.key \in DOMAIN WrappedKey /\ r.amt \in Nat
             /\ \/ UNCHANGED platform /\ Drop(c, client[c].p)
                \/ /\ r.key \in DOMAIN tokens \cup Listed /\ Covers(client[c].p, r.key, r.amt)
                   /\ tokens' = Wrapping(tokens, r.key, r.amt)
                   /\ custom' = custom \cup {WrappedKey[r.key]}
                   /\ x \in WrapRecord /\ wraps' = Append(wraps, x)
                   /\ Done(c, Credit(Debit(client[c].p, r.key, r.amt), WrappedKey[r.key], r.amt), "none")
<1> DEFINE p == client[c].p
           r == client[c].req
           w == WrappedKey[r.key]
           x == [origin |-> r.key, target |-> w, amt |-> r.amt]
           known == r.key \in DOMAIN client[c].work \cup custom \cup Listed
           q == Credit(Debit(p, r.key, r.amt), w, r.amt)
<1>1. RequestsOK /\ ~Faulty(menu) /\ client[c].pc = "loaded" /\ r.op = "wrap"
  BY DEF BridgeInv, Copies, Serial, WrapPlatformToken, Serving
<1>2. r.key \in DOMAIN WrappedKey /\ r.amt \in Nat
  BY <1>1, WhatIsServed, PlainFields, Integers64
<1>3. client[c].work = tokens
  BY <1>1 DEF Working
<1>4. \/ Drop(c, p) /\ UNCHANGED platform
      \/ /\ known /\ Covers(p, r.key, r.amt) /\ Done(c, q, "none")
         /\ tokens' = Wrapping(client[c].work, r.key, r.amt)
         /\ custom' = custom \cup {w} /\ wraps' = Append(wraps, x)
  BY <1>1 DEF WrapPlatformToken
<1>5. x \in WrapRecord
  BY <1>2, BridgeAssumption DEF WrapRecord
<1> QED
  BY <1>2, <1>3, <1>4, <1>5

\* A request that is accepted to wrap has read the list of tokens.
LEMMA AcceptReads ==
  ASSUME menu \in Menu, NEW c \in Client, Accept(c)
  PROVE  \E s, w, next : GetPortfolio(c, s, w, next) /\ (s.op = "wrap" => w = tokens)
<1> DEFINE Swaps == handleOneXSwapExec \cup handleSwap \cup handleBridgeExec \cup PoolSwap
           Goal == \E s, w, next : GetPortfolio(c, s, w, next) /\ (s.op = "wrap" => w = tokens)
<1>1. PICK r \in Offered(menu) :
        \/ SwapByPool(r) /\ PrepareSwap(c, r, <<>>)
        \/ r.op = "bridge" /\ PrepareSwap(c, r, <<>>)
        \/ r.op = "bridge" /\ PrepareSwap(c, [r EXCEPT !.to = ONEX], <<SecondLeg(r)>>)
        \/ r.op = "add" /\ PrepareAdd(c, r)
        \/ r.op = "remove" /\ PrepareRemove(c, r)
        \/ PrepareOther(c, r)
  BY DEF Accept
<1>3. /\ r.op \in {"amm", "swap", "bridge"} => r \in Swaps
      /\ r.op = "add" => r \in handleOneXSwapAddLiq
      /\ r.op = "remove" => r \in handleOneXSwapRemoveLiq
  BY OfferedRequests
<1>4. ASSUME NEW s \in Swaps, NEW next, PrepareSwap(c, s, next) PROVE Goal
  <2> DEFINE z == [s EXCEPT !.op = "amm"]
             q == PoolID(s.from, s.to)
             w == [id |-> q, copy |-> Swap(pools[q], s.from = q[1], s.amt),
                   out |-> AmountOut(pools[q], s.from = q[1], s.amt)]
  <2>1. z.op = "amm"
    BY DEF handleOneXSwapExec, handleSwap, handleBridgeExec, PoolSwap
  <2>2. GetPortfolio(c, z, w, next)
    BY <1>4 DEF PrepareSwap
  <2> HIDE DEF z, w
  <2> QED
    BY <2>1, <2>2
<1>5. CASE (SwapByPool(r) \/ r.op = "bridge") /\ PrepareSwap(c, r, <<>>)
  <2>1. r.op \in {"amm", "swap", "bridge"}
    BY <1>5 DEF SwapByPool
  <2> QED
    BY <1>3, <1>4, <1>5, <2>1
<1>6. CASE r.op = "bridge" /\ PrepareSwap(c, [r EXCEPT !.to = ONEX], <<SecondLeg(r)>>)
  <2>1. [r EXCEPT !.to = ONEX] \in Swaps
    BY <1>3, <1>6, KeptAsSwap, BridgeAssumption
  <2> QED
    BY <1>4, <1>6, <2>1
<1>7. CASE r.op = "add" /\ PrepareAdd(c, r)
  <2> DEFINE S(q) == IF pools[q] = NoPool /\ r.t0 = q[2]
                     THEN [r EXCEPT !.t0 = r.t1, !.t1 = r.t0, !.a0 = r.a1, !.a1 = r.a0]
                     ELSE r
             Old(q) == IF pools[q] = NoPool THEN EmptyPool ELSE pools[q]
             W(q) == [id |-> q, copy |-> AddLiquidity(Old(q), S(q).a0, S(q).a1),
                      out |-> Minted(Old(q), S(q).a0, S(q).a1)]
  <2>1. PICK q \in Pairs : GetPortfolio(c, S(q), W(q), <<>>)
    BY <1>7 DEF PrepareAdd
  <2>2. r \in handleOneXSwapAddLiq
    BY <1>3, <1>7
  <2>3. S(q).op = "add"
    BY <2>2 DEF handleOneXSwapAddLiq
  <2> HIDE DEF S, W
  <2> QED
    BY <2>1, <2>3
<1>8. CASE r.op = "remove" /\ PrepareRemove(c, r)
  <2>1. PICK w, next : GetPortfolio(c, r, w, next)
    BY <1>8 DEF PrepareRemove
  <2> QED
    BY <1>8, <2>1
<1>9. CASE PrepareOther(c, r)
  <2> DEFINE w == IF r.op = "wrap" THEN tokens ELSE <<>>
  <2>1. GetPortfolio(c, r, w, <<>>)
    BY <1>9 DEF PrepareOther
  <2> QED
    BY <2>1
<1> QED
  BY <1>1, <1>5, <1>6, <1>7, <1>8, <1>9

\* Everything else leaves the lists alone, and reads them as they are.
LEMMA OthersRead ==
  ASSUME BridgeInv, Serial, NEW c \in Client, Working(client[c], tokens), Serve(c) \/ BookStep(c),
         ~DeployPlatformToken(c), ~WrapPlatformToken(c)
  PROVE  UNCHANGED platform /\ Working(client'[c], tokens')
<1>1. RequestsOK /\ menu \in Menu
  BY DEF BridgeInv, Copies
<1>2. UNCHANGED platform
  BY DEF Serve, Accept, AcceptLeg, AcceptDeploy, Send, Read, Stake, Unstake, RecordDeposit,
         SwapExecute, OneXSwapExecute, OneXSwapAddLiquidity, OneXSwapRemoveLiquidity, UpdatePool,
         MintNFT, TransferNFT, CompleteTask, CreateLoan, RepayLoan, SendToken, Elsewhere,
         BookStep, BookRequest, SyncFromSnapshot, Transfer, ApplyTransfer, Settle, SettleFails, BookFrozen
<1>3. tokens' = tokens
  BY <1>2 DEF platform
<1> SUFFICES Working(client'[c], tokens')
  BY <1>2
<1>4. ASSUME client'[c].pc \notin {"loaded", "deploy"} PROVE Working(client'[c], tokens')
  BY <1>4 DEF Working
<1>5. ASSUME NEW s, NEW w, NEW next, GetPortfolio(c, s, w, next), s.op = "wrap" => w = tokens
      PROVE  Working(client'[c], tokens')
  <2>1. client'[c].pc = "loaded" /\ client'[c].req = s /\ client'[c].work = w
    BY <1>1, <1>5, SerialLoads
  <2> QED
    BY <1>3, <1>5, <2>1 DEF Working
<1>6. ASSUME client' = [client EXCEPT ![c] = Idle] PROVE Working(client'[c], tokens')
  <2>1. client'[c] = Idle
    BY <1>1, <1>6, OneSet
  <2> QED
    BY <1>4, <2>1 DEF Idle
<1>7. CASE Accept(c)
  BY <1>1, <1>5, <1>7, AcceptReads
<1>8. CASE AcceptLeg(c)
  <2>1. CASE \E s, w, next : GetPortfolio(c, s, w, next) /\ PoolDeal(s, w)
    <3>1. PICK s, w, next : GetPortfolio(c, s, w, next) /\ PoolDeal(s, w)
      BY <2>1
    <3>2. s.op # "wrap"
      BY <3>1 DEF PoolDeal
    <3> QED
      BY <1>5, <3>1, <3>2
  <2> QED
    BY <1>6, <1>8, <2>1, LegPrepared
<1>9. CASE AcceptDeploy(c)
  <2>1. PICK r \in Offered(menu) :
          /\ r.op = "deploy"
          /\ \E k \in IF r.key \in DOMAIN tokens THEN SuffixedKey ELSE {r.key} :
               /\ k \notin DOMAIN tokens
               /\ client' = [client EXCEPT ![c] = [pc |-> "deploy", req |-> [r EXCEPT !.key = k], work |-> tokens]]
    BY <1>9 DEF AcceptDeploy
  <2>2. PICK k : /\ k \notin DOMAIN tokens
                 /\ client' = [client EXCEPT ![c] = [pc |-> "deploy", req |-> [r EXCEPT !.key = k], work |-> tokens]]
    BY <2>1
  <2>3. r \in handlePlatformDeploy
    BY <1>1, <2>1, OfferedRequests
  <2> DEFINE s == [r EXCEPT !.key = k]
  <2>4. s.key = k
    BY <2>3 DEF handlePlatformDeploy
  <2> HIDE DEF s
  <2>5. client'[c] = [pc |-> "deploy", req |-> s, work |-> tokens]
    BY <1>1, <2>2, OneSet DEF s
  <2>6. client'[c].pc = "deploy" /\ client'[c].req = s /\ client'[c].work = tokens
    BY <2>5
  <2> QED
    BY <1>3, <2>2, <2>4, <2>6 DEF Working
<1>10. CASE Send(c)
  <2>1. client[c] = Idle /\ client' = client
    BY <1>10 DEF Send
  <2> QED
    BY <1>4, <2>1 DEF Idle
<1>11. CASE OneXSwapExecute(c) \/ OneXSwapAddLiquidity(c) \/ OneXSwapRemoveLiquidity(c)
  <2>1. client[c].pc = "loaded"
    BY <1>11 DEF OneXSwapExecute, OneXSwapAddLiquidity, OneXSwapRemoveLiquidity, Serving
  <2>2. (\E p : SaveFirst(c, p)) \/ (\E p : Drop(c, p))
    BY <1>11, Zenon DEF OneXSwapExecute, OneXSwapAddLiquidity, OneXSwapRemoveLiquidity
  <2>3. ASSUME NEW p, SaveFirst(c, p) PROVE client'[c].pc = "update"
    BY <1>1, <2>1, <2>3, SerialSaves
  <2> QED
    BY <1>4, <1>6, <2>2, <2>3 DEF Drop
<1>12. CASE UpdatePool(c)
  <2> DEFINE left == [pc |-> "leg", req |-> Head(client[c].next)]
             z == IF client[c].next = <<>> THEN Idle ELSE left
  <2>1. client' = [client EXCEPT ![c] = z] \/ client' = [client EXCEPT ![c] = Idle]
    BY <1>12 DEF UpdatePool
  <2>2. z.pc \in {"idle", "leg"}
    BY DEF Idle
  <2> HIDE DEF z
  <2>3. CASE client' = [client EXCEPT ![c] = z]
    <3>1. client'[c] = z
      BY <1>1, <2>3, OneSet
    <3> QED
      BY <1>4, <2>2, <3>1
  <2> QED
    BY <1>6, <2>1, <2>3
<1>13. CASE Ending(c)
  BY <1>6, <1>13, EndingEnds
<1>14. CASE BookStep(c)
  <2>1. client'[c].pc \notin {"loaded", "update", "deploy"}
    BY <1>1, <1>14, BookAside, OneSet
  <2> QED
    BY <1>4, <2>1
<1> QED
  BY <1>7, <1>8, <1>9, <1>10, <1>11, <1>12, <1>13, <1>14 DEF Serve, Ending

-----------------------------------------------------------------------------
(* The lists agree with the records of wraps. *)

LEMMA RegistersServe ==
  ASSUME BridgeInv, Serial, CopyCurrent, ListOK(tokens), custom = DOMAIN tokens, wraps \in Seq(WrapRecord),
         NEW c \in Client, Working(client[c], tokens), Serve(c) \/ BookStep(c)
  PROVE  /\ ListOK(tokens') /\ custom' = DOMAIN tokens' /\ wraps' \in Seq(WrapRecord)
         /\ Working(client'[c], tokens')
<1>1. RequestsOK
  BY DEF BridgeInv, Copies
<1>2. ASSUME Ending(c) PROVE Working(client'[c], tokens')
  <2>1. client'[c] = Idle
    BY <1>1, <1>2, EndingEnds, OneSet
  <2> QED
    BY <2>1 DEF Working, Idle
<1>3. CASE DeployPlatformToken(c)
  <2>1. PICK k \in Key \ DOMAIN tokens :
          /\ DOMAIN tokens' = DOMAIN tokens \cup {k} /\ \A t \in DOMAIN tokens : tokens'[t] = tokens[t]
          /\ tokens'[k] \in TokenRecord /\ custom' = custom \cup {k} /\ wraps' = wraps
    BY <1>3, Deploys
  <2>2. ListOK(tokens')
    BY <2>1 DEF ListOK
  <2> QED
    BY <1>2, <1>3, <2>1, <2>2 DEF Ending
<1>4. CASE WrapPlatformToken(c)
  <2> DEFINE r == client[c].req
             x == [origin |-> r.key, target |-> WrappedKey[r.key], amt |-> r.amt]
  <2>1. /\ r.key \in DOMAIN WrappedKey /\ r.amt \in Nat
        /\ \/ UNCHANGED platform
           \/ /\ tokens' = Wrapping(tokens, r.key, r.amt) /\ custom' = custom \cup {WrappedKey[r.key]}
              /\ x \in WrapRecord /\ wraps' = Append(wraps, x)
    BY <1>4, Wraps
  <2>2. CASE UNCHANGED platform
    BY <1>2, <1>4, <2>2 DEF Ending, platform
  <2> HIDE DEF x
  <2>3. CASE tokens' = Wrapping(tokens, r.key, r.amt) /\ custom' = custom \cup {WrappedKey[r.key]}
             /\ x \in WrapRecord /\ wraps' = Append(wraps, x)
    <3>1. ListOK(tokens') /\ DOMAIN tokens' = DOMAIN tokens \cup {WrappedKey[r.key]}
      <4>1. ListOK(tokens') /\ Wrote(tokens, r.key, r.amt, tokens')
        BY <2>1, <2>3, WrappingDoes
      <4> QED
        BY <4>1 DEF Wrote
    <3>2. wraps' \in Seq(WrapRecord)
      BY <2>3
    <3> QED
      BY <1>2, <1>4, <2>3, <3>1, <3>2 DEF Ending
  <2> QED
    BY <2>1, <2>2, <2>3
<1>5. CASE ~DeployPlatformToken(c) /\ ~WrapPlatformToken(c)
  BY <1>5, OthersRead DEF platform
<1> QED
  BY <1>3, <1>4, <1>5

LEMMA RegistersStay ==
  ASSUME DaemonInv, InUse, CopyCurrent, Registered, [DaemonNext]_<<vars, bookVars>>
  PROVE  Registered'
<1>1. BridgeInv /\ RequestsOK /\ menu' = menu
  BY MenuStays DEF DaemonInv, BridgeInv, Copies
<1> DEFINE Goal == /\ ListOK(tokens') /\ custom' = DOMAIN tokens' /\ wraps' \in Seq(WrapRecord)
                   /\ \A d \in Client : Working(client'[d], tokens')
<1> SUFFICES ASSUME Serial PROVE Goal
  BY <1>1 DEF Registered, Serial
<1>2. /\ ListOK(tokens) /\ custom = DOMAIN tokens /\ wraps \in Seq(WrapRecord)
      /\ \A d \in Client : Working(client[d], tokens)
  BY DEF Registered
<1>3. ASSUME NEW c \in Client, Serve(c) \/ BookStep(c) PROVE Goal
  <2>1. OthersStay(c) /\ (client[c] # Idle \/ c \in Using(menu))
    BY <1>1, <1>3, ServesAlone, BooksAlone
  <2>2. \A d \in Client \ {c} : client'[d] = Idle
    BY <2>1, OthersIdle DEF OthersStay
  <2>3. \A d \in Client \ {c} : Working(client'[d], tokens')
    BY <2>2 DEF Working, Idle
  <2> QED
    BY <1>1, <1>2, <1>3, <2>3, RegistersServe
<1>4. CASE UNCHANGED <<client, platform>>
  BY <1>2, <1>4 DEF platform
<1>5. ~DaemonCrash
  BY DEF DaemonCrash, Crash, Serial
<1> QED
  BY <1>3, <1>4, <1>5 DEF DaemonNext, Tick, vars

LEMMA RegistersStart == DaemonInit => Registered
<1> SUFFICES ASSUME DaemonInit PROVE Registered
  OBVIOUS
<1>1. tokens = <<>> /\ wraps = <<>> /\ custom = {} /\ client = [c \in Client |-> Idle]
  BY DEF DaemonInit, Init
<1>2. DOMAIN tokens = {}
  BY <1>1
<1>3. wraps \in Seq(WrapRecord)
  BY <1>1
<1>4. \A c \in Client : Working(client[c], tokens)
  BY <1>1 DEF Working, Idle
<1> QED
  BY <1>1, <1>2, <1>3, <1>4 DEF Registered, ListOK

\* A list knows that n were wrapped of k: of a platform token, all of them.
Knows(list, k, n) ==
  IF k \in DOMAIN list THEN list[k].wrapped <= n /\ (k \notin Listed => list[k].wrapped = n)
  ELSE k \notin Listed => n = 0

\* What a step changes of the lists is a new token, a wrap, or nothing.
LEMMA ListsStep ==
  ASSUME BridgeInv, Serial, CopyCurrent, ListOK(tokens), custom = DOMAIN tokens, wraps \in Seq(WrapRecord),
         NEW c \in Client, Working(client[c], tokens), Serve(c) \/ BookStep(c)
  PROVE  \/ UNCHANGED <<tokens, wraps>>
         \/ /\ wraps' = wraps /\ client[c].pc = "deploy" /\ client[c].req.key \in Key \ DOMAIN tokens
            /\ DOMAIN tokens' = DOMAIN tokens \cup {client[c].req.key}
            /\ \A t \in DOMAIN tokens : tokens'[t] = tokens[t]
            /\ tokens'[client[c].req.key].wrapped = 0
         \/ /\ WrapPlatformToken(c) /\ client[c].req.key \in DOMAIN WrappedKey
            /\ client[c].req.key \in DOMAIN tokens \cup Listed /\ client[c].req.amt \in Nat
            /\ tokens' = Wrapping(tokens, client[c].req.key, client[c].req.amt)
            /\ \A k : Wrapped(k)' = Wrapped(k) + (IF client[c].req.key = k THEN client[c].req.amt ELSE 0)
<1>1. CASE DeployPlatformToken(c)
  BY <1>1, Deploys
<1>2. CASE WrapPlatformToken(c)
  <2> DEFINE r == client[c].req
             x == [origin |-> r.key, target |-> WrappedKey[r.key], amt |-> r.amt]
  <2>1. /\ r.key \in DOMAIN WrappedKey /\ r.amt \in Nat
        /\ \/ UNCHANGED platform
           \/ /\ r.key \in DOMAIN tokens \cup Listed /\ tokens' = Wrapping(tokens, r.key, r.amt)
              /\ x \in WrapRecord /\ wraps' = Append(wraps, x)
    BY <1>2, Wraps
  <2>2. CASE UNCHANGED platform
    BY <2>2 DEF platform
  <2>3. CASE r.key \in DOMAIN tokens \cup Listed /\ tokens' = Wrapping(tokens, r.key, r.amt)
             /\ x \in WrapRecord /\ wraps' = Append(wraps, x)
    <3>1. x.origin = r.key /\ x.amt = r.amt
      OBVIOUS
    <3> HIDE DEF x
    <3>2. ASSUME NEW k PROVE Wrapped(k)' = Wrapped(k) + (IF r.key = k THEN r.amt ELSE 0)
      BY <2>3, <3>1, WrappedMore
    <3> QED
      BY <1>2, <2>1, <2>3, <3>2
  <2> QED
    BY <2>1, <2>2, <2>3
<1>3. CASE ~DeployPlatformToken(c) /\ ~WrapPlatformToken(c)
  BY <1>3, OthersRead DEF platform
<1> QED
  BY <1>1, <1>2, <1>3

LEMMA WrappedSame == \A k : wraps' = wraps => Wrapped(k)' = Wrapped(k)
BY DEF Wrapped, Sum

LEMMA KnowsServes ==
  ASSUME BridgeInv, Serial, CopyCurrent, ListOK(tokens), custom = DOMAIN tokens, wraps \in Seq(WrapRecord),
         NEW c \in Client, Working(client[c], tokens), Serve(c) \/ BookStep(c),
         NEW k, Knows(tokens, k, Wrapped(k))
  PROVE  Knows(tokens', k, Wrapped(k)')
<1> DEFINE r == client[c].req
           m == Wrapped(k)
           n == Wrapped(k)'
<1>1. m \in Nat
  BY WrappedIs
<1>2. CASE UNCHANGED <<tokens, wraps>>
  BY <1>2, WrappedSame
<1>3. CASE /\ wraps' = wraps /\ r.key \notin DOMAIN tokens
           /\ DOMAIN tokens' = DOMAIN tokens \cup {r.key} /\ \A t \in DOMAIN tokens : tokens'[t] = tokens[t]
           /\ tokens'[r.key].wrapped = 0
  <2>1. n = m
    BY <1>3, WrappedSame
  <2> HIDE DEF n, m
  <2>2. Knows(tokens, k, m)
    BY DEF m
  <2>3. Knows(tokens', k, n)
    BY <1>1, <1>3, <2>1, <2>2 DEF Knows
  <2> QED
    BY <2>3 DEF n
<1>4. CASE /\ r.key \in DOMAIN WrappedKey /\ r.key \in DOMAIN tokens \cup Listed /\ r.amt \in Nat
           /\ tokens' = Wrapping(tokens, r.key, r.amt)
           /\ Wrapped(k)' = Wrapped(k) + (IF r.key = k THEN r.amt ELSE 0)
  <2> DEFINE w == WrappedKey[r.key]
             a == r.amt
             new == Wrapping(tokens, r.key, r.amt)
  <2>1. /\ w # r.key /\ DOMAIN new = DOMAIN tokens \cup {w} /\ new[w].wrapped = WrappedIn(tokens, w)
        /\ \A t \in DOMAIN tokens \ {w} : new[t].wrapped = tokens[t].wrapped + (IF t = r.key THEN a ELSE 0)
    <3>1. Wrote(tokens, r.key, a, new)
      BY <1>4, WrappingDoes
    <3>2. w # r.key
      BY <1>4, BridgeAssumption
    <3> QED
      BY <3>1, <3>2 DEF Wrote
  <2>2. tokens' = new /\ a \in Nat /\ n = m + (IF r.key = k THEN a ELSE 0) /\ Knows(tokens, k, m)
    BY <1>4
  <2>3. r.key \in DOMAIN tokens \cup Listed
    BY <1>4
  <2>4. \A t \in DOMAIN tokens : tokens[t].wrapped \in Nat
    BY DEF ListOK, TokenRecord
  <2> HIDE DEF new, n, m, w, a
  <2>5. CASE k = w
    <3>1. n = m
      BY <1>1, <2>1, <2>2, <2>5
    <3>2. k \in DOMAIN new /\ new[k].wrapped = WrappedIn(tokens, k)
      BY <2>1, <2>5
    <3>3. WrappedIn(tokens, k) <= n /\ (k \notin Listed => WrappedIn(tokens, k) = n)
      BY <1>1, <2>2, <2>4, <3>1 DEF Knows, WrappedIn
    <3>4. Knows(new, k, n)
      BY <3>2, <3>3 DEF Knows
    <3> QED
      BY <2>2, <3>4 DEF n
  <2>6. CASE k # w /\ k \in DOMAIN tokens
    <3>1. new[k].wrapped = tokens[k].wrapped + (IF k = r.key THEN a ELSE 0) /\ k \in DOMAIN new
      BY <2>1, <2>6
    <3>2. tokens[k].wrapped <= m /\ (k \notin Listed => tokens[k].wrapped = m) /\ tokens[k].wrapped \in Nat
      BY <2>2, <2>4, <2>6 DEF Knows
    <3>3. new[k].wrapped <= n /\ (k \notin Listed => new[k].wrapped = n)
      BY <1>1, <2>2, <3>1, <3>2
    <3>4. Knows(new, k, n)
      BY <3>1, <3>3 DEF Knows
    <3> QED
      BY <2>2, <3>4 DEF n
  <2>7. CASE k # w /\ k \notin DOMAIN tokens
    <3>1. k \notin DOMAIN new
      BY <2>1, <2>7
    <3>2. k \notin Listed => r.key # k /\ m = 0
      BY <2>2, <2>3, <2>7 DEF Knows
    <3>3. Knows(new, k, n)
      BY <1>1, <2>2, <3>1, <3>2 DEF Knows
    <3> QED
      BY <2>2, <3>3 DEF n
  <2> QED
    BY <2>5, <2>6, <2>7
<1> QED
  BY <1>2, <1>3, <1>4, ListsStep

-----------------------------------------------------------------------------
(* A wrapped token has what was wrapped into it, and the wallet no more. *)

\* Of w, which stands for n in all, p has no more and the list as much.
Backs(w, p, list, n) ==
  /\ LoansOff(p, {w}) /\ p.bal[w] <= n
  /\ IF w \in DOMAIN list THEN list[w].supply = n % Word ELSE n = 0

\* Neither the chains nor the rates give any of w.
Unlisted(w) == OnChain[w] = 0 /\ \A o \in Key : Rate[o, w] = 0

\* The wrapped form of k is given for k only.
LEMMA ApartMeans ==
  ASSUME NEW k \in DOMAIN WrappedKey, WrapApart(k), NEW b \in [Key -> UInt]
  PROVE  LET w == WrappedKey[k]
         IN  /\ w \in Key /\ w # k /\ Outside({w}, b) /\ MenuAside({w}) /\ {w} \cap ShareKeys = {}
             /\ \A q \in Pairs : q[1] \notin {w} /\ q[2] \notin {w}
             /\ \A o \in DOMAIN WrappedKey : WrappedKey[o] = w => o = k
<1> DEFINE w == WrappedKey[k]
<1>1. w \in Key /\ w # k
  BY BridgeAssumption
<1>2. Unlisted(w)
  BY Zenon DEF WrapApart, Unlisted
<1>3. /\ \A o \in DOMAIN WrappedKey : WrappedKey[o] = w => o = k
      /\ w # ONEX /\ w \notin SuffixedKey /\ w \notin ShareKeys
      /\ \A q \in Pairs : w \notin {q[1], q[2]}
      /\ \A t \in DOMAIN Reward : Reward[t].key # w
      /\ \A s \in StakePools : w \notin {s.stake, s.receipt}
      /\ \A r \in Offered(menu) :
           /\ r.op = "loan" => w \notin {r.colKey, r.debtKey}
           /\ r.op \in {"deposit", "deploy"} => r.key # w
  BY DEF WrapApart
<1> HIDE DEF w
<1>4. \A v \in {w} : Unlisted(v)
  BY <1>2
<1>5. /\ ONEX \notin {w} /\ \A t \in DOMAIN Reward : Reward[t].key \notin {w}
      /\ \A s \in StakePools : s.stake \notin {w} /\ s.receipt \notin {w}
  BY <1>3, Zenon
<1>6. {w} \subseteq Key
  BY <1>1
<1>7. Outside({w}, b)
  BY <1>4, <1>5, <1>6, Zenon DEF Outside, Unlisted
<1>8. MenuAside({w})
  BY <1>3 DEF MenuAside, NamesNone
<1>9. {w} \cap ShareKeys = {} /\ \A q \in Pairs : q[1] \notin {w} /\ q[2] \notin {w}
  BY <1>3
<1>10. w = WrappedKey[k]
  BY DEF w
<1> QED
  BY <1>1, <1>3, <1>7, <1>8, <1>9, <1>10

\* A wrap of k gives its wrapped form, and nothing else,
LEMMA WrapBacks ==
  ASSUME BridgeInv, Serial, CopyCurrent, ListOK(tokens), custom = DOMAIN tokens, wraps \in Seq(WrapRecord),
         NEW c \in Client, Working(client[c], tokens), WrapPlatformToken(c),
         NEW k \in DOMAIN WrappedKey, client[c].req.key = k,
         Backs(WrappedKey[k], Load, tokens, Wrapped(k))
  PROVE  Backs(WrappedKey[k], Load', tokens', Wrapped(k)')
<1> DEFINE w == WrappedKey[k]
           p == client[c].p
           a == client[c].req.amt
           x == [origin |-> k, target |-> w, amt |-> a]
           q == Credit(Debit(p, k, a), w, a)
           new == Wrapping(tokens, k, a)
           m == Wrapped(k)
           n == Wrapped(k)'
<1>1. client[c].pc = "loaded"
  BY DEF WrapPlatformToken, Serving
<1>2. Load \in Portfolio /\ p = Load /\ p = cache
  BY <1>1, LoadCurrent DEF BridgeInv, Copies, CopyCurrent
<1>3. w \in Key /\ w # k /\ k \in Key
  BY BridgeAssumption
<1>4. /\ a \in Nat
      /\ \/ UNCHANGED platform /\ Drop(c, p)
         \/ /\ Covers(p, k, a) /\ tokens' = new
            /\ x \in WrapRecord /\ wraps' = Append(wraps, x) /\ Done(c, q, "none")
  BY Wraps
<1>5. m \in Nat
  BY WrappedIs
<1>6. CASE UNCHANGED platform /\ Drop(c, p)
  <2>1. Load' = Load
    BY <1>2, <1>6, LoadIsCached DEF Drop
  <2>2. n = m
    BY <1>6, WrappedSame DEF platform
  <2> QED
    BY <1>6, <2>1, <2>2 DEF platform
<1>7. CASE /\ Covers(p, k, a) /\ tokens' = new
           /\ x \in WrapRecord /\ wraps' = Append(wraps, x) /\ Done(c, q, "none")
  <2>1. q \in Portfolio /\ SameRecords(p, q) /\ q.bal[w] - p.bal[w] <= a
    BY <1>2, <1>3, <1>4, <1>7, ExchangeBalances
  <2>2. cache' = q
    BY <1>7 DEF Done
  <2>3. x.origin = k /\ x.amt = a
    OBVIOUS
  <2> HIDE DEF x
  <2>4. n = m + a
    BY <1>7, <2>3, WrappedMore
  <2>5. w \in DOMAIN new /\ new[w].supply = (SupplyIn(tokens, w) + a) % Word
    <3>1. Wrote(tokens, k, a, new)
      BY <1>4, WrappingDoes
    <3> QED
      BY <3>1 DEF Wrote
  <2> HIDE DEF q, new, m, n
  <2>6. Load' = q
    BY <2>1, <2>2, LoadIsCached
  <2>7. LoansOff(p, {w}) /\ p.bal[w] <= m /\ SupplyIn(tokens, w) = m % Word
    <3>1. Backs(w, p, tokens, m)
      BY <1>2 DEF m
    <3>2. 0 % Word = 0
      BY Integers64
    <3> QED
      BY <3>1, <3>2 DEF Backs, SupplyIn
  <2>8. q.bal[w] <= n
    <3>1. q.bal[w] \in Int /\ p.bal[w] \in Int
      BY <1>2, <1>3, <2>1, BalanceType
    <3> QED
      BY <1>4, <1>5, <2>1, <2>4, <2>7, <3>1
  <2>9. new[w].supply = n % Word
    <3>1. Word \in Nat \ {0}
      BY Integers64
    <3>2. ((m % Word) + a) % Word = (m + a) % Word
      BY <1>4, <1>5, <3>1, ModuloSum
    <3> QED
      BY <2>4, <2>5, <2>7, <3>2
  <2>10. LoansOff(q, {w})
    BY <2>1, <2>7 DEF LoansOff, SameRecords
  <2>11. Backs(w, q, new, n)
    BY <2>5, <2>8, <2>9, <2>10 DEF Backs
  <2> QED
    BY <1>7, <2>6, <2>11 DEF n
<1> QED
  BY <1>4, <1>6, <1>7

LEMMA NextLoad ==
  ASSUME Serial, menu' = menu, BridgeInv', CopyCurrent'
  PROVE  Load' \in Portfolio
<1>1. cache' = NoPortfolio \/ cache' \in Portfolio
  BY DEF BridgeInv, Copies, SavedOK
<1>2. file' = NoPortfolio \/ file' \in Portfolio
  BY DEF BridgeInv, Copies, SavedOK, CopyCurrent, Serial
<1>3. DefaultPortfolio' \in Portfolio
  BY DefaultOK DEF DefaultPortfolio
<1> QED
  BY <1>1, <1>2, <1>3 DEF Load

\* and no other step gives any of it.
LEMMA BacksServes ==
  ASSUME BridgeInv, BridgeInv', Serial, CopyCurrent, CopyCurrent', PoolsFollow,
         ListOK(tokens), custom = DOMAIN tokens, wraps \in Seq(WrapRecord),
         NEW c \in Client, Working(client[c], tokens), Serve(c) \/ BookStep(c), menu' = menu,
         NEW k \in DOMAIN WrappedKey, WrapApart(k), Aside(client[c], {WrappedKey[k]}),
         Backs(WrappedKey[k], Load, tokens, Wrapped(k))
  PROVE  Backs(WrappedKey[k], Load', tokens', Wrapped(k)')
<1> DEFINE w == WrappedKey[k]
           r == client[c].req
           m == Wrapped(k)
           n == Wrapped(k)'
<1>1. Load \in Portfolio /\ Load.bal \in [Key -> UInt]
  BY LoadCurrent, PortfolioFields DEF BridgeInv, Copies
<1>2. /\ w \in Key /\ w # k /\ Outside({w}, Load.bal) /\ {w} \cap ShareKeys = {}
      /\ \A q \in Pairs : q[1] \notin {w} /\ q[2] \notin {w}
      /\ \A o \in DOMAIN WrappedKey : WrappedKey[o] = w => o = k
  BY <1>1, ApartMeans
<1>3. CASE WrapPlatformToken(c) /\ r.key = k
  BY <1>3, WrapBacks
<1>4. CASE ~(WrapPlatformToken(c) /\ r.key = k)
  <2>1. /\ Backs(w, Load, tokens, m) /\ LoansOff(Load, {w}) /\ Load.bal[w] <= m /\ m \in Nat
    BY WrappedIs DEF Backs
  <2>2. WrapPlatformToken(c) => r.key \in DOMAIN WrappedKey /\ r.key # k
    BY <1>4, Wraps
  <2>3. WrapPlatformToken(c) => WrappedKey[r.key] \notin {w}
    BY <1>2, <2>2
  <2>4. Off(Load', {w}, Load.bal)
    BY <1>2, <2>1, <2>3, OffServes
  <2>5. Load'.bal[w] <= Load.bal[w] /\ LoansOff(Load', {w})
    BY <2>4 DEF Off
  <2>6. Load'.bal[w] <= m
    <3>1. Load' \in Portfolio
      BY NextLoad
    <3>2. Load'.bal[w] \in Int /\ Load.bal[w] \in Int
      BY <1>1, <1>2, <3>1, BalanceType
    <3> QED
      BY <2>1, <2>5, <3>2
  <2>7. CASE UNCHANGED <<tokens, wraps>>
    <3>1. n = m
      BY <2>7, WrappedSame
    <3> QED
      BY <2>1, <2>5, <2>6, <2>7, <3>1 DEF Backs
  <2>8. CASE /\ wraps' = wraps /\ client[c].pc = "deploy" /\ r.key \notin DOMAIN tokens
             /\ DOMAIN tokens' = DOMAIN tokens \cup {r.key}
             /\ \A t \in DOMAIN tokens : tokens'[t] = tokens[t]
    <3>1. n = m
      BY <2>8, WrappedSame
    <3>2. r.key # w
      BY <2>8 DEF Aside
    <3> HIDE DEF n, m, w, r
    <3>3. IF w \in DOMAIN tokens' THEN tokens'[w].supply = n % Word ELSE n = 0
      BY <2>1, <2>8, <3>1, <3>2 DEF Backs
    <3>4. Backs(w, Load', tokens', n)
      BY <2>5, <2>6, <3>1, <3>3 DEF Backs
    <3> QED
      BY <3>4 DEF n, w
  <2>9. CASE /\ WrapPlatformToken(c) /\ r.key \in DOMAIN WrappedKey /\ r.amt \in Nat
             /\ tokens' = Wrapping(tokens, r.key, r.amt)
             /\ Wrapped(k)' = Wrapped(k) + (IF r.key = k THEN r.amt ELSE 0)
    <3>1. n = m
      BY <2>1, <2>2, <2>9
    <3> DEFINE v == WrappedKey[r.key]
    <3>2. v # w
      BY <2>3, <2>9
    <3>3. DOMAIN tokens' = DOMAIN tokens \cup {v} /\ \A t \in DOMAIN tokens \ {v} : tokens'[t].supply = tokens[t].supply
      <4>1. Wrote(tokens, r.key, r.amt, tokens')
        BY <2>9, WrappingDoes
      <4> QED
        BY <4>1 DEF Wrote
    <3> HIDE DEF n, m, w, r, v
    <3>4. IF w \in DOMAIN tokens' THEN tokens'[w].supply = n % Word ELSE n = 0
      BY <2>1, <3>1, <3>2, <3>3 DEF Backs
    <3>5. Backs(w, Load', tokens', n)
      BY <2>5, <2>6, <3>1, <3>4 DEF Backs
    <3> QED
      BY <3>5 DEF n, w
  <2> QED
    BY <2>7, <2>8, <2>9, ListsStep
<1> QED
  BY <1>3, <1>4

-----------------------------------------------------------------------------
(* Both, of every token that has a wrapped form. *)

Remembered ==
  Serial => \A k \in DOMAIN WrappedKey : Knows(tokens, k, Wrapped(k))

Issued ==
  Serial => \A k \in DOMAIN WrappedKey :
    WrapApart(k) => Backs(WrappedKey[k], Load, tokens, Wrapped(k))

WrapsAside == \A k \in DOMAIN WrappedKey : Asides({WrappedKey[k]})

LEMMA WrapsStay ==
  ASSUME DaemonInv, InUse, PoolsFollow, CopyCurrent, Registered, WrapsAside, Remembered, Issued,
         [DaemonNext]_<<vars, bookVars>>
  PROVE  WrapsAside' /\ Remembered' /\ Issued'
<1>1. BridgeInv /\ BridgeInv' /\ RequestsOK /\ menu' = menu /\ CopyCurrent'
  BY DaemonStepKeeps, CopyStays, MenuStays DEF DaemonInv, BridgeInv, Copies
<1>2. WrapsAside'
  <2>1. ASSUME NEW k \in DOMAIN WrappedKey PROVE Asides({WrappedKey[k]})'
    BY AsidesStay DEF WrapsAside
  <2> QED
    BY <2>1 DEF WrapsAside
<1> DEFINE Goal(k) == /\ Knows(tokens', k, Wrapped(k)')
                      /\ WrapApart(k) => Backs(WrappedKey[k], Load', tokens', Wrapped(k)')
<1>3. ASSUME Serial, NEW k \in DOMAIN WrappedKey PROVE Goal(k)
  <2>1. /\ ListOK(tokens) /\ custom = DOMAIN tokens /\ wraps \in Seq(WrapRecord)
        /\ \A d \in Client : Working(client[d], tokens)
    BY <1>3 DEF Registered
  <2>2. Knows(tokens, k, Wrapped(k)) /\ (WrapApart(k) => Backs(WrappedKey[k], Load, tokens, Wrapped(k)))
    BY <1>3 DEF Remembered, Issued
  <2>3. ASSUME NEW c \in Client, Serve(c) \/ BookStep(c) PROVE Goal(k)
    <3>1. Knows(tokens', k, Wrapped(k)')
      BY <1>1, <1>3, <2>1, <2>2, <2>3, KnowsServes
    <3>2. ASSUME WrapApart(k) PROVE Backs(WrappedKey[k], Load', tokens', Wrapped(k)')
      <4>1. Load.bal \in [Key -> UInt]
        BY <1>1, <1>3, LoadCurrent, PortfolioFields DEF BridgeInv, Copies
      <4>2. MenuAside({WrappedKey[k]})
        BY <3>2, <4>1, ApartMeans
      <4>3. Aside(client[c], {WrappedKey[k]})
        BY <1>3, <4>2 DEF WrapsAside, Asides
      <4> QED
        BY <1>1, <1>3, <2>1, <2>2, <2>3, <3>2, <4>3, BacksServes
    <3> QED
      BY <3>1, <3>2
  <2>4. ASSUME UNCHANGED <<platform, cache, file>> PROVE Goal(k)
    <3>1. Load' = Load
      BY <1>1, <2>4 DEF Load, DefaultPortfolio
    <3>2. Wrapped(k)' = Wrapped(k) /\ tokens' = tokens
      BY <2>4, WrappedSame DEF platform
    <3> QED
      BY <2>2, <3>1, <3>2
  <2>5. ~DaemonCrash
    BY <1>3 DEF DaemonCrash, Crash, Serial
  <2> QED
    BY <2>3, <2>4, <2>5 DEF DaemonNext, Tick, vars
<1>4. Serial' => Serial
  BY <1>1 DEF Serial
<1>5. Remembered'
  BY <1>3, <1>4 DEF Remembered
<1>6. Issued'
  <2>1. \A k : WrapApart(k)' => WrapApart(k)
    BY <1>1 DEF WrapApart
  <2> QED
    BY <1>3, <1>4, <2>1 DEF Issued
<1> QED
  BY <1>2, <1>5, <1>6

\* At first nothing is wrapped.
LEMMA WrapsStart == DaemonInit => WrapsAside /\ Remembered /\ Issued
<1> SUFFICES ASSUME DaemonInit PROVE WrapsAside /\ Remembered /\ Issued
  OBVIOUS
<1>1. tokens = <<>> /\ wraps = <<>> /\ cache = NoPortfolio /\ file = NoPortfolio
  BY DEF DaemonInit, Init
<1>2. DOMAIN tokens = {} /\ wraps \in Seq(WrapRecord)
  BY <1>1
<1>3. ASSUME NEW k PROVE Wrapped(k) = 0
  BY <1>1, <1>2, ListEmpty, WrappedIs
<1>4. ASSUME NEW k \in DOMAIN WrappedKey, WrapApart(k)
      PROVE  Backs(WrappedKey[k], Load, tokens, Wrapped(k))
  <2> DEFINE w == WrappedKey[k]
  <2>1. w \in Key /\ Prefunded[w] = 0
    BY <1>4, BridgeAssumption DEF WrapApart
  <2> HIDE DEF w
  <2>2. Load = DefaultPortfolio
    BY <1>1 DEF Load
  <2>3. DefaultPortfolio.bal[w] = 0 /\ DefaultPortfolio.loans = <<>>
    BY <2>1 DEF DefaultPortfolio
  <2>4. Backs(w, Load, tokens, Wrapped(k))
    BY <1>2, <1>3, <2>2, <2>3 DEF Backs, LoansOff
  <2> QED
    BY <2>4 DEF w
<1>5. \A k : Knows(tokens, k, Wrapped(k))
  BY <1>2, <1>3 DEF Knows
<1>6. WrapsAside
  BY AsidesStart DEF WrapsAside
<1> QED
  BY <1>4, <1>5, <1>6 DEF Remembered, Issued

\* With one request at a time and no write that fails, the three writes of
\* WrapPlatformToken agree: a wrapped token's supply is what the records of
\* wraps add up to, the wallet has no more of it, and the token it was made
\* from remembers as much, whatever is deployed, wrapped again or loaded between.
THEOREM WrapsAreBacked == DaemonSpec => []WrappedBacked
<1> DEFINE IInv == InUse /\ PoolsFollow /\ CopyCurrent /\ Registered /\ WrapsAside /\ Remembered /\ Issued
<1>1. DaemonInit => IInv
  BY InitialUse, CopyStarts, RegistersStart, WrapsStart
<1>2. DaemonInv /\ IInv /\ [DaemonNext]_<<vars, bookVars>> => IInv'
  BY InUseStays, FollowingStays, CopyStays, RegistersStay, WrapsStay
<1>3. Remembered /\ Issued => WrappedBacked
  BY DEF WrappedBacked, Remembered, Issued, Knows, Backs
<1> QED
  BY <1>1, <1>2, <1>3, DaemonInvariantHolds, PTL DEF DaemonSpec
=============================================================================
