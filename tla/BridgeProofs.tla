---------------------------- MODULE BridgeProofs ----------------------------
(***************************************************************************)
(* Theorems about the bridge daemon, its pools and its book.               *)
(***************************************************************************)
EXTENDS LedgerBook, Pool, SumProofs, TLAPS

-----------------------------------------------------------------------------
(* What Pool promises, for every fee, width and seed: rounding always favours *)
(* the pool.  The arithmetic is nonlinear, so that each lemma goes through    *)
(* the one fact that matters of a quotient: q * d <= n.                       *)

\* The two facts of a quotient the other lemmas use.
LEMMA Quotient ==
  ASSUME NEW n \in Nat, NEW d \in Nat \ {0}
  PROVE  /\ n \div d \in Nat
         /\ (n \div d) * d <= n
  BY SMT

LEMMA ProductsOrder ==
  ASSUME NEW a \in Nat, NEW b \in Nat, NEW c \in Nat, a <= b
  PROVE  a * c <= b * c
  BY SMT

LEMMA CancelFactor ==
  ASSUME NEW a \in Nat, NEW b \in Nat, NEW c \in Nat \ {0}, a * c <= b * c
  PROVE  a <= b
  BY SMT

LEMMA ProductType ==
  ASSUME NEW a \in Nat, NEW b \in Nat
  PROVE  a * b \in Nat
  BY SMT

\* A swap leaves something of the token it pays out, and its output, priced at
\* the reserves before, never exceeds what was paid in.
LEMMA SwapOutBounds ==
  ASSUME NEW rin \in Nat \ {0}, NEW rout \in Nat \ {0}, NEW ain \in Nat
  PROVE  /\ SwapOut(rin, rout, ain) \in Nat
         /\ SwapOut(rin, rout, ain) < rout
         /\ SwapOut(rin, rout, ain) * rin <= ain * (rout - SwapOut(rin, rout, ain))
<1> DEFINE x == ain * FeeKept
           d == rin * FeeBase + x
           out == SwapOut(rin, rout, ain)
<1>1. x \in Nat /\ FeeBase \in Nat \ {0} /\ FeeKept \in Nat /\ FeeKept <= FeeBase
  BY AMMAssumption, ProductType
<1>2. rin * FeeBase \in Nat \ {0}
  BY <1>1, SMT
<1>3. d \in Nat \ {0} /\ x < d
  BY <1>1, <1>2
<1>4. x * rout \in Nat
  BY <1>1, ProductType
<1>5. out \in Nat /\ out * d <= x * rout
  BY <1>3, <1>4, Quotient DEF SwapOut
<1>6. out < rout
  <2>1. SUFFICES ASSUME rout <= out PROVE FALSE
    BY <1>5
  <2>2. rout * d <= out * d
    BY <2>1, <1>3, <1>5, ProductsOrder
  <2>3. x * rout < d * rout
    BY <1>1, <1>3, SMT
  <2> QED
    BY <2>2, <2>3, <1>1, <1>3, <1>4, <1>5, SMT
<1>7. out * rin * FeeBase <= x * (rout - out)
  <2>1. out * d = out * rin * FeeBase + out * x
    BY <1>1, <1>5, SMT
  <2>2. x * (rout - out) = x * rout - out * x
    BY <1>1, <1>5, SMT
  <2> QED
    BY <2>1, <2>2, <1>1, <1>5, ProductType
<1>8. x * (rout - out) <= ain * (rout - out) * FeeBase
  <2>1. rout - out \in Nat /\ ain * (rout - out) \in Nat
    BY <1>5, <1>6, ProductType
  <2>2. x * (rout - out) = FeeKept * (ain * (rout - out))
    BY <1>1, <2>1, SMT
  <2>3. FeeKept * (ain * (rout - out)) <= FeeBase * (ain * (rout - out))
    BY <1>1, <2>1, ProductsOrder
  <2> QED
    BY <2>1, <2>2, <2>3, <1>1, SMT
<1>9. out * rin <= ain * (rout - out)
  <2>1. out * rin \in Nat /\ ain * (rout - out) \in Nat
    BY <1>5, <1>6, ProductType
  <2>2. (out * rin) * FeeBase \in Nat /\ x * (rout - out) \in Int
        /\ (ain * (rout - out)) * FeeBase \in Nat
    BY <2>1, <1>1, <1>5, ProductType
  <2>3. (out * rin) * FeeBase <= (ain * (rout - out)) * FeeBase
    BY <1>7, <1>8, <2>2
  <2> QED
    BY <2>1, <2>3, <1>1, CancelFactor
<1> QED
  BY <1>5, <1>6, <1>9

\* The product of the reserves does not fall in a swap.
LEMMA SwapKeepsProduct ==
  ASSUME NEW rin \in Nat \ {0}, NEW rout \in Nat \ {0}, NEW ain \in Nat
  PROVE  rin * rout <= (rin + ain) * (rout - SwapOut(rin, rout, ain))
<1> DEFINE out == SwapOut(rin, rout, ain)
<1>1. out \in Nat /\ out < rout /\ out * rin <= ain * (rout - out)
  BY SwapOutBounds
<1> HIDE DEF out
<1>2. (rin + ain) * (rout - out) = rin * rout - out * rin + ain * (rout - out)
  BY <1>1, SMT
<1>3. rin * rout \in Int /\ out * rin \in Int /\ ain * (rout - out) \in Int
  BY <1>1
<1>4. rin * rout <= (rin + ain) * (rout - out)
  BY <1>1, <1>2, <1>3
<1> QED
  BY <1>4 DEF out

\* From each reserve's share to the product over the square of the shares.
LEMMA ValueFromParts ==
  ASSUME NEW a \in Nat, NEW b \in Nat, NEW a1 \in Nat, NEW b1 \in Nat,
         NEW s \in Nat, NEW s1 \in Nat,
         a * s1 <= a1 * s, b * s1 <= b1 * s
  PROVE  a * b * s1 * s1 <= a1 * b1 * s * s
<1>1. /\ a * s1 \in Nat /\ a1 * s \in Nat
      /\ b * s1 \in Nat /\ b1 * s \in Nat
  BY ProductType
<1>2. (a * s1) * (b * s1) <= (a1 * s) * (b * s1)
  BY <1>1, ProductsOrder
<1>3. (b * s1) * (a1 * s) <= (b1 * s) * (a1 * s)
  BY <1>1, ProductsOrder
<1>4. /\ a * b * s1 * s1 = (a * s1) * (b * s1)
      /\ (a1 * s) * (b * s1) = (b * s1) * (a1 * s)
      /\ a1 * b1 * s * s = (b1 * s) * (a1 * s)
  BY SMT
<1>5. (a * s1) * (b * s1) \in Nat /\ (b * s1) * (a1 * s) \in Nat /\ (b1 * s) * (a1 * s) \in Nat
  BY <1>1, ProductType
<1> QED
  BY <1>2, <1>3, <1>4, <1>5

\* A deposit pays for its shares on both sides.
LEMMA DepositPays ==
  ASSUME NEW p \in PoolState, p.shares > 0, p.r0 > 0, p.r1 > 0,
         NEW a0 \in Nat, NEW a1 \in Nat
  PROVE  /\ Minted(p, a0, a1) \in Nat
         /\ p.r0 * (p.shares + Minted(p, a0, a1)) <= (p.r0 + a0) * p.shares
         /\ p.r1 * (p.shares + Minted(p, a0, a1)) <= (p.r1 + a1) * p.shares
<1> DEFINE s0 == (a0 * p.shares) \div p.r0
           s1 == (a1 * p.shares) \div p.r1
           m  == Minted(p, a0, a1)
<1>1. p.shares \in Nat \ {0} /\ p.r0 \in Nat \ {0} /\ p.r1 \in Nat \ {0}
  BY DEF PoolState
<1>2. a0 * p.shares \in Nat /\ a1 * p.shares \in Nat
  BY <1>1, ProductType
<1>3. s0 \in Nat /\ s0 * p.r0 <= a0 * p.shares
  BY <1>1, <1>2, Quotient
<1>4. s1 \in Nat /\ s1 * p.r1 <= a1 * p.shares
  BY <1>1, <1>2, Quotient
<1>5. m = IF s0 < s1 THEN s0 ELSE s1
  BY <1>1 DEF Minted
<1> HIDE DEF s0, s1, m
<1>6. m \in Nat /\ m <= s0 /\ m <= s1
  BY <1>3, <1>4, <1>5
<1>7. m * p.r0 <= a0 * p.shares /\ m * p.r1 <= a1 * p.shares
  <2>1. m * p.r0 <= s0 * p.r0 /\ m * p.r1 <= s1 * p.r1
    BY <1>1, <1>3, <1>4, <1>6, ProductsOrder
  <2> QED
    BY <2>1, <1>1, <1>2, <1>3, <1>4, <1>6, ProductType
<1>8. /\ p.r0 * (p.shares + m) = p.r0 * p.shares + m * p.r0
      /\ (p.r0 + a0) * p.shares = p.r0 * p.shares + a0 * p.shares
      /\ p.r1 * (p.shares + m) = p.r1 * p.shares + m * p.r1
      /\ (p.r1 + a1) * p.shares = p.r1 * p.shares + a1 * p.shares
  BY <1>1, <1>6, SMT
<1>9. /\ p.r0 * p.shares \in Nat /\ p.r1 * p.shares \in Nat
      /\ m * p.r0 \in Nat /\ m * p.r1 \in Nat
  BY <1>1, <1>6, ProductType
<1>10. p.r0 * (p.shares + m) <= (p.r0 + a0) * p.shares
  BY <1>2, <1>7, <1>8, <1>9
<1>11. p.r1 * (p.shares + m) <= (p.r1 + a1) * p.shares
  BY <1>2, <1>7, <1>8, <1>9
<1> QED
  BY <1>6, <1>10, <1>11 DEF m

\* What a burn takes out of one reserve leaves the others' part of it.
LEMMA BurnLeaves ==
  ASSUME NEW r \in Nat \ {0}, NEW s \in Nat \ {0}, NEW b \in Nat, b < s
  PROVE  /\ (b * r) \div s \in Nat
         /\ (b * r) \div s < r
         /\ r * (s - b) <= (r - (b * r) \div s) * s
<1> DEFINE q == (b * r) \div s
<1>1. b * r \in Nat
  BY ProductType
<1>2. q \in Nat /\ q * s <= b * r
  BY <1>1, Quotient
<1> HIDE DEF q
<1>3. q < r
  <2>1. SUFFICES ASSUME r <= q PROVE FALSE
    BY <1>2
  <2>2. r * s <= q * s
    BY <2>1, <1>2, ProductsOrder
  <2>3. b * r < s * r
    BY SMT
  <2> QED
    BY <2>2, <2>3, <1>1, <1>2, SMT
<1>4. r * (s - b) = r * s - b * r /\ (r - q) * s = r * s - q * s
  BY <1>2, SMT
<1>5. r * s \in Nat /\ q * s \in Nat
  BY <1>2, ProductType
<1>6. r * (s - b) <= (r - q) * s
  BY <1>1, <1>2, <1>4, <1>5
<1> QED
  BY <1>2, <1>3, <1>6 DEF q

-----------------------------------------------------------------------------

LEMMA IsqrtOfPositive ==
  ASSUME NEW a0 \in Nat, NEW a1 \in Nat, Isqrt(a0 * a1) > 0
  PROVE  a0 * a1 # 0
  <1>1. SUFFICES ASSUME a0 * a1 = 0 PROVE FALSE
    OBVIOUS
  <1>2. 0 .. 0 = {0}
    OBVIOUS
  <1>3. \A s \in 0 .. 0 : s = 0
    BY <1>2
  <1>4. 0 * 0 <= 0 /\ 0 < (0 + 1) * (0 + 1)
    BY SMT
  <1>5. Isqrt(0) \in 0 .. 0
    BY <1>2, <1>4 DEF Isqrt
  <1> QED
    BY <1>1, <1>3, <1>5

\* The state after each operation, given one that is fit to serve.
LEMMA SwapStep ==
  ASSUME NEW p \in PoolState, NEW zeroIn \in BOOLEAN, NEW ain \in UInt, CanSwap(p, zeroIn, ain),
         NEW n, n = Swap(p, zeroIn, ain)
  PROVE  /\ n \in PoolState
         /\ n.r0 > 0 /\ n.r1 > 0 /\ n.shares = p.shares
         /\ p.r0 * p.r1 <= n.r0 * n.r1
<1>1. ain \in Nat /\ p.r0 \in Nat \ {0} /\ p.r1 \in Nat \ {0} /\ p.shares \in Nat
  BY AMMAssumption DEF CanSwap, PoolState, UInt
<1>2. CASE zeroIn
  <2> DEFINE out == SwapOut(p.r0, p.r1, ain)
  <2>1. n = [r0 |-> p.r0 + ain, r1 |-> p.r1 - out, shares |-> p.shares]
    BY <1>2 DEF Swap
  <2>2. out \in Nat /\ out < p.r1
    BY <1>1, SwapOutBounds
  <2>3. p.r0 * p.r1 <= (p.r0 + ain) * (p.r1 - out)
    BY <1>1, SwapKeepsProduct
  <2> HIDE DEF out
  <2>4. n \in PoolState /\ n.r0 = p.r0 + ain /\ n.r1 = p.r1 - out
        /\ n.shares = p.shares
    BY <1>1, <2>1, <2>2 DEF PoolState
  <2> QED
    BY <1>1, <2>2, <2>3, <2>4
<1>3. CASE ~zeroIn
  <2> DEFINE out == SwapOut(p.r1, p.r0, ain)
  <2>1. n = [r0 |-> p.r0 - out, r1 |-> p.r1 + ain, shares |-> p.shares]
    BY <1>3 DEF Swap
  <2>2. out \in Nat /\ out < p.r0
    BY <1>1, SwapOutBounds
  <2>3. p.r1 * p.r0 <= (p.r1 + ain) * (p.r0 - out)
    BY <1>1, SwapKeepsProduct
  <2> HIDE DEF out
  <2>4. n \in PoolState /\ n.r1 = p.r1 + ain /\ n.r0 = p.r0 - out
        /\ n.shares = p.shares
    BY <1>1, <2>1, <2>2 DEF PoolState
  <2>5. /\ p.r1 * p.r0 = p.r0 * p.r1
        /\ (p.r1 + ain) * (p.r0 - out) = (p.r0 - out) * (p.r1 + ain)
    BY <1>1, <2>2, SMT
  <2> QED
    BY <1>1, <2>2, <2>3, <2>4, <2>5
<1> QED
  BY <1>2, <1>3

LEMMA FirstDepositStep ==
  ASSUME NEW p \in PoolState, p.shares = 0, NEW a0 \in UInt, NEW a1 \in UInt, CanAdd(p, a0, a1),
         NEW n, n = AddLiquidity(p, a0, a1)
  PROVE  n \in PoolState /\ n.r0 > 0 /\ n.r1 > 0
<1>1. a0 \in Nat /\ a1 \in Nat /\ p.r0 \in Nat /\ p.r1 \in Nat
  BY AMMAssumption DEF UInt, PoolState
<1>2. Minted(p, a0, a1) = Isqrt(a0 * a1) /\ Minted(p, a0, a1) > 0
      /\ Minted(p, a0, a1) \in Nat
  BY AMMAssumption DEF CanAdd, Minted, UInt
<1>3. a0 * a1 # 0
  BY <1>1, <1>2, IsqrtOfPositive
<1>4. a0 > 0 /\ a1 > 0
  BY <1>1, <1>3, SMT
<1>5. n = [r0 |-> p.r0 + a0, r1 |-> p.r1 + a1,
               shares |-> p.shares + Minted(p, a0, a1)]
  BY DEF AddLiquidity
<1> QED
  BY <1>1, <1>2, <1>4, <1>5 DEF PoolState

LEMMA DepositStep ==
  ASSUME NEW p \in PoolState, p.shares > 0, p.r0 > 0, p.r1 > 0,
         NEW a0 \in UInt, NEW a1 \in UInt, CanAdd(p, a0, a1), NEW n, n = AddLiquidity(p, a0, a1)
  PROVE  /\ n \in PoolState /\ n.r0 > 0 /\ n.r1 > 0
         /\ p.r0 * n.shares <= n.r0 * p.shares
         /\ p.r1 * n.shares <= n.r1 * p.shares
<1> DEFINE m == Minted(p, a0, a1)
<1>1. a0 \in Nat /\ a1 \in Nat /\ p.r0 \in Nat /\ p.r1 \in Nat /\ p.shares \in Nat
  BY AMMAssumption DEF UInt, PoolState
<1>2. /\ m \in Nat
      /\ p.r0 * (p.shares + m) <= (p.r0 + a0) * p.shares
      /\ p.r1 * (p.shares + m) <= (p.r1 + a1) * p.shares
  BY <1>1, DepositPays
<1>3. n = [r0 |-> p.r0 + a0, r1 |-> p.r1 + a1, shares |-> p.shares + m]
  BY DEF AddLiquidity
<1> HIDE DEF m
<1> QED
  BY <1>1, <1>2, <1>3 DEF PoolState

LEMMA WithdrawStep ==
  ASSUME NEW p \in PoolState, p.shares > 0 => p.r0 > 0 /\ p.r1 > 0,
         NEW s \in UInt, CanRemove(p, s), NEW n, n = RemoveLiquidity(p, s)
  PROVE  /\ n \in PoolState /\ n.r0 > 0 /\ n.r1 > 0
         /\ p.r0 * n.shares <= n.r0 * p.shares
         /\ p.r1 * n.shares <= n.r1 * p.shares
<1> DEFINE b == Burnt(p, s)
<1>1. s \in Nat /\ p.shares \in Nat /\ p.r0 \in Nat /\ p.r1 \in Nat
  BY AMMAssumption DEF UInt, PoolState
<1>2. b \in Nat /\ b > 0 /\ b < p.shares
  BY <1>1 DEF CanRemove, Burnt
<1>3. p.shares \in Nat \ {0} /\ p.r0 \in Nat \ {0} /\ p.r1 \in Nat \ {0}
  BY <1>1, <1>2
<1>4. n = [r0 |-> p.r0 - (b * p.r0) \div p.shares,
               r1 |-> p.r1 - (b * p.r1) \div p.shares,
               shares |-> p.shares - b]
  BY DEF RemoveLiquidity, Paid0, Paid1
<1> HIDE DEF b
<1>5. /\ (b * p.r0) \div p.shares \in Nat
      /\ (b * p.r0) \div p.shares < p.r0
      /\ p.r0 * (p.shares - b) <= (p.r0 - (b * p.r0) \div p.shares) * p.shares
  BY <1>2, <1>3, BurnLeaves
<1>6. /\ (b * p.r1) \div p.shares \in Nat
      /\ (b * p.r1) \div p.shares < p.r1
      /\ p.r1 * (p.shares - b) <= (p.r1 - (b * p.r1) \div p.shares) * p.shares
  BY <1>2, <1>3, BurnLeaves
<1> DEFINE q0 == (b * p.r0) \div p.shares
           q1 == (b * p.r1) \div p.shares
<1>7. n = [r0 |-> p.r0 - q0, r1 |-> p.r1 - q1, shares |-> p.shares - b]
  BY <1>4
<1> HIDE DEF q0, q1
<1>8. q0 \in Nat /\ q0 < p.r0 /\ q1 \in Nat /\ q1 < p.r1
  BY <1>5, <1>6 DEF q0, q1
<1>9. n \in PoolState /\ n.r0 = p.r0 - q0 /\ n.r1 = p.r1 - q1
      /\ n.shares = p.shares - b
  BY <1>1, <1>2, <1>7, <1>8 DEF PoolState
<1>10. p.r0 * n.shares <= n.r0 * p.shares
  BY <1>5, <1>9 DEF q0
<1>11. p.r1 * n.shares <= n.r1 * p.shares
  BY <1>6, <1>9 DEF q1
<1> QED
  BY <1>1, <1>8, <1>9, <1>10, <1>11

-----------------------------------------------------------------------------

LEMMA BackedInit ==
  PoolInit => SharesBacked
  BY DEF PoolInit, SharesBacked, PoolState

LEMMA BackedNext ==
  SharesBacked /\ [PoolNext]_pool => SharesBacked'
<1> SUFFICES ASSUME SharesBacked, [PoolNext]_pool PROVE SharesBacked'
  OBVIOUS
<1> USE DEF SharesBacked
<1>1. ASSUME NEW zeroIn \in BOOLEAN, NEW ain \in UInt, SwapIn(zeroIn, ain)
      PROVE  SharesBacked'
  BY <1>1, SwapStep DEF SwapIn
<1>2. ASSUME NEW a0 \in UInt, NEW a1 \in UInt, Deposit(a0, a1)
      PROVE  SharesBacked'
  <2>1. CASE pool.shares = 0
    BY <1>2, <2>1, FirstDepositStep DEF Deposit
  <2>2. CASE pool.shares # 0
    <3>1. pool.shares > 0
      BY <2>2 DEF PoolState
    <3> QED
      BY <1>2, <3>1, DepositStep DEF Deposit
  <2> QED
    BY <2>1, <2>2
<1>3. ASSUME NEW s \in UInt, Withdraw(s)
      PROVE  SharesBacked'
  BY <1>3, WithdrawStep DEF Withdraw
<1>4. CASE UNCHANGED pool
  BY <1>4
<1> QED
  BY <1>1, <1>2, <1>3, <1>4 DEF PoolNext

\* Shares are always backed by both tokens of the pool, whatever is swapped,
\* deposited and withdrawn (amm.Pool).
THEOREM PoolSharesBacked == PoolSpec => []SharesBacked
  BY BackedInit, BackedNext, PTL DEF PoolSpec

\* One swap, deposit or withdrawal, and what a share stands for before and after.
PoolMove(p, n) ==
  \/ \E zeroIn \in BOOLEAN, ain \in UInt : CanSwap(p, zeroIn, ain) /\ n = Swap(p, zeroIn, ain)
  \/ \E a0, a1 \in UInt : CanAdd(p, a0, a1) /\ n = AddLiquidity(p, a0, a1)
  \/ \E s \in UInt : CanRemove(p, s) /\ n = RemoveLiquidity(p, s)

ValueKept(p, n) == p.r0 * p.r1 * n.shares * n.shares <= n.r0 * n.r1 * p.shares * p.shares

LEMMA MoveKeepsValue ==
  ASSUME NEW p \in PoolState, p.r0 > 0, p.r1 > 0, p.shares > 0, NEW n, PoolMove(p, n)
  PROVE  ValueKept(p, n)
<1>1. p.r0 \in Nat /\ p.r1 \in Nat /\ p.shares \in Nat
  BY DEF PoolState
<1>2. ASSUME n \in PoolState,
             p.r0 * n.shares <= n.r0 * p.shares, p.r1 * n.shares <= n.r1 * p.shares
      PROVE  ValueKept(p, n)
  <2>1. n.r0 \in Nat /\ n.r1 \in Nat /\ n.shares \in Nat
    BY <1>2 DEF PoolState
  <2> QED
    BY <1>1, <1>2, <2>1, ValueFromParts DEF ValueKept
<1>3. ASSUME NEW zeroIn \in BOOLEAN, NEW ain \in UInt, CanSwap(p, zeroIn, ain), n = Swap(p, zeroIn, ain)
      PROVE  ValueKept(p, n)
  <2>1. n \in PoolState /\ n.shares = p.shares /\ p.r0 * p.r1 <= n.r0 * n.r1
    BY <1>3, SwapStep
  <2>2. n.r0 \in Nat /\ n.r1 \in Nat
    BY <2>1 DEF PoolState
  <2>3. /\ p.r0 * p.r1 \in Nat /\ n.r0 * n.r1 \in Nat
        /\ p.r0 * p.r1 * p.shares \in Nat /\ n.r0 * n.r1 * p.shares \in Nat
    BY <1>1, <2>2, ProductType
  <2>4. p.r0 * p.r1 * p.shares <= n.r0 * n.r1 * p.shares
    BY <1>1, <2>1, <2>3, ProductsOrder
  <2>5. p.r0 * p.r1 * p.shares * p.shares <= n.r0 * n.r1 * p.shares * p.shares
    BY <1>1, <2>3, <2>4, ProductsOrder
  <2> QED
    BY <2>1, <2>5 DEF ValueKept
<1>4. ASSUME NEW a0 \in UInt, NEW a1 \in UInt, CanAdd(p, a0, a1), n = AddLiquidity(p, a0, a1)
      PROVE  ValueKept(p, n)
  <2>1. n \in PoolState /\ p.r0 * n.shares <= n.r0 * p.shares /\ p.r1 * n.shares <= n.r1 * p.shares
    BY <1>4, DepositStep
  <2> QED
    BY <1>2, <2>1
<1>5. ASSUME NEW s \in UInt, CanRemove(p, s), n = RemoveLiquidity(p, s)
      PROVE  ValueKept(p, n)
  <2>1. n \in PoolState /\ p.r0 * n.shares <= n.r0 * p.shares /\ p.r1 * n.shares <= n.r1 * p.shares
    BY <1>5, WithdrawStep
  <2> QED
    BY <1>2, <2>1
<1> QED
  BY <1>3, <1>4, <1>5 DEF PoolMove

LEMMA ValueStep ==
  ASSUME SharesBacked, [PoolNext]_pool, pool.shares > 0
  PROVE  pool.r0 * pool.r1 * pool'.shares * pool'.shares
           <= pool'.r0 * pool'.r1 * pool.shares * pool.shares
<1>1. pool \in PoolState /\ pool.r0 > 0 /\ pool.r1 > 0
  BY DEF SharesBacked
<1>2. CASE UNCHANGED pool
  <2>1. /\ pool.r0 \in Nat /\ pool.r1 \in Nat /\ pool.shares \in Nat
        /\ pool.r0 * pool.r1 \in Nat
        /\ pool.r0 * pool.r1 * pool.shares \in Nat
        /\ pool.r0 * pool.r1 * pool.shares * pool.shares \in Nat
    BY <1>1, ProductType DEF PoolState
  <2> QED
    BY <1>2, <2>1
<1>3. CASE PoolNext
  <2>1. PoolMove(pool, pool')
    BY <1>3 DEF PoolNext, SwapIn, Deposit, Withdraw, PoolMove
  <2> QED
    BY <1>1, <2>1, MoveKeepsValue DEF ValueKept
<1> QED
  BY <1>2, <1>3

\* No swap, deposit or withdrawal lowers what a share of a pool stands for:
\* every rounding favours the providers who stay (amm.Pool).
THEOREM ShareValueHolds == PoolSpec => ShareValueNeverFalls
<1>1. SharesBacked /\ [PoolNext]_pool
        => [pool.shares > 0 =>
              pool.r0 * pool.r1 * pool'.shares * pool'.shares
                <= pool'.r0 * pool'.r1 * pool.shares * pool.shares]_pool
  BY ValueStep
<1> QED
  BY <1>1, PoolSharesBacked, PTL DEF PoolSpec, ShareValueNeverFalls

-----------------------------------------------------------------------------
(* What requests hold between their steps. *)

\* A pool that is there has something behind its shares.
Backed(p) == p \in PoolState /\ (p.shares > 0 => p.r0 > 0 /\ p.r1 > 0)

\* The requests that work on a pool, as they are kept.
PoolSwap    == [op : {"amm"}, from : Key, to : Key, amt : UInt]
PoolRequest == PoolSwap \cup handleOneXSwapAddLiq \cup handleOneXSwapRemoveLiq

\* The other requests that hold a portfolio.
PlainRequest ==
  handlePortfolio \cup handleStake \cup handleUnstake \cup handleDeposit \cup handleSwap
  \cup handleNFTMint \cup handleNFTTransfer \cup handleTaskComplete \cup handleLoanCreate
  \cup handleLoanRepay \cup handleSendToken \cup handlePlatformWrap

WorkOK(r, w) ==
  /\ w.id \in Pairs /\ Backed(w.copy)
  /\ IF r.op = "remove" THEN w.out[1] \in UInt /\ w.out[2] \in UInt ELSE w.out \in UInt

ServedOK(b) ==
  /\ b.pc \in {"loaded", "update"}
  /\ b = [pc |-> b.pc, req |-> b.req, p |-> b.p, work |-> b.work, next |-> b.next]
  /\ b.p \in Portfolio
  /\ \/ /\ b.pc = "loaded" /\ b.req.op \notin {"amm", "add", "remove"} /\ b.req \in PlainRequest
        /\ b.req.op = "wrap" => DOMAIN b.work \subseteq Key
     \/ b.req \in PoolRequest /\ WorkOK(b.req, b.work) /\ b.next \in Seq(PoolSwap)

BookRequestOK(r) == r.op \in BookOps /\ \E m \in Menu : r \in Offered(m)

EntryOK(e) == e.asset \in DOMAIN Price /\ e.bal \in Nat

\* A transfer on its copy of an account that covers it.
TransferOK(w) ==
  /\ w.asset \in DOMAIN Price /\ w.outAsset \in DOMAIN Price /\ w.out \in Nat
  /\ w.bal \in Nat /\ w.amt \in Nat /\ w.amt <= w.bal

RequestOK(b) ==
  \/ b = Idle
  \/ ServedOK(b)
  \/ b.pc = "leg" /\ b.req \in PoolSwap
  \/ b.pc = "deploy" /\ b.req \in handlePlatformDeploy /\ DOMAIN b.work \subseteq Key
  \/ b.pc = "snapshot" /\ BookRequestOK(b.req) /\ \A e \in b.snap : EntryOK(e)
  \/ b.pc = "synced" /\ BookRequestOK(b.req) /\ b.req.op \in {"convert", "transfer"}
  \/ b.pc \in {"copied", "settle"} /\ TransferOK(b.work)

BookOK(b) ==
  /\ b = [accts |-> b.accts, xfers |-> b.xfers]
  /\ \A id \in DOMAIN b.accts : b.accts[id].asset \in DOMAIN Price /\ b.accts[id].bal \in Nat
  /\ \E S : b.xfers \in Seq(S)
  /\ Len(b.xfers) <= MaxTransfers
  /\ \A i \in DOMAIN b.xfers : b.xfers[i].status \in Status /\ b.xfers[i].out \in Nat

PoolsBacked ==
  /\ pools \in [Pairs -> PoolState \cup {NoPool}]
  /\ \A q \in Pairs : pools[q] # NoPool => Backed(pools[q])

\* The cached object and the saved ones have their types.
SavedOK ==
  /\ cache = NoPortfolio \/ cache \in Portfolio
  /\ file \in {NoPortfolio, Unreadable} \/ file \in Portfolio

\* The cached object belongs to a request that has it.
HolderOK ==
  /\ holder \in Client \cup {Nobody}
  /\ holder # Nobody => client[holder].pc \in {"loaded", "update"}

RequestsOK ==
  /\ client = [c \in Client |-> client[c]]
  /\ \A c \in Client : RequestOK(client[c])

\* The portfolio's copies: in the cache, in the file and in the requests.
Copies == SavedOK /\ HolderOK /\ RequestsOK

RegistersOK == custom \subseteq Key /\ DOMAIN tokens \subseteq Key

BridgeInv ==
  /\ menu \in Menu /\ nodeBal \in UInt /\ day \in Nat
  /\ Copies /\ PoolsBacked /\ RegistersOK

BookState ==
  /\ imports \in Seq(Import)
  /\ BookOK(book) /\ (bfile \in {NoBook, Unreadable} \/ BookOK(bfile))

\* What the requests of the bridge and of the book keep true together.
DaemonInv == BridgeInv /\ BookState

-----------------------------------------------------------------------------
(* The operations on a pool keep it backed. *)

LEMMA Integers64 == Word \in Nat \ {0} /\ UInt = {n \in Nat : n < Word} /\ \A n \in Int : n % Word \in UInt
BY AMMAssumption DEF UInt

LEMMA SwapBacks ==
  ASSUME NEW p, Backed(p), NEW zeroIn, NEW ain \in UInt, CanSwap(p, zeroIn, ain)
  PROVE  Backed(Swap(p, zeroIn, ain)) /\ AmountOut(p, zeroIn, ain) \in UInt
<1>1. p.r0 \in Nat \ {0} /\ p.r1 \in Nat \ {0} /\ p.shares \in Nat /\ ain \in Nat
  <2>1. p.r0 > 0 /\ p.r1 > 0
    BY DEF CanSwap
  <2> QED
    BY <2>1, Integers64 DEF Backed, PoolState
<1>2. CASE zeroIn
  <2> DEFINE out == SwapOut(p.r0, p.r1, ain)
  <2>1. out \in Nat /\ out < p.r1
    BY <1>1, SwapOutBounds
  <2>2. out < Word
    BY <1>2 DEF CanSwap
  <2>3. Swap(p, zeroIn, ain) = [r0 |-> p.r0 + ain, r1 |-> p.r1 - out, shares |-> p.shares]
    BY <1>2 DEF Swap
  <2>4. AmountOut(p, zeroIn, ain) = out
    BY <1>2 DEF AmountOut
  <2> HIDE DEF out
  <2> QED
    BY <1>1, <2>1, <2>2, <2>3, <2>4, Integers64, SMT DEF Backed, PoolState
<1>3. CASE ~zeroIn
  <2> DEFINE out == SwapOut(p.r1, p.r0, ain)
  <2>1. out \in Nat /\ out < p.r0
    BY <1>1, SwapOutBounds
  <2>2. out < Word
    BY <1>3 DEF CanSwap
  <2>3. Swap(p, zeroIn, ain) = [r0 |-> p.r0 - out, r1 |-> p.r1 + ain, shares |-> p.shares]
    BY <1>3 DEF Swap
  <2>4. AmountOut(p, zeroIn, ain) = out
    BY <1>3 DEF AmountOut
  <2> HIDE DEF out
  <2> QED
    BY <1>1, <2>1, <2>2, <2>3, <2>4, Integers64, SMT DEF Backed, PoolState
<1> QED
  BY <1>2, <1>3

LEMMA AddBacks ==
  ASSUME NEW p, Backed(p), NEW a0 \in UInt, NEW a1 \in UInt, CanAdd(p, a0, a1)
  PROVE  Backed(AddLiquidity(p, a0, a1)) /\ Minted(p, a0, a1) \in UInt
<1> DEFINE m == Minted(p, a0, a1)
<1>1. a0 \in Nat /\ a1 \in Nat /\ p.r0 \in Nat /\ p.r1 \in Nat /\ p.shares \in Nat
  BY Integers64 DEF Backed, PoolState
<1>2. m \in UInt /\ m \in Nat /\ (p.shares = 0 => m > 0)
  BY Integers64 DEF CanAdd
<1>3. (p.r0 + a0 > 0 /\ p.r1 + a1 > 0) \/ p.shares + m = 0
  <2>1. CASE p.shares = 0
    <3>1. Isqrt(a0 * a1) > 0
      BY <2>1, <1>2 DEF Minted
    <3>2. a0 * a1 # 0
      BY <3>1, <1>1, IsqrtOfPositive
    <3>3. a0 # 0 /\ a1 # 0
      BY <1>1, <3>2, SMT
    <3> QED
      BY <3>3, <1>1
  <2>2. CASE p.shares # 0
    BY <2>2, <1>1 DEF Backed
  <2> QED
    BY <2>1, <2>2
<1>4. AddLiquidity(p, a0, a1) = [r0 |-> p.r0 + a0, r1 |-> p.r1 + a1, shares |-> p.shares + m]
  BY DEF AddLiquidity
<1> HIDE DEF m
<1> QED
  <2>1. Backed(AddLiquidity(p, a0, a1))
    BY <1>1, <1>2, <1>3, <1>4, SMT DEF Backed, PoolState
  <2> QED
    BY <2>1, <1>2 DEF m

LEMMA RemoveBacks ==
  ASSUME NEW p, Backed(p), NEW s \in UInt, CanRemove(p, s)
  PROVE  /\ Backed(RemoveLiquidity(p, s))
         /\ Paid0(p, s) % Word \in UInt /\ Paid1(p, s) % Word \in UInt
<1> DEFINE b == Burnt(p, s)
<1>1. p.r0 \in Nat /\ p.r1 \in Nat /\ p.shares \in Nat /\ s \in Nat
  BY Integers64 DEF Backed, PoolState
<1>2. b > 0 /\ b \in Nat /\ b < p.shares /\ p.shares \in Nat \ {0}
  BY <1>1 DEF CanRemove, Burnt
<1>3. p.r0 \in Nat \ {0} /\ p.r1 \in Nat \ {0}
  BY <1>1, <1>2 DEF Backed
<1> HIDE DEF b
<1>4. (b * p.r0) \div p.shares \in Nat /\ (b * p.r0) \div p.shares < p.r0
  BY <1>2, <1>3, BurnLeaves
<1>5. (b * p.r1) \div p.shares \in Nat /\ (b * p.r1) \div p.shares < p.r1
  BY <1>2, <1>3, BurnLeaves
<1>6. Paid0(p, s) = (b * p.r0) \div p.shares /\ Paid1(p, s) = (b * p.r1) \div p.shares
  BY DEF Paid0, Paid1, b
<1>7. RemoveLiquidity(p, s) = [r0 |-> p.r0 - Paid0(p, s), r1 |-> p.r1 - Paid1(p, s), shares |-> p.shares - b]
  BY DEF RemoveLiquidity, b
<1>8. /\ Paid0(p, s) \in Nat /\ Paid0(p, s) < p.r0
      /\ Paid1(p, s) \in Nat /\ Paid1(p, s) < p.r1
  BY <1>4, <1>5, <1>6
<1> QED
  <2>1. Backed(RemoveLiquidity(p, s))
    BY <1>1, <1>2, <1>7, <1>8, SMT DEF Backed, PoolState
  <2>2. Paid0(p, s) % Word \in UInt /\ Paid1(p, s) % Word \in UInt
    BY <1>8, Integers64
  <2> QED
    BY <2>1, <2>2

-----------------------------------------------------------------------------
(* The operations on a portfolio keep its type. *)

LEMMA ListDomain ==
  ASSUME NEW S, NEW list \in Seq(S)
  PROVE  IsFiniteSet(DOMAIN list) /\ \A j \in DOMAIN list : list[j] \in S
<1>1. DOMAIN list = 1 .. Len(list) /\ Len(list) \in Int
  OBVIOUS
<1> QED
  BY <1>1, FS_Interval

LEMMA PortfolioFields ==
  ASSUME NEW p \in Portfolio
  PROVE  /\ p.bal \in [Key -> UInt] /\ p.done \subseteq DOMAIN Reward
         /\ p.stakes \in Seq(StakeRecord) /\ p.loans \in Seq(LoanRecord)
         /\ p.nfts \in Seq({"self", "other"}) /\ p.deposits \in Seq(DepositRecord)
         /\ p.swaps \in Seq(SwapRecord) /\ p.created \subseteq Key
BY DEF Portfolio

LEMMA BalanceType ==
  ASSUME NEW p \in Portfolio
  PROVE  \A k \in Key : p.bal[k] \in Int
<1>1. p.bal \in [Key -> UInt]
  BY PortfolioFields
<1>2. \A n \in UInt : n \in Int
  BY Integers64
<1> QED
  BY <1>1, <1>2

LEMMA DebitOK ==
  ASSUME NEW p \in Portfolio, NEW k \in Key, NEW n \in Nat, Covers(p, k, n)
  PROVE  Debit(p, k, n) \in Portfolio
<1>1. p.bal[k] - n \in UInt
  BY PortfolioFields, Integers64 DEF Covers
<1> QED
  BY <1>1 DEF Debit, Portfolio

LEMMA CreditOK ==
  ASSUME NEW p \in Portfolio, NEW k \in Key, NEW n \in Int
  PROVE  Credit(p, k, n) \in Portfolio
<1>1. (p.bal[k] + n) % Word \in UInt
  <2>1. p.bal[k] + n \in Int
    BY PortfolioFields, Integers64
  <2> QED
    BY <2>1, Integers64
<1> QED
  BY <1>1 DEF Credit, Portfolio

LEMMA TaskOK ==
  ASSUME NEW p \in Portfolio, NEW t \in DOMAIN Reward
  PROVE  completeTask(p, t) \in Portfolio
<1> DEFINE q == Credit(p, Reward[t].key, Reward[t].amt)
<1>1. q \in Portfolio
  BY BridgeAssumption, CreditOK
<1> HIDE DEF q
<1>2. [q EXCEPT !.done = @ \cup {t}] \in Portfolio
  BY <1>1 DEF Portfolio
<1> QED
  BY <1>2 DEF completeTask, q

LEMMA DefaultOK == DefaultPortfolio \in Portfolio
BY BridgeAssumption, Integers64 DEF DefaultPortfolio, Portfolio

LEMMA SyncedOK ==
  ASSUME NEW p \in Portfolio, nodeBal \in UInt, NEW up
  PROVE  Synced(p, up) \in Portfolio
<1> DEFINE onex == IF up THEN nodeBal ELSE p.bal[ONEX]
           bal == IF Production(menu) THEN [k \in Key |-> IF k = ONEX THEN onex ELSE OnChain[k]]
                  ELSE [p.bal EXCEPT ![ONEX] = onex]
<1>1. onex \in UInt
  BY BridgeAssumption, PortfolioFields
<1>2. bal \in [Key -> UInt]
  BY <1>1, BridgeAssumption, PortfolioFields
<1>3. Synced(p, up) = [p EXCEPT !.bal = bal]
  BY DEF Synced
<1> HIDE DEF bal
<1> QED
  BY <1>2, <1>3 DEF Portfolio

LEMMA LoadOK ==
  ASSUME SavedOK, CanLoad
  PROVE  Load \in Portfolio
BY DefaultOK DEF SavedOK, CanLoad, Load

-----------------------------------------------------------------------------
(* The ways in which a request goes on, and what they keep. *)

LEMMA ClientSet ==
  ASSUME NEW c \in Client, NEW b, RequestsOK, RequestOK(b), client' = [client EXCEPT ![c] = b]
  PROVE  /\ RequestsOK' /\ client'[c] = b
         /\ \A o \in Client \ {c} : client'[o] = client[o]
<1>1. client'[c] = b /\ \A o \in Client \ {c} : client'[o] = client[o]
  BY DEF RequestsOK
<1>2. client' = [o \in Client |-> client'[o]]
  BY DEF RequestsOK
<1> QED
  BY <1>1, <1>2 DEF RequestsOK

LEMMA DoneStep ==
  ASSUME Copies, NEW c \in Client, NEW p \in Portfolio, NEW t \in DOMAIN Reward \cup {"none"},
         Done(c, p, t)
  PROVE  Copies'
<1> DEFINE last == IF t = "none" THEN p ELSE completeTask(p, t)
<1>1. last \in Portfolio
  BY TaskOK
<1>2. cache' = last /\ holder' = Nobody /\ file' \in {file, p, last}
      /\ client' = [client EXCEPT ![c] = Idle]
  BY DEF Done
<1> HIDE DEF last
<1>3. SavedOK'
  BY <1>1, <1>2 DEF Copies, SavedOK
<1>4. HolderOK'
  BY <1>2 DEF HolderOK
<1>5. RequestsOK'
  BY <1>2, ClientSet DEF Copies, RequestOK
<1> QED
  BY <1>3, <1>4, <1>5 DEF Copies

LEMMA DropStep ==
  ASSUME Copies, NEW c \in Client, NEW p \in Portfolio, Drop(c, p)
  PROVE  Copies'
<1>1. client' = [client EXCEPT ![c] = Idle] /\ UNCHANGED file
      /\ cache' = (IF holder = c THEN p ELSE cache)
      /\ holder' = (IF holder = c THEN Nobody ELSE holder)
  BY DEF Drop
<1>2. RequestsOK' /\ \A o \in Client \ {c} : client'[o] = client[o]
  BY <1>1, ClientSet DEF Copies, RequestOK
<1>3. SavedOK'
  BY <1>1 DEF Copies, SavedOK
<1>4. HolderOK'
  BY <1>1, <1>2 DEF Copies, HolderOK
<1> QED
  BY <1>2, <1>3, <1>4 DEF Copies

LEMMA SaveFirstStep ==
  ASSUME Copies, NEW c \in Client, NEW p \in Portfolio,
         client[c].pc = "loaded", client[c].req \in PoolRequest, ServedOK(client[c]),
         WorkOK(client[c].req, client[c].work), client[c].next \in Seq(PoolSwap),
         SaveFirst(c, p)
  PROVE  Copies'
<1> DEFINE b == [pc |-> "update", req |-> client[c].req, p |-> p,
                 work |-> client[c].work, next |-> client[c].next]
<1>1. client' = [client EXCEPT ![c] = b]
  <2>1. PICK pc, req, q, work, next :
          client[c] = [pc |-> pc, req |-> req, p |-> q, work |-> work, next |-> next]
    BY DEF ServedOK
  <2> DEFINE r0 == [pc |-> pc, req |-> req, p |-> q, work |-> work, next |-> next]
             r1 == [pc |-> "update", req |-> req, p |-> q, work |-> work, next |-> next]
             r2 == [pc |-> "update", req |-> req, p |-> p, work |-> work, next |-> next]
  <2>2. [r0 EXCEPT !.pc = "update"] = r1
    OBVIOUS
  <2>3. [r1 EXCEPT !.p = p] = r2
    OBVIOUS
  <2>4. b = r2
    BY <2>1
  <2>5. client[c] = r0
    BY <2>1
  <2>6. client' = [client EXCEPT ![c] = [[client[c] EXCEPT !.pc = "update"] EXCEPT !.p = p]]
    BY DEF SaveFirst, Copies, RequestsOK
  <2> HIDE DEF r0, r1, r2, b
  <2> QED
    BY <2>2, <2>3, <2>4, <2>5, <2>6
<1>2. ServedOK(b)
  BY DEF ServedOK
<1>3. b.pc = "update"
  OBVIOUS
<1> HIDE DEF b
<1>4. RequestsOK' /\ client'[c] = b
  BY <1>1, <1>2, ClientSet DEF Copies, RequestOK
<1>5. cache' = p /\ holder' = c /\ file' \in {file, p}
  BY DEF SaveFirst
<1>6. SavedOK'
  BY <1>5 DEF Copies, SavedOK
<1>7. HolderOK'
  BY <1>3, <1>4, <1>5 DEF HolderOK
<1> QED
  BY <1>4, <1>6, <1>7 DEF Copies

LEMMA GetPortfolioStep ==
  ASSUME Copies, nodeBal \in UInt, NEW c \in Client, NEW r, NEW work, NEW next,
         \/ r.op \notin {"amm", "add", "remove"} /\ r \in PlainRequest
              /\ (r.op = "wrap" => DOMAIN work \subseteq Key)
         \/ r \in PoolRequest /\ WorkOK(r, work) /\ next \in Seq(PoolSwap),
         GetPortfolio(c, r, work, next)
  PROVE  Copies'
<1>1. PICK up \in BOOLEAN :
        /\ cache' = Synced(Load, up) /\ holder' = c /\ file' \in {file, Synced(Load, up)}
        /\ client' = [client EXCEPT ![c] =
             [pc |-> "loaded", req |-> r, p |-> Synced(Load, up), work |-> work, next |-> next]]
  BY DEF GetPortfolio
<1> DEFINE p == Synced(Load, up)
           b == [pc |-> "loaded", req |-> r, p |-> p, work |-> work, next |-> next]
<1>2. p \in Portfolio
  BY LoadOK, SyncedOK DEF GetPortfolio, Copies
<1>3. cache' = p /\ holder' = c /\ file' \in {file, p} /\ client' = [client EXCEPT ![c] = b]
  BY <1>1
<1> HIDE DEF p
<1>4. ServedOK(b) /\ b.pc = "loaded"
  BY <1>2 DEF ServedOK
<1> HIDE DEF b
<1>5. RequestsOK' /\ client'[c] = b
  BY <1>3, <1>4, ClientSet DEF Copies, RequestOK
<1>6. SavedOK'
  BY <1>2, <1>3 DEF Copies, SavedOK
<1>7. HolderOK'
  BY <1>3, <1>4, <1>5 DEF HolderOK
<1> QED
  BY <1>5, <1>6, <1>7 DEF Copies

\* A step of a request that holds no portfolio.
LEMMA AsideStep ==
  ASSUME Copies, NEW c \in Client, NEW b, RequestOK(b), client[c].pc \notin {"loaded", "update"},
         client' = [client EXCEPT ![c] = b], UNCHANGED <<cache, holder, file>>
  PROVE  Copies'
<1>1. RequestsOK' /\ \A o \in Client \ {c} : client'[o] = client[o]
  BY ClientSet DEF Copies
<1>2. HolderOK'
  BY <1>1 DEF Copies, HolderOK
<1>3. SavedOK'
  BY DEF Copies, SavedOK
<1> QED
  BY <1>1, <1>2, <1>3 DEF Copies

-----------------------------------------------------------------------------
(* The requests that hold a portfolio, one after the other. *)

\* A request between its GetPortfolio and its end is one that a handler let
\* through.
LEMMA WhatIsServed ==
  ASSUME RequestsOK, NEW c \in Client, client[c].pc = "loaded"
  PROVE  /\ ServedOK(client[c]) /\ client[c].p \in Portfolio
         /\ client[c].req.op \in {"read", "stake", "unstake", "deposit", "swap", "mint", "give",
              "task", "loan", "repay", "send", "wrap"} => client[c].req \in PlainRequest
         /\ client[c].req.op = "wrap" => DOMAIN client[c].work \subseteq Key
         /\ client[c].req.op \in {"amm", "add", "remove"} =>
              /\ client[c].req \in PoolRequest /\ WorkOK(client[c].req, client[c].work)
              /\ client[c].next \in Seq(PoolSwap)
<1>1. RequestOK(client[c])
  BY DEF RequestsOK
<1>2. ServedOK(client[c])
  BY <1>1 DEF RequestOK, Idle
<1>3. \A r \in PoolRequest : r.op \in {"amm", "add", "remove"}
  BY DEF PoolRequest, PoolSwap, handleOneXSwapAddLiq, handleOneXSwapRemoveLiq
<1> QED
  BY <1>2, <1>3 DEF ServedOK

LEMMA PlainFields ==
  ASSUME NEW r \in PlainRequest
  PROVE  /\ r.op = "stake" => r.pool \in StakePools /\ r.amt \in UInt
         /\ r.op = "deposit" => r.key \in Key /\ r.amt \in UInt
         /\ r.op = "swap" => r.from \in Key /\ r.to \in Key /\ r.amt \in UInt
         /\ r.op = "give" => r.to = "other"
         /\ r.op = "task" => r.id \in DOMAIN Reward
         /\ r.op = "loan" => /\ r.type \in {"borrow", "lend"} /\ r.colKey \in Key /\ r.col \in UInt
                             /\ r.debtKey \in Key /\ (r.debt # BadAmount => r.debt \in UInt)
         /\ r.op = "send" => r.key \in Key /\ r.amt \in UInt
         /\ r.op = "wrap" => r.key \in DOMAIN WrappedKey /\ r.key \in Key /\ r.amt \in UInt
         /\ r.op \in {"unstake", "repay", "give"} => r.id \in Id
BY BridgeAssumption
   DEF PlainRequest, handlePortfolio, handleStake, handleUnstake, handleDeposit, handleSwap,
       handleNFTMint, handleNFTTransfer, handleTaskComplete, handleLoanCreate, handleLoanRepay,
       handleSendToken, handlePlatformWrap

LEMMA PoolFields ==
  ASSUME NEW r \in PoolRequest
  PROVE  /\ r.op = "amm" => r.from \in Key /\ r.to \in Key /\ r.amt \in UInt
         /\ r.op = "add" => r.t0 \in Key /\ r.t1 \in Key /\ r.a0 \in UInt /\ r.a1 \in UInt
         /\ r.op = "remove" => r.pool \in Pairs /\ r.shares \in UInt
BY BridgeAssumption
   DEF PoolRequest, PoolSwap, handleOneXSwapAddLiq, handleOneXSwapRemoveLiq

\* Putting a list into a portfolio, and appending to one.
LEMMA ListsOK ==
  ASSUME NEW p \in Portfolio
  PROVE  /\ \A l \in Seq(StakeRecord) : [p EXCEPT !.stakes = l] \in Portfolio
         /\ \A l \in Seq(LoanRecord) : [p EXCEPT !.loans = l] \in Portfolio
         /\ \A l \in Seq(DepositRecord) : [p EXCEPT !.deposits = l] \in Portfolio
         /\ \A l \in Seq(SwapRecord) : [p EXCEPT !.swaps = l] \in Portfolio
         /\ \A l \in Seq({"self", "other"}) : [p EXCEPT !.nfts = l] \in Portfolio
BY DEF Portfolio

LEMMA RecordsOK ==
  ASSUME NEW p \in Portfolio
  PROVE  /\ \A x \in StakeRecord : [p EXCEPT !.stakes = Append(@, x)] \in Portfolio
         /\ \A x \in LoanRecord : [p EXCEPT !.loans = Append(@, x)] \in Portfolio
         /\ \A x \in DepositRecord : [p EXCEPT !.deposits = Append(@, x)] \in Portfolio
         /\ \A x \in SwapRecord : [p EXCEPT !.swaps = Append(@, x)] \in Portfolio
         /\ \A x \in {"self", "other"} : [p EXCEPT !.nfts = Append(@, x)] \in Portfolio
<1>1. /\ \A x \in StakeRecord : Append(p.stakes, x) \in Seq(StakeRecord)
      /\ \A x \in LoanRecord : Append(p.loans, x) \in Seq(LoanRecord)
      /\ \A x \in DepositRecord : Append(p.deposits, x) \in Seq(DepositRecord)
      /\ \A x \in SwapRecord : Append(p.swaps, x) \in Seq(SwapRecord)
      /\ \A x \in {"self", "other"} : Append(p.nfts, x) \in Seq({"self", "other"})
  BY PortfolioFields
<1> QED
  BY <1>1, ListsOK

LEMMA ReadStep ==
  ASSUME Copies, NEW c \in Client, Read(c)
  PROVE  Copies'
BY WhatIsServed, DropStep DEF Copies, Read, Serving

LEMMA StakeStep ==
  ASSUME Copies, day \in Nat, NEW c \in Client, Stake(c)
  PROVE  Copies'
<1> DEFINE p == client[c].p
           r == client[c].req
           receipt == r.amt + r.amt \div BonusBase
           rec == [pool |-> r.pool, amt |-> r.amt, receipt |-> receipt,
                   from |-> day, until |-> day + r.pool.lock, active |-> TRUE]
           q == Credit(Debit(p, r.pool.stake, r.amt), r.pool.receipt, receipt)
<1>1. p \in Portfolio /\ r \in PlainRequest /\ r.op = "stake"
  BY WhatIsServed DEF Copies, Stake, Serving
<1>2. r.pool \in StakePools /\ r.amt \in Nat
  BY <1>1, PlainFields, Integers64
<1>3. r.pool.stake \in Key /\ r.pool.receipt \in Key /\ r.pool.lock \in Nat /\ BonusBase \in Nat \ {0}
  BY <1>2, BridgeAssumption
<1>4. receipt \in Nat
  BY <1>2, <1>3
<1>5. rec \in StakeRecord
  BY <1>2, <1>3, <1>4 DEF StakeRecord
<1>6. CASE ~Covers(p, r.pool.stake, r.amt)
  BY <1>1, <1>6, DropStep DEF Stake
<1>7. CASE Covers(p, r.pool.stake, r.amt)
  <2>1. Debit(p, r.pool.stake, r.amt) \in Portfolio
    BY <1>1, <1>2, <1>3, <1>7, DebitOK
  <2>2. q \in Portfolio
    BY <2>1, <1>3, <1>4, CreditOK
  <2>3. Done(c, [q EXCEPT !.stakes = Append(@, rec)], "first-stake")
    BY <1>7 DEF Stake
  <2> HIDE DEF q, rec
  <2>4. [q EXCEPT !.stakes = Append(@, rec)] \in Portfolio
    BY <2>2, <1>5, RecordsOK
  <2> QED
    BY <2>3, <2>4, DoneStep, BridgeAssumption
<1> QED
  BY <1>6, <1>7

\* A record of a list, marked as closed.
LEMMA ClosedOK ==
  ASSUME NEW p \in Portfolio
  PROVE  /\ \A i \in DOMAIN p.stakes :
              [p EXCEPT !.stakes[i].active = FALSE] \in Portfolio
         /\ \A i \in DOMAIN p.loans :
              [p EXCEPT !.loans[i].active = FALSE] \in Portfolio
<1>1. ASSUME NEW i \in DOMAIN p.stakes
      PROVE  [p EXCEPT !.stakes[i].active = FALSE] \in Portfolio
  <2> DEFINE s == [p.stakes[i] EXCEPT !.active = FALSE]
  <2>1. p.stakes[i] \in StakeRecord
    BY PortfolioFields
  <2>2. s \in StakeRecord
    BY <2>1 DEF StakeRecord
  <2> HIDE DEF s
  <2>3. [p.stakes EXCEPT ![i] = s] \in Seq(StakeRecord)
    BY <2>2, PortfolioFields
  <2>4. [p EXCEPT !.stakes = [p.stakes EXCEPT ![i] = s]] \in Portfolio
    BY <2>3, ListsOK
  <2> QED
    BY <2>4 DEF s
<1>2. ASSUME NEW i \in DOMAIN p.loans
      PROVE  [p EXCEPT !.loans[i].active = FALSE] \in Portfolio
  <2> DEFINE l == [p.loans[i] EXCEPT !.active = FALSE]
  <2>1. p.loans[i] \in LoanRecord
    BY PortfolioFields
  <2>2. l \in LoanRecord
    BY <2>1 DEF LoanRecord
  <2> HIDE DEF l
  <2>3. [p.loans EXCEPT ![i] = l] \in Seq(LoanRecord)
    BY <2>2, PortfolioFields
  <2>4. [p EXCEPT !.loans = [p.loans EXCEPT ![i] = l]] \in Portfolio
    BY <2>3, ListsOK
  <2> QED
    BY <2>4 DEF l
<1> QED
  BY <1>1, <1>2

\* What a stake earns is never negative, nor shrinks with time.
LEMMA RewardGrows ==
  ASSUME NEW s \in StakeRecord, NEW t \in Nat, NEW u \in Nat, t <= u
  PROVE  /\ StakeReward(s, t) \in Int
         /\ StakeReward(s, t) <= StakeReward(s, u)
<1>1. s.amt \in Nat /\ s.pool.apy \in Nat /\ s.from \in Nat /\ RewardBase \in Nat \ {0}
  BY BridgeAssumption DEF StakeRecord
<1> DEFINE n == s.amt * s.pool.apy
           x == n * (t - s.from)
           y == n * (u - s.from)
<1>2. n \in Nat
  BY <1>1, ProductType
<1> HIDE DEF n
<1>3. x \in Int /\ y \in Int
  BY <1>1, <1>2, SMT
<1>4. x <= y
  BY <1>1, <1>2, SMT
<1>5. StakeReward(s, t) = x \div RewardBase /\ StakeReward(s, u) = y \div RewardBase
  BY DEF StakeReward, n
<1> HIDE DEF x, y
<1>6. x \div RewardBase \in Int /\ x \div RewardBase <= y \div RewardBase
  BY <1>1, <1>3, <1>4, SMT
<1> QED
  BY <1>5, <1>6

LEMMA UnstakeStep ==
  ASSUME Copies, day \in Nat, NEW c \in Client, Unstake(c)
  PROVE  Copies'
<1> DEFINE p == client[c].p
           i == client[c].req.id
           s == p.stakes[i]
           q == Debit(p, s.pool.receipt, s.receipt)
           v == Credit(q, s.pool.stake, s.amt + StakeReward(s, day))
           open == /\ i \in DOMAIN p.stakes /\ p.stakes[i].active /\ day >= p.stakes[i].until
                   /\ Covers(p, p.stakes[i].pool.receipt, p.stakes[i].receipt)
<1>1. p \in Portfolio
  BY WhatIsServed DEF Copies, Unstake, Serving
<1>2. CASE ~open
  BY <1>1, <1>2, DropStep DEF Unstake
<1>3. CASE open
  <2>1. s \in StakeRecord
    <3>1. p.stakes \in Seq(StakeRecord) /\ i \in DOMAIN p.stakes
      BY <1>1, <1>3, PortfolioFields
    <3> HIDE DEF p, i
    <3> QED
      BY <3>1, ListDomain
  <2>2. s.pool.receipt \in Key /\ s.pool.stake \in Key /\ s.receipt \in Nat /\ s.amt \in Nat
    BY <2>1, BridgeAssumption DEF StakeRecord
  <2>3. StakeReward(s, day) \in Int
    BY <2>1, RewardGrows
  <2>4. q \in Portfolio
    BY <1>1, <1>3, <2>2, DebitOK
  <2> HIDE DEF q
  <2>5. v \in Portfolio
    <3> DEFINE m == s.amt + StakeReward(s, day)
    <3>1. m \in Int
      BY <2>2, <2>3
    <3> HIDE DEF m
    <3>2. Credit(q, s.pool.stake, m) \in Portfolio
      BY <2>2, <2>4, <3>1, CreditOK
    <3> QED
      BY <3>2 DEF m
  <2>6. i \in DOMAIN v.stakes
    BY <1>1, <1>3 DEF v, q, Credit, Debit, Portfolio
  <2>7. Done(c, [v EXCEPT !.stakes[i].active = FALSE], "none")
    BY <1>3 DEF Unstake, q
  <2> HIDE DEF v
  <2>8. [v EXCEPT !.stakes[i].active = FALSE] \in Portfolio
    BY <2>5, <2>6, ClosedOK
  <2> QED
    BY <2>7, <2>8, DoneStep
<1> QED
  BY <1>2, <1>3

LEMMA DepositRequestStep ==
  ASSUME Copies, NEW c \in Client, RecordDeposit(c)
  PROVE  Copies'
<1> DEFINE p == client[c].p
           r == client[c].req
           own == r.key \in OnexKey
           v == IF own THEN Credit(p, r.key, r.amt) ELSE p
           rec == [key |-> r.key, amt |-> r.amt, status |-> IF own THEN "confirmed" ELSE "pending"]
           q == [v EXCEPT !.deposits = Append(@, rec)]
<1>1. p \in Portfolio /\ r \in PlainRequest /\ r.op = "deposit"
  BY WhatIsServed DEF Copies, RecordDeposit, Serving
<1>2. r.key \in Key /\ r.amt \in Nat
  BY <1>1, PlainFields, Integers64
<1>3. v \in Portfolio
  BY <1>1, <1>2, CreditOK
<1>4. rec \in DepositRecord
  BY <1>2 DEF DepositRecord
<1>5. Done(c, q, "deposit") \/ Done(c, q, "none")
  BY DEF RecordDeposit
<1> HIDE DEF v, rec
<1>6. q \in Portfolio
  BY <1>3, <1>4, RecordsOK
<1> HIDE DEF q
<1> QED
  BY <1>5, <1>6, DoneStep, BridgeAssumption

LEMMA SwapExecuteStep ==
  ASSUME Copies, NEW c \in Client, SwapExecute(c)
  PROVE  Copies'
<1> DEFINE p == client[c].p
           r == client[c].req
           out == (r.amt * Rate[r.from, r.to]) \div RateBase
           d == Debit(p, r.from, r.amt)
           v == Credit(d, r.to, out)
           rec == [from |-> r.from, to |-> r.to, in |-> r.amt, out |-> out]
<1>1. p \in Portfolio /\ r \in PlainRequest /\ r.op = "swap"
  BY WhatIsServed DEF Copies, SwapExecute, Serving
<1>2. r.from \in Key /\ r.to \in Key /\ r.amt \in Nat
  BY <1>1, PlainFields, Integers64
<1>3. out \in Nat
  <2>1. Rate[r.from, r.to] \in Nat /\ RateBase \in Nat \ {0}
    <3>1. Rate \in [Key \X Key -> Nat] /\ RateBase \in Nat \ {0}
      BY BridgeAssumption
    <3>2. <<r.from, r.to>> \in Key \X Key
      BY <1>2
    <3> QED
      BY <3>1, <3>2
  <2>2. r.amt * Rate[r.from, r.to] \in Nat
    BY <1>2, <2>1, ProductType
  <2> QED
    BY <2>1, <2>2, Quotient
<1> HIDE DEF out
<1>4. CASE ~Covers(p, r.from, r.amt)
  BY <1>1, <1>4, DropStep DEF SwapExecute
<1>5. CASE Covers(p, r.from, r.amt)
  <2>1. d \in Portfolio
    BY <1>1, <1>2, <1>5, DebitOK
  <2> HIDE DEF d
  <2>2. v \in Portfolio
    BY <2>1, <1>2, <1>3, CreditOK
  <2>3. rec \in SwapRecord
    BY <1>2, <1>3 DEF SwapRecord
  <2>4. Done(c, [v EXCEPT !.swaps = Append(@, rec)], "first-swap")
    BY <1>5 DEF SwapExecute, d, out
  <2> HIDE DEF v, rec
  <2>5. [v EXCEPT !.swaps = Append(@, rec)] \in Portfolio
    BY <2>2, <2>3, RecordsOK
  <2> QED
    BY <2>4, <2>5, DoneStep, BridgeAssumption
<1> QED
  BY <1>4, <1>5

LEMMA MintStep ==
  ASSUME Copies, NEW c \in Client, MintNFT(c)
  PROVE  Copies'
<1>1. client[c].p \in Portfolio
  BY WhatIsServed DEF Copies, MintNFT, Serving
<1>2. [client[c].p EXCEPT !.nfts = Append(@, "self")] \in Portfolio
  BY <1>1, RecordsOK
<1> QED
  BY <1>2, DoneStep, BridgeAssumption DEF MintNFT

LEMMA GiveStep ==
  ASSUME Copies, NEW c \in Client, TransferNFT(c)
  PROVE  Copies'
<1> DEFINE p == client[c].p
           r == client[c].req
<1>1. p \in Portfolio /\ r \in PlainRequest /\ r.op = "give"
  BY WhatIsServed DEF Copies, TransferNFT, Serving
<1>2. r.to = "other"
  BY <1>1, PlainFields
<1>3. CASE r.id \notin DOMAIN p.nfts
  BY <1>1, <1>3, DropStep DEF TransferNFT
<1>4. CASE r.id \in DOMAIN p.nfts
  <2>1. [p.nfts EXCEPT ![r.id] = r.to] \in Seq({"self", "other"})
    BY <1>1, <1>2, <1>4, PortfolioFields
  <2>2. [p EXCEPT !.nfts[r.id] = r.to] \in Portfolio
    BY <1>1, <2>1, ListsOK
  <2> QED
    BY <1>4, <2>2, DoneStep DEF TransferNFT
<1> QED
  BY <1>3, <1>4

LEMMA TaskStep ==
  ASSUME Copies, NEW c \in Client, CompleteTask(c)
  PROVE  Copies'
<1>1. /\ client[c].p \in Portfolio /\ client[c].req \in PlainRequest
      /\ client[c].req.op = "task"
  BY WhatIsServed DEF Copies, CompleteTask, Serving
<1>2. client[c].req.id \in DOMAIN Reward
  BY <1>1, PlainFields
<1> QED
  BY <1>1, <1>2, DoneStep, DropStep DEF CompleteTask

LEMMA LoanStep ==
  ASSUME Copies, NEW c \in Client, CreateLoan(c)
  PROVE  Copies'
<1> DEFINE p == client[c].p
           r == client[c].req
           q == Debit(p, r.colKey, r.col)
           lent == IF r.type = "borrow" THEN Credit(q, r.debtKey, r.debt) ELSE q
           rec == [type |-> r.type, colKey |-> r.colKey, col |-> r.col,
                   debtKey |-> r.debtKey, debt |-> r.debt, active |-> TRUE]
<1>1. p \in Portfolio /\ r \in PlainRequest /\ r.op = "loan"
  BY WhatIsServed DEF Copies, CreateLoan, Serving
<1>2. /\ r.type \in {"borrow", "lend"} /\ r.colKey \in Key /\ r.col \in Nat /\ r.debtKey \in Key
      /\ r.debt # BadAmount => r.debt \in Nat
  BY <1>1, PlainFields, Integers64
<1>3. CASE ~Covers(p, r.colKey, r.col)
  BY <1>1, <1>3, DropStep DEF CreateLoan
<1>4. CASE Covers(p, r.colKey, r.col)
  <2>1. q \in Portfolio
    BY <1>1, <1>2, <1>4, DebitOK
  <2>2. CASE r.debt = BadAmount
    BY <1>4, <2>1, <2>2, DropStep DEF CreateLoan
  <2>3. CASE r.debt # BadAmount
    <3>1. Done(c, [lent EXCEPT !.loans = Append(@, rec)], "none")
      BY <1>4, <2>3 DEF CreateLoan
    <3> HIDE DEF q
    <3>2. lent \in Portfolio
      BY <2>1, <2>3, <1>2, CreditOK
    <3>3. rec \in LoanRecord
      BY <1>2, <2>3 DEF LoanRecord
    <3> HIDE DEF lent, rec
    <3>4. [lent EXCEPT !.loans = Append(@, rec)] \in Portfolio
      BY <3>2, <3>3, RecordsOK
    <3> QED
      BY <3>1, <3>4, DoneStep
  <2> QED
    BY <2>2, <2>3
<1> QED
  BY <1>3, <1>4

LEMMA RepayStep ==
  ASSUME Copies, NEW c \in Client, RepayLoan(c)
  PROVE  Copies'
<1> DEFINE p == client[c].p
           i == client[c].req.id
           l == p.loans[i]
           q == Debit(p, l.debtKey, l.debt)
           v == Credit(q, l.colKey, l.col)
           open == /\ i \in DOMAIN p.loans /\ p.loans[i].active
                   /\ Covers(p, p.loans[i].debtKey, p.loans[i].debt)
<1>1. p \in Portfolio
  BY WhatIsServed DEF Copies, RepayLoan, Serving
<1>2. CASE ~open
  BY <1>1, <1>2, DropStep DEF RepayLoan
<1>3. CASE open
  <2>1. l \in LoanRecord
    <3>1. p.loans \in Seq(LoanRecord) /\ i \in DOMAIN p.loans
      BY <1>1, <1>3, PortfolioFields
    <3> HIDE DEF p, i
    <3> QED
      BY <3>1, ListDomain
  <2>2. l.debtKey \in Key /\ l.debt \in Nat /\ l.colKey \in Key /\ l.col \in Nat
    BY <2>1 DEF LoanRecord
  <2>3. q \in Portfolio
    BY <1>1, <1>3, <2>2, DebitOK
  <2> HIDE DEF q
  <2>4. v \in Portfolio
    BY <2>2, <2>3, CreditOK
  <2>5. i \in DOMAIN v.loans
    BY <1>1, <1>3 DEF v, q, Credit, Debit, Portfolio
  <2>6. Done(c, [v EXCEPT !.loans[i].active = FALSE], "none")
    BY <1>3 DEF RepayLoan, q
  <2> HIDE DEF v
  <2>7. [v EXCEPT !.loans[i].active = FALSE] \in Portfolio
    BY <2>4, <2>5, ClosedOK
  <2> QED
    BY <2>6, <2>7, DoneStep
<1> QED
  BY <1>2, <1>3

LEMMA SendStep ==
  ASSUME Copies, NEW c \in Client, SendToken(c)
  PROVE  Copies'
<1> DEFINE p == client[c].p
           r == client[c].req
<1>1. p \in Portfolio /\ r \in PlainRequest /\ r.op = "send"
  BY WhatIsServed DEF Copies, SendToken, Serving
<1>2. r.key \in Key /\ r.amt \in Nat
  BY <1>1, PlainFields, Integers64
<1>3. CASE ~Covers(p, r.key, r.amt)
  BY <1>1, <1>3, DropStep DEF SendToken
<1>4. CASE Covers(p, r.key, r.amt)
  BY <1>1, <1>2, <1>4, DebitOK, DoneStep DEF SendToken
<1> QED
  BY <1>3, <1>4

LEMMA PoolSwapStep ==
  ASSUME Copies, NEW c \in Client, OneXSwapExecute(c)
  PROVE  Copies'
<1> DEFINE p == client[c].p
           r == client[c].req
           d == Debit(p, r.from, r.amt)
<1>1. /\ ServedOK(client[c]) /\ p \in Portfolio /\ r \in PoolRequest /\ r.op = "amm"
      /\ client[c].pc = "loaded" /\ WorkOK(r, client[c].work) /\ client[c].next \in Seq(PoolSwap)
  BY WhatIsServed DEF Copies, OneXSwapExecute, Serving
<1>2. r.from \in Key /\ r.to \in Key /\ r.amt \in Nat
  BY <1>1, PoolFields, Integers64
<1>3. client[c].work.out \in Int
  BY <1>1, Integers64 DEF WorkOK
<1>4. CASE ~Covers(p, r.from, r.amt)
  BY <1>1, <1>4, DropStep DEF OneXSwapExecute
<1>5. CASE Covers(p, r.from, r.amt)
  <2>1. d \in Portfolio
    BY <1>1, <1>2, <1>5, DebitOK
  <2>2. SaveFirst(c, Credit(d, r.to, client[c].work.out))
    BY <1>5 DEF OneXSwapExecute
  <2> HIDE DEF d
  <2>3. Credit(d, r.to, client[c].work.out) \in Portfolio
    BY <2>1, <1>2, <1>3, CreditOK
  <2> QED
    BY <1>1, <2>2, <2>3, SaveFirstStep
<1> QED
  BY <1>4, <1>5

LEMMA PoolAddStep ==
  ASSUME Copies, NEW c \in Client, OneXSwapAddLiquidity(c)
  PROVE  Copies'
<1> DEFINE p == client[c].p
           r == client[c].req
           q == Debit(p, r.t0, r.a0)
           d == Debit(q, r.t1, r.a1)
           v == Credit(d, LpKey[client[c].work.id], client[c].work.out)
<1>1. /\ ServedOK(client[c]) /\ p \in Portfolio /\ r \in PoolRequest /\ r.op = "add"
      /\ client[c].pc = "loaded" /\ WorkOK(r, client[c].work) /\ client[c].next \in Seq(PoolSwap)
  BY WhatIsServed DEF Copies, OneXSwapAddLiquidity, Serving
<1>2. r.t0 \in Key /\ r.t1 \in Key /\ r.a0 \in Nat /\ r.a1 \in Nat
  BY <1>1, PoolFields, Integers64
<1>3. client[c].work.out \in Int /\ LpKey[client[c].work.id] \in Key
  <2>1. client[c].work.out \in UInt /\ client[c].work.id \in Pairs
    BY <1>1 DEF WorkOK
  <2> QED
    BY <2>1, Integers64, BridgeAssumption
<1>4. CASE ~Covers(p, r.t0, r.a0)
  BY <1>1, <1>4, DropStep DEF OneXSwapAddLiquidity
<1>5. CASE Covers(p, r.t0, r.a0)
  <2>1. q \in Portfolio
    BY <1>1, <1>2, <1>5, DebitOK
  <2>2. CASE ~Covers(q, r.t1, r.a1)
    BY <1>5, <2>1, <2>2, DropStep DEF OneXSwapAddLiquidity
  <2>3. CASE Covers(q, r.t1, r.a1)
    <3>1. SaveFirst(c, v)
      BY <1>5, <2>3 DEF OneXSwapAddLiquidity
    <3> HIDE DEF q
    <3>2. d \in Portfolio
      BY <2>1, <2>3, <1>2, DebitOK
    <3> HIDE DEF d
    <3>3. v \in Portfolio
      BY <3>2, <1>3, CreditOK
    <3> QED
      BY <1>1, <3>1, <3>3, SaveFirstStep
  <2> QED
    BY <2>2, <2>3
<1> QED
  BY <1>4, <1>5

LEMMA PoolRemoveStep ==
  ASSUME Copies, NEW c \in Client, OneXSwapRemoveLiquidity(c)
  PROVE  Copies'
<1> DEFINE p == client[c].p
           r == client[c].req
           out == client[c].work.out
           q == Debit(p, LpKey[r.pool], r.shares)
           d == Credit(q, r.pool[1], out[1])
           v == Credit(d, r.pool[2], out[2])
<1>1. /\ ServedOK(client[c]) /\ p \in Portfolio /\ r \in PoolRequest /\ r.op = "remove"
      /\ client[c].pc = "loaded" /\ WorkOK(r, client[c].work) /\ client[c].next \in Seq(PoolSwap)
  BY WhatIsServed DEF Copies, OneXSwapRemoveLiquidity, Serving
<1>2. r.pool \in Pairs /\ r.shares \in Nat
  BY <1>1, PoolFields, Integers64
<1>3. LpKey[r.pool] \in Key /\ r.pool[1] \in Key /\ r.pool[2] \in Key
  BY <1>2, BridgeAssumption
<1>4. out[1] \in Int /\ out[2] \in Int
  BY <1>1, Integers64 DEF WorkOK
<1>5. CASE ~Covers(p, LpKey[r.pool], r.shares)
  BY <1>1, <1>5, DropStep DEF OneXSwapRemoveLiquidity
<1>6. CASE Covers(p, LpKey[r.pool], r.shares)
  <2>1. q \in Portfolio
    BY <1>1, <1>2, <1>3, <1>6, DebitOK
  <2>2. SaveFirst(c, v)
    BY <1>6 DEF OneXSwapRemoveLiquidity
  <2> HIDE DEF q
  <2>3. d \in Portfolio
    BY <2>1, <1>3, <1>4, CreditOK
  <2> HIDE DEF d
  <2>4. v \in Portfolio
    BY <2>3, <1>3, <1>4, CreditOK
  <2> QED
    BY <1>1, <2>2, <2>4, SaveFirstStep
<1> QED
  BY <1>5, <1>6

\* The copy that is put back is backed, whatever the pool is by then.
LEMMA UpdateStep ==
  ASSUME Copies, PoolsBacked, NEW c \in Client, UpdatePool(c)
  PROVE  Copies' /\ PoolsBacked'
<1> DEFINE p == client[c].p
           r == client[c].req
           w == client[c].work
           rec == [from |-> r.from, to |-> r.to, in |-> r.amt, out |-> w.out]
           q == [p EXCEPT !.swaps = Append(@, rec)]
           last == completeTask(q, "first-swap")
           b == IF client[c].next = <<>> THEN Idle ELSE [pc |-> "leg", req |-> Head(client[c].next)]
<1>1. ServedOK(client[c]) /\ client[c].pc = "update"
  <2>1. RequestOK(client[c]) /\ client[c].pc = "update"
    BY DEF Copies, RequestsOK, UpdatePool
  <2> QED
    BY <2>1 DEF RequestOK, Idle
<1>2. p \in Portfolio /\ r \in PoolRequest /\ WorkOK(r, w) /\ client[c].next \in Seq(PoolSwap)
  BY <1>1 DEF ServedOK
<1>3. PoolsBacked'
  <2>1. pools' = [pools EXCEPT ![w.id] = w.copy] /\ w.id \in Pairs /\ Backed(w.copy)
    BY <1>2 DEF UpdatePool, WorkOK
  <2> QED
    BY <2>1 DEF PoolsBacked, Backed
<1>4. CASE r.op = "amm"
  <2>1. cache' = last /\ holder' = Nobody /\ file' \in {file, q, last}
        /\ client' = [client EXCEPT ![c] = b]
    BY <1>4 DEF UpdatePool
  <2>2. rec \in SwapRecord
    BY <1>2, <1>4, PoolFields, Integers64 DEF WorkOK, SwapRecord
  <2> HIDE DEF rec
  <2>3. q \in Portfolio
    BY <1>2, <2>2, RecordsOK
  <2> HIDE DEF q
  <2>4. last \in Portfolio
    BY <2>3, TaskOK, BridgeAssumption
  <2> HIDE DEF last
  <2>5. SavedOK'
    BY <2>1, <2>3, <2>4 DEF Copies, SavedOK
  <2>6. RequestOK(b)
    BY <1>2 DEF RequestOK
  <2> HIDE DEF b
  <2>7. RequestsOK'
    BY <2>1, <2>6, ClientSet DEF Copies
  <2>8. HolderOK'
    BY <2>1 DEF HolderOK
  <2> QED
    BY <1>3, <2>5, <2>7, <2>8 DEF Copies
<1>5. CASE r.op \in {"add", "remove"}
  <2>1. /\ client' = [client EXCEPT ![c] = Idle]
        /\ holder' = (IF holder = c THEN Nobody ELSE holder)
        /\ UNCHANGED <<cache, file>>
    BY <1>5 DEF UpdatePool
  <2>2. RequestsOK' /\ \A o \in Client \ {c} : client'[o] = client[o]
    BY <2>1, ClientSet DEF Copies, RequestOK
  <2>3. HolderOK'
    BY <2>1, <2>2 DEF Copies, HolderOK
  <2>4. SavedOK'
    BY <2>1 DEF Copies, SavedOK
  <2> QED
    BY <1>3, <2>2, <2>3, <2>4 DEF Copies
<1> QED
  BY <1>4, <1>5 DEF UpdatePool

-----------------------------------------------------------------------------
(* What clients may send. *)

LEMMA OfferedRequests ==
  ASSUME NEW m \in Menu, NEW r \in Offered(m)
  PROVE  /\ r.op \in {"read", "stake", "unstake", "deposit", "swap", "mint", "give", "task",
                      "loan", "repay", "send", "wrap"} => r \in PlainRequest
         /\ r.op \in {"amm", "swap", "bridge"} =>
              r \in handleOneXSwapExec \cup handleSwap \cup handleBridgeExec
         /\ r.op = "add" => r \in handleOneXSwapAddLiq
         /\ r.op = "remove" => r \in handleOneXSwapRemoveLiq
         /\ r.op = "deploy" => r \in handlePlatformDeploy
<1>1. CASE r \in PortfolioRequest
  BY <1>1 DEF PortfolioRequest, PlainRequest, handlePortfolio, handleStake, handleUnstake,
       handleDeposit, handleSwap, handleNFTMint, handleNFTTransfer, handleTaskComplete,
       handleLoanCreate, handleLoanRepay, handleSendToken, handleOneXSwapExec,
       handleBridgeExec, handleOneXSwapAddLiq, handleOneXSwapRemoveLiq, handlePlatformDeploy,
       handlePlatformWrap
<1>2. CASE r \in handleLedgerRead \cup handleLedgerAccounts \cup handleLedgerImport
  BY <1>2 DEF handleLedgerRead, handleLedgerAccounts, handleLedgerImport
<1>3. CASE r.op \in {"convert", "transfer"}
  BY <1>3
<1> QED
  BY <1>1, <1>2, <1>3, OfferedAssumption

\* What a swap, whichever handler took it, is kept as.
LEMMA KeptAsSwap ==
  ASSUME NEW r \in handleOneXSwapExec \cup handleSwap \cup handleBridgeExec \cup PoolSwap,
         NEW to \in Key
  PROVE  /\ [r EXCEPT !.op = "amm"] \in PoolSwap
         /\ [r EXCEPT !.to = to] \in handleOneXSwapExec \cup handleSwap \cup handleBridgeExec \cup PoolSwap
         /\ r.amt \in UInt /\ r.from \in Key /\ r.to \in Key
BY BridgeAssumption DEF handleOneXSwapExec, handleSwap, handleBridgeExec, PoolSwap

LEMMA PoolChosen ==
  ASSUME PoolsBacked, NEW a, NEW b, HasPool(a, b)
  PROVE  PoolID(a, b) \in Pairs /\ pools[PoolID(a, b)] # NoPool /\ Backed(pools[PoolID(a, b)])
<1>1. PICK q \in Pairs : {q[1], q[2]} = {a, b} /\ pools[q] # NoPool
  BY DEF HasPool
<1>2. PoolID(a, b) \in Pairs /\ {PoolID(a, b)[1], PoolID(a, b)[2]} = {a, b}
  BY <1>1 DEF PoolID
<1>3. PoolID(a, b) = q
  BY <1>1, <1>2, BridgeAssumption, Zenon
<1> QED
  BY <1>1, <1>3 DEF PoolsBacked

LEMMA PrepareSwapStep ==
  ASSUME Copies, PoolsBacked, nodeBal \in UInt, NEW c \in Client,
         NEW r \in handleOneXSwapExec \cup handleSwap \cup handleBridgeExec \cup PoolSwap,
         NEW next \in Seq(PoolSwap), PrepareSwap(c, r, next)
  PROVE  Copies'
<1> DEFINE q == PoolID(r.from, r.to)
           zeroIn == r.from = q[1]
           s == [r EXCEPT !.op = "amm"]
           w == [id |-> q, copy |-> Swap(pools[q], zeroIn, r.amt),
                 out |-> AmountOut(pools[q], zeroIn, r.amt)]
<1>1. s \in PoolSwap /\ r.amt \in UInt
  BY KeptAsSwap, BridgeAssumption
<1>2. q \in Pairs /\ Backed(pools[q]) /\ CanSwap(pools[q], zeroIn, r.amt)
  BY PoolChosen DEF PrepareSwap, SwapQuoted
<1>3. Backed(Swap(pools[q], zeroIn, r.amt)) /\ AmountOut(pools[q], zeroIn, r.amt) \in UInt
  BY <1>1, <1>2, SwapBacks
<1>4. s.op = "amm"
  BY <1>1 DEF PoolSwap
<1>5. WorkOK(s, w)
  BY <1>2, <1>3, <1>4 DEF WorkOK
<1>6. GetPortfolio(c, s, w, next)
  BY DEF PrepareSwap
<1>7. s \in PoolRequest
  BY <1>1 DEF PoolRequest
<1> HIDE DEF s, w
<1> QED
  BY <1>5, <1>6, <1>7, GetPortfolioStep

LEMMA PrepareAddStep ==
  ASSUME Copies, PoolsBacked, nodeBal \in UInt, NEW c \in Client,
         NEW r \in handleOneXSwapAddLiq, PrepareAdd(c, r)
  PROVE  Copies'
<1> DEFINE Flip(q) == pools[q] = NoPool /\ r.t0 = q[2]
           S(q) == IF Flip(q) THEN [r EXCEPT !.t0 = r.t1, !.t1 = r.t0, !.a0 = r.a1, !.a1 = r.a0]
                   ELSE r
           Old(q) == IF pools[q] = NoPool THEN EmptyPool ELSE pools[q]
           W(q) == [id |-> q, copy |-> AddLiquidity(Old(q), S(q).a0, S(q).a1),
                    out |-> Minted(Old(q), S(q).a0, S(q).a1)]
<1>1. PICK q \in Pairs : CanAdd(Old(q), S(q).a0, S(q).a1) /\ GetPortfolio(c, S(q), W(q), <<>>)
  BY DEF PrepareAdd
<1>2. S(q) \in handleOneXSwapAddLiq
  BY DEF handleOneXSwapAddLiq
<1>3. Backed(Old(q))
  BY DEF PoolsBacked, Backed, EmptyPool, PoolState
<1>4. S(q).a0 \in UInt /\ S(q).a1 \in UInt /\ S(q).op = "add"
  BY <1>2, BridgeAssumption DEF handleOneXSwapAddLiq
<1>5. S(q) \in PoolRequest
  BY <1>2 DEF PoolRequest
<1> HIDE DEF S, Old
<1>6. Backed(AddLiquidity(Old(q), S(q).a0, S(q).a1)) /\ Minted(Old(q), S(q).a0, S(q).a1) \in UInt
  BY <1>1, <1>3, <1>4, AddBacks
<1>7. WorkOK(S(q), W(q))
  BY <1>4, <1>6 DEF WorkOK
<1>8. <<>> \in Seq(PoolSwap)
  OBVIOUS
<1> HIDE DEF W
<1> QED
  BY <1>1, <1>5, <1>7, <1>8, GetPortfolioStep

LEMMA PrepareRemoveStep ==
  ASSUME Copies, PoolsBacked, nodeBal \in UInt, NEW c \in Client,
         NEW r \in handleOneXSwapRemoveLiq, PrepareRemove(c, r)
  PROVE  Copies'
<1> DEFINE q == r.pool
           w == [id |-> q, copy |-> RemoveLiquidity(pools[q], r.shares),
                 out |-> <<Paid0(pools[q], r.shares) % Word, Paid1(pools[q], r.shares) % Word>>]
<1>1. r.pool \in Pairs /\ r.shares \in UInt /\ r.op = "remove"
  BY BridgeAssumption DEF handleOneXSwapRemoveLiq
<1>2. pools[q] # NoPool /\ CanRemove(pools[q], r.shares) /\ GetPortfolio(c, r, w, <<>>)
  BY DEF PrepareRemove
<1>3. Backed(pools[q])
  BY <1>1, <1>2 DEF PoolsBacked
<1>4. /\ Backed(RemoveLiquidity(pools[q], r.shares))
      /\ Paid0(pools[q], r.shares) % Word \in UInt /\ Paid1(pools[q], r.shares) % Word \in UInt
  BY <1>1, <1>2, <1>3, RemoveBacks
<1>5. WorkOK(r, w)
  BY <1>1, <1>4 DEF WorkOK
<1>6. <<>> \in Seq(PoolSwap) /\ r \in PoolRequest
  BY DEF PoolRequest
<1> HIDE DEF w
<1> QED
  BY <1>2, <1>5, <1>6, GetPortfolioStep

-----------------------------------------------------------------------------
(* The requests up to their GetPortfolio, and the token platform. *)

LEMMA AcceptStep ==
  ASSUME Copies, PoolsBacked, RegistersOK, menu \in Menu, nodeBal \in UInt,
         NEW c \in Client, Accept(c)
  PROVE  Copies'
<1>1. PICK r \in Offered(menu) :
        \/ SwapByPool(r) /\ PrepareSwap(c, r, <<>>)
        \/ r.op = "bridge" /\ ~TwoLegs(r) /\ PrepareSwap(c, r, <<>>)
        \/ /\ r.op = "bridge" /\ TwoLegs(r) /\ HasPool(r.from, ONEX)
           /\ PrepareSwap(c, [r EXCEPT !.to = ONEX], <<SecondLeg(r)>>)
        \/ r.op = "add" /\ PrepareAdd(c, r)
        \/ r.op = "remove" /\ PrepareRemove(c, r)
        \/ PrepareOther(c, r)
  BY DEF Accept
<1> DEFINE Swaps == handleOneXSwapExec \cup handleSwap \cup handleBridgeExec \cup PoolSwap
<1>2. r.op \in {"amm", "swap", "bridge"} => r \in Swaps
  BY OfferedRequests
<1>3. <<>> \in Seq(PoolSwap)
  OBVIOUS
<1>4. CASE r.op \in {"amm", "swap", "bridge"} /\ PrepareSwap(c, r, <<>>)
  BY <1>2, <1>3, <1>4, PrepareSwapStep
<1>5. CASE /\ r.op = "bridge" /\ HasPool(r.from, ONEX)
           /\ PrepareSwap(c, [r EXCEPT !.to = ONEX], <<SecondLeg(r)>>)
  <2> DEFINE s == [r EXCEPT !.to = ONEX]
             q == PoolID(r.from, ONEX)
  <2>1. r \in Swaps /\ ONEX \in Key
    BY <1>2, <1>5, BridgeAssumption
  <2>2. s \in Swaps /\ r.amt \in UInt /\ r.to \in Key
    BY <2>1, KeptAsSwap
  <2>3. s.from = r.from /\ s.to = ONEX /\ s.amt = r.amt
    BY <2>1 DEF handleOneXSwapExec, handleSwap, handleBridgeExec, PoolSwap
  <2>4. HasPool(s.from, s.to) /\ CanSwap(pools[q], s.from = q[1], s.amt)
    BY <1>5, <2>3 DEF PrepareSwap, SwapQuoted
  <2>5. Backed(pools[q])
    BY <2>3, <2>4, PoolChosen
  <2>6. AmountOut(pools[q], r.from = q[1], r.amt) \in UInt
    BY <2>2, <2>3, <2>4, <2>5, SwapBacks
  <2>7. (AmountOut(pools[q], r.from = q[1], r.amt) * Coin) % Word \in UInt
    <3> DEFINE out == AmountOut(pools[q], r.from = q[1], r.amt)
    <3>1. out \in Nat /\ Coin \in Nat
      BY <2>6, Integers64, BridgeAssumption
    <3> HIDE DEF out
    <3>2. out * Coin \in Int
      BY <3>1, ProductType
    <3>3. (out * Coin) % Word \in UInt
      BY <3>2, Integers64
    <3> QED
      BY <3>3 DEF out
  <2>8. SecondLeg(r) \in PoolSwap
    BY <2>1, <2>2, <2>7 DEF SecondLeg, PoolSwap
  <2>9. <<SecondLeg(r)>> \in Seq(PoolSwap)
    BY <2>8
  <2> HIDE DEF s
  <2> QED
    BY <1>5, <2>2, <2>9, PrepareSwapStep DEF s
<1>6. CASE r.op = "add" /\ PrepareAdd(c, r)
  BY <1>6, OfferedRequests, PrepareAddStep
<1>7. CASE r.op = "remove" /\ PrepareRemove(c, r)
  BY <1>7, OfferedRequests, PrepareRemoveStep
<1>8. CASE PrepareOther(c, r)
  <2> DEFINE work == IF r.op = "wrap" THEN tokens ELSE <<>>
  <2>1. r \in PlainRequest /\ r.op \notin {"amm", "add", "remove"} /\ GetPortfolio(c, r, work, <<>>)
    BY <1>8, OfferedRequests DEF PrepareOther
  <2>2. r.op = "wrap" => DOMAIN work \subseteq Key
    BY DEF RegistersOK
  <2> HIDE DEF work
  <2> QED
    BY <2>1, <2>2, GetPortfolioStep
<1> QED
  BY <1>1, <1>4, <1>5, <1>6, <1>7, <1>8 DEF SwapByPool

LEMMA LegStep ==
  ASSUME Copies, PoolsBacked, nodeBal \in UInt, NEW c \in Client, AcceptLeg(c)
  PROVE  Copies'
<1>1. client[c].pc = "leg" /\ client[c].req \in PoolSwap
  <2>1. RequestOK(client[c]) /\ client[c].pc = "leg"
    BY DEF Copies, RequestsOK, AcceptLeg
  <2> QED
    BY <2>1 DEF RequestOK, Idle, ServedOK
<1>2. CASE PrepareSwap(c, client[c].req, <<>>)
  <2>1. <<>> \in Seq(PoolSwap)
    OBVIOUS
  <2> QED
    BY <1>1, <1>2, <2>1, PrepareSwapStep
<1>3. CASE client' = [client EXCEPT ![c] = Idle] /\ UNCHANGED <<cache, holder, file>>
  <2>1. RequestOK(Idle)
    BY DEF RequestOK
  <2> QED
    BY <1>1, <1>3, <2>1, AsideStep
<1> QED
  BY <1>2, <1>3 DEF AcceptLeg

LEMMA AcceptDeployStep ==
  ASSUME Copies, RegistersOK, menu \in Menu, NEW c \in Client, AcceptDeploy(c)
  PROVE  Copies'
<1>1. PICK r \in Offered(menu) : \E k \in SuffixedKey \cup {r.key} :
        /\ r.op = "deploy"
        /\ client' = [client EXCEPT ![c] =
             [pc |-> "deploy", req |-> [r EXCEPT !.key = k], work |-> tokens]]
  BY DEF AcceptDeploy
<1>k. PICK k \in SuffixedKey \cup {r.key} :
        /\ r.op = "deploy"
        /\ client' = [client EXCEPT ![c] =
             [pc |-> "deploy", req |-> [r EXCEPT !.key = k], work |-> tokens]]
  BY <1>1
<1> DEFINE b == [pc |-> "deploy", req |-> [r EXCEPT !.key = k], work |-> tokens]
<1>2. r \in handlePlatformDeploy
  BY <1>k, OfferedRequests
<1>3. k \in Key
  BY <1>2, BridgeAssumption DEF handlePlatformDeploy
<1>4. [r EXCEPT !.key = k] \in handlePlatformDeploy
  BY <1>2, <1>3 DEF handlePlatformDeploy
<1>5. RequestOK(b)
  BY <1>4 DEF RequestOK, RegistersOK
<1>6. client' = [client EXCEPT ![c] = b] /\ UNCHANGED <<cache, holder, file>> /\ client[c] = Idle
  BY <1>k DEF AcceptDeploy
<1>7. client[c].pc \notin {"loaded", "update"}
  BY <1>6 DEF Idle
<1> HIDE DEF b
<1> QED
  BY <1>5, <1>6, <1>7, AsideStep

LEMMA DeployStep ==
  ASSUME Copies, RegistersOK, nodeBal \in UInt, NEW c \in Client, DeployPlatformToken(c)
  PROVE  Copies' /\ RegistersOK'
<1> DEFINE r == client[c].req
           p == Synced(Load, TRUE)
           d == Credit(p, r.key, r.supply)
           q == [d EXCEPT !.created = @ \cup {r.key}]
           listed == [k \in DOMAIN client[c].work \cup {r.key} |->
                       IF k = r.key THEN [supply |-> r.supply, origin |-> "none", wrapped |-> 0]
                       ELSE client[c].work[k]]
<1>1. client[c].pc = "deploy" /\ r \in handlePlatformDeploy /\ DOMAIN client[c].work \subseteq Key
  <2>1. RequestOK(client[c]) /\ client[c].pc = "deploy"
    BY DEF Copies, RequestsOK, DeployPlatformToken
  <2> QED
    BY <2>1 DEF RequestOK, Idle, ServedOK
<1>2. r.key \in Key /\ r.supply \in Nat
  BY <1>1, BridgeAssumption, Integers64 DEF handlePlatformDeploy
<1>3. DOMAIN listed \subseteq Key
  BY <1>1, <1>2
<1>4. tokens' \in {tokens, listed} /\ custom' \in {custom, custom \cup {r.key}}
  BY DEF DeployPlatformToken
<1> HIDE DEF listed
<1>5. RegistersOK'
  BY <1>2, <1>3, <1>4 DEF RegistersOK
<1>6. CASE client' = [client EXCEPT ![c] = Idle] /\ UNCHANGED <<cache, holder, file>>
  <2>1. RequestOK(Idle)
    BY DEF RequestOK
  <2> QED
    BY <1>1, <1>5, <1>6, <2>1, AsideStep
<1>7. CASE CanLoad /\ Done(c, Synced(q, TRUE), "create-token")
  <2>1. p \in Portfolio
    BY <1>7, LoadOK, SyncedOK DEF Copies
  <2> HIDE DEF p
  <2>2. d \in Portfolio
    BY <2>1, <1>2, CreditOK
  <2> HIDE DEF d
  <2>3. q \in Portfolio
    BY <2>2, <1>2 DEF Portfolio
  <2> HIDE DEF q
  <2>4. Synced(q, TRUE) \in Portfolio
    BY <2>3, SyncedOK
  <2> QED
    BY <1>5, <1>7, <2>4, DoneStep, BridgeAssumption DEF q
<1> QED
  BY <1>6, <1>7 DEF DeployPlatformToken

LEMMA WrapStep ==
  ASSUME Copies, RegistersOK, NEW c \in Client, WrapPlatformToken(c)
  PROVE  Copies' /\ RegistersOK'
<1> DEFINE p == client[c].p
           r == client[c].req
           w == WrappedKey[r.key]
           open == /\ r.key \in DOMAIN client[c].work \cup custom \cup Listed
                   /\ Covers(p, r.key, r.amt)
           list == Wrapping(client[c].work, r.key, r.amt)
           d == Debit(p, r.key, r.amt)
<1>1. p \in Portfolio /\ r \in PlainRequest /\ r.op = "wrap" /\ DOMAIN client[c].work \subseteq Key
  BY WhatIsServed DEF Copies, WrapPlatformToken, Serving
<1>2. r.key \in DOMAIN WrappedKey /\ r.key \in Key /\ r.amt \in Nat
  BY <1>1, PlainFields, Integers64
<1>3. w \in Key
  BY <1>2, BridgeAssumption
<1>4. DOMAIN list \subseteq Key
  BY <1>1, <1>3 DEF Wrapping
<1>5. tokens' \in {tokens, list} /\ custom' \in {custom, custom \cup {w}}
  BY DEF WrapPlatformToken, platform
<1> HIDE DEF list
<1>6. RegistersOK'
  BY <1>3, <1>4, <1>5 DEF RegistersOK
<1>7. CASE Drop(c, p)
  BY <1>1, <1>6, <1>7, DropStep
<1>8. CASE open /\ Done(c, Credit(d, w, r.amt), "none")
  <2>1. d \in Portfolio
    BY <1>1, <1>2, <1>8, DebitOK
  <2> HIDE DEF d
  <2>2. Credit(d, w, r.amt) \in Portfolio
    BY <2>1, <1>2, <1>3, CreditOK
  <2> QED
    BY <1>6, <1>8, <2>2, DoneStep DEF d
<1> QED
  BY <1>7, <1>8 DEF WrapPlatformToken

\* The wallet's balance at the node only falls by what it has.
LEMMA NodeSendStep ==
  ASSUME Copies, menu \in Menu, nodeBal \in UInt, NEW c \in Client, Send(c)
  PROVE  Copies' /\ nodeBal' \in UInt
<1>1. PICK r \in Offered(menu) : /\ r.op = "send" /\ nodeBal >= r.amt
                                 /\ nodeBal' \in {nodeBal, nodeBal - r.amt}
  BY DEF Send
<1>2. r.amt \in Nat
  BY <1>1, OfferedRequests, PlainFields, Integers64
<1>3. nodeBal' \in UInt
  BY <1>1, <1>2, Integers64
<1>4. UNCHANGED <<cache, holder, file, client>>
  BY DEF Send
<1> QED
  BY <1>3, <1>4 DEF Copies, SavedOK, HolderOK, RequestsOK

-----------------------------------------------------------------------------
(* The bridge's part of a step. *)

LEMMA ServeKeepsBridge ==
  ASSUME BridgeInv, NEW c \in Client, Serve(c)
  PROVE  BridgeInv'
<1> USE DEF BridgeInv
<1>1. CASE Accept(c)
  BY <1>1, AcceptStep DEF Accept, PoolsBacked, RegistersOK, platform
<1>2. CASE AcceptLeg(c)
  BY <1>2, LegStep DEF AcceptLeg, PoolsBacked, RegistersOK, platform, bounds
<1>3. CASE AcceptDeploy(c)
  BY <1>3, AcceptDeployStep DEF AcceptDeploy, PoolsBacked, RegistersOK, platform
<1>4. CASE Send(c)
  BY <1>4, NodeSendStep DEF Send, PoolsBacked, RegistersOK, platform
<1>5. ASSUME Copies', Elsewhere PROVE BridgeInv'
  BY <1>5 DEF Elsewhere, PoolsBacked, RegistersOK, platform, bounds
<1>6. CASE Read(c)
  BY <1>5, <1>6, ReadStep DEF Read
<1>7. CASE Stake(c)
  BY <1>5, <1>7, StakeStep DEF Stake
<1>8. CASE Unstake(c)
  BY <1>5, <1>8, UnstakeStep DEF Unstake
<1>9. CASE RecordDeposit(c)
  BY <1>5, <1>9, DepositRequestStep DEF RecordDeposit
<1>10. CASE SwapExecute(c)
  BY <1>5, <1>10, SwapExecuteStep DEF SwapExecute
<1>11. CASE OneXSwapExecute(c)
  BY <1>5, <1>11, PoolSwapStep DEF OneXSwapExecute
<1>12. CASE OneXSwapAddLiquidity(c)
  BY <1>5, <1>12, PoolAddStep DEF OneXSwapAddLiquidity
<1>13. CASE OneXSwapRemoveLiquidity(c)
  BY <1>5, <1>13, PoolRemoveStep DEF OneXSwapRemoveLiquidity
<1>14. CASE UpdatePool(c)
  BY <1>14, UpdateStep DEF UpdatePool, RegistersOK, platform, bounds
<1>15. CASE MintNFT(c)
  BY <1>5, <1>15, MintStep DEF MintNFT
<1>16. CASE TransferNFT(c)
  BY <1>5, <1>16, GiveStep DEF TransferNFT
<1>17. CASE CompleteTask(c)
  BY <1>5, <1>17, TaskStep DEF CompleteTask
<1>18. CASE CreateLoan(c)
  BY <1>5, <1>18, LoanStep DEF CreateLoan
<1>19. CASE RepayLoan(c)
  BY <1>5, <1>19, RepayStep DEF RepayLoan
<1>20. CASE SendToken(c)
  BY <1>5, <1>20, SendStep DEF SendToken
<1>21. CASE DeployPlatformToken(c)
  BY <1>21, DeployStep DEF DeployPlatformToken, PoolsBacked, bounds
<1>22. CASE WrapPlatformToken(c)
  BY <1>22, WrapStep DEF WrapPlatformToken, PoolsBacked, bounds
<1> QED
  BY <1>1, <1>2, <1>3, <1>4, <1>6, <1>7, <1>8, <1>9, <1>10, <1>11, <1>12, <1>13, <1>14,
     <1>15, <1>16, <1>17, <1>18, <1>19, <1>20, <1>21, <1>22 DEF Serve

LEMMA TickKeepsBridge ==
  ASSUME BridgeInv, Tick
  PROVE  BridgeInv'
BY DEF BridgeInv, Tick, Copies, SavedOK, HolderOK, RequestsOK, PoolsBacked, RegistersOK,
       platform, bounds

\* After a crash there may be no pools, and the files are old or unreadable.
LEMMA CrashKeepsBridge ==
  ASSUME BridgeInv, Crash
  PROVE  BridgeInv'
<1>1. SavedOK'
  BY DEF BridgeInv, Copies, SavedOK, Crash
<1>2. HolderOK'
  BY DEF HolderOK, Crash
<1>3. RequestsOK'
  BY DEF RequestsOK, Crash, RequestOK
<1>4. PoolsBacked'
  BY DEF BridgeInv, PoolsBacked, Crash
<1> QED
  BY <1>1, <1>2, <1>3, <1>4 DEF BridgeInv, Copies, RegistersOK, Crash, platform, bounds

LEMMA BridgeStarts ==
  ASSUME Init
  PROVE  BridgeInv
<1>1. PoolsBacked
  <2>1. /\ SeedPools \in [Pairs -> PoolState \cup {NoPool}]
        /\ \A q \in Pairs : SeedPools[q] # NoPool /\ SeedPools[q].shares > 0
                              => SeedPools[q].r0 > 0 /\ SeedPools[q].r1 > 0
    BY BridgeAssumption
  <2> QED
    BY <2>1 DEF Init, PoolsBacked, Backed
<1>2. RequestsOK
  BY DEF Init, RequestsOK, RequestOK
<1>3. HolderOK /\ SavedOK
  BY DEF Init, HolderOK, SavedOK
<1>4. RegistersOK
  BY DEF Init, RegistersOK
<1>5. nodeBal \in UInt
  BY BridgeAssumption DEF Init
<1> QED
  BY <1>1, <1>2, <1>3, <1>4, <1>5 DEF Init, BridgeInv, Copies

-----------------------------------------------------------------------------
(* The book. *)

LEMMA BankOK ==
  ASSUME NEW answers
  PROVE  \A e \in ReadBankLedgerWithProvider(BankConfig, answers) : EntryOK(e)
<1>1. \A r \in BankConfig.rows : r.cur \in DOMAIN Price /\ r.current \in Nat \cup {NoAmount}
                                 /\ r.available \in Nat \cup {NoAmount}
  BY BookAssumption
<1>2. \A e \in PlaidEntries(BankConfig.rows) : EntryOK(e)
  BY <1>1 DEF PlaidEntries, Entry, EntryOK
<1>3. \A e \in TrueLayerEntries(BankConfig.rows) : EntryOK(e)
  BY <1>1 DEF TrueLayerEntries, Entry, EntryOK
<1>4. \A e \in BankEntries(BankConfig.rows) : EntryOK(e)
  BY <1>1 DEF BankEntries, Entry, EntryOK
<1> QED
  BY <1>2, <1>3, <1>4 DEF ReadBankLedgerWithProvider

LEMMA SnapshotOK ==
  ASSUME NEW p \in Portfolio, nodeBal \in UInt, NEW list \in Seq(Import), NEW up, NEW bankUp
  PROVE  \A e \in Snapshot(p, up, bankUp, list) : EntryOK(e)
<1>1. KeyAsset \in [Key -> DOMAIN Price] /\ ONEX \in Key
  BY BookAssumption, BridgeAssumption
<1>2. EntryOK(Entry(<<"onex-native">>, KeyAsset[ONEX], nodeBal))
  BY <1>1, Integers64 DEF Entry, EntryOK
<1>3. \A e \in ReadEVMEntries(TokenList, NativeBalance, TokenBalance) : EntryOK(e)
  <2>1. \A t \in TokenList : t.evm => t.symbol \in DOMAIN Price
          /\ (IF t.known THEN TokenBalance[t.id] ELSE NativeBalance[t.chain]) \in Nat
    BY BookAssumption
  <2> QED
    BY <2>1 DEF ReadEVMEntries, Entry, EntryOK
<1>4. \A k \in Key : EntryOK(Entry(<<"portfolio", k>>, KeyAsset[k], p.bal[k]))
  BY <1>1, PortfolioFields, Integers64 DEF Entry, EntryOK
<1>5. list # <<>> => \A e \in ParseImportLedger(Head(list)) : EntryOK(e)
  <2>1. \A d \in Import : \A e \in d.rows : EntryOK(e)
    BY BookAssumption DEF EntryOK
  <2>2. list # <<>> => Head(list) \in Import
    OBVIOUS
  <2> QED
    BY <2>1, <2>2 DEF ParseImportLedger
<1>6. \A e \in ReadBankLedgerWithProvider(BankConfig, bankUp) : EntryOK(e)
  BY BankOK
<1> QED
  BY <1>2, <1>3, <1>4, <1>5, <1>6 DEF Snapshot

LEMMA ImportedOK ==
  ASSUME NEW list \in Seq(Import), NEW doc \in Import, NEW new \in Imported(list, doc)
  PROVE  new \in Seq(Import)
<1>1. PICK i \in 0 .. Len(list) :
        new = SubSeq(list, 1, i) \o <<doc>> \o SubSeq(list, i + 1, Len(list))
  BY DEF Imported
<1>2. SubSeq(list, 1, i) \in Seq(Import)
  BY <1>1
<1>3. SubSeq(list, i + 1, Len(list)) \in Seq(Import)
  BY <1>1
<1>4. <<doc>> \in Seq(Import)
  OBVIOUS
<1> DEFINE x == SubSeq(list, 1, i)
           y == SubSeq(list, i + 1, Len(list))
           z == <<doc>>
<1> HIDE DEF x, y, z
<1>5. x \o z \in Seq(Import)
  BY <1>2, <1>4 DEF x, z
<1>6. (x \o z) \o y \in Seq(Import)
  BY <1>5, <1>3 DEF y
<1> QED
  BY <1>1, <1>6 DEF x, y, z

\* What a request for the book reads, and what it leaves for the steps after it.
BookAsked(c, r, up, bankUp) ==
  LET p == Synced(IF CanLoad THEN Load ELSE DefaultPortfolio, up)
  IN  /\ r.op \in BookOps
      /\ imports' \in IF r.op = "import" THEN Imported(imports, r.doc) ELSE {imports}
      /\ IF CanLoad THEN cache' = p /\ holder' = Nobody /\ file' \in {file, p}
         ELSE UNCHANGED <<cache, holder, file>>
      /\ client' = [client EXCEPT ![c] =
           IF r.op = "peek" THEN Idle
           ELSE [pc |-> "snapshot", req |-> r, snap |-> Snapshot(p, up, bankUp, imports')]]

LEMMA BookRequestAsked ==
  ASSUME NEW c \in Client, BookRequest(c)
  PROVE  \E r \in Offered(menu), up \in BOOLEAN, bankUp \in BOOLEAN : BookAsked(c, r, up, bankUp)
<1>1. PICK r \in Offered(menu), up \in IF Faulty(menu) THEN BOOLEAN ELSE {TRUE},
           bankUp \in IF Faulty(menu) THEN BOOLEAN ELSE {TRUE} :
        /\ r.op \in BookOps
        /\ r.op = "convert" => r.active \/ r.from # NoRef
        /\ r.op = "import" => ParseAnyLedger(r.doc) # {}
        /\ imports' \in IF r.op = "import" THEN Imported(imports, r.doc) ELSE {imports}
        /\ LET p == Synced(IF CanLoad THEN Load ELSE DefaultPortfolio, up)
           IN  /\ IF CanLoad THEN /\ cache' = p /\ holder' = Nobody
                                  /\ file' \in IF Faulty(menu) THEN {file, p} ELSE {p}
                  ELSE UNCHANGED <<cache, holder, file>>
               /\ client' = [client EXCEPT ![c] =
                    IF r.op = "peek" THEN Idle
                    ELSE [pc |-> "snapshot", req |-> r,
                          snap |-> Snapshot(p, up, bankUp, imports')]]
  BY Zenon DEF BookRequest
<1>2. up \in BOOLEAN /\ bankUp \in BOOLEAN
  BY <1>1
<1>3. ASSUME NEW x, NEW y, x \in IF Faulty(menu) THEN {file, y} ELSE {y}
      PROVE  x \in {file, y}
  BY <1>3
<1>4. BookAsked(c, r, up, bankUp)
  BY <1>1, <1>3, Zenon DEF BookAsked
<1> QED
  BY <1>2, <1>4

LEMMA BookRequestStep ==
  ASSUME DaemonInv, NEW c \in Client, BookRequest(c)
  PROVE  Copies' /\ imports' \in Seq(Import)
<1>0. PICK r \in Offered(menu), up \in BOOLEAN, bankUp \in BOOLEAN : BookAsked(c, r, up, bankUp)
  BY BookRequestAsked
<1>1. LET p == Synced(IF CanLoad THEN Load ELSE DefaultPortfolio, up)
      IN  /\ r.op \in BookOps
          /\ imports' \in IF r.op = "import" THEN Imported(imports, r.doc) ELSE {imports}
          /\ IF CanLoad THEN cache' = p /\ holder' = Nobody /\ file' \in {file, p}
             ELSE UNCHANGED <<cache, holder, file>>
          /\ client' = [client EXCEPT ![c] =
               IF r.op = "peek" THEN Idle
               ELSE [pc |-> "snapshot", req |-> r, snap |-> Snapshot(p, up, bankUp, imports')]]
  BY <1>0 DEF BookAsked
<1> DEFINE p == Synced(IF CanLoad THEN Load ELSE DefaultPortfolio, up)
           snap == Snapshot(p, up, bankUp, imports')
           b == IF r.op = "peek" THEN Idle
                ELSE [pc |-> "snapshot", req |-> r, snap |-> snap]
<1>2. Copies /\ nodeBal \in UInt /\ menu \in Menu /\ imports \in Seq(Import)
  BY DEF DaemonInv, BridgeInv, BookState
<1>3. p \in Portfolio
  <2>1. (IF CanLoad THEN Load ELSE DefaultPortfolio) \in Portfolio
    BY <1>2, LoadOK, DefaultOK DEF Copies
  <2> QED
    BY <1>2, <2>1, SyncedOK
<1>4. imports' \in Seq(Import)
  <2>1. r.op = "import" => r.doc \in Import
    <3>1. r \in PortfolioRequest => r.op # "import"
      BY DEF PortfolioRequest, handlePortfolio, handleStake, handleUnstake,
         handleDeposit, handleSwap, handleNFTMint, handleNFTTransfer, handleTaskComplete,
         handleLoanCreate, handleLoanRepay, handleSendToken, handleOneXSwapExec,
         handleBridgeExec, handleOneXSwapAddLiq, handleOneXSwapRemoveLiq, handlePlatformDeploy,
         handlePlatformWrap
    <3> QED
      BY <1>2, <3>1, OfferedAssumption DEF handleLedgerRead, handleLedgerAccounts, handleLedgerImport
  <2>2. CASE r.op = "import"
    BY <1>1, <1>2, <2>1, <2>2, ImportedOK
  <2>3. CASE r.op # "import"
    BY <1>1, <1>2, <2>3
  <2> QED
    BY <2>2, <2>3
<1> HIDE DEF p
<1>5. \A e \in snap : EntryOK(e)
  BY <1>2, <1>3, <1>4, SnapshotOK
<1> HIDE DEF snap
<1>6. RequestOK(b)
  BY <1>1, <1>2, <1>5 DEF RequestOK, BookRequestOK
<1>7. client' = [client EXCEPT ![c] = b]
  BY <1>1 DEF p, snap
<1> HIDE DEF b
<1>8. RequestsOK' /\ \A o \in Client \ {c} : client'[o] = client[o]
  BY <1>2, <1>6, <1>7, ClientSet DEF Copies
<1>9. client[c].pc = "idle"
  BY DEF BookRequest, Idle
<1>10. CASE CanLoad
  <2>1. cache' = p /\ holder' = Nobody /\ file' \in {file, p}
    BY <1>1, <1>10 DEF p
  <2>2. SavedOK' /\ HolderOK'
    BY <1>2, <1>3, <2>1 DEF Copies, SavedOK, HolderOK
  <2> QED
    BY <1>4, <1>8, <2>2 DEF Copies
<1>11. CASE ~CanLoad
  <2>1. UNCHANGED <<cache, holder, file>>
    BY <1>1, <1>11
  <2>2. SavedOK'
    BY <1>2, <2>1 DEF Copies, SavedOK
  <2>3. HolderOK'
    BY <1>2, <1>8, <1>9, <2>1 DEF Copies, HolderOK
  <2> QED
    BY <1>4, <1>8, <2>2, <2>3 DEF Copies
<1> QED
  BY <1>10, <1>11

LEMMA EmptyBookOK == BookOK(EmptyBook)
<1>1. DOMAIN EmptyBook.accts = {} /\ EmptyBook.xfers = <<>> /\ Len(<<>>) = 0 /\ DOMAIN <<>> = {}
  BY DEF EmptyBook
<1>2. <<>> \in Seq({})
  OBVIOUS
<1> QED
  BY <1>1, <1>2, BookAssumption DEF BookOK, EmptyBook

LEMMA OpenedOK ==
  ASSUME BookState, CanOpen
  PROVE  BookOK(Opened)
BY EmptyBookOK DEF BookState, CanOpen, Opened

\* A request of the book that holds no portfolio writes the book.
LEMMA SaveBookStep ==
  ASSUME Copies, BookState, NEW c \in Client, NEW b, BookOK(b), NEW next, RequestOK(next),
         client[c].pc \notin {"loaded", "update"}, SaveBook(c, b, next), BookFrozen
  PROVE  Copies' /\ BookState'
<1>1. /\ book' = b /\ bfile' \in {b, bfile} /\ UNCHANGED <<imports, cache, holder, file>>
      /\ client' = [client EXCEPT ![c] = next] \/ client' = [client EXCEPT ![c] = Idle]
  BY DEF SaveBook, BookFrozen
<1>2. BookState'
  BY <1>1 DEF BookState
<1>3. RequestOK(Idle)
  BY DEF RequestOK
<1> QED
  BY <1>1, <1>2, <1>3, AsideStep

LEMMA EndRequestStep ==
  ASSUME Copies, BookState, NEW c \in Client, client[c].pc \notin {"loaded", "update"},
         EndRequest(c), BookFrozen
  PROVE  Copies' /\ BookState'
<1>1. RequestOK(Idle)
  BY DEF RequestOK
<1>2. Copies'
  BY <1>1, AsideStep DEF EndRequest, BookFrozen
<1> QED
  BY <1>2 DEF EndRequest, BookFrozen, BookState

LEMMA SynchronisedOK ==
  ASSUME NEW b, BookOK(b), NEW snap, \A e \in snap : EntryOK(e)
  PROVE  BookOK([b EXCEPT !.accts = Synchronised(@, snap)])
<1> DEFINE new == Synchronised(b.accts, snap)
<1>1. ASSUME NEW id \in DOMAIN new
      PROVE  new[id].asset \in DOMAIN Price /\ new[id].bal \in Nat
  <2> DEFINE es == {e \in snap : e.id = id}
             x  == CHOOSE y \in es : TRUE
  <2>1. id \in DOMAIN b.accts \cup {e.id : e \in snap}
    BY DEF Synchronised
  <2>2. new[id] = IF es = {} \/ (id \in DOMAIN b.accts /\ b.accts[id].bal > x.bal)
                  THEN b.accts[id] ELSE [asset |-> x.asset, bal |-> x.bal]
    BY <2>1 DEF Synchronised
  <2>3. es = {} => id \in DOMAIN b.accts
    BY <2>1
  <2>4. es # {} => x \in es
    OBVIOUS
  <2>5. es # {} => EntryOK(x)
    BY <2>4
  <2> HIDE DEF new, es, x
  <2>6. CASE es = {} \/ (id \in DOMAIN b.accts /\ b.accts[id].bal > x.bal)
    BY <2>2, <2>3, <2>6 DEF BookOK
  <2>7. CASE ~(es = {} \/ (id \in DOMAIN b.accts /\ b.accts[id].bal > x.bal))
    BY <2>2, <2>5, <2>7 DEF EntryOK
  <2> QED
    BY <2>6, <2>7
<1> DEFINE nb == [b EXCEPT !.accts = new]
<1> HIDE DEF new
<1>2. PICK a, x : b = [accts |-> a, xfers |-> x]
  BY DEF BookOK
<1>3. nb = [accts |-> new, xfers |-> b.xfers]
  BY <1>2
<1> HIDE DEF nb
<1>4. nb.accts = new /\ nb.xfers = b.xfers /\ nb = [accts |-> nb.accts, xfers |-> nb.xfers]
  BY <1>3
<1>5. BookOK(nb)
  BY <1>1, <1>4 DEF BookOK
<1> QED
  BY <1>5 DEF nb, new

LEMMA SnapshotStep ==
  ASSUME Copies, BookState, NEW c \in Client, SyncFromSnapshot(c)
  PROVE  Copies' /\ BookState'
<1> DEFINE r == client[c].req
           snap == client[c].snap
           b == [Opened EXCEPT !.accts = Synchronised(@, snap)]
           next == IF r.op \in {"convert", "transfer"} THEN [pc |-> "synced", req |-> r] ELSE Idle
<1>1. client[c].pc = "snapshot" /\ BookRequestOK(r) /\ \A e \in snap : EntryOK(e)
  <2>1. RequestOK(client[c]) /\ client[c].pc = "snapshot"
    BY DEF Copies, RequestsOK, SyncFromSnapshot
  <2> QED
    BY <2>1 DEF RequestOK, Idle, ServedOK
<1>2. RequestOK(next)
  BY <1>1 DEF RequestOK
<1>3. CASE CanOpen
  <2>1. SaveBook(c, b, next) /\ BookFrozen
    BY <1>3 DEF SyncFromSnapshot
  <2>2. BookOK(b)
    BY <1>1, <1>3, OpenedOK, SynchronisedOK
  <2> HIDE DEF b, next
  <2> QED
    BY <1>1, <1>2, <2>1, <2>2, SaveBookStep
<1>4. CASE ~CanOpen
  <2>1. EndRequest(c) /\ BookFrozen
    BY <1>4 DEF SyncFromSnapshot
  <2> QED
    BY <1>1, <2>1, EndRequestStep
<1> QED
  BY <1>3, <1>4

\* What a client may ask to be transferred or converted.
LEMMA TransferRequests ==
  ASSUME NEW r, BookRequestOK(r)
  PROVE  /\ r.op = "transfer" => r.amt \in Nat /\ r.conv \in DOMAIN Price \cup {NoRef}
         /\ r.op = "convert" => r.amt \in Nat /\ r.toAsset \in DOMAIN Price
<1>1. PICK m \in Menu : r \in Offered(m)
  BY DEF BookRequestOK
<1>2. r \in PortfolioRequest => r.op \notin {"convert", "transfer"}
  BY DEF PortfolioRequest, handlePortfolio, handleStake, handleUnstake,
     handleDeposit, handleSwap, handleNFTMint, handleNFTTransfer, handleTaskComplete,
     handleLoanCreate, handleLoanRepay, handleSendToken, handleOneXSwapExec,
     handleBridgeExec, handleOneXSwapAddLiq, handleOneXSwapRemoveLiq, handlePlatformDeploy,
     handlePlatformWrap
<1>3. Amounts \subseteq Nat
  BY BridgeAssumption, Integers64
<1>4. r \in handleLedgerRead \cup handleLedgerAccounts \cup handleLedgerImport
        => r.op \notin {"convert", "transfer"}
  BY DEF handleLedgerRead, handleLedgerAccounts, handleLedgerImport
<1>5. CASE r.op = "convert"
  <2>1. r \in handleLedgerConvert({r.from}, DOMAIN Price)
    BY <1>1, <1>2, <1>4, <1>5, OfferedAssumption
  <2> QED
    BY <1>3, <1>5, <2>1 DEF handleLedgerConvert
<1>6. CASE r.op = "transfer"
  <2>1. r \in handleLedgerTransfer({r.from, r.to}, DOMAIN Price, {r.ext})
    BY <1>1, <1>2, <1>4, <1>6, OfferedAssumption
  <2> QED
    BY <1>3, <1>6, <2>1 DEF handleLedgerTransfer
<1> QED
  BY <1>5, <1>6

LEMMA PassingOK ==
  ASSUME BookState, NEW r, BookRequestOK(r), r.op \in {"convert", "transfer"}, NEW w \in Passing(r)
  PROVE  TransferOK(w)
<1>1. PICK x \in (IF r.op = "convert" THEN ConvertActive(r) ELSE {r}) :
        /\ x.from \in DOMAIN book.accts /\ w = Worked(x, book.accts[x.from])
        /\ w.bal >= w.amt /\ w.open
  BY DEF Passing
<1>2. x.amt \in Nat /\ x.conv \in DOMAIN Price \cup {NoRef}
  <2>1. CASE r.op = "transfer"
    BY <1>1, <2>1, TransferRequests
  <2>2. CASE r.op = "convert"
    <3>1. r.amt \in Nat /\ r.toAsset \in DOMAIN Price
      BY <2>2, TransferRequests
    <3>2. x \in ConvertActive(r)
      BY <1>1, <2>2
    <3>3. x.amt = r.amt /\ x.conv = r.toAsset
      BY <3>2 DEF ConvertActive
    <3> QED
      BY <3>1, <3>3
  <2> QED
    BY <2>1, <2>2
<1> DEFINE from == book.accts[x.from]
           changed == x.conv # NoRef /\ x.conv # from.asset
           asset == IF changed THEN x.conv ELSE from.asset
<1>3. from.asset \in DOMAIN Price /\ from.bal \in Nat
  BY <1>1 DEF BookState, BookOK
<1>4. asset \in DOMAIN Price
  BY <1>2, <1>3
<1>5. /\ w.asset = from.asset /\ w.outAsset = asset /\ w.bal = from.bal /\ w.amt = x.amt
      /\ w.out = (IF changed THEN ConvertAmount(x.amt, from.asset, asset) ELSE x.amt)
      /\ w.open = (~changed \/ Convertible(from.asset, asset))
  BY <1>1 DEF Worked
<1> HIDE DEF from, asset
<1>6. w.out \in Nat
  <2>1. CASE ~changed
    BY <1>2, <1>5, <2>1
  <2>2. CASE changed
    <3>1. Price[from.asset] \in Nat \ {0} /\ Price[asset] \in Nat \ {0}
      <4>1. Convertible(from.asset, asset)
        BY <1>1, <1>5, <2>2
      <4> QED
        BY <1>3, <1>4, <4>1, BookAssumption DEF Convertible
    <3>2. x.amt * Price[from.asset] \in Nat
      BY <1>2, <3>1, ProductType
    <3>3. (x.amt * Price[from.asset]) \div Price[asset] \in Nat
      BY <3>1, <3>2, Quotient
    <3> QED
      BY <1>5, <2>2, <3>3 DEF ConvertAmount
  <2> QED
    BY <2>1, <2>2
<1> QED
  BY <1>1, <1>2, <1>3, <1>4, <1>5, <1>6 DEF TransferOK

LEMMA TransferStep ==
  ASSUME Copies, BookState, NEW c \in Client, Transfer(c)
  PROVE  Copies' /\ BookState'
<1> DEFINE r == client[c].req
<1>1. client[c].pc = "synced" /\ BookRequestOK(r) /\ r.op \in {"convert", "transfer"}
  <2>1. RequestOK(client[c]) /\ client[c].pc = "synced"
    BY DEF Copies, RequestsOK, Transfer
  <2> QED
    BY <2>1 DEF RequestOK, Idle, ServedOK
<1>2. UNCHANGED <<book, bfile, imports, cache, holder, file>>
  BY DEF Transfer, BookFrozen
<1>3. BookState'
  BY <1>2 DEF BookState
<1>4. CASE client' = [client EXCEPT ![c] = Idle]
  <2>1. RequestOK(Idle)
    BY DEF RequestOK
  <2> QED
    BY <1>1, <1>2, <1>3, <1>4, <2>1, AsideStep
<1>5. ASSUME NEW w \in Passing(r), client' = [client EXCEPT ![c] = [pc |-> "copied", work |-> w]]
      PROVE  Copies'
  <2> DEFINE b == [pc |-> "copied", work |-> w]
  <2>1. TransferOK(w)
    BY <1>1, <1>5, PassingOK
  <2>2. RequestOK(b)
    BY <2>1 DEF RequestOK
  <2> HIDE DEF b
  <2> QED
    BY <1>1, <1>2, <1>5, <2>2, AsideStep DEF b
<1> QED
  BY <1>3, <1>4, <1>5 DEF Transfer

\* Writing the copy back and crediting the other account.
LEMMA MovedOK ==
  ASSUME NEW accts, NEW w, TransferOK(w),
         \A id \in DOMAIN accts : accts[id].asset \in DOMAIN Price /\ accts[id].bal \in Nat
  PROVE  \A id \in DOMAIN Moved(accts, w) :
           Moved(accts, w)[id].asset \in DOMAIN Price /\ Moved(accts, w)[id].bal \in Nat
<1> DEFINE debit == [asset |-> w.asset, bal |-> w.bal - w.amt]
           debited == With(accts, w.from, debit)
           to == IF w.to \in DOMAIN debited THEN debited[w.to].bal ELSE 0
           credit == [asset |-> w.outAsset, bal |-> to + w.out]
<1>1. debit.asset \in DOMAIN Price /\ debit.bal \in Nat
  BY DEF TransferOK
<1> HIDE DEF debit
<1>2. \A id \in DOMAIN debited : debited[id].asset \in DOMAIN Price /\ debited[id].bal \in Nat
  BY <1>1 DEF With
<1>3. Moved(accts, w) = With(debited, w.to, credit)
  BY DEF Moved, debit
<1> HIDE DEF debited
<1>4. credit.asset \in DOMAIN Price /\ credit.bal \in Nat
  BY <1>2 DEF TransferOK
<1> HIDE DEF credit
<1>5. \A id \in DOMAIN With(debited, w.to, credit) :
        /\ With(debited, w.to, credit)[id].asset \in DOMAIN Price
        /\ With(debited, w.to, credit)[id].bal \in Nat
  BY <1>2, <1>4 DEF With
<1> QED
  BY <1>3, <1>5

LEMMA KeptOK ==
  ASSUME NEW S, NEW list \in Seq(S)
  PROVE  /\ Kept(list) \in Seq(S) /\ Len(Kept(list)) <= MaxTransfers
         /\ \A i \in DOMAIN Kept(list) : i \in DOMAIN list /\ Kept(list)[i] = list[i]
<1> DEFINE n == IF Len(list) > MaxTransfers THEN MaxTransfers ELSE Len(list)
<1>1. n \in 0 .. Len(list) /\ n <= MaxTransfers
  BY BookAssumption
<1>2. Kept(list) = SubSeq(list, 1, n)
  BY DEF Kept
<1> HIDE DEF n
<1>3. /\ SubSeq(list, 1, n) \in Seq(S) /\ Len(SubSeq(list, 1, n)) = n
      /\ \A i \in 1 .. n : SubSeq(list, 1, n)[i] = list[i]
  BY <1>1
<1> QED
  BY <1>1, <1>2, <1>3

\* A record is put before the others, of which the last may go.
LEMMA RecordedOK ==
  ASSUME NEW b, BookOK(b), NEW w, TransferOK(w), NEW accts,
         \A id \in DOMAIN accts : accts[id].asset \in DOMAIN Price /\ accts[id].bal \in Nat
  PROVE  BookOK([accts |-> accts, xfers |-> Kept(<<Record(w)>> \o b.xfers)])
<1> DEFINE rec == Record(w)
           list == <<rec>> \o b.xfers
<1>1. PICK S : b.xfers \in Seq(S)
  BY DEF BookOK
<1>2. rec.status \in Status /\ rec.out \in Nat
  BY DEF Record, Status, TransferOK
<1> HIDE DEF rec
<1> DEFINE T == S \cup {rec}
<1>3. b.xfers \in Seq(T) /\ <<rec>> \in Seq(T)
  BY <1>1
<1> HIDE DEF T
<1>4. /\ list \in Seq(T)
      /\ \A i \in DOMAIN list : list[i] = (IF i = 1 THEN rec ELSE b.xfers[i - 1])
      /\ \A i \in DOMAIN list : i # 1 => i - 1 \in DOMAIN b.xfers
  BY <1>3
<1>5. \A i \in DOMAIN list : list[i].status \in Status /\ list[i].out \in Nat
  BY <1>2, <1>4 DEF BookOK
<1> HIDE DEF list
<1>6. /\ Kept(list) \in Seq(T) /\ Len(Kept(list)) <= MaxTransfers
      /\ \A i \in DOMAIN Kept(list) : i \in DOMAIN list /\ Kept(list)[i] = list[i]
  BY <1>4, KeptOK
<1> DEFINE nb == [accts |-> accts, xfers |-> Kept(list)]
<1>7. nb.accts = accts /\ nb.xfers = Kept(list) /\ nb = [accts |-> nb.accts, xfers |-> nb.xfers]
  OBVIOUS
<1> HIDE DEF nb
<1>8. BookOK(nb)
  BY <1>5, <1>6, <1>7 DEF BookOK
<1> QED
  BY <1>8 DEF nb, list, rec

\* The first record is replaced.
LEMMA ResolvedOK ==
  ASSUME NEW b, BookOK(b), NEW rec, rec.status \in Status, rec.out \in Nat
  PROVE  BookOK([b EXCEPT !.xfers = Resolved(@, rec)])
<1> DEFINE list == Resolved(b.xfers, rec)
<1>1. PICK S : b.xfers \in Seq(S)
  BY DEF BookOK
<1> DEFINE T == S \cup {rec}
<1>2. b.xfers \in Seq(T)
  BY <1>1
<1> HIDE DEF T
<1>3. /\ list \in Seq(T) /\ Len(list) = Len(b.xfers)
      /\ \A i \in DOMAIN list : i \in DOMAIN b.xfers /\ list[i] \in {b.xfers[i], rec}
  <2>1. CASE b.xfers = <<>>
    BY <1>2, <2>1 DEF Resolved
  <2>2. CASE b.xfers # <<>>
    <3>1. list = [b.xfers EXCEPT ![1] = rec]
      BY <2>2 DEF Resolved
    <3>2. rec \in T
      BY DEF T
    <3>3. [b.xfers EXCEPT ![1] = rec] \in Seq(T)
      BY <1>2, <2>2, <3>2
    <3> QED
      BY <1>2, <3>1, <3>3
  <2> QED
    BY <2>1, <2>2
<1> HIDE DEF list
<1>4. PICK a, x : b = [accts |-> a, xfers |-> x]
  BY DEF BookOK
<1> DEFINE nb == [b EXCEPT !.xfers = list]
<1>5. nb = [accts |-> b.accts, xfers |-> list]
  BY <1>4
<1> HIDE DEF nb
<1>6. nb.accts = b.accts /\ nb.xfers = list /\ nb = [accts |-> nb.accts, xfers |-> nb.xfers]
  BY <1>5
<1>7. BookOK(nb)
  BY <1>3, <1>6 DEF BookOK
<1> QED
  BY <1>7 DEF nb, list

LEMMA ApplyTransferStep ==
  ASSUME Copies, BookState, NEW c \in Client, ApplyTransfer(c)
  PROVE  Copies' /\ BookState'
<1> DEFINE w == client[c].work
           b == [accts |-> Moved(book.accts, w), xfers |-> Kept(<<Record(w)>> \o book.xfers)]
           next == IF w.external THEN [pc |-> "settle", work |-> w] ELSE Idle
<1>1. client[c].pc = "copied" /\ TransferOK(w)
  <2>1. RequestOK(client[c]) /\ client[c].pc = "copied"
    BY DEF Copies, RequestsOK, ApplyTransfer
  <2> QED
    BY <2>1 DEF RequestOK, Idle, ServedOK
<1>2. RequestOK(next)
  BY <1>1 DEF RequestOK
<1>3. BookOK(b)
  <2>1. BookOK(book)
    BY DEF BookState
  <2>2. \A id \in DOMAIN book.accts : book.accts[id].asset \in DOMAIN Price /\ book.accts[id].bal \in Nat
    BY <2>1 DEF BookOK
  <2> QED
    BY <1>1, <2>1, <2>2, MovedOK, RecordedOK
<1>4. SaveBook(c, b, next) /\ BookFrozen
  BY DEF ApplyTransfer
<1> HIDE DEF b, next
<1> QED
  BY <1>1, <1>2, <1>3, <1>4, SaveBookStep

LEMMA SettleStep ==
  ASSUME Copies, BookState, nodeBal \in UInt, NEW c \in Client, Settle(c)
  PROVE  Copies' /\ BookState' /\ nodeBal' \in UInt
<1> DEFINE w == client[c].work
<1>1. client[c].pc = "settle" /\ TransferOK(w)
  <2>1. RequestOK(client[c]) /\ client[c].pc = "settle"
    BY DEF Copies, RequestsOK, Settle
  <2> QED
    BY <2>1 DEF RequestOK, Idle, ServedOK
<1>2. PICK s \in SettledStatus(w) :
        /\ SaveBook(c, [book EXCEPT !.xfers = Resolved(@, [Record(w) EXCEPT !.status = s])], Idle)
        /\ nodeBal' \in IF s = "on_chain" THEN {nodeBal, nodeBal - w.out - Fee} ELSE {nodeBal}
  BY DEF Settle
<1>3. s \in Status /\ (s = "on_chain" => nodeBal >= w.out + Fee)
  BY <1>2 DEF SettledStatus, Status
<1>4. nodeBal' \in UInt
  <2>1. w.out \in Nat /\ Fee \in Nat
    BY <1>1, BookAssumption DEF TransferOK
  <2> QED
    BY <1>2, <1>3, <2>1, Integers64
<1> DEFINE rec == [Record(w) EXCEPT !.status = s]
           b == [book EXCEPT !.xfers = Resolved(@, rec)]
<1>5. rec.status \in Status /\ rec.out \in Nat
  BY <1>1, <1>3 DEF Record, TransferOK
<1> HIDE DEF rec
<1>6. BookOK(b)
  BY <1>5, ResolvedOK DEF BookState
<1>7. SaveBook(c, b, Idle) /\ BookFrozen
  BY <1>2 DEF Settle, rec
<1>8. RequestOK(Idle)
  BY DEF RequestOK
<1> HIDE DEF b
<1> QED
  BY <1>1, <1>4, <1>6, <1>7, <1>8, SaveBookStep

LEMMA SettleFailsStep ==
  ASSUME Copies, BookState, NEW c \in Client, SettleFails(c)
  PROVE  Copies' /\ BookState'
<1>1. client[c].pc = "settle" /\ EndRequest(c) /\ BookFrozen
  BY DEF SettleFails
<1> QED
  BY <1>1, EndRequestStep

-----------------------------------------------------------------------------
(* The daemon. *)

LEMMA DaemonStarts == DaemonInit => DaemonInv
<1> SUFFICES ASSUME DaemonInit PROVE DaemonInv
  OBVIOUS
<1>1. BridgeInv
  BY BridgeStarts DEF DaemonInit
<1>2. BookState
  BY EmptyBookOK DEF DaemonInit, BookInit, BookState
<1> QED
  BY <1>1, <1>2 DEF DaemonInv

LEMMA BookStepKeeps ==
  ASSUME DaemonInv, NEW c \in Client, BookStep(c)
  PROVE  DaemonInv'
<1>1. Copies /\ BookState /\ nodeBal \in UInt
  BY DEF DaemonInv, BridgeInv
<1>2. CASE BookRequest(c)
  <2>1. Copies' /\ imports' \in Seq(Import)
    BY <1>2, BookRequestStep
  <2>2. UNCHANGED <<book, bfile, pools, platform, nodeBal, day, menu>>
    BY <1>2 DEF BookRequest
  <2> QED
    BY <2>1, <2>2 DEF DaemonInv, BridgeInv, BookState, PoolsBacked, RegistersOK, platform
<1>3. ASSUME Copies' /\ BookState', nodeBal' \in UInt, BookFrozen PROVE DaemonInv'
  BY <1>3 DEF BookFrozen, DaemonInv, BridgeInv, PoolsBacked, RegistersOK, platform, bounds
<1>4. CASE SyncFromSnapshot(c)
  BY <1>1, <1>3, <1>4, SnapshotStep DEF SyncFromSnapshot
<1>5. CASE Transfer(c)
  BY <1>1, <1>3, <1>5, TransferStep DEF Transfer
<1>6. CASE ApplyTransfer(c)
  BY <1>1, <1>3, <1>6, ApplyTransferStep DEF ApplyTransfer
<1>7. CASE Settle(c)
  BY <1>1, <1>3, <1>7, SettleStep DEF Settle
<1>8. CASE SettleFails(c)
  BY <1>1, <1>3, <1>8, SettleFailsStep DEF SettleFails
<1> QED
  BY <1>2, <1>4, <1>5, <1>6, <1>7, <1>8 DEF BookStep

LEMMA DaemonStepKeeps == DaemonInv /\ [DaemonNext]_<<vars, bookVars>> => DaemonInv'
<1> SUFFICES ASSUME DaemonInv, [DaemonNext]_<<vars, bookVars>> PROVE DaemonInv'
  OBVIOUS
<1>1. BridgeInv /\ BookState
  BY DEF DaemonInv
<1>2. ASSUME UNCHANGED bookVars PROVE BookState'
  BY <1>1, <1>2 DEF bookVars, BookState
<1>3. CASE \E c \in Client : Serve(c) /\ UNCHANGED bookVars
  BY <1>1, <1>2, <1>3, ServeKeepsBridge DEF DaemonInv
<1>4. CASE \E c \in Client : BookStep(c)
  BY <1>4, BookStepKeeps
<1>5. CASE Tick /\ UNCHANGED bookVars
  BY <1>1, <1>2, <1>5, TickKeepsBridge DEF DaemonInv
<1>6. CASE DaemonCrash
  <2>1. BridgeInv'
    BY <1>1, <1>6, CrashKeepsBridge DEF DaemonCrash
  <2>2. book' = EmptyBook /\ imports' = imports /\ bfile' \in {bfile, Unreadable}
    BY <1>6 DEF DaemonCrash
  <2>3. BookState'
    BY <1>1, <2>2, EmptyBookOK DEF BookState
  <2> QED
    BY <2>1, <2>3 DEF DaemonInv
<1>7. CASE UNCHANGED <<vars, bookVars>>
  BY <1>1, <1>2, <1>7 DEF DaemonInv, BridgeInv, vars, bounds, platform, Copies, SavedOK, HolderOK,
                          RequestsOK, PoolsBacked, RegistersOK
<1> QED
  BY <1>3, <1>4, <1>5, <1>6, <1>7 DEF DaemonNext

\* The invariant of the daemon holds in every reachable state, however requests
\* overlap, fail or are cut off.
THEOREM DaemonInvariantHolds == DaemonSpec => []DaemonInv
BY DaemonStarts, DaemonStepKeeps, PTL DEF DaemonSpec

-----------------------------------------------------------------------------
(* What follows from the invariant. *)

\* However the copies of a pool are put back, and whatever is torn, no pool is
\* left with shares and an empty side (Store.Get, Store.Update, AddLiquidity).
THEOREM NoPoolIsDrained == DaemonSpec => []ReservesBacked
<1>1. DaemonInv => ReservesBacked
  <2> SUFFICES ASSUME DaemonInv, NEW q \in Pairs PROVE PoolOf(q)!SharesBacked
    BY DEF ReservesBacked
  <2>1. pools[q] \in PoolState \cup {NoPool} /\ (pools[q] # NoPool => Backed(pools[q]))
    BY DEF DaemonInv, BridgeInv, PoolsBacked
  <2>2. CASE pools[q] = NoPool
    BY <2>2 DEF PoolOf!SharesBacked, PoolOf!PoolState, EmptyPool
  <2>3. CASE pools[q] # NoPool
    BY <2>1, <2>3 DEF PoolOf!SharesBacked, PoolOf!PoolState, Backed, PoolState
  <2> QED
    BY <2>2, <2>3
<1> QED
  BY <1>1, DaemonInvariantHolds, PTL

\* The portfolios, pools and registers have their types: no interleaving of
\* requests wraps a balance below zero (SubBalance after its check, on copies).
THEOREM BridgeTypeCorrect == DaemonSpec => []BridgeTypeOK
<1>1. ASSUME NEW p \in Portfolio PROVE PortfolioOK(p)
  <2>1. \A i \in DOMAIN p.stakes : p.stakes[i] \in StakeRecord
    BY PortfolioFields, ListDomain
  <2>2. \A i \in DOMAIN p.nfts : p.nfts[i] \in {"self", "other"}
    BY PortfolioFields
  <2> QED
    BY <2>1, <2>2, PortfolioFields DEF PortfolioOK, StakeRecord
<1>2. DaemonInv => BridgeTypeOK
  BY <1>1 DEF DaemonInv, BridgeInv, Copies, SavedOK, HolderOK, PoolsBacked, RegistersOK, BridgeTypeOK
<1> QED
  BY <1>2, DaemonInvariantHolds, PTL

\* The accounts and records of the book have their types: no order of transfers,
\* on whichever copies, leaves a negative balance, and never more than
\* MaxTransfers records are kept (BookStore.SyncFromSnapshot and Transfer).
THEOREM BookTypeCorrect == DaemonSpec => []BookTypeOK
<1>1. DaemonInv => BookTypeOK
  BY DEF DaemonInv, BookState, BookOK, BookTypeOK
<1> QED
  BY <1>1, DaemonInvariantHolds, PTL

-----------------------------------------------------------------------------
(* The file holds the book. *)

\* Without faults every change of the book is written before anyone sees it.
BookWritten == ~Faulty(menu) => book = EmptyBook \/ bfile = book

LEMMA ServeElsewhere ==
  ASSUME NEW c \in Client, Serve(c)
  PROVE  menu' = menu
<1>1. CASE Accept(c) \/ AcceptLeg(c) \/ AcceptDeploy(c) \/ Send(c)
  <2>1. CASE Accept(c)
    BY <2>1 DEF Accept
  <2>2. CASE AcceptLeg(c)
    BY <2>2 DEF AcceptLeg, bounds
  <2>3. CASE AcceptDeploy(c)
    BY <2>3 DEF AcceptDeploy
  <2>4. CASE Send(c)
    BY <2>4 DEF Send
  <2> QED
    BY <1>1, <2>1, <2>2, <2>3, <2>4
<1>2. CASE Read(c) \/ Stake(c) \/ Unstake(c) \/ RecordDeposit(c) \/ SwapExecute(c)
  BY <1>2 DEF Read, Stake, Unstake, RecordDeposit, SwapExecute, Elsewhere, bounds
<1>3. CASE OneXSwapExecute(c) \/ OneXSwapAddLiquidity(c) \/ OneXSwapRemoveLiquidity(c) \/ UpdatePool(c)
  BY <1>3 DEF OneXSwapExecute, OneXSwapAddLiquidity, OneXSwapRemoveLiquidity, UpdatePool, Elsewhere, bounds
<1>4. CASE MintNFT(c) \/ TransferNFT(c) \/ CompleteTask(c) \/ CreateLoan(c) \/ RepayLoan(c) \/ SendToken(c)
  BY <1>4 DEF MintNFT, TransferNFT, CompleteTask, CreateLoan, RepayLoan, SendToken, Elsewhere, bounds
<1>5. CASE DeployPlatformToken(c) \/ WrapPlatformToken(c)
  BY <1>5 DEF DeployPlatformToken, WrapPlatformToken, bounds
<1> QED
  BY <1>1, <1>2, <1>3, <1>4, <1>5 DEF Serve

LEMMA BookElsewhere ==
  ASSUME NEW c \in Client, BookStep(c)
  PROVE  menu' = menu
<1>1. CASE BookRequest(c)
  BY <1>1 DEF BookRequest
<1>2. CASE BookFrozen
  BY <1>2 DEF BookFrozen, bounds
<1> QED
  BY <1>1, <1>2 DEF BookStep, SyncFromSnapshot, Transfer, ApplyTransfer, Settle, SettleFails

LEMMA MenuStays == [DaemonNext]_<<vars, bookVars>> => menu' = menu
<1>1. CASE Tick \/ DaemonCrash \/ UNCHANGED <<vars, bookVars>>
  BY <1>1 DEF Tick, DaemonCrash, Crash, bounds, vars
<1> QED
  BY <1>1, ServeElsewhere, BookElsewhere DEF DaemonNext

LEMMA BookStepWrites ==
  ASSUME BookWritten, NEW c \in Client, BookStep(c)
  PROVE  BookWritten'
<1>1. menu' = menu
  BY BookElsewhere
<1>2. CASE UNCHANGED <<book, bfile>>
  BY <1>1, <1>2 DEF BookWritten
<1>3. ASSUME NEW b, NEW next, SaveBook(c, b, next) PROVE BookWritten'
  BY <1>1, <1>3 DEF SaveBook, BookWritten
<1>4. CASE BookRequest(c) \/ Transfer(c) \/ SettleFails(c)
  BY <1>2, <1>4 DEF BookRequest, Transfer, SettleFails, EndRequest
<1>5. CASE SyncFromSnapshot(c)
  BY <1>2, <1>3, <1>5, Zenon DEF SyncFromSnapshot, EndRequest
<1>6. CASE ApplyTransfer(c)
  BY <1>3, <1>6, Zenon DEF ApplyTransfer
<1>7. CASE Settle(c)
  BY <1>3, <1>7, Zenon DEF Settle
<1> QED
  BY <1>4, <1>5, <1>6, <1>7 DEF BookStep

\* However requests overlap, once none is running the file holds the book, and
\* a restart then loses nothing (BookStore.save, after every change).
THEOREM BookIsSaved == DaemonSpec => []BookSaved
<1>1. DaemonInit => BookWritten
  BY DEF DaemonInit, BookInit, BookWritten
<1>2. BookWritten /\ [DaemonNext]_<<vars, bookVars>> => BookWritten'
  <2> SUFFICES ASSUME BookWritten, [DaemonNext]_<<vars, bookVars>> PROVE BookWritten'
    OBVIOUS
  <2>1. menu' = menu
    BY MenuStays
  <2>2. CASE UNCHANGED bookVars
    BY <2>1, <2>2 DEF bookVars, BookWritten
  <2>3. CASE \E c \in Client : BookStep(c)
    BY <2>3, BookStepWrites
  <2>4. CASE DaemonCrash
    BY <2>1, <2>4 DEF DaemonCrash, Crash, BookWritten
  <2> QED
    BY <2>2, <2>3, <2>4 DEF DaemonNext
<1>3. BookWritten => BookSaved
  BY DEF BookWritten, BookSaved
<1> QED
  BY <1>1, <1>2, <1>3, PTL DEF DaemonSpec

-----------------------------------------------------------------------------
(* What the records of a portfolio explain. *)

\* What f gives for each record of a list, added up.
ListTotal(list, f) == Total([i \in DOMAIN list |-> f[list[i]]])

LEMMA ListType ==
  ASSUME NEW S, NEW list \in Seq(S), NEW f, \A x \in S : f[x] \in Int
  PROVE  ListTotal(list, f) \in Int
<1>1. IsFiniteSet(DOMAIN list) /\ [i \in DOMAIN list |-> f[list[i]]] \in [DOMAIN list -> Int]
  BY FS_Interval
<1> QED
  BY <1>1, TotalType DEF ListTotal

LEMMA ListEmpty == \A f : ListTotal(<<>>, f) = 0
<1> SUFFICES ASSUME NEW f PROVE ListTotal(<<>>, f) = 0
  OBVIOUS
<1>1. DOMAIN <<>> = {} /\ IsFiniteSet({})
  BY FS_EmptySet
<1>2. [i \in {} |-> f[<<>>[i]]] = [i \in {} |-> 0]
  OBVIOUS
<1> QED
  BY <1>1, <1>2, TotalZero DEF ListTotal

LEMMA TotalNewAll ==
  \A S, x : \A f, g : IsFiniteSet(S) /\ x \notin S /\ f \in [S -> Int] /\ g \in [S \cup {x} -> Int]
                      /\ (\A y \in S : g[y] = f[y])
                    => Total(g) = Total(f) + g[x]
BY TotalNew

LEMMA ListAppend ==
  ASSUME NEW S, NEW list \in Seq(S), NEW f, NEW x \in S, \A y \in S : f[y] \in Int
  PROVE  ListTotal(Append(list, x), f) = ListTotal(list, f) + f[x]
<1> DEFINE n == Len(list)
           g == [i \in 1 .. n |-> f[list[i]]]
           h == [i \in 1 .. n + 1 |-> f[Append(list, x)[i]]]
<1>1. n \in Nat /\ DOMAIN list = 1 .. n /\ DOMAIN Append(list, x) = 1 .. n + 1
  OBVIOUS
<1>2. /\ \A i \in 1 .. n : list[i] \in S /\ Append(list, x)[i] = list[i]
      /\ Append(list, x)[n + 1] = x
  OBVIOUS
<1>3. ListTotal(list, f) = Total(g) /\ ListTotal(Append(list, x), f) = Total(h)
  BY <1>1 DEF ListTotal
<1>4. 1 .. n + 1 = (1 .. n) \cup {n + 1} /\ n + 1 \notin 1 .. n
  BY <1>1
<1>6. IsFiniteSet(1 .. n)
  BY <1>1, FS_Interval
<1>5. g \in [1 .. n -> Int] /\ h \in [(1 .. n) \cup {n + 1} -> Int]
      /\ (\A i \in 1 .. n : h[i] = g[i]) /\ h[n + 1] = f[x]
  BY <1>1, <1>2, <1>4
<1> DEFINE D == 1 .. n
           m == n + 1
<1>7. /\ IsFiniteSet(D) /\ m \notin D /\ g \in [D -> Int] /\ h \in [D \cup {m} -> Int]
      /\ \A j \in D : h[j] = g[j]
  BY <1>4, <1>5, <1>6
<1> HIDE DEF g, h, D, m
<1>8. \A u, v : IsFiniteSet(D) /\ m \notin D /\ u \in [D -> Int] /\ v \in [D \cup {m} -> Int]
                  /\ (\A j \in D : v[j] = u[j])
                => Total(v) = Total(u) + v[m]
  BY TotalNewAll, Zenon
<1>9. Total(h) = Total(g) + h[m]
  BY <1>7, <1>8, Zenon
<1> QED
  BY <1>3, <1>5, <1>9 DEF m

LEMMA ListUpdate ==
  ASSUME NEW S, NEW list \in Seq(S), NEW f, NEW i \in DOMAIN list, NEW x \in S,
         \A y \in S : f[y] \in Int
  PROVE  ListTotal([list EXCEPT ![i] = x], f) = ListTotal(list, f) - f[list[i]] + f[x]
<1> DEFINE D == DOMAIN list
           g == [j \in D |-> f[list[j]]]
           h == [j \in D |-> f[[list EXCEPT ![i] = x][j]]]
<1>1. IsFiniteSet(D) /\ \A j \in D : list[j] \in S
  BY ListDomain
<1>2. g \in [D -> Int] /\ h \in [D -> Int] /\ (\A j \in D \ {i} : h[j] = g[j])
      /\ i \in D /\ g[i] = f[list[i]] /\ h[i] = f[x]
  BY <1>1
<1>3. ListTotal(list, f) = Total(g) /\ ListTotal([list EXCEPT ![i] = x], f) = Total(h)
  BY DEF ListTotal
<1> HIDE DEF g, h, D
<1>4. IsFiniteSet(D) /\ g \in [D -> Int] /\ h \in [D -> Int] /\ i \in D
        /\ (\A j \in D \ {i} : h[j] = g[j])
      => Total(h) = Total(g) - g[i] + h[i]
  BY TotalUpdate, Zenon
<1> QED
  BY <1>1, <1>2, <1>3, <1>4

LEMMA ListOrder ==
  ASSUME NEW S, NEW list \in Seq(S), NEW f, NEW g,
         \A x \in S : f[x] \in Int /\ g[x] \in Int /\ f[x] <= g[x]
  PROVE  ListTotal(list, f) <= ListTotal(list, g)
<1> DEFINE D == DOMAIN list
           u == [j \in D |-> f[list[j]]]
           v == [j \in D |-> g[list[j]]]
<1>1. IsFiniteSet(D) /\ \A j \in D : list[j] \in S
  BY ListDomain
<1>2. u \in [D -> Int] /\ v \in [D -> Int] /\ \A j \in D : u[j] <= v[j]
  BY <1>1
<1>3. ListTotal(list, f) = Total(u) /\ ListTotal(list, g) = Total(v)
  BY DEF ListTotal
<1> HIDE DEF u, v
<1> QED
  BY <1>1, <1>2, <1>3, TotalOrder

LEMMA ListPlus ==
  ASSUME NEW S, NEW list \in Seq(S), NEW f, NEW g, NEW h,
         \A x \in S : f[x] \in Int /\ g[x] \in Int /\ h[x] = f[x] + g[x]
  PROVE  ListTotal(list, h) = ListTotal(list, f) + ListTotal(list, g)
<1> DEFINE D == DOMAIN list
<1>0. IsFiniteSet(D)
  BY ListDomain
<1> DEFINE u == [j \in D |-> f[list[j]]]
           v == [j \in D |-> g[list[j]]]
           w == [j \in D |-> h[list[j]]]
<1>1. \A j \in D : list[j] \in S
  OBVIOUS
<1>2. u \in [D -> Int] /\ v \in [D -> Int] /\ w = [j \in D |-> u[j] + v[j]]
  BY <1>1
<1>3. ListTotal(list, f) = Total(u) /\ ListTotal(list, g) = Total(v) /\ ListTotal(list, h) = Total(w)
  BY DEF ListTotal
<1> HIDE DEF u, v, w
<1>4. Total(w) = Total(u) + Total(v)
  BY <1>0, <1>2, TotalPlus
<1> QED
  BY <1>3, <1>4

\* What a record brings a balance of k, and what it takes from it.
DepositNet(k)  == [d \in DepositRecord |-> IF d.key = k /\ d.status = "confirmed" THEN d.amt ELSE 0]
SwapGets(k)    == [s \in SwapRecord |-> IF s.to = k THEN s.out ELSE 0]
SwapGives(k)   == [s \in SwapRecord |-> IF s.from = k THEN s.in ELSE 0]
SwapNet(k)     == [s \in SwapRecord |-> SwapGets(k)[s] - SwapGives(k)[s]]
ReceiptGot(k)  == [s \in StakeRecord |-> IF s.pool.receipt = k THEN s.receipt ELSE 0]
StakeBack(k, t) == [s \in StakeRecord |-> IF s.pool.stake = k /\ ~s.active
                                          THEN s.amt + StakeReward(s, t) ELSE 0]
Staked(k)      == [s \in StakeRecord |-> IF s.pool.stake = k THEN s.amt ELSE 0]
ReceiptBack(k) == [s \in StakeRecord |-> IF s.pool.receipt = k /\ ~s.active THEN s.receipt ELSE 0]
StakeNet(k, t) == [s \in StakeRecord |-> ReceiptGot(k)[s] + StakeBack(k, t)[s]
                                         - Staked(k)[s] - ReceiptBack(k)[s]]
Borrowed(k)    == [l \in LoanRecord |-> IF l.debtKey = k /\ l.type = "borrow" THEN l.debt ELSE 0]
Released(k)    == [l \in LoanRecord |-> IF l.colKey = k /\ ~l.active THEN l.col ELSE 0]
Pledged(k)     == [l \in LoanRecord |-> IF l.colKey = k THEN l.col ELSE 0]
Repaid(k)      == [l \in LoanRecord |-> IF l.debtKey = k /\ ~l.active THEN l.debt ELSE 0]
LoanNet(k)     == [l \in LoanRecord |-> Borrowed(k)[l] + Released(k)[l] - Pledged(k)[l] - Repaid(k)[l]]
TaskPay(k)     == [t \in DOMAIN Reward |-> IF Reward[t].key = k THEN Reward[t].amt ELSE 0]

\* What the records of p bring a balance of k in all, on day t.
Net(p, k, t) ==
  Prefunded[k] + Total([i \in p.done |-> TaskPay(k)[i]])
  + ListTotal(p.deposits, DepositNet(k)) + ListTotal(p.swaps, SwapNet(k))
  + ListTotal(p.stakes, StakeNet(k, t)) + ListTotal(p.loans, LoanNet(k))

LEMMA NetTypes ==
  ASSUME NEW k \in Key, NEW t \in Nat
  PROVE  /\ (\A x \in DepositRecord : DepositNet(k)[x] \in Int) /\ (\A x \in SwapRecord : SwapGets(k)[x] \in Int)
         /\ (\A x \in SwapRecord : SwapGives(k)[x] \in Int) /\ (\A x \in SwapRecord : SwapNet(k)[x] \in Int)
         /\ (\A x \in StakeRecord : ReceiptGot(k)[x] \in Int) /\ (\A x \in StakeRecord : StakeBack(k, t)[x] \in Int)
         /\ (\A x \in StakeRecord : Staked(k)[x] \in Int) /\ (\A x \in StakeRecord : ReceiptBack(k)[x] \in Int)
         /\ (\A x \in StakeRecord : StakeNet(k, t)[x] \in Int)
         /\ (\A x \in LoanRecord : Borrowed(k)[x] \in Int) /\ (\A x \in LoanRecord : Released(k)[x] \in Int)
         /\ (\A x \in LoanRecord : Pledged(k)[x] \in Int) /\ (\A x \in LoanRecord : Repaid(k)[x] \in Int)
         /\ (\A x \in LoanRecord : LoanNet(k)[x] \in Int) /\ (\A x \in DOMAIN Reward : TaskPay(k)[x] \in Int)
<1>1. (\A x \in DepositRecord : DepositNet(k)[x] \in Int)
  BY DEF DepositNet, DepositRecord
<1>2. (\A x \in SwapRecord : SwapGets(k)[x] \in Int) /\ (\A x \in SwapRecord : SwapGives(k)[x] \in Int)
  BY DEF SwapGets, SwapGives, SwapRecord
<1>3. (\A x \in SwapRecord : SwapNet(k)[x] \in Int)
  BY <1>2 DEF SwapNet
<1>4. (\A x \in StakeRecord : ReceiptGot(k)[x] \in Int) /\ (\A x \in StakeRecord : Staked(k)[x] \in Int)
      /\ (\A x \in StakeRecord : ReceiptBack(k)[x] \in Int)
  BY DEF ReceiptGot, Staked, ReceiptBack, StakeRecord
<1>5. (\A x \in StakeRecord : StakeBack(k, t)[x] \in Int)
  <2>1. \A s \in StakeRecord : StakeReward(s, t) \in Int /\ s.amt \in Int
    BY RewardGrows DEF StakeRecord
  <2> QED
    BY <2>1 DEF StakeBack
<1>6. (\A x \in StakeRecord : StakeNet(k, t)[x] \in Int)
  BY <1>4, <1>5 DEF StakeNet
<1>7. (\A x \in LoanRecord : Borrowed(k)[x] \in Int) /\ (\A x \in LoanRecord : Released(k)[x] \in Int)
      /\ (\A x \in LoanRecord : Pledged(k)[x] \in Int) /\ (\A x \in LoanRecord : Repaid(k)[x] \in Int)
  BY DEF Borrowed, Released, Pledged, Repaid, LoanRecord
<1>8. (\A x \in LoanRecord : LoanNet(k)[x] \in Int)
  BY <1>7 DEF LoanNet
<1>9. (\A x \in DOMAIN Reward : TaskPay(k)[x] \in Int)
  BY BridgeAssumption DEF TaskPay
<1> QED
  BY <1>1, <1>2, <1>3, <1>4, <1>5, <1>6, <1>7, <1>8, <1>9

LEMMA NetType ==
  ASSUME NEW p \in Portfolio, NEW k \in Key, NEW t \in Nat
  PROVE  /\ Net(p, k, t) \in Int /\ Prefunded[k] \in Int
         /\ Total([i \in p.done |-> TaskPay(k)[i]]) \in Int
         /\ ListTotal(p.deposits, DepositNet(k)) \in Int /\ ListTotal(p.swaps, SwapNet(k)) \in Int
         /\ ListTotal(p.stakes, StakeNet(k, t)) \in Int /\ ListTotal(p.loans, LoanNet(k)) \in Int
<1>1. Total([i \in p.done |-> TaskPay(k)[i]]) \in Int
  <2>1. IsFiniteSet(p.done)
    BY PortfolioFields, BridgeAssumption, FS_Subset
  <2>2. [i \in p.done |-> TaskPay(k)[i]] \in [p.done -> Int]
    BY PortfolioFields, NetTypes
  <2> QED
    BY <2>1, <2>2, TotalType
<1>2. ListTotal(p.deposits, DepositNet(k)) \in Int /\ ListTotal(p.swaps, SwapNet(k)) \in Int
  BY PortfolioFields, NetTypes, ListType
<1>3. ListTotal(p.stakes, StakeNet(k, t)) \in Int /\ ListTotal(p.loans, LoanNet(k)) \in Int
  BY PortfolioFields, NetTypes, ListType
<1>4. Prefunded[k] \in Int
  BY BridgeAssumption, Integers64
<1> QED
  BY <1>1, <1>2, <1>3, <1>4 DEF Net

\* What is paid in less what is paid out.
LEMMA NetOfRecords ==
  ASSUME NEW p \in Portfolio, NEW k \in Key, day \in Nat
  PROVE  /\ PaidIn(p, k) \in Int /\ PaidOut(p, k) \in Int
         /\ PaidIn(p, k) - PaidOut(p, k) = Net(p, k, day)
<1> DEFINE done == Total([i \in p.done |-> TaskPay(k)[i]])
<1>1. /\ \A i \in DOMAIN p.deposits : p.deposits[i] \in DepositRecord
      /\ \A i \in DOMAIN p.swaps : p.swaps[i] \in SwapRecord
      /\ \A i \in DOMAIN p.stakes : p.stakes[i] \in StakeRecord
      /\ \A i \in DOMAIN p.loans : p.loans[i] \in LoanRecord
      /\ p.done \subseteq DOMAIN Reward
  BY PortfolioFields
<1>2. PaidIn(p, k) = Prefunded[k] + done + ListTotal(p.deposits, DepositNet(k)) + ListTotal(p.swaps, SwapGets(k))
                     + ListTotal(p.stakes, ReceiptGot(k)) + ListTotal(p.stakes, StakeBack(k, day))
                     + ListTotal(p.loans, Borrowed(k)) + ListTotal(p.loans, Released(k))
  <2>1. [t \in p.done |-> IF Reward[t].key = k THEN Reward[t].amt ELSE 0] = [i \in p.done |-> TaskPay(k)[i]]
    BY <1>1 DEF TaskPay
  <2>2. [i \in DOMAIN p.deposits |-> IF p.deposits[i].key = k /\ p.deposits[i].status = "confirmed"
                                     THEN p.deposits[i].amt ELSE 0]
          = [i \in DOMAIN p.deposits |-> DepositNet(k)[p.deposits[i]]]
    BY <1>1 DEF DepositNet
  <2>3. [i \in DOMAIN p.swaps |-> IF p.swaps[i].to = k THEN p.swaps[i].out ELSE 0]
          = [i \in DOMAIN p.swaps |-> SwapGets(k)[p.swaps[i]]]
    BY <1>1 DEF SwapGets
  <2>4. [i \in DOMAIN p.stakes |-> IF p.stakes[i].pool.receipt = k THEN p.stakes[i].receipt ELSE 0]
          = [i \in DOMAIN p.stakes |-> ReceiptGot(k)[p.stakes[i]]]
    BY <1>1 DEF ReceiptGot
  <2>5. [i \in DOMAIN p.stakes |-> IF p.stakes[i].pool.stake = k /\ ~p.stakes[i].active
                                   THEN p.stakes[i].amt + StakeReward(p.stakes[i], day) ELSE 0]
          = [i \in DOMAIN p.stakes |-> StakeBack(k, day)[p.stakes[i]]]
    BY <1>1 DEF StakeBack
  <2>6. [i \in DOMAIN p.loans |-> IF p.loans[i].debtKey = k /\ p.loans[i].type = "borrow"
                                  THEN p.loans[i].debt ELSE 0]
          = [i \in DOMAIN p.loans |-> Borrowed(k)[p.loans[i]]]
    BY <1>1 DEF Borrowed
  <2>7. [i \in DOMAIN p.loans |-> IF p.loans[i].colKey = k /\ ~p.loans[i].active
                                  THEN p.loans[i].col ELSE 0]
          = [i \in DOMAIN p.loans |-> Released(k)[p.loans[i]]]
    BY <1>1 DEF Released
  <2> QED
    BY <2>1, <2>2, <2>3, <2>4, <2>5, <2>6, <2>7, Zenon DEF PaidIn, Sum, ListTotal
<1>3. PaidOut(p, k) = ListTotal(p.swaps, SwapGives(k)) + ListTotal(p.stakes, Staked(k)) + ListTotal(p.stakes, ReceiptBack(k))
                      + ListTotal(p.loans, Pledged(k)) + ListTotal(p.loans, Repaid(k))
  <2>1. [i \in DOMAIN p.swaps |-> IF p.swaps[i].from = k THEN p.swaps[i].in ELSE 0]
          = [i \in DOMAIN p.swaps |-> SwapGives(k)[p.swaps[i]]]
    BY <1>1 DEF SwapGives
  <2>2. [i \in DOMAIN p.stakes |-> IF p.stakes[i].pool.stake = k THEN p.stakes[i].amt ELSE 0]
          = [i \in DOMAIN p.stakes |-> Staked(k)[p.stakes[i]]]
    BY <1>1 DEF Staked
  <2>3. [i \in DOMAIN p.stakes |-> IF p.stakes[i].pool.receipt = k /\ ~p.stakes[i].active
                                   THEN p.stakes[i].receipt ELSE 0]
          = [i \in DOMAIN p.stakes |-> ReceiptBack(k)[p.stakes[i]]]
    BY <1>1 DEF ReceiptBack
  <2>4. [i \in DOMAIN p.loans |-> IF p.loans[i].colKey = k THEN p.loans[i].col ELSE 0]
          = [i \in DOMAIN p.loans |-> Pledged(k)[p.loans[i]]]
    BY <1>1 DEF Pledged
  <2>5. [i \in DOMAIN p.loans |-> IF p.loans[i].debtKey = k /\ ~p.loans[i].active
                                  THEN p.loans[i].debt ELSE 0]
          = [i \in DOMAIN p.loans |-> Repaid(k)[p.loans[i]]]
    BY <1>1 DEF Repaid
  <2> QED
    BY <2>1, <2>2, <2>3, <2>4, <2>5, Zenon DEF PaidOut, Sum, ListTotal
<1>4. /\ p.deposits \in Seq(DepositRecord) /\ p.swaps \in Seq(SwapRecord)
      /\ p.stakes \in Seq(StakeRecord) /\ p.loans \in Seq(LoanRecord)
  BY PortfolioFields
<1>5. ListTotal(p.swaps, SwapGets(k)) = ListTotal(p.swaps, SwapNet(k)) + ListTotal(p.swaps, SwapGives(k))
  <2>1. \A s \in SwapRecord : /\ SwapNet(k)[s] \in Int /\ SwapGives(k)[s] \in Int
                               /\ SwapGets(k)[s] = SwapNet(k)[s] + SwapGives(k)[s]
    BY NetTypes DEF SwapNet
  <2> QED
    BY <1>4, <2>1, ListPlus
<1>6. ListTotal(p.stakes, ReceiptGot(k)) + ListTotal(p.stakes, StakeBack(k, day))
        = ListTotal(p.stakes, StakeNet(k, day)) + ListTotal(p.stakes, Staked(k)) + ListTotal(p.stakes, ReceiptBack(k))
  <2> DEFINE u == [s \in StakeRecord |-> ReceiptGot(k)[s] + StakeBack(k, day)[s]]
             v == [s \in StakeRecord |-> Staked(k)[s] + ReceiptBack(k)[s]]
  <2>1. \A s \in StakeRecord :
          /\ ReceiptGot(k)[s] \in Int /\ StakeBack(k, day)[s] \in Int /\ Staked(k)[s] \in Int
          /\ ReceiptBack(k)[s] \in Int /\ StakeNet(k, day)[s] \in Int
    BY NetTypes
  <2>8. \A s \in StakeRecord :
          /\ u[s] = ReceiptGot(k)[s] + StakeBack(k, day)[s] /\ v[s] = Staked(k)[s] + ReceiptBack(k)[s]
          /\ v[s] \in Int /\ u[s] = StakeNet(k, day)[s] + v[s]
    BY <2>1 DEF StakeNet
  <2> HIDE DEF u, v
  <2>2. ListTotal(p.stakes, u) = ListTotal(p.stakes, ReceiptGot(k)) + ListTotal(p.stakes, StakeBack(k, day))
    BY <1>4, <2>1, <2>8, ListPlus
  <2>3. ListTotal(p.stakes, v) = ListTotal(p.stakes, Staked(k)) + ListTotal(p.stakes, ReceiptBack(k))
    BY <1>4, <2>1, <2>8, ListPlus
  <2>4. ListTotal(p.stakes, u) = ListTotal(p.stakes, StakeNet(k, day)) + ListTotal(p.stakes, v)
    BY <1>4, <2>1, <2>8, ListPlus
  <2>5. /\ ListTotal(p.stakes, StakeNet(k, day)) \in Int /\ ListTotal(p.stakes, Staked(k)) \in Int
        /\ ListTotal(p.stakes, ReceiptBack(k)) \in Int
    BY <1>4, NetTypes, ListType
  <2> QED
    BY <2>2, <2>3, <2>4, <2>5
<1>7. ListTotal(p.loans, Borrowed(k)) + ListTotal(p.loans, Released(k))
        = ListTotal(p.loans, LoanNet(k)) + ListTotal(p.loans, Pledged(k)) + ListTotal(p.loans, Repaid(k))
  <2> DEFINE u == [l \in LoanRecord |-> Borrowed(k)[l] + Released(k)[l]]
             v == [l \in LoanRecord |-> Pledged(k)[l] + Repaid(k)[l]]
  <2>1. \A l \in LoanRecord :
          /\ Borrowed(k)[l] \in Int /\ Released(k)[l] \in Int /\ Pledged(k)[l] \in Int
          /\ Repaid(k)[l] \in Int /\ LoanNet(k)[l] \in Int
    BY NetTypes
  <2>8. \A l \in LoanRecord :
          /\ u[l] = Borrowed(k)[l] + Released(k)[l] /\ v[l] = Pledged(k)[l] + Repaid(k)[l]
          /\ v[l] \in Int /\ u[l] = LoanNet(k)[l] + v[l]
    BY <2>1 DEF LoanNet
  <2> HIDE DEF u, v
  <2>2. ListTotal(p.loans, u) = ListTotal(p.loans, Borrowed(k)) + ListTotal(p.loans, Released(k))
    BY <1>4, <2>1, <2>8, ListPlus
  <2>3. ListTotal(p.loans, v) = ListTotal(p.loans, Pledged(k)) + ListTotal(p.loans, Repaid(k))
    BY <1>4, <2>1, <2>8, ListPlus
  <2>4. ListTotal(p.loans, u) = ListTotal(p.loans, LoanNet(k)) + ListTotal(p.loans, v)
    BY <1>4, <2>1, <2>8, ListPlus
  <2>5. /\ ListTotal(p.loans, LoanNet(k)) \in Int /\ ListTotal(p.loans, Pledged(k)) \in Int
        /\ ListTotal(p.loans, Repaid(k)) \in Int
    BY <1>4, NetTypes, ListType
  <2> QED
    BY <2>2, <2>3, <2>4, <2>5
<1>8. /\ ListTotal(p.swaps, SwapGets(k)) \in Int /\ ListTotal(p.swaps, SwapGives(k)) \in Int
      /\ ListTotal(p.stakes, ReceiptGot(k)) \in Int /\ ListTotal(p.stakes, StakeBack(k, day)) \in Int
      /\ ListTotal(p.stakes, Staked(k)) \in Int /\ ListTotal(p.stakes, ReceiptBack(k)) \in Int
      /\ ListTotal(p.loans, Borrowed(k)) \in Int /\ ListTotal(p.loans, Released(k)) \in Int
      /\ ListTotal(p.loans, Pledged(k)) \in Int /\ ListTotal(p.loans, Repaid(k)) \in Int
  BY <1>4, NetTypes, ListType
<1>9. /\ Prefunded[k] \in Int /\ done \in Int /\ ListTotal(p.deposits, DepositNet(k)) \in Int
      /\ ListTotal(p.swaps, SwapNet(k)) \in Int /\ ListTotal(p.stakes, StakeNet(k, day)) \in Int
      /\ ListTotal(p.loans, LoanNet(k)) \in Int
  BY NetType
<1>10. Net(p, k, day) = Prefunded[k] + done + ListTotal(p.deposits, DepositNet(k))
                        + ListTotal(p.swaps, SwapNet(k)) + ListTotal(p.stakes, StakeNet(k, day))
                        + ListTotal(p.loans, LoanNet(k))
  BY DEF Net
<1> DEFINE a == PaidIn(p, k)
           b == PaidOut(p, k)
           n == Net(p, k, day)
           d == ListTotal(p.deposits, DepositNet(k))
           sg == ListTotal(p.swaps, SwapGets(k))
           sv == ListTotal(p.swaps, SwapGives(k))
           sn == ListTotal(p.swaps, SwapNet(k))
           rg == ListTotal(p.stakes, ReceiptGot(k))
           kb == ListTotal(p.stakes, StakeBack(k, day))
           kt == ListTotal(p.stakes, Staked(k))
           rb == ListTotal(p.stakes, ReceiptBack(k))
           kn == ListTotal(p.stakes, StakeNet(k, day))
           lb == ListTotal(p.loans, Borrowed(k))
           lr == ListTotal(p.loans, Released(k))
           lp == ListTotal(p.loans, Pledged(k))
           ld == ListTotal(p.loans, Repaid(k))
           ln == ListTotal(p.loans, LoanNet(k))
           f  == Prefunded[k]
<1>11. /\ a = f + done + d + sg + rg + kb + lb + lr /\ b = sv + kt + rb + lp + ld
       /\ sg = sn + sv /\ rg + kb = kn + kt + rb /\ lb + lr = ln + lp + ld
       /\ n = f + done + d + sn + kn + ln
  BY <1>2, <1>3, <1>5, <1>6, <1>7, <1>10
<1>12. /\ f \in Int /\ done \in Int /\ d \in Int /\ sg \in Int /\ sv \in Int /\ sn \in Int
       /\ rg \in Int /\ kb \in Int /\ kt \in Int /\ rb \in Int /\ kn \in Int
       /\ lb \in Int /\ lr \in Int /\ lp \in Int /\ ld \in Int /\ ln \in Int
  BY <1>8, <1>9
<1>13. a \in Int /\ b \in Int /\ a - b = n
  <2> HIDE DEF a, b, n, f, done, d, sg, sv, sn, rg, kb, kt, rb, kn, lb, lr, lp, ld, ln
  <2> QED
    BY <1>11, <1>12
<1> QED
  BY <1>13

\* No stake is open before it starts, and the records explain every balance.
Fine(p, t) ==
  /\ \A i \in DOMAIN p.stakes : p.stakes[i].from <= p.stakes[i].until
  /\ \A k \in Key \ {ONEX} : p.bal[k] <= Net(p, k, t)

\* p and q have the same records.
SameRecords(p, q) ==
  /\ q.done = p.done /\ q.deposits = p.deposits /\ q.swaps = p.swaps
  /\ q.stakes = p.stakes /\ q.loans = p.loans

LEMMA DebitBalances ==
  ASSUME NEW p \in Portfolio, NEW a \in Key, NEW n \in Nat, Covers(p, a, n)
  PROVE  /\ Debit(p, a, n) \in Portfolio /\ SameRecords(p, Debit(p, a, n))
         /\ \A k \in Key : Debit(p, a, n).bal[k] = p.bal[k] - (IF k = a THEN n ELSE 0)
<1>1. p.bal \in [Key -> UInt] /\ UInt \subseteq Int
  BY PortfolioFields, Integers64
<1>2. SameRecords(p, Debit(p, a, n))
  BY DEF Debit, SameRecords, Portfolio
<1>3. Debit(p, a, n).bal = [p.bal EXCEPT ![a] = @ - n]
  BY DEF Debit, Portfolio
<1>4. ASSUME NEW k \in Key
      PROVE  Debit(p, a, n).bal[k] = p.bal[k] - (IF k = a THEN n ELSE 0)
  <2>1. p.bal[k] \in Int
    BY <1>1
  <2> QED
    BY <1>1, <1>3, <2>1
<1> QED
  BY <1>2, <1>4, DebitOK

LEMMA CreditBalances ==
  ASSUME NEW p \in Portfolio, NEW a \in Key, NEW n \in Nat
  PROVE  /\ Credit(p, a, n) \in Portfolio /\ SameRecords(p, Credit(p, a, n))
         /\ \A k \in Key : Credit(p, a, n).bal[k] <= p.bal[k] + (IF k = a THEN n ELSE 0)
<1>1. p.bal \in [Key -> UInt] /\ \A m \in UInt : m \in Nat
  BY PortfolioFields, Integers64
<1>2. SameRecords(p, Credit(p, a, n))
  BY DEF Credit, SameRecords, Portfolio
<1>3. Credit(p, a, n).bal = [p.bal EXCEPT ![a] = (@ + n) % Word]
  BY DEF Credit, Portfolio
<1>4. \A m \in Nat : m % Word \in Nat /\ m % Word <= m
  BY Integers64
<1>5. p.bal[a] + n \in Nat
  BY <1>1
<1>6. (p.bal[a] + n) % Word <= p.bal[a] + n
  BY <1>4, <1>5
<1> QED
  BY <1>1, <1>2, <1>3, <1>6, CreditOK

LEMMA SameNet ==
  ASSUME NEW p, NEW q, SameRecords(p, q), NEW k, NEW t
  PROVE  Net(q, k, t) = Net(p, k, t)
BY DEF SameRecords, Net

\* What one more record adds.
LEMMA OneMore ==
  ASSUME NEW p \in Portfolio, NEW k \in Key, NEW t \in Nat
  PROVE  /\ \A x \in StakeRecord :
              Net([p EXCEPT !.stakes = Append(@, x)], k, t) = Net(p, k, t) + StakeNet(k, t)[x]
         /\ \A x \in LoanRecord :
              Net([p EXCEPT !.loans = Append(@, x)], k, t) = Net(p, k, t) + LoanNet(k)[x]
         /\ \A x \in DepositRecord :
              Net([p EXCEPT !.deposits = Append(@, x)], k, t) = Net(p, k, t) + DepositNet(k)[x]
         /\ \A x \in SwapRecord :
              Net([p EXCEPT !.swaps = Append(@, x)], k, t) = Net(p, k, t) + SwapNet(k)[x]
<1>1. /\ p.deposits \in Seq(DepositRecord) /\ p.swaps \in Seq(SwapRecord)
      /\ p.stakes \in Seq(StakeRecord) /\ p.loans \in Seq(LoanRecord)
  BY PortfolioFields
<1> DEFINE u == Prefunded[k] + Total([i \in p.done |-> TaskPay(k)[i]])
           d == ListTotal(p.deposits, DepositNet(k))
           s == ListTotal(p.swaps, SwapNet(k))
           h == ListTotal(p.stakes, StakeNet(k, t))
           l == ListTotal(p.loans, LoanNet(k))
<1>2. u \in Int /\ d \in Int /\ s \in Int /\ h \in Int /\ l \in Int /\ Net(p, k, t) = u + d + s + h + l
  BY NetType DEF Net
<1>3. ASSUME NEW x \in StakeRecord
      PROVE  Net([p EXCEPT !.stakes = Append(@, x)], k, t) = Net(p, k, t) + StakeNet(k, t)[x]
  <2> DEFINE q == [p EXCEPT !.stakes = Append(@, x)]
             m == ListTotal(Append(p.stakes, x), StakeNet(k, t))
  <2>1. m = h + StakeNet(k, t)[x] /\ StakeNet(k, t)[x] \in Int
    BY <1>1, NetTypes, ListAppend
  <2>2. Net(q, k, t) = u + d + s + m + l
    BY DEF Net, Portfolio
  <2> HIDE DEF u, d, s, h, l, m, q
  <2>3. Net(q, k, t) = Net(p, k, t) + StakeNet(k, t)[x]
    BY <1>2, <2>1, <2>2
  <2> QED
    BY <2>3 DEF q
<1>4. ASSUME NEW x \in LoanRecord
      PROVE  Net([p EXCEPT !.loans = Append(@, x)], k, t) = Net(p, k, t) + LoanNet(k)[x]
  <2> DEFINE q == [p EXCEPT !.loans = Append(@, x)]
             m == ListTotal(Append(p.loans, x), LoanNet(k))
  <2>1. m = l + LoanNet(k)[x] /\ LoanNet(k)[x] \in Int
    BY <1>1, NetTypes, ListAppend
  <2>2. Net(q, k, t) = u + d + s + h + m
    BY DEF Net, Portfolio
  <2> HIDE DEF u, d, s, h, l, m, q
  <2>3. Net(q, k, t) = Net(p, k, t) + LoanNet(k)[x]
    BY <1>2, <2>1, <2>2
  <2> QED
    BY <2>3 DEF q
<1>5. ASSUME NEW x \in DepositRecord
      PROVE  Net([p EXCEPT !.deposits = Append(@, x)], k, t) = Net(p, k, t) + DepositNet(k)[x]
  <2> DEFINE q == [p EXCEPT !.deposits = Append(@, x)]
             m == ListTotal(Append(p.deposits, x), DepositNet(k))
  <2>1. m = d + DepositNet(k)[x] /\ DepositNet(k)[x] \in Int
    BY <1>1, NetTypes, ListAppend
  <2>2. Net(q, k, t) = u + m + s + h + l
    BY DEF Net, Portfolio
  <2> HIDE DEF u, d, s, h, l, m, q
  <2>3. Net(q, k, t) = Net(p, k, t) + DepositNet(k)[x]
    BY <1>2, <2>1, <2>2
  <2> QED
    BY <2>3 DEF q
<1>6. ASSUME NEW x \in SwapRecord
      PROVE  Net([p EXCEPT !.swaps = Append(@, x)], k, t) = Net(p, k, t) + SwapNet(k)[x]
  <2> DEFINE q == [p EXCEPT !.swaps = Append(@, x)]
             m == ListTotal(Append(p.swaps, x), SwapNet(k))
  <2>1. m = s + SwapNet(k)[x] /\ SwapNet(k)[x] \in Int
    BY <1>1, NetTypes, ListAppend
  <2>2. Net(q, k, t) = u + d + m + h + l
    BY DEF Net, Portfolio
  <2> HIDE DEF u, d, s, h, l, m, q
  <2>3. Net(q, k, t) = Net(p, k, t) + SwapNet(k)[x]
    BY <1>2, <2>1, <2>2
  <2> QED
    BY <2>3 DEF q
<1> QED
  BY <1>3, <1>4, <1>5, <1>6, Zenon

\* What closing a record adds.
LEMMA OneClosed ==
  ASSUME NEW p \in Portfolio, NEW k \in Key, NEW t \in Nat
  PROVE  /\ \A i \in DOMAIN p.stakes :
              Net([p EXCEPT !.stakes[i].active = FALSE], k, t)
                = Net(p, k, t) - StakeNet(k, t)[p.stakes[i]]
                  + StakeNet(k, t)[[p.stakes[i] EXCEPT !.active = FALSE]]
         /\ \A i \in DOMAIN p.loans :
              Net([p EXCEPT !.loans[i].active = FALSE], k, t)
                = Net(p, k, t) - LoanNet(k)[p.loans[i]]
                  + LoanNet(k)[[p.loans[i] EXCEPT !.active = FALSE]]
<1>1. p.stakes \in Seq(StakeRecord) /\ p.loans \in Seq(LoanRecord)
  BY PortfolioFields
<1> DEFINE u == Prefunded[k] + Total([i \in p.done |-> TaskPay(k)[i]])
           d == ListTotal(p.deposits, DepositNet(k))
           s == ListTotal(p.swaps, SwapNet(k))
           h == ListTotal(p.stakes, StakeNet(k, t))
           l == ListTotal(p.loans, LoanNet(k))
<1>2. u \in Int /\ d \in Int /\ s \in Int /\ h \in Int /\ l \in Int /\ Net(p, k, t) = u + d + s + h + l
  BY NetType DEF Net
<1>3. ASSUME NEW i \in DOMAIN p.stakes
      PROVE  Net([p EXCEPT !.stakes[i].active = FALSE], k, t)
                = Net(p, k, t) - StakeNet(k, t)[p.stakes[i]]
                  + StakeNet(k, t)[[p.stakes[i] EXCEPT !.active = FALSE]]
  <2> DEFINE x == [p.stakes[i] EXCEPT !.active = FALSE]
             q == [p EXCEPT !.stakes[i].active = FALSE]
             m == ListTotal([p.stakes EXCEPT ![i] = x], StakeNet(k, t))
  <2>1. p.stakes[i] \in StakeRecord
    BY <1>1, ListDomain
  <2>2. x \in StakeRecord
    BY <2>1 DEF StakeRecord
  <2>3. Net(q, k, t) = u + d + s + m + l
    BY DEF Net, Portfolio
  <2> HIDE DEF x
  <2>4. StakeNet(k, t)[p.stakes[i]] \in Int /\ StakeNet(k, t)[x] \in Int
    BY <2>1, <2>2, NetTypes
  <2>7. \A y \in StakeRecord : StakeNet(k, t)[y] \in Int
    BY NetTypes
  <2>5. m = h - StakeNet(k, t)[p.stakes[i]] + StakeNet(k, t)[x]
    <3> DEFINE list == p.stakes
               f == StakeNet(k, t)
    <3>1. /\ list \in Seq(StakeRecord) /\ i \in DOMAIN list /\ x \in StakeRecord
          /\ \A y \in StakeRecord : f[y] \in Int
      BY <1>1, <2>2, <2>7
    <3> HIDE DEF list, f, x
    <3>2. ListTotal([list EXCEPT ![i] = x], f) = ListTotal(list, f) - f[list[i]] + f[x]
      BY <3>1, ListUpdate
    <3> QED
      BY <3>2 DEF list, f
  <2> HIDE DEF u, d, s, h, l, m, q
  <2>6. Net(q, k, t) = Net(p, k, t) - StakeNet(k, t)[p.stakes[i]] + StakeNet(k, t)[x]
    BY <1>2, <2>3, <2>4, <2>5
  <2> QED
    BY <2>6 DEF q, x
<1>4. ASSUME NEW i \in DOMAIN p.loans
      PROVE  Net([p EXCEPT !.loans[i].active = FALSE], k, t)
                = Net(p, k, t) - LoanNet(k)[p.loans[i]]
                  + LoanNet(k)[[p.loans[i] EXCEPT !.active = FALSE]]
  <2> DEFINE x == [p.loans[i] EXCEPT !.active = FALSE]
             q == [p EXCEPT !.loans[i].active = FALSE]
             m == ListTotal([p.loans EXCEPT ![i] = x], LoanNet(k))
  <2>1. p.loans[i] \in LoanRecord
    BY <1>1, ListDomain
  <2>2. x \in LoanRecord
    BY <2>1 DEF LoanRecord
  <2>3. Net(q, k, t) = u + d + s + h + m
    BY DEF Net, Portfolio
  <2> HIDE DEF x
  <2>4. LoanNet(k)[p.loans[i]] \in Int /\ LoanNet(k)[x] \in Int
    BY <2>1, <2>2, NetTypes
  <2>7. \A y \in LoanRecord : LoanNet(k)[y] \in Int
    BY NetTypes
  <2>5. m = l - LoanNet(k)[p.loans[i]] + LoanNet(k)[x]
    BY <1>1, <2>2, <2>7, ListUpdate
  <2> HIDE DEF u, d, s, h, l, m, q
  <2>6. Net(q, k, t) = Net(p, k, t) - LoanNet(k)[p.loans[i]] + LoanNet(k)[x]
    BY <1>2, <2>3, <2>4, <2>5
  <2> QED
    BY <2>6 DEF q, x
<1> QED
  BY <1>3, <1>4, Zenon

\* Balances that grow no more than what is recorded stay explained.
LEMMA FineGrows ==
  ASSUME NEW p \in Portfolio, NEW q \in Portfolio, NEW t \in Nat, Fine(p, t),
         \A i \in DOMAIN q.stakes : q.stakes[i].from <= q.stakes[i].until,
         \A k \in Key : q.bal[k] - p.bal[k] <= Net(q, k, t) - Net(p, k, t)
  PROVE  Fine(q, t)
<1>1. ASSUME NEW k \in Key \ {ONEX} PROVE q.bal[k] <= Net(q, k, t)
  <2>1. p.bal[k] \in Int /\ q.bal[k] \in Int
    BY BalanceType
  <2>2. Net(p, k, t) \in Int /\ Net(q, k, t) \in Int
    BY NetType
  <2>3. p.bal[k] <= Net(p, k, t) /\ q.bal[k] - p.bal[k] <= Net(q, k, t) - Net(p, k, t)
    BY DEF Fine
  <2> QED
    BY <2>1, <2>2, <2>3
<1> QED
  BY <1>1 DEF Fine

LEMMA FineSame ==
  ASSUME NEW p \in Portfolio, NEW q, NEW t \in Nat, Fine(p, t), SameRecords(p, q),
         \A k \in Key \ {ONEX} : q.bal[k] <= p.bal[k], q \in Portfolio
  PROVE  Fine(q, t)
<1>1. ASSUME NEW k \in Key \ {ONEX} PROVE q.bal[k] <= Net(q, k, t)
  <2>1. p.bal[k] \in Int /\ q.bal[k] \in Int
    BY BalanceType
  <2>2. Net(p, k, t) \in Int
    BY NetType
  <2>4. Net(q, k, t) = Net(p, k, t)
    BY SameNet
  <2>3. p.bal[k] <= Net(p, k, t) /\ q.bal[k] <= p.bal[k]
    BY DEF Fine
  <2> QED
    BY <2>1, <2>2, <2>3, <2>4
<1> QED
  BY <1>1 DEF Fine, SameRecords

LEMMA FineDefault ==
  ASSUME ~Production(menu), NEW t \in Nat
  PROVE  Fine(DefaultPortfolio, t)
<1> DEFINE p == DefaultPortfolio
<1>1. /\ p.bal = Prefunded /\ p.done = {} /\ p.stakes = <<>> /\ p.loans = <<>>
      /\ p.deposits = <<>> /\ p.swaps = <<>>
  BY DEF DefaultPortfolio
<1> HIDE DEF p
<1>2. ASSUME NEW k \in Key PROVE Net(p, k, t) = Prefunded[k]
  <2>1. [i \in {} |-> TaskPay(k)[i]] = [i \in {} |-> 0] /\ IsFiniteSet({})
    BY FS_EmptySet
  <2>2. Total([i \in {} |-> TaskPay(k)[i]]) = 0
    BY <2>1, TotalZero
  <2>3. Prefunded[k] \in Int
    BY BridgeAssumption, Integers64
  <2> QED
    BY <1>1, <2>2, <2>3, ListEmpty DEF Net
<1>3. \A k \in Key : Prefunded[k] \in Int
  BY BridgeAssumption, Integers64
<1>4. DOMAIN p.stakes = {}
  BY <1>1
<1> QED
  BY <1>1, <1>2, <1>3, <1>4 DEF Fine, p

LEMMA FineSynced ==
  ASSUME ~Production(menu), nodeBal \in UInt, NEW p \in Portfolio, NEW t \in Nat, Fine(p, t), NEW up
  PROVE  Fine(Synced(p, up), t)
<1>1. Synced(p, up) = [p EXCEPT !.bal = [@ EXCEPT ![ONEX] = IF up THEN nodeBal ELSE p.bal[ONEX]]]
  BY DEF Synced
<1>2. Synced(p, up) \in Portfolio
  BY SyncedOK
<1>3. SameRecords(p, Synced(p, up))
  BY <1>1 DEF SameRecords, Portfolio
<1>4. \A k \in Key \ {ONEX} : Synced(p, up).bal[k] = p.bal[k] /\ p.bal[k] \in Int
  BY <1>1, BalanceType DEF Portfolio
<1> QED
  BY <1>2, <1>3, <1>4, FineSame

LEMMA FineDebit ==
  ASSUME NEW p \in Portfolio, NEW t \in Nat, Fine(p, t), NEW a \in Key, NEW n \in Nat, Covers(p, a, n)
  PROVE  Fine(Debit(p, a, n), t)
<1>1. \A k \in Key : p.bal[k] \in Int
  BY BalanceType
<1>2. \A k \in Key : Debit(p, a, n).bal[k] <= p.bal[k]
  BY <1>1, DebitBalances
<1> QED
  BY <1>2, DebitBalances, FineSame

LEMMA FineNfts ==
  ASSUME NEW p \in Portfolio, NEW t \in Nat, Fine(p, t), NEW l \in Seq({"self", "other"})
  PROVE  Fine([p EXCEPT !.nfts = l], t)
<1> DEFINE q == [p EXCEPT !.nfts = l]
<1>1. q \in Portfolio
  BY ListsOK
<1>2. SameRecords(p, q) /\ q.bal = p.bal
  BY DEF SameRecords, Portfolio
<1>3. \A k \in Key : p.bal[k] \in Int
  BY BalanceType
<1> HIDE DEF q
<1>4. Fine(q, t)
  BY <1>1, <1>2, <1>3, FineSame
<1> QED
  BY <1>4 DEF q

LEMMA FineTask ==
  ASSUME NEW p \in Portfolio, NEW t \in Nat, Fine(p, t), NEW i \in DOMAIN Reward
  PROVE  Fine(completeTask(p, i), t)
<1>1. CASE i \in p.done
  BY <1>1 DEF completeTask
<1>2. CASE i \notin p.done
  <2> DEFINE c == Credit(p, Reward[i].key, Reward[i].amt)
             q == [c EXCEPT !.done = @ \cup {i}]
  <2>1. Reward[i].key \in Key /\ Reward[i].amt \in Nat
    BY BridgeAssumption
  <2>2. c \in Portfolio /\ SameRecords(p, c)
        /\ \A k \in Key : c.bal[k] <= p.bal[k] + (IF k = Reward[i].key THEN Reward[i].amt ELSE 0)
    BY <2>1, CreditBalances
  <2> HIDE DEF c
  <2>3. q \in Portfolio /\ q.bal = c.bal /\ q.done = p.done \cup {i} /\ q.stakes = p.stakes
        /\ q.loans = p.loans /\ q.deposits = p.deposits /\ q.swaps = p.swaps
    BY <2>2 DEF Portfolio, SameRecords
  <2>4. completeTask(p, i) = q
    BY <1>2 DEF completeTask, c
  <2> HIDE DEF q
  <2>5. ASSUME NEW k \in Key
        PROVE  q.bal[k] - p.bal[k] <= Net(q, k, t) - Net(p, k, t)
    <3> DEFINE D == p.done
               m == TaskPay(k)[i]
               f == [j \in D |-> TaskPay(k)[j]]
               g == [j \in D \cup {i} |-> TaskPay(k)[j]]
               d == ListTotal(p.deposits, DepositNet(k))
               s == ListTotal(p.swaps, SwapNet(k))
               h == ListTotal(p.stakes, StakeNet(k, t))
               l == ListTotal(p.loans, LoanNet(k))
               u == Prefunded[k]
    <3>1. IsFiniteSet(D) /\ D \subseteq DOMAIN Reward
      BY PortfolioFields, BridgeAssumption, FS_Subset
    <3>2. \A j \in DOMAIN Reward : TaskPay(k)[j] \in Int
      BY NetTypes
    <3>3. i \notin D /\ f \in [D -> Int] /\ g \in [D \cup {i} -> Int] /\ (\A j \in D : g[j] = f[j]) /\ g[i] = m
      BY <1>2, <3>1, <3>2
    <3>4. m = (IF k = Reward[i].key THEN Reward[i].amt ELSE 0) /\ m \in Int
      BY <3>2 DEF TaskPay
    <3>5. u \in Int /\ d \in Int /\ s \in Int /\ h \in Int /\ l \in Int /\ Total(f) \in Int
      BY NetType
    <3>6. Net(p, k, t) = u + Total(f) + d + s + h + l /\ Net(q, k, t) = u + Total(g) + d + s + h + l
      BY <2>3 DEF Net
    <3> HIDE DEF D, f, g, d, s, h, l, u, m
    <3>9. \A v, w : /\ IsFiniteSet(D) /\ i \notin D /\ v \in [D -> Int] /\ w \in [D \cup {i} -> Int]
                   /\ (\A j \in D : w[j] = v[j])
                  => Total(w) = Total(v) + w[i]
      BY TotalNewAll, Zenon
    <3>7. Total(g) = Total(f) + g[i]
      BY <3>1, <3>3, <3>9, Zenon
    <3>8. p.bal[k] \in Int /\ q.bal[k] \in Int /\ q.bal[k] <= p.bal[k] + m
      BY <2>2, <2>3, <3>4, BalanceType
    <3> QED
      BY <3>3, <3>4, <3>5, <3>6, <3>7, <3>8
  <2>6. \A j \in DOMAIN q.stakes : q.stakes[j].from <= q.stakes[j].until
    BY <2>3 DEF Fine
  <2>7. Fine(q, t)
    BY <2>3, <2>5, <2>6, FineGrows
  <2> QED
    BY <2>4, <2>7
<1> QED
  BY <1>1, <1>2

LEMMA FineLater ==
  ASSUME NEW p \in Portfolio, NEW t \in Nat, NEW u \in Nat, t <= u, Fine(p, t)
  PROVE  Fine(p, u)
<1>1. ASSUME NEW k \in Key PROVE Net(p, k, t) <= Net(p, k, u)
  <2>1. \A s \in StakeRecord : /\ StakeNet(k, t)[s] \in Int /\ StakeNet(k, u)[s] \in Int
                               /\ StakeNet(k, t)[s] <= StakeNet(k, u)[s]
    <3> TAKE s \in StakeRecord
    <3>1. /\ ReceiptGot(k)[s] \in Int /\ StakeBack(k, t)[s] \in Int /\ StakeBack(k, u)[s] \in Int
          /\ Staked(k)[s] \in Int /\ ReceiptBack(k)[s] \in Int
          /\ StakeNet(k, t)[s] \in Int /\ StakeNet(k, u)[s] \in Int
      BY NetTypes
    <3>2. StakeReward(s, t) \in Int /\ StakeReward(s, u) \in Int /\ StakeReward(s, t) <= StakeReward(s, u)
          /\ s.amt \in Int
      BY RewardGrows DEF StakeRecord
    <3>3. StakeBack(k, t)[s] <= StakeBack(k, u)[s]
      BY <3>2 DEF StakeBack
    <3> QED
      BY <3>1, <3>3 DEF StakeNet
  <2>2. p.stakes \in Seq(StakeRecord)
    BY PortfolioFields
  <2>3. ListTotal(p.stakes, StakeNet(k, t)) <= ListTotal(p.stakes, StakeNet(k, u))
    BY <2>1, <2>2, ListOrder
  <2>4. /\ Prefunded[k] \in Int /\ Total([i \in p.done |-> TaskPay(k)[i]]) \in Int
        /\ ListTotal(p.deposits, DepositNet(k)) \in Int /\ ListTotal(p.swaps, SwapNet(k)) \in Int
        /\ ListTotal(p.stakes, StakeNet(k, t)) \in Int /\ ListTotal(p.loans, LoanNet(k)) \in Int
        /\ ListTotal(p.stakes, StakeNet(k, u)) \in Int
    BY NetType
  <2> QED
    BY <2>3, <2>4 DEF Net
<1>2. \A k \in Key : p.bal[k] \in Int
  BY BalanceType
<1>3. \A k \in Key : Net(p, k, t) \in Int /\ Net(p, k, u) \in Int
  BY NetType
<1> QED
  BY <1>1, <1>2, <1>3 DEF Fine

\* A debit followed by a credit.
LEMMA ExchangeBalances ==
  ASSUME NEW p \in Portfolio, NEW a \in Key, NEW n \in Nat, Covers(p, a, n), NEW b \in Key, NEW m \in Nat
  PROVE  /\ Credit(Debit(p, a, n), b, m) \in Portfolio
         /\ SameRecords(p, Credit(Debit(p, a, n), b, m))
         /\ \A k \in Key : Credit(Debit(p, a, n), b, m).bal[k] - p.bal[k]
                             <= (IF k = b THEN m ELSE 0) - (IF k = a THEN n ELSE 0)
<1> DEFINE d == Debit(p, a, n)
           q == Credit(d, b, m)
<1>1. d \in Portfolio /\ SameRecords(p, d) /\ \A k \in Key : d.bal[k] = p.bal[k] - (IF k = a THEN n ELSE 0)
  BY DebitBalances
<1> HIDE DEF d
<1>2. q \in Portfolio /\ SameRecords(d, q) /\ \A k \in Key : q.bal[k] <= d.bal[k] + (IF k = b THEN m ELSE 0)
  BY <1>1, CreditBalances
<1>3. \A k \in Key : p.bal[k] \in Int /\ q.bal[k] \in Int
  BY <1>2, BalanceType
<1>4. SameRecords(p, q)
  BY <1>1, <1>2 DEF SameRecords
<1> HIDE DEF q
<1>5. \A k \in Key : q.bal[k] - p.bal[k] <= (IF k = b THEN m ELSE 0) - (IF k = a THEN n ELSE 0)
  BY <1>1, <1>2, <1>3
<1> QED
  BY <1>2, <1>4, <1>5 DEF q, d

LEMMA FineStake ==
  ASSUME NEW p \in Portfolio, NEW t \in Nat, Fine(p, t), NEW rec \in StakeRecord,
         rec.active, rec.from <= rec.until, Covers(p, rec.pool.stake, rec.amt)
  PROVE  Fine([Credit(Debit(p, rec.pool.stake, rec.amt), rec.pool.receipt, rec.receipt)
                 EXCEPT !.stakes = Append(@, rec)], t)
<1> DEFINE a == rec.pool.stake
           b == rec.pool.receipt
           c == Credit(Debit(p, a, rec.amt), b, rec.receipt)
           q == [c EXCEPT !.stakes = Append(@, rec)]
<1>1. a \in Key /\ b \in Key /\ rec.amt \in Nat /\ rec.receipt \in Nat
  BY BridgeAssumption DEF StakeRecord
<1>2. /\ c \in Portfolio /\ SameRecords(p, c)
      /\ \A k \in Key : c.bal[k] - p.bal[k]
                          <= (IF k = b THEN rec.receipt ELSE 0) - (IF k = a THEN rec.amt ELSE 0)
  BY <1>1, ExchangeBalances
<1> HIDE DEF c
<1>3. q \in Portfolio /\ q.bal = c.bal /\ q.stakes = Append(p.stakes, rec)
  BY <1>2, RecordsOK DEF SameRecords, Portfolio
<1>4. ASSUME NEW k \in Key
      PROVE  q.bal[k] - p.bal[k] <= Net(q, k, t) - Net(p, k, t)
  <2>1. Net(q, k, t) = Net(c, k, t) + StakeNet(k, t)[rec] /\ StakeNet(k, t)[rec] \in Int
    BY <1>2, OneMore, NetTypes
  <2>2. Net(c, k, t) = Net(p, k, t)
    BY <1>2, SameNet
  <2>3. Net(p, k, t) \in Int
    BY NetType
  <2>4. StakeNet(k, t)[rec] = (IF k = b THEN rec.receipt ELSE 0) - (IF k = a THEN rec.amt ELSE 0)
    BY <1>1 DEF StakeNet, ReceiptGot, StakeBack, Staked, ReceiptBack
  <2>5. q.bal[k] - p.bal[k] <= StakeNet(k, t)[rec]
    BY <1>2, <1>3, <2>4
  <2> HIDE DEF q
  <2> QED
    BY <2>1, <2>2, <2>3, <2>5
<1>5. \A i \in DOMAIN q.stakes : q.stakes[i].from <= q.stakes[i].until
  BY <1>3, PortfolioFields DEF Fine
<1> HIDE DEF q
<1>6. Fine(q, t)
  BY <1>3, <1>4, <1>5, FineGrows
<1> QED
  BY <1>6 DEF q, c

LEMMA FineUnstake ==
  ASSUME NEW p \in Portfolio, NEW t \in Nat, Fine(p, t), NEW i \in DOMAIN p.stakes,
         p.stakes[i].active, t >= p.stakes[i].until,
         Covers(p, p.stakes[i].pool.receipt, p.stakes[i].receipt)
  PROVE  Fine([Credit(Debit(p, p.stakes[i].pool.receipt, p.stakes[i].receipt), p.stakes[i].pool.stake,
                      p.stakes[i].amt + StakeReward(p.stakes[i], t))
                 EXCEPT !.stakes[i].active = FALSE], t)
<1> DEFINE s == p.stakes[i]
           x == [s EXCEPT !.active = FALSE]
           a == s.pool.receipt
           b == s.pool.stake
           m == s.amt + StakeReward(s, t)
           c == Credit(Debit(p, a, s.receipt), b, m)
           q == [c EXCEPT !.stakes[i].active = FALSE]
<1>1. s \in StakeRecord
  BY PortfolioFields, ListDomain
<1>2. x \in StakeRecord
  BY <1>1 DEF StakeRecord
<1>3. a \in Key /\ b \in Key /\ s.receipt \in Nat /\ s.amt \in Nat
  BY <1>1, BridgeAssumption DEF StakeRecord
<1>4. m \in Nat
  <2>1. s.from \in Nat /\ s.until \in Nat /\ s.from <= s.until
    BY <1>1 DEF Fine, StakeRecord
  <2>2. s.from <= t
    BY <2>1
  <2>3. StakeReward(s, s.from) <= StakeReward(s, t) /\ StakeReward(s, s.from) \in Int /\ StakeReward(s, t) \in Int
    BY <1>1, <2>1, <2>2, RewardGrows
  <2>4. StakeReward(s, s.from) = 0
    <3>1. s.amt * s.pool.apy \in Nat /\ RewardBase \in Nat \ {0}
      BY <1>1, BridgeAssumption, ProductType DEF StakeRecord
    <3>2. (s.amt * s.pool.apy) * (s.from - s.from) = 0
      BY <3>1, <2>1
    <3>3. 0 \div RewardBase = 0
      BY <3>1
    <3> QED
      BY <3>2, <3>3 DEF StakeReward
  <2> QED
    BY <1>3, <2>3, <2>4
<1>5. /\ c \in Portfolio /\ SameRecords(p, c)
      /\ \A k \in Key : c.bal[k] - p.bal[k] <= (IF k = b THEN m ELSE 0) - (IF k = a THEN s.receipt ELSE 0)
  BY <1>3, <1>4, ExchangeBalances
<1> HIDE DEF c
<1>6. c.stakes = p.stakes /\ i \in DOMAIN c.stakes
  BY <1>5 DEF SameRecords
<1>7. q \in Portfolio
  BY <1>5, <1>6, ClosedOK
<1>8. q.bal = c.bal /\ q.stakes = [p.stakes EXCEPT ![i] = x]
  BY <1>5, <1>6 DEF Portfolio
<1>9. ASSUME NEW k \in Key
      PROVE  q.bal[k] - p.bal[k] <= Net(q, k, t) - Net(p, k, t)
  <2>1. Net(q, k, t) = Net(c, k, t) - StakeNet(k, t)[s] + StakeNet(k, t)[x]
    BY <1>5, <1>6, OneClosed
  <2>2. Net(c, k, t) = Net(p, k, t)
    BY <1>5, SameNet
  <2>3. Net(p, k, t) \in Int /\ StakeNet(k, t)[s] \in Int /\ StakeNet(k, t)[x] \in Int
    BY <1>1, <1>2, NetType, NetTypes
  <2>4. StakeReward(x, t) = StakeReward(s, t)
    BY <1>1 DEF StakeReward, StakeRecord
  <2>5. /\ x.pool = s.pool /\ x.amt = s.amt /\ x.receipt = s.receipt /\ ~x.active /\ s.active
    BY <1>1 DEF StakeRecord
  <2>6. StakeReward(s, t) \in Int
    BY <1>1, RewardGrows
  <2> HIDE DEF x
  <2>7. StakeNet(k, t)[s] = (IF k = a THEN s.receipt ELSE 0) - (IF k = b THEN s.amt ELSE 0)
    BY <1>1, <1>3, <2>5 DEF StakeNet, ReceiptGot, StakeBack, Staked, ReceiptBack
  <2>8. StakeNet(k, t)[x] = (IF k = b THEN m ELSE 0) - (IF k = b THEN s.amt ELSE 0)
    BY <1>2, <1>3, <2>4, <2>5, <2>6 DEF StakeNet, ReceiptGot, StakeBack, Staked, ReceiptBack
  <2>9. StakeNet(k, t)[x] - StakeNet(k, t)[s] = (IF k = b THEN m ELSE 0) - (IF k = a THEN s.receipt ELSE 0)
    BY <1>3, <1>4, <2>7, <2>8
  <2>10. q.bal[k] - p.bal[k] <= StakeNet(k, t)[x] - StakeNet(k, t)[s]
    BY <1>5, <1>8, <2>9
  <2> HIDE DEF q
  <2> QED
    BY <2>1, <2>2, <2>3, <2>10
<1>10. \A j \in DOMAIN q.stakes : q.stakes[j].from <= q.stakes[j].until
  <2>1. x.from = s.from /\ x.until = s.until
    BY <1>1 DEF StakeRecord
  <2> HIDE DEF x
  <2> QED
    BY <1>8, <2>1 DEF Fine
<1> HIDE DEF q
<1>11. Fine(q, t)
  BY <1>7, <1>9, <1>10, FineGrows
<1> QED
  BY <1>11 DEF q, c

LEMMA FineDeposit ==
  ASSUME NEW p \in Portfolio, NEW t \in Nat, Fine(p, t), NEW rec \in DepositRecord
  PROVE  Fine([IF rec.status = "confirmed" THEN Credit(p, rec.key, rec.amt) ELSE p
                 EXCEPT !.deposits = Append(@, rec)], t)
<1> DEFINE c == IF rec.status = "confirmed" THEN Credit(p, rec.key, rec.amt) ELSE p
           q == [c EXCEPT !.deposits = Append(@, rec)]
<1>1. rec.key \in Key /\ rec.amt \in Nat
  BY DEF DepositRecord
<1>2. \A k \in Key : p.bal[k] \in Int
  BY BalanceType
<1>3. /\ c \in Portfolio /\ SameRecords(p, c)
      /\ \A k \in Key : c.bal[k] <= p.bal[k] + (IF rec.key = k /\ rec.status = "confirmed" THEN rec.amt ELSE 0)
  <2>1. CASE rec.status = "confirmed"
    BY <1>1, <2>1, CreditBalances
  <2>2. CASE rec.status # "confirmed"
    BY <1>2, <2>2 DEF SameRecords
  <2> QED
    BY <2>1, <2>2
<1> HIDE DEF c
<1>4. q \in Portfolio /\ q.bal = c.bal /\ q.stakes = p.stakes
  BY <1>3, RecordsOK DEF SameRecords, Portfolio
<1>5. ASSUME NEW k \in Key
      PROVE  q.bal[k] - p.bal[k] <= Net(q, k, t) - Net(p, k, t)
  <2>1. Net(q, k, t) = Net(c, k, t) + DepositNet(k)[rec] /\ DepositNet(k)[rec] \in Int
    BY <1>3, OneMore, NetTypes
  <2>2. Net(c, k, t) = Net(p, k, t)
    BY <1>3, SameNet
  <2>3. Net(p, k, t) \in Int
    BY NetType
  <2>4. DepositNet(k)[rec] = (IF rec.key = k /\ rec.status = "confirmed" THEN rec.amt ELSE 0)
    BY DEF DepositNet
  <2>6. q.bal[k] <= p.bal[k] + DepositNet(k)[rec]
    BY <1>3, <1>4, <2>4
  <2> HIDE DEF q
  <2>5. q.bal[k] \in Int /\ p.bal[k] \in Int
    BY <1>4, BalanceType
  <2> QED
    BY <2>1, <2>2, <2>3, <2>5, <2>6
<1>6. \A i \in DOMAIN q.stakes : q.stakes[i].from <= q.stakes[i].until
  BY <1>4 DEF Fine
<1> HIDE DEF q
<1>7. Fine(q, t)
  BY <1>4, <1>5, <1>6, FineGrows
<1> QED
  BY <1>7 DEF q, c

LEMMA FineSwap ==
  ASSUME NEW p \in Portfolio, NEW t \in Nat, Fine(p, t), NEW rec \in SwapRecord, Covers(p, rec.from, rec.in)
  PROVE  Fine([Credit(Debit(p, rec.from, rec.in), rec.to, rec.out) EXCEPT !.swaps = Append(@, rec)], t)
<1> DEFINE c == Credit(Debit(p, rec.from, rec.in), rec.to, rec.out)
           q == [c EXCEPT !.swaps = Append(@, rec)]
<1>1. rec.from \in Key /\ rec.to \in Key /\ rec.in \in Nat /\ rec.out \in Nat
  BY DEF SwapRecord
<1>2. /\ c \in Portfolio /\ SameRecords(p, c)
      /\ \A k \in Key : c.bal[k] - p.bal[k]
                          <= (IF k = rec.to THEN rec.out ELSE 0) - (IF k = rec.from THEN rec.in ELSE 0)
  BY <1>1, ExchangeBalances
<1> HIDE DEF c
<1>3. q \in Portfolio /\ q.bal = c.bal /\ q.stakes = p.stakes
  BY <1>2, RecordsOK DEF SameRecords, Portfolio
<1>4. ASSUME NEW k \in Key
      PROVE  q.bal[k] - p.bal[k] <= Net(q, k, t) - Net(p, k, t)
  <2>1. Net(q, k, t) = Net(c, k, t) + SwapNet(k)[rec] /\ SwapNet(k)[rec] \in Int
    BY <1>2, OneMore, NetTypes
  <2>2. Net(c, k, t) = Net(p, k, t)
    BY <1>2, SameNet
  <2>3. Net(p, k, t) \in Int
    BY NetType
  <2>4. SwapNet(k)[rec] = (IF k = rec.to THEN rec.out ELSE 0) - (IF k = rec.from THEN rec.in ELSE 0)
    BY <1>1 DEF SwapNet, SwapGets, SwapGives
  <2>5. q.bal[k] - p.bal[k] <= SwapNet(k)[rec]
    BY <1>2, <1>3, <2>4
  <2> HIDE DEF q
  <2> QED
    BY <2>1, <2>2, <2>3, <2>5
<1>5. \A i \in DOMAIN q.stakes : q.stakes[i].from <= q.stakes[i].until
  BY <1>3 DEF Fine
<1> HIDE DEF q
<1>6. Fine(q, t)
  BY <1>3, <1>4, <1>5, FineGrows
<1> QED
  BY <1>6 DEF q, c

LEMMA FineLoan ==
  ASSUME NEW p \in Portfolio, NEW t \in Nat, Fine(p, t), NEW rec \in LoanRecord,
         rec.active, Covers(p, rec.colKey, rec.col)
  PROVE  Fine([IF rec.type = "borrow" THEN Credit(Debit(p, rec.colKey, rec.col), rec.debtKey, rec.debt)
               ELSE Debit(p, rec.colKey, rec.col) EXCEPT !.loans = Append(@, rec)], t)
<1> DEFINE c == IF rec.type = "borrow" THEN Credit(Debit(p, rec.colKey, rec.col), rec.debtKey, rec.debt)
                ELSE Debit(p, rec.colKey, rec.col)
           q == [c EXCEPT !.loans = Append(@, rec)]
           lent(k) == IF k = rec.debtKey /\ rec.type = "borrow" THEN rec.debt ELSE 0
           held(k) == IF k = rec.colKey THEN rec.col ELSE 0
<1>1. rec.colKey \in Key /\ rec.debtKey \in Key /\ rec.col \in Nat /\ rec.debt \in Nat
  BY DEF LoanRecord
<1>2. c \in Portfolio /\ SameRecords(p, c) /\ \A k \in Key : c.bal[k] - p.bal[k] <= lent(k) - held(k)
  <2>1. CASE rec.type = "borrow"
    <3> DEFINE v == Credit(Debit(p, rec.colKey, rec.col), rec.debtKey, rec.debt)
    <3>1. /\ v \in Portfolio /\ SameRecords(p, v)
          /\ \A k \in Key : v.bal[k] - p.bal[k] <= (IF k = rec.debtKey THEN rec.debt ELSE 0)
                                                  - (IF k = rec.colKey THEN rec.col ELSE 0)
      BY <1>1, ExchangeBalances
    <3>2. \A k \in Key : /\ lent(k) = (IF k = rec.debtKey THEN rec.debt ELSE 0)
                         /\ held(k) = (IF k = rec.colKey THEN rec.col ELSE 0)
      BY <2>1
    <3>3. c = v
      BY <2>1
    <3> HIDE DEF c, v, lent, held
    <3> QED
      BY <3>1, <3>2, <3>3
  <2>2. CASE rec.type # "borrow"
    <3>1. /\ c \in Portfolio /\ SameRecords(p, c)
          /\ \A k \in Key : c.bal[k] = p.bal[k] - held(k)
      BY <1>1, <2>2, DebitBalances
    <3>2. \A k \in Key : p.bal[k] \in Int /\ held(k) \in Int /\ lent(k) = 0
      BY <1>1, <2>2, BalanceType
    <3> HIDE DEF c, lent, held
    <3> QED
      BY <3>1, <3>2
  <2> QED
    BY <2>1, <2>2
<1> HIDE DEF c
<1>3. q \in Portfolio /\ q.bal = c.bal /\ q.stakes = p.stakes
  BY <1>2, RecordsOK DEF SameRecords, Portfolio
<1>4. ASSUME NEW k \in Key
      PROVE  q.bal[k] - p.bal[k] <= Net(q, k, t) - Net(p, k, t)
  <2>1. Net(q, k, t) = Net(c, k, t) + LoanNet(k)[rec] /\ LoanNet(k)[rec] \in Int
    BY <1>2, OneMore, NetTypes
  <2>2. Net(c, k, t) = Net(p, k, t)
    BY <1>2, SameNet
  <2>3. Net(p, k, t) \in Int
    BY NetType
  <2>4. LoanNet(k)[rec] = lent(k) - held(k)
    BY <1>1 DEF LoanNet, Borrowed, Released, Pledged, Repaid
  <2>5. q.bal[k] - p.bal[k] <= LoanNet(k)[rec]
    BY <1>2, <1>3, <2>4
  <2> HIDE DEF q
  <2> QED
    BY <2>1, <2>2, <2>3, <2>5
<1>5. \A i \in DOMAIN q.stakes : q.stakes[i].from <= q.stakes[i].until
  BY <1>3 DEF Fine
<1> HIDE DEF q
<1>6. Fine(q, t)
  BY <1>3, <1>4, <1>5, FineGrows
<1> QED
  BY <1>6 DEF q, c

LEMMA FineRepay ==
  ASSUME NEW p \in Portfolio, NEW t \in Nat, Fine(p, t), NEW i \in DOMAIN p.loans,
         p.loans[i].active, Covers(p, p.loans[i].debtKey, p.loans[i].debt)
  PROVE  Fine([Credit(Debit(p, p.loans[i].debtKey, p.loans[i].debt), p.loans[i].colKey, p.loans[i].col)
                 EXCEPT !.loans[i].active = FALSE], t)
<1> DEFINE l == p.loans[i]
           x == [l EXCEPT !.active = FALSE]
           a == l.debtKey
           b == l.colKey
           c == Credit(Debit(p, a, l.debt), b, l.col)
           q == [c EXCEPT !.loans[i].active = FALSE]
<1>1. l \in LoanRecord
  BY PortfolioFields, ListDomain
<1>2. x \in LoanRecord
  BY <1>1 DEF LoanRecord
<1>3. a \in Key /\ b \in Key /\ l.debt \in Nat /\ l.col \in Nat
  BY <1>1 DEF LoanRecord
<1>4. /\ c \in Portfolio /\ SameRecords(p, c)
      /\ \A k \in Key : c.bal[k] - p.bal[k] <= (IF k = b THEN l.col ELSE 0) - (IF k = a THEN l.debt ELSE 0)
  BY <1>3, ExchangeBalances
<1> HIDE DEF c
<1>5. c.loans = p.loans /\ i \in DOMAIN c.loans /\ c.stakes = p.stakes
  BY <1>4 DEF SameRecords
<1>6. q \in Portfolio
  BY <1>4, <1>5, ClosedOK
<1>7. q.bal = c.bal /\ q.stakes = p.stakes
  BY <1>4, <1>5 DEF Portfolio
<1>8. ASSUME NEW k \in Key
      PROVE  q.bal[k] - p.bal[k] <= Net(q, k, t) - Net(p, k, t)
  <2>1. Net(q, k, t) = Net(c, k, t) - LoanNet(k)[l] + LoanNet(k)[x]
    BY <1>4, <1>5, OneClosed
  <2>2. Net(c, k, t) = Net(p, k, t)
    BY <1>4, SameNet
  <2>3. Net(p, k, t) \in Int /\ LoanNet(k)[l] \in Int /\ LoanNet(k)[x] \in Int
    BY <1>1, <1>2, NetType, NetTypes
  <2>5. /\ x.colKey = b /\ x.debtKey = a /\ x.col = l.col /\ x.debt = l.debt /\ x.type = l.type
        /\ ~x.active /\ l.active
    BY <1>1 DEF LoanRecord
  <2> HIDE DEF x
  <2>7. LoanNet(k)[l] = Borrowed(k)[l] - (IF k = b THEN l.col ELSE 0)
    BY <1>1, <1>3, <2>5, NetTypes DEF LoanNet, Released, Pledged, Repaid
  <2>8. LoanNet(k)[x] = Borrowed(k)[x] - (IF k = a THEN l.debt ELSE 0)
    BY <1>2, <1>3, <2>5, NetTypes DEF LoanNet, Released, Pledged, Repaid
  <2>6. Borrowed(k)[x] = Borrowed(k)[l] /\ Borrowed(k)[l] \in Int
    BY <1>1, <1>2, <2>5, NetTypes DEF Borrowed
  <2>9. LoanNet(k)[x] - LoanNet(k)[l] = (IF k = b THEN l.col ELSE 0) - (IF k = a THEN l.debt ELSE 0)
    BY <1>3, <2>6, <2>7, <2>8
  <2>10. q.bal[k] - p.bal[k] <= LoanNet(k)[x] - LoanNet(k)[l]
    BY <1>4, <1>7, <2>9
  <2> HIDE DEF q
  <2> QED
    BY <2>1, <2>2, <2>3, <2>10
<1>9. \A j \in DOMAIN q.stakes : q.stakes[j].from <= q.stakes[j].until
  BY <1>7 DEF Fine
<1> HIDE DEF q
<1>10. Fine(q, t)
  BY <1>6, <1>8, <1>9, FineGrows
<1> QED
  BY <1>10 DEF q, c

-----------------------------------------------------------------------------
(* No copy of a portfolio has more than its records explain. *)

Explaining == ~Production(menu) /\ \A r \in Offered(menu) : Recorded(r)

RecordedOps == {"read", "stake", "unstake", "deposit", "swap", "mint", "give", "task", "loan",
                "repay", "send"}

\* A request at work that keeps records, on a copy that is explained.
RequestFine(b, t) ==
  /\ b.pc \notin {"leg", "deploy", "update"}
  /\ b.pc = "loaded" => b.req.op \in RecordedOps /\ Fine(b.p, t)

CopiesFine ==
  /\ cache # NoPortfolio => Fine(cache, day)
  /\ file \notin {NoPortfolio, Unreadable} => Fine(file, day)
  /\ \A c \in Client : RequestFine(client[c], day)

\* The pools are those of the configuration, so that no swap goes through one
\* that a client made.
Accounted == Explaining => pools = SeedPools /\ CopiesFine

LEMMA RequestSet ==
  ASSUME Copies, CopiesFine, day' = day, NEW c \in Client, NEW b, RequestFine(b, day),
         client' = [client EXCEPT ![c] = b]
  PROVE  \A o \in Client : RequestFine(client'[o], day')
<1>1. client'[c] = b /\ \A o \in Client \ {c} : client'[o] = client[o]
  BY DEF Copies, RequestsOK
<1> QED
  BY <1>1 DEF CopiesFine

LEMMA IdleFine == \A t : RequestFine(Idle, t)
BY DEF RequestFine, Idle

LEMMA DoneFine ==
  ASSUME Copies, CopiesFine, day \in Nat, day' = day, NEW c \in Client, NEW p \in Portfolio,
         Fine(p, day), NEW t \in DOMAIN Reward \cup {"none"}, Done(c, p, t)
  PROVE  CopiesFine'
<1> DEFINE last == IF t = "none" THEN p ELSE completeTask(p, t)
<1>1. Fine(last, day)
  BY FineTask
<1>2. cache' = last /\ file' \in {file, p, last} /\ client' = [client EXCEPT ![c] = Idle]
  BY DEF Done
<1> HIDE DEF last
<1>3. \A o \in Client : RequestFine(client'[o], day')
  BY <1>2, IdleFine, RequestSet
<1> QED
  BY <1>1, <1>2, <1>3 DEF CopiesFine

LEMMA DropFine ==
  ASSUME Copies, CopiesFine, day' = day, NEW c \in Client, NEW p, Fine(p, day), Drop(c, p)
  PROVE  CopiesFine'
<1>1. cache' \in {cache, p} /\ file' = file /\ client' = [client EXCEPT ![c] = Idle]
  BY DEF Drop
<1>2. \A o \in Client : RequestFine(client'[o], day')
  BY <1>1, IdleFine, RequestSet
<1> QED
  BY <1>1, <1>2 DEF CopiesFine

LEMMA LoadFine ==
  ASSUME Copies, CopiesFine, ~Production(menu), day \in Nat, CanLoad
  PROVE  Fine(Load, day)
BY FineDefault DEF CopiesFine, CanLoad, Load

LEMMA GetPortfolioFine ==
  ASSUME Copies, CopiesFine, ~Production(menu), day \in Nat, nodeBal \in UInt, day' = day,
         NEW c \in Client, NEW r, r.op \in RecordedOps, NEW work, NEW next,
         GetPortfolio(c, r, work, next)
  PROVE  CopiesFine'
<1>1. PICK up : LET p == Synced(Load, up)
                IN  /\ cache' = p /\ file' \in {file, p}
                    /\ client' = [client EXCEPT ![c] =
                         [pc |-> "loaded", req |-> r, p |-> p, work |-> work, next |-> next]]
  BY DEF GetPortfolio
<1> DEFINE p == Synced(Load, up)
           b == [pc |-> "loaded", req |-> r, p |-> p, work |-> work, next |-> next]
<1>2. Load \in Portfolio /\ Fine(Load, day)
  BY LoadOK, LoadFine DEF Copies, GetPortfolio
<1>3. Fine(p, day)
  BY <1>2, FineSynced
<1>4. cache' = p /\ file' \in {file, p} /\ client' = [client EXCEPT ![c] = b]
  BY <1>1
<1> HIDE DEF p
<1>5. RequestFine(b, day)
  BY <1>3 DEF RequestFine
<1> HIDE DEF b
<1>6. \A o \in Client : RequestFine(client'[o], day')
  BY <1>4, <1>5, RequestSet
<1> QED
  BY <1>3, <1>4, <1>6 DEF CopiesFine

LEMMA AcceptFine ==
  ASSUME Copies, CopiesFine, Explaining, pools = SeedPools, day \in Nat, nodeBal \in UInt,
         NEW c \in Client, Accept(c)
  PROVE  CopiesFine' /\ pools' = pools
<1>1. PICK r \in Offered(menu) :
         \/ SwapByPool(r) \/ r.op \in {"bridge", "add", "remove"} \/ PrepareOther(c, r)
  BY DEF Accept
<1>2. UNCHANGED <<pools, day>>
  BY DEF Accept
<1>3. Recorded(r)
  BY DEF Explaining
<1>4. ~SwapByPool(r)
  BY <1>3 DEF SwapByPool, Recorded, HasPool
<1>5. PrepareOther(c, r)
  BY <1>1, <1>3, <1>4 DEF Recorded
<1>6. r.op \in RecordedOps
  BY <1>3, <1>5 DEF PrepareOther, Recorded, RecordedOps
<1>7. CopiesFine'
  BY <1>2, <1>5, <1>6, GetPortfolioFine DEF PrepareOther, Explaining
<1> QED
  BY <1>2, <1>7

LEMMA RequestsFine ==
  ASSUME CopiesFine, NEW c \in Client
  PROVE  /\ client[c].pc \notin {"leg", "deploy", "update"}
         /\ client[c].pc = "loaded" => client[c].req.op \in RecordedOps /\ Fine(client[c].p, day)
BY DEF CopiesFine, RequestFine

LEMMA ServedCopy ==
  ASSUME Copies, CopiesFine, NEW c \in Client, client[c].pc = "loaded"
  PROVE  client[c].p \in Portfolio /\ Fine(client[c].p, day) /\ client[c].req \in PlainRequest
<1>1. client[c].req.op \in RecordedOps /\ Fine(client[c].p, day)
  BY RequestsFine
<1> QED
  BY <1>1, WhatIsServed DEF Copies, RecordedOps

LEMMA StakeFine ==
  ASSUME Copies, CopiesFine, day \in Nat, day' = day, NEW c \in Client, Stake(c)
  PROVE  CopiesFine'
<1> DEFINE p == client[c].p
           r == client[c].req
           receipt == r.amt + r.amt \div BonusBase
           rec == [pool |-> r.pool, amt |-> r.amt, receipt |-> receipt,
                   from |-> day, until |-> day + r.pool.lock, active |-> TRUE]
           q == [Credit(Debit(p, r.pool.stake, r.amt), r.pool.receipt, receipt)
                   EXCEPT !.stakes = Append(@, rec)]
<1>1. p \in Portfolio /\ Fine(p, day) /\ r \in PlainRequest /\ r.op = "stake"
  BY ServedCopy DEF Stake, Serving
<1> HIDE DEF p
<1>2. r.pool \in StakePools /\ r.amt \in Nat
  BY <1>1, PlainFields, Integers64
<1>3. /\ r.pool.stake \in Key /\ r.pool.receipt \in Key /\ r.pool.lock \in Nat
      /\ BonusBase \in Nat \ {0}
  BY <1>2, BridgeAssumption
<1>4. rec \in StakeRecord /\ rec.from <= rec.until /\ receipt \in Nat
  BY <1>2, <1>3 DEF StakeRecord
<1>5. CASE ~Covers(p, r.pool.stake, r.amt)
  BY <1>1, <1>5, DropFine DEF Stake, p
<1>6. CASE Covers(p, r.pool.stake, r.amt)
  <2>1. Done(c, q, "first-stake")
    BY <1>6 DEF Stake, p
  <2>2. /\ rec.pool.stake = r.pool.stake /\ rec.pool.receipt = r.pool.receipt
        /\ rec.amt = r.amt /\ rec.receipt = receipt /\ rec.active
    OBVIOUS
  <2>3. Credit(Debit(p, r.pool.stake, r.amt), r.pool.receipt, receipt) \in Portfolio
    BY <1>1, <1>2, <1>3, <1>4, <1>6, ExchangeBalances
  <2> HIDE DEF rec, receipt
  <2>4. q \in Portfolio
    BY <1>4, <2>3, RecordsOK
  <2>5. Fine(q, day)
    BY <1>1, <1>4, <1>6, <2>2, FineStake
  <2> HIDE DEF q
  <2> QED
    BY <2>1, <2>4, <2>5, DoneFine, BridgeAssumption
<1> QED
  BY <1>5, <1>6

LEMMA UnstakeFine ==
  ASSUME Copies, CopiesFine, day \in Nat, day' = day, NEW c \in Client, Unstake(c)
  PROVE  CopiesFine'
<1> DEFINE p == client[c].p
           i == client[c].req.id
           s == p.stakes[i]
           d == Credit(Debit(p, s.pool.receipt, s.receipt), s.pool.stake, s.amt + StakeReward(s, day))
           q == [d EXCEPT !.stakes[i].active = FALSE]
           open == /\ i \in DOMAIN p.stakes /\ s.active /\ day >= s.until
                   /\ Covers(p, s.pool.receipt, s.receipt)
<1>1. p \in Portfolio /\ Fine(p, day)
  BY ServedCopy DEF Unstake, Serving
<1>2. (open /\ Done(c, q, "none")) \/ (~open /\ Drop(c, p))
  BY DEF Unstake
<1> HIDE DEF p, i
<1>3. CASE ~open
  BY <1>1, <1>2, <1>3, DropFine
<1>4. CASE open
  <2>1. Fine(q, day)
    BY <1>1, <1>4, FineUnstake
  <2>2. s \in StakeRecord
    BY <1>1, <1>4, PortfolioFields, ListDomain
  <2>9. StakeReward(s, day) \in Int
    BY <2>2, RewardGrows
  <2>10. StakePools \subseteq [stake : Key, receipt : Key, min : Nat, lock : Nat, apy : Nat]
    BY BridgeAssumption
  <2>3. /\ s.pool.receipt \in Key /\ s.pool.stake \in Key /\ s.receipt \in Nat
        /\ s.amt + StakeReward(s, day) \in Int
    BY <2>2, <2>9, <2>10 DEF StakeRecord
  <2>4. Debit(p, s.pool.receipt, s.receipt) \in Portfolio
        /\ SameRecords(p, Debit(p, s.pool.receipt, s.receipt))
    BY <1>1, <1>4, <2>3, DebitBalances
  <2>5. d \in Portfolio /\ d.stakes = p.stakes
    <3> DEFINE e == Debit(p, s.pool.receipt, s.receipt)
               m == s.amt + StakeReward(s, day)
    <3>1. e \in Portfolio /\ e.stakes = p.stakes /\ m \in Int
      BY <2>3, <2>4 DEF SameRecords
    <3> HIDE DEF e, m
    <3>2. Credit(e, s.pool.stake, m) \in Portfolio
      BY <2>3, <3>1, CreditOK
    <3>3. Credit(e, s.pool.stake, m).stakes = e.stakes
      BY <3>1 DEF Credit, Portfolio
    <3> QED
      BY <3>1, <3>2, <3>3 DEF e, m
  <2> HIDE DEF d
  <2>6. q \in Portfolio
    BY <1>4, <2>5, ClosedOK
  <2>7. Done(c, q, "none")
    BY <1>2, <1>4
  <2> HIDE DEF q
  <2> QED
    BY <2>1, <2>6, <2>7, DoneFine
<1> QED
  BY <1>3, <1>4

LEMMA DepositFine ==
  ASSUME Copies, CopiesFine, day \in Nat, day' = day, NEW c \in Client, RecordDeposit(c)
  PROVE  CopiesFine'
<1> DEFINE p == client[c].p
           r == client[c].req
           own == r.key \in OnexKey
           rec == [key |-> r.key, amt |-> r.amt, status |-> IF own THEN "confirmed" ELSE "pending"]
           d == IF own THEN Credit(p, r.key, r.amt) ELSE p
           q == [d EXCEPT !.deposits = Append(@, rec)]
<1>1. p \in Portfolio /\ Fine(p, day) /\ r \in PlainRequest /\ r.op = "deposit"
  BY ServedCopy DEF RecordDeposit, Serving
<1>2. Done(c, q, "deposit") \/ Done(c, q, "none")
  BY DEF RecordDeposit
<1> HIDE DEF p
<1>3. r.key \in Key /\ r.amt \in Nat
  BY <1>1, PlainFields, Integers64
<1>4. rec \in DepositRecord /\ d \in Portfolio
  BY <1>1, <1>3, CreditOK DEF DepositRecord
<1>5. rec.key = r.key /\ rec.amt = r.amt /\ (rec.status = "confirmed" <=> own)
  OBVIOUS
<1>6. Fine(q, day)
  <2>1. q = [IF rec.status = "confirmed" THEN Credit(p, rec.key, rec.amt) ELSE p
               EXCEPT !.deposits = Append(@, rec)]
    BY <1>5
  <2> HIDE DEF q, rec
  <2> QED
    BY <1>1, <1>4, <2>1, FineDeposit
<1> HIDE DEF d, rec
<1>7. q \in Portfolio
  BY <1>4, RecordsOK
<1> HIDE DEF q
<1> QED
  BY <1>2, <1>6, <1>7, DoneFine, BridgeAssumption

LEMMA SwapFine ==
  ASSUME Copies, CopiesFine, day \in Nat, day' = day, NEW c \in Client, SwapExecute(c)
  PROVE  CopiesFine'
<1> DEFINE p == client[c].p
           r == client[c].req
           out == (r.amt * Rate[r.from, r.to]) \div RateBase
           rec == [from |-> r.from, to |-> r.to, in |-> r.amt, out |-> out]
           d == Credit(Debit(p, r.from, r.amt), r.to, out)
           q == [d EXCEPT !.swaps = Append(@, rec)]
<1>1. p \in Portfolio /\ Fine(p, day) /\ r \in PlainRequest /\ r.op = "swap"
  BY ServedCopy DEF SwapExecute, Serving
<1>2. \/ Covers(p, r.from, r.amt) /\ Done(c, q, "first-swap")
      \/ Drop(c, p)
  BY DEF SwapExecute
<1> HIDE DEF p
<1>3. r.from \in Key /\ r.to \in Key /\ r.amt \in Nat
  BY <1>1, PlainFields, Integers64
<1>4. out \in Nat
  <2>1. Rate[r.from, r.to] \in Nat /\ RateBase \in Nat \ {0}
    <3>1. Rate \in [Key \X Key -> Nat] /\ RateBase \in Nat \ {0}
      BY BridgeAssumption
    <3>2. <<r.from, r.to>> \in Key \X Key
      BY <1>3
    <3> QED
      BY <3>1, <3>2
  <2>2. r.amt * Rate[r.from, r.to] \in Nat
    BY <1>3, <2>1, ProductType
  <2> QED
    BY <2>1, <2>2, Quotient
<1> HIDE DEF out
<1>5. rec \in SwapRecord
  BY <1>3, <1>4 DEF SwapRecord
<1>6. rec.from = r.from /\ rec.to = r.to /\ rec.in = r.amt /\ rec.out = out
  OBVIOUS
<1> HIDE DEF rec
<1>7. CASE Covers(p, r.from, r.amt) /\ Done(c, q, "first-swap")
  <2>1. d \in Portfolio
    BY <1>1, <1>3, <1>4, <1>7, ExchangeBalances
  <2>2. q \in Portfolio
    BY <1>5, <2>1, RecordsOK
  <2>3. Fine(q, day)
    BY <1>1, <1>5, <1>6, <1>7, FineSwap
  <2> HIDE DEF q
  <2> QED
    BY <1>7, <2>2, <2>3, DoneFine, BridgeAssumption
<1>8. CASE Drop(c, p)
  BY <1>1, <1>8, DropFine
<1> QED
  BY <1>2, <1>7, <1>8

LEMMA ReadFine ==
  ASSUME Copies, CopiesFine, day' = day, NEW c \in Client, Read(c)
  PROVE  CopiesFine'
BY ServedCopy, DropFine DEF Read, Serving

LEMMA MintFine ==
  ASSUME Copies, CopiesFine, day \in Nat, day' = day, NEW c \in Client, MintNFT(c)
  PROVE  CopiesFine'
<1> DEFINE p == client[c].p
           q == [p EXCEPT !.nfts = Append(@, "self")]
<1>1. p \in Portfolio /\ Fine(p, day)
  BY ServedCopy DEF MintNFT, Serving
<1>2. Append(p.nfts, "self") \in Seq({"self", "other"})
  BY <1>1, PortfolioFields
<1>3. Fine([p EXCEPT !.nfts = Append(p.nfts, "self")], day)
  BY <1>1, <1>2, FineNfts
<1>4. q \in Portfolio
  BY <1>1, RecordsOK
<1>5. Done(c, q, "mint-nft")
  BY DEF MintNFT
<1>6. Fine(q, day)
  BY <1>3
<1> HIDE DEF q
<1> QED
  BY <1>4, <1>5, <1>6, DoneFine, BridgeAssumption

LEMMA GiveFine ==
  ASSUME Copies, CopiesFine, day \in Nat, day' = day, NEW c \in Client, TransferNFT(c)
  PROVE  CopiesFine'
<1> DEFINE p == client[c].p
           r == client[c].req
           l == [p.nfts EXCEPT ![r.id] = r.to]
           q == [p EXCEPT !.nfts[r.id] = r.to]
<1>1. p \in Portfolio /\ Fine(p, day) /\ r \in PlainRequest /\ r.op = "give"
  BY ServedCopy DEF TransferNFT, Serving
<1>2. r.to = "other"
  BY <1>1, PlainFields
<1>3. CASE r.id \notin DOMAIN p.nfts
  BY <1>1, <1>3, DropFine DEF TransferNFT
<1>4. CASE r.id \in DOMAIN p.nfts
  <2>1. l \in Seq({"self", "other"})
    BY <1>1, <1>2, <1>4, PortfolioFields
  <2>2. q = [p EXCEPT !.nfts = l]
    OBVIOUS
  <2> HIDE DEF l
  <2>3. q \in Portfolio /\ Fine(q, day)
    BY <1>1, <2>1, <2>2, ListsOK, FineNfts
  <2>4. Done(c, q, "none")
    BY <1>4 DEF TransferNFT
  <2> HIDE DEF q
  <2> QED
    BY <2>3, <2>4, DoneFine
<1> QED
  BY <1>3, <1>4

LEMMA TaskFine ==
  ASSUME Copies, CopiesFine, day \in Nat, day' = day, NEW c \in Client, CompleteTask(c)
  PROVE  CopiesFine'
<1>1. /\ client[c].p \in Portfolio /\ Fine(client[c].p, day) /\ client[c].req \in PlainRequest
      /\ client[c].req.op = "task"
  BY ServedCopy DEF CompleteTask, Serving
<1>2. client[c].req.id \in DOMAIN Reward
  BY <1>1, PlainFields
<1> QED
  BY <1>1, <1>2, DoneFine, DropFine DEF CompleteTask

LEMMA LoanFine ==
  ASSUME Copies, CopiesFine, day \in Nat, day' = day, NEW c \in Client, CreateLoan(c)
  PROVE  CopiesFine'
<1> DEFINE p == client[c].p
           r == client[c].req
           q == Debit(p, r.colKey, r.col)
           lent == IF r.type = "borrow" THEN Credit(q, r.debtKey, r.debt) ELSE q
           rec == [type |-> r.type, colKey |-> r.colKey, col |-> r.col,
                   debtKey |-> r.debtKey, debt |-> r.debt, active |-> TRUE]
           last == [lent EXCEPT !.loans = Append(@, rec)]
<1>1. p \in Portfolio /\ Fine(p, day) /\ r \in PlainRequest /\ r.op = "loan"
  BY ServedCopy DEF CreateLoan, Serving
<1>2. /\ r.type \in {"borrow", "lend"} /\ r.colKey \in Key /\ r.col \in Nat /\ r.debtKey \in Key
      /\ r.debt # BadAmount => r.debt \in Nat
  BY <1>1, PlainFields, Integers64
<1>3. CASE ~Covers(p, r.colKey, r.col)
  BY <1>1, <1>3, DropFine DEF CreateLoan
<1>4. CASE Covers(p, r.colKey, r.col)
  <2>1. q \in Portfolio /\ Fine(q, day)
    BY <1>1, <1>2, <1>4, DebitOK, FineDebit
  <2>2. CASE r.debt = BadAmount
    BY <1>4, <2>1, <2>2, DropFine DEF CreateLoan
  <2>3. CASE r.debt # BadAmount
    <3>1. Done(c, last, "none")
      BY <1>4, <2>3 DEF CreateLoan
    <3>2. rec \in LoanRecord
      BY <1>2, <2>3 DEF LoanRecord
    <3>3. /\ rec.type = r.type /\ rec.colKey = r.colKey /\ rec.col = r.col
          /\ rec.debtKey = r.debtKey /\ rec.debt = r.debt /\ rec.active
      OBVIOUS
    <3>4. last = [IF rec.type = "borrow"
                  THEN Credit(Debit(p, rec.colKey, rec.col), rec.debtKey, rec.debt)
                  ELSE Debit(p, rec.colKey, rec.col) EXCEPT !.loans = Append(@, rec)]
      BY <3>3
    <3>5. lent \in Portfolio
      <4> HIDE DEF q
      <4> QED
        BY <2>1, <2>3, <1>2, CreditOK
    <3> HIDE DEF rec, lent
    <3>6. last \in Portfolio
      BY <3>2, <3>5, RecordsOK
    <3> HIDE DEF last
    <3>7. Fine(last, day)
      BY <1>1, <1>4, <3>2, <3>3, <3>4, FineLoan
    <3> QED
      BY <3>1, <3>6, <3>7, DoneFine
  <2> QED
    BY <2>2, <2>3
<1> QED
  BY <1>3, <1>4

LEMMA RepayFine ==
  ASSUME Copies, CopiesFine, day \in Nat, day' = day, NEW c \in Client, RepayLoan(c)
  PROVE  CopiesFine'
<1> DEFINE p == client[c].p
           i == client[c].req.id
           l == p.loans[i]
           d == Debit(p, l.debtKey, l.debt)
           v == Credit(d, l.colKey, l.col)
           q == [v EXCEPT !.loans[i].active = FALSE]
           open == i \in DOMAIN p.loans /\ l.active /\ Covers(p, l.debtKey, l.debt)
<1>1. p \in Portfolio /\ Fine(p, day)
  BY ServedCopy DEF RepayLoan, Serving
<1>2. (open /\ Done(c, q, "none")) \/ (~open /\ Drop(c, p))
  BY DEF RepayLoan
<1> HIDE DEF p, i
<1>3. CASE ~open
  BY <1>1, <1>2, <1>3, DropFine
<1>4. CASE open
  <2>1. Fine(q, day)
    BY <1>1, <1>4, FineRepay
  <2>2. l \in LoanRecord
    BY <1>1, <1>4, PortfolioFields, ListDomain
  <2>3. l.debtKey \in Key /\ l.debt \in Nat /\ l.colKey \in Key /\ l.col \in Nat
    BY <2>2 DEF LoanRecord
  <2>4. v \in Portfolio /\ SameRecords(p, v)
    BY <1>1, <1>4, <2>3, ExchangeBalances
  <2> HIDE DEF v
  <2>5. i \in DOMAIN v.loans
    BY <1>4, <2>4 DEF SameRecords
  <2>6. q \in Portfolio
    BY <2>4, <2>5, ClosedOK
  <2>7. Done(c, q, "none")
    BY <1>2, <1>4
  <2> HIDE DEF q
  <2> QED
    BY <2>1, <2>6, <2>7, DoneFine
<1> QED
  BY <1>3, <1>4

LEMMA SendFine ==
  ASSUME Copies, CopiesFine, day \in Nat, day' = day, NEW c \in Client, SendToken(c)
  PROVE  CopiesFine'
<1> DEFINE p == client[c].p
           r == client[c].req
<1>1. p \in Portfolio /\ Fine(p, day) /\ r \in PlainRequest /\ r.op = "send"
  BY ServedCopy DEF SendToken, Serving
<1>2. r.key \in Key /\ r.amt \in Nat
  BY <1>1, PlainFields, Integers64
<1>3. CASE ~Covers(p, r.key, r.amt)
  BY <1>1, <1>3, DropFine DEF SendToken
<1>4. CASE Covers(p, r.key, r.amt)
  <2> DEFINE q == Debit(p, r.key, r.amt)
  <2>1. q \in Portfolio /\ Fine(q, day)
    BY <1>1, <1>2, <1>4, DebitOK, FineDebit
  <2>2. Done(c, q, "none")
    BY <1>4 DEF SendToken
  <2> HIDE DEF q
  <2> QED
    BY <2>1, <2>2, DoneFine
<1> QED
  BY <1>3, <1>4

\* Nothing else serves the requests that are recorded.
LEMMA ServeFine ==
  ASSUME BridgeInv, Explaining, pools = SeedPools, CopiesFine, NEW c \in Client, Serve(c)
  PROVE  CopiesFine' /\ pools' = pools
<1>1. Copies /\ day \in Nat /\ nodeBal \in UInt
  BY DEF BridgeInv
<1>2. client[c].pc \notin {"leg", "deploy", "update"}
      /\ (client[c].pc = "loaded" => client[c].req.op \in RecordedOps)
  BY RequestsFine
<1>3. ~AcceptLeg(c) /\ ~UpdatePool(c) /\ ~DeployPlatformToken(c)
  BY <1>2 DEF AcceptLeg, UpdatePool, DeployPlatformToken
<1>4. /\ ~OneXSwapExecute(c) /\ ~OneXSwapAddLiquidity(c) /\ ~OneXSwapRemoveLiquidity(c)
      /\ ~WrapPlatformToken(c)
  BY <1>2 DEF OneXSwapExecute, OneXSwapAddLiquidity, OneXSwapRemoveLiquidity, WrapPlatformToken,
              Serving, RecordedOps
<1>5. ~AcceptDeploy(c)
  BY DEF AcceptDeploy, Explaining, Recorded
<1>6. CASE Accept(c)
  BY <1>1, <1>6, AcceptFine
<1>7. CASE Send(c)
  BY <1>7 DEF Send, CopiesFine
<1>8. CASE Read(c) \/ Stake(c) \/ Unstake(c) \/ RecordDeposit(c) \/ SwapExecute(c)
  <2>1. day' = day /\ pools' = pools
    BY <1>8 DEF Read, Stake, Unstake, RecordDeposit, SwapExecute, Elsewhere
  <2> QED
    BY <1>1, <1>8, <2>1, ReadFine, StakeFine, UnstakeFine, DepositFine, SwapFine
<1>9. CASE MintNFT(c) \/ TransferNFT(c) \/ CompleteTask(c) \/ CreateLoan(c) \/ RepayLoan(c) \/ SendToken(c)
  <2>1. day' = day /\ pools' = pools
    BY <1>9 DEF MintNFT, TransferNFT, CompleteTask, CreateLoan, RepayLoan, SendToken, Elsewhere
  <2> QED
    BY <1>1, <1>9, <2>1, MintFine, GiveFine, TaskFine, LoanFine, RepayFine, SendFine
<1> QED
  BY <1>3, <1>4, <1>5, <1>6, <1>7, <1>8, <1>9 DEF Serve

LEMMA BookRequestFine ==
  ASSUME BridgeInv, Explaining, CopiesFine, NEW c \in Client, BookRequest(c)
  PROVE  CopiesFine' /\ pools' = pools
<1>0. PICK r \in Offered(menu), up \in BOOLEAN, bankUp \in BOOLEAN : BookAsked(c, r, up, bankUp)
  BY BookRequestAsked
<1>1. LET p == Synced(IF CanLoad THEN Load ELSE DefaultPortfolio, up)
      IN  /\ IF CanLoad THEN cache' = p /\ file' \in {file, p} ELSE UNCHANGED <<cache, file>>
          /\ client' = [client EXCEPT ![c] =
               IF r.op = "peek" THEN Idle
               ELSE [pc |-> "snapshot", req |-> r, snap |-> Snapshot(p, up, bankUp, imports')]]
  BY <1>0 DEF BookAsked
<1> DEFINE from == IF CanLoad THEN Load ELSE DefaultPortfolio
           p == Synced(from, up)
           b == IF r.op = "peek" THEN Idle
                ELSE [pc |-> "snapshot", req |-> r, snap |-> Snapshot(p, up, bankUp, imports')]
<1>2. Copies /\ day \in Nat /\ nodeBal \in UInt /\ ~Production(menu)
  BY DEF BridgeInv, Explaining
<1>3. from \in Portfolio /\ Fine(from, day)
  BY <1>2, LoadOK, LoadFine, DefaultOK, FineDefault DEF Copies
<1> HIDE DEF from
<1>4. Fine(p, day)
  BY <1>2, <1>3, FineSynced
<1> HIDE DEF p
<1>5. day' = day /\ pools' = pools
  BY DEF BookRequest
<1>6. b.pc \in {"idle", "snapshot"}
  BY DEF Idle
<1>7. /\ CanLoad => cache' = p /\ file' \in {file, p}
      /\ ~CanLoad => UNCHANGED <<cache, file>>
      /\ client' = [client EXCEPT ![c] = b]
  BY <1>1 DEF p, from
<1> HIDE DEF b
<1>8. RequestFine(b, day)
  BY <1>6 DEF RequestFine
<1>9. \A o \in Client : RequestFine(client'[o], day')
  BY <1>2, <1>5, <1>7, <1>8, RequestSet
<1> QED
  BY <1>4, <1>5, <1>7, <1>9 DEF CopiesFine

\* The book's other steps leave the portfolio alone.
LEMMA AsideFine ==
  ASSUME Copies, CopiesFine, NEW c \in Client, BookFrozen, NEW b, RequestFine(b, day),
         client' = [client EXCEPT ![c] = b]
  PROVE  CopiesFine' /\ pools' = pools
<1>1. day' = day
  BY DEF BookFrozen
<1>2. \A o \in Client : RequestFine(client'[o], day')
  BY <1>1, RequestSet
<1> QED
  BY <1>2 DEF CopiesFine, BookFrozen

LEMMA BookStepFine ==
  ASSUME BridgeInv, Explaining, CopiesFine, NEW c \in Client, BookStep(c)
  PROVE  CopiesFine' /\ pools' = pools
<1> DEFINE pay(w) == [pc |-> "settle", work |-> w]
           copied(w) == [pc |-> "copied", work |-> w]
           synced(r) == [pc |-> "synced", req |-> r]
<1>1. Copies
  BY DEF BridgeInv
<1>2. CASE BookRequest(c)
  BY <1>2, BookRequestFine
<1>3. /\ RequestFine(Idle, day)
      /\ \A w : RequestFine(pay(w), day) /\ RequestFine(copied(w), day) /\ RequestFine(synced(w), day)
  BY IdleFine DEF RequestFine
<1> HIDE DEF pay, copied, synced
<1>4. CASE BookFrozen /\ client' = [client EXCEPT ![c] = Idle]
  BY <1>1, <1>3, <1>4, AsideFine, Zenon
<1>5. ASSUME NEW w, BookFrozen, client' = [client EXCEPT ![c] = pay(w)]
      PROVE  CopiesFine' /\ pools' = pools
  BY <1>1, <1>3, <1>5, AsideFine, Zenon
<1>6. ASSUME NEW w, BookFrozen, client' = [client EXCEPT ![c] = copied(w)]
      PROVE  CopiesFine' /\ pools' = pools
  BY <1>1, <1>3, <1>6, AsideFine, Zenon
<1>7. ASSUME NEW r, BookFrozen, client' = [client EXCEPT ![c] = synced(r)]
      PROVE  CopiesFine' /\ pools' = pools
  BY <1>1, <1>3, <1>7, AsideFine, Zenon
<1>8. CASE SyncFromSnapshot(c)
  <2>1. BookFrozen
    BY <1>8 DEF SyncFromSnapshot
  <2>2. \/ client' = [client EXCEPT ![c] = synced(client[c].req)]
        \/ client' = [client EXCEPT ![c] = Idle]
    BY <1>8, Zenon DEF SyncFromSnapshot, SaveBook, EndRequest, synced
  <2> QED
    BY <1>4, <1>7, <2>1, <2>2, Zenon
<1>9. CASE Transfer(c)
  <2>1. BookFrozen
    BY <1>9 DEF Transfer
  <2>2. client' = [client EXCEPT ![c] = Idle] \/ \E w : client' = [client EXCEPT ![c] = copied(w)]
    BY <1>9 DEF Transfer, copied
  <2> QED
    BY <1>4, <1>6, <2>1, <2>2, Zenon
<1>10. CASE ApplyTransfer(c)
  <2>1. BookFrozen
    BY <1>10 DEF ApplyTransfer
  <2>2. \/ client' = [client EXCEPT ![c] = pay(client[c].work)]
        \/ client' = [client EXCEPT ![c] = Idle]
    BY <1>10, Zenon DEF ApplyTransfer, SaveBook, pay
  <2> QED
    BY <1>4, <1>5, <2>1, <2>2, Zenon
<1>11. CASE Settle(c) \/ SettleFails(c)
  <2>1. BookFrozen
    BY <1>11 DEF Settle, SettleFails
  <2>2. client' = [client EXCEPT ![c] = Idle]
    BY <1>11, Zenon DEF Settle, SettleFails, SaveBook, EndRequest
  <2> QED
    BY <1>4, <2>1, <2>2
<1> QED
  BY <1>2, <1>8, <1>9, <1>10, <1>11 DEF BookStep

LEMMA TickFine ==
  ASSUME BridgeInv, CopiesFine, Tick
  PROVE  CopiesFine' /\ pools' = pools
<1>1. Copies /\ day \in Nat /\ day' \in Nat /\ day <= day'
  BY DEF BridgeInv, Tick
<1>2. UNCHANGED <<cache, file, client, pools>>
  BY DEF Tick
<1>3. \A p \in Portfolio : Fine(p, day) => Fine(p, day')
  BY <1>1, FineLater
<1>4. ASSUME NEW c \in Client PROVE RequestFine(client[c], day')
  <2>1. RequestFine(client[c], day)
    BY DEF CopiesFine
  <2>2. client[c].pc = "loaded" => client[c].p \in Portfolio
    BY <1>1, WhatIsServed DEF Copies
  <2> QED
    BY <1>3, <2>1, <2>2 DEF RequestFine
<1> QED
  BY <1>1, <1>2, <1>3, <1>4 DEF CopiesFine, Copies, SavedOK

LEMMA CrashFine ==
  ASSUME CopiesFine, Crash
  PROVE  CopiesFine' /\ pools' = pools
<1>1. \A c \in Client : client[c].pc # "update"
  BY RequestsFine
<1>2. /\ cache' = NoPortfolio /\ file' \in {file, Unreadable} /\ day' = day
      /\ client' = [c \in Client |-> Idle]
  BY DEF Crash
<1>3. pools' = pools
  BY <1>1 DEF Crash
<1>4. \A c \in Client : RequestFine(client'[c], day')
  BY <1>2, IdleFine
<1> QED
  BY <1>2, <1>3, <1>4 DEF CopiesFine

LEMMA AccountingStarts == DaemonInit => Accounted
<1> SUFFICES ASSUME DaemonInit PROVE Accounted
  OBVIOUS
<1>1. /\ cache = NoPortfolio /\ file = NoPortfolio /\ pools = SeedPools
      /\ client = [c \in Client |-> Idle]
  BY DEF DaemonInit, Init
<1> QED
  BY <1>1, IdleFine DEF Accounted, CopiesFine

LEMMA AccountingStays == DaemonInv /\ Accounted /\ [DaemonNext]_<<vars, bookVars>> => Accounted'
<1> SUFFICES ASSUME DaemonInv, Accounted, [DaemonNext]_<<vars, bookVars>>, Explaining'
             PROVE  pools' = SeedPools /\ CopiesFine'
  BY DEF Accounted
<1>1. Explaining
  BY MenuStays DEF Explaining
<1>2. BridgeInv /\ pools = SeedPools /\ CopiesFine
  BY <1>1 DEF Accounted, DaemonInv
<1>3. CASE UNCHANGED <<vars, bookVars>>
  BY <1>2, <1>3 DEF vars, CopiesFine
<1>4. CASE \E c \in Client : Serve(c)
  BY <1>1, <1>2, <1>4, ServeFine
<1>5. CASE \E c \in Client : BookStep(c)
  BY <1>1, <1>2, <1>5, BookStepFine
<1>6. CASE Tick
  BY <1>2, <1>6, TickFine
<1>7. CASE DaemonCrash
  BY <1>2, <1>7, CrashFine DEF DaemonCrash
<1> QED
  BY <1>3, <1>4, <1>5, <1>6, <1>7 DEF DaemonNext

\* Without the requests that pay into pools or make tokens, no copy of the
\* portfolio ever has more of a token than its own records explain, however
\* requests overlap, fail halfway or are cut off (GetPortfolio, Save, SubBalance).
THEOREM BalancesAreExplained == DaemonSpec => []Explained
<1>1. ASSUME DaemonInv, Accounted PROVE Explained
  <2> SUFFICES ASSUME Explaining,
                      NEW p \in {cache, file} \cup {client[c].p : c \in {x \in Client : client[x].pc = "loaded"}},
                      p \notin {NoPortfolio, Unreadable}, NEW k \in Key \ {ONEX}
               PROVE  p.bal[k] + PaidOut(p, k) <= PaidIn(p, k)
    BY DEF Explained, Explaining
  <2>1. Copies /\ CopiesFine /\ day \in Nat
    BY <1>1 DEF DaemonInv, BridgeInv, Accounted
  <2>2. p \in Portfolio /\ Fine(p, day)
    <3>1. CASE p \in {cache, file}
      BY <2>1, <3>1 DEF Copies, SavedOK, CopiesFine
    <3>2. CASE \E c \in Client : client[c].pc = "loaded" /\ p = client[c].p
      BY <2>1, <3>2, ServedCopy
    <3> QED
      BY <3>1, <3>2
  <2>3. p.bal[k] <= Net(p, k, day) /\ p.bal[k] \in Int
    BY <2>2, BalanceType DEF Fine
  <2> QED
    BY <2>1, <2>2, <2>3, NetOfRecords
<1> QED
  BY <1>1, DaemonInvariantHolds, AccountingStarts, AccountingStays, PTL DEF DaemonSpec

-----------------------------------------------------------------------------
(* One request at a time. *)

\* Only the clients of the menu are served.
InUse == \A c \in Client : client[c] # Idle => c \in Using(menu)

\* The steps of a request that has its portfolio, and end it.
Ending(c) ==
  \/ Read(c) \/ Stake(c) \/ Unstake(c) \/ RecordDeposit(c) \/ SwapExecute(c)
  \/ MintNFT(c) \/ TransferNFT(c) \/ CompleteTask(c) \/ CreateLoan(c) \/ RepayLoan(c)
  \/ SendToken(c) \/ DeployPlatformToken(c) \/ WrapPlatformToken(c)

LEMMA EndingEnds ==
  ASSUME NEW c \in Client, Ending(c)
  PROVE  /\ client' = [client EXCEPT ![c] = Idle] /\ pools' = pools /\ nodeBal' = nodeBal
         /\ client[c].pc \in {"loaded", "deploy"}
<1>1. CASE Read(c) \/ Stake(c) \/ Unstake(c) \/ RecordDeposit(c) \/ SwapExecute(c)
  <2>1. pools' = pools /\ nodeBal' = nodeBal /\ client[c].pc = "loaded"
    BY <1>1 DEF Read, Stake, Unstake, RecordDeposit, SwapExecute, Elsewhere, Serving
  <2>2. client' = [client EXCEPT ![c] = Idle]
    BY <1>1, Zenon DEF Read, Stake, Unstake, RecordDeposit, SwapExecute, Done, Drop
  <2> QED
    BY <2>1, <2>2
<1>2. CASE MintNFT(c) \/ TransferNFT(c) \/ CompleteTask(c) \/ CreateLoan(c) \/ RepayLoan(c) \/ SendToken(c)
  <2>1. pools' = pools /\ nodeBal' = nodeBal /\ client[c].pc = "loaded"
    BY <1>2 DEF MintNFT, TransferNFT, CompleteTask, CreateLoan, RepayLoan, SendToken, Elsewhere, Serving
  <2>2. client' = [client EXCEPT ![c] = Idle]
    BY <1>2, Zenon DEF MintNFT, TransferNFT, CompleteTask, CreateLoan, RepayLoan, SendToken, Done, Drop
  <2> QED
    BY <2>1, <2>2
<1>3. CASE DeployPlatformToken(c)
  <2>1. pools' = pools /\ nodeBal' = nodeBal /\ client[c].pc = "deploy"
    BY <1>3 DEF DeployPlatformToken
  <2>2. client' = [client EXCEPT ![c] = Idle]
    BY <1>3, Zenon DEF DeployPlatformToken, Done
  <2> QED
    BY <2>1, <2>2
<1>4. CASE WrapPlatformToken(c)
  <2>1. pools' = pools /\ nodeBal' = nodeBal /\ client[c].pc = "loaded"
    BY <1>4 DEF WrapPlatformToken, Serving
  <2>2. client' = [client EXCEPT ![c] = Idle]
    BY <1>4, Zenon DEF WrapPlatformToken, Done, Drop
  <2> QED
    BY <2>1, <2>2
<1> QED
  BY <1>1, <1>2, <1>3, <1>4 DEF Ending

\* The others' requests stay as they are.
OthersStay(c) == \A d \in Client \ {c} : client'[d] = client[d]

LEMMA OneSet ==
  ASSUME RequestsOK, NEW c \in Client, NEW b, client' = [client EXCEPT ![c] = b]
  PROVE  client'[c] = b /\ OthersStay(c)
BY DEF RequestsOK, OthersStay

LEMMA GetPortfolioSets ==
  ASSUME RequestsOK, NEW c \in Client, NEW r, NEW work, NEW next, GetPortfolio(c, r, work, next)
  PROVE  /\ OthersStay(c)
         /\ \E p : client'[c] = [pc |-> "loaded", req |-> r, p |-> p, work |-> work, next |-> next]
<1>1. PICK p : client' = [client EXCEPT ![c] =
                 [pc |-> "loaded", req |-> r, p |-> p, work |-> work, next |-> next]]
  BY DEF GetPortfolio
<1> QED
  BY <1>1, OneSet

LEMMA SaveFirstSets ==
  ASSUME RequestsOK, NEW c \in Client, NEW p, SaveFirst(c, p)
  PROVE  /\ OthersStay(c)
         /\ client'[c] = [client[c] EXCEPT !.pc = "update", !.p = p]
BY DEF SaveFirst, RequestsOK, OthersStay

LEMMA PreparesAlone ==
  ASSUME RequestsOK, NEW c \in Client
  PROVE  /\ \A r, next : PrepareSwap(c, r, next) => OthersStay(c)
         /\ \A r : PrepareAdd(c, r) \/ PrepareRemove(c, r) \/ PrepareOther(c, r) => OthersStay(c)
<1>1. ASSUME NEW r, NEW next, PrepareSwap(c, r, next) PROVE OthersStay(c)
  BY <1>1, GetPortfolioSets DEF PrepareSwap
<1>2. ASSUME NEW r, PrepareAdd(c, r) PROVE OthersStay(c)
  BY <1>2, GetPortfolioSets DEF PrepareAdd
<1>3. ASSUME NEW r, PrepareRemove(c, r) PROVE OthersStay(c)
  BY <1>3, GetPortfolioSets DEF PrepareRemove
<1>4. ASSUME NEW r, PrepareOther(c, r) PROVE OthersStay(c)
  BY <1>4, GetPortfolioSets DEF PrepareOther
<1> QED
  BY <1>1, <1>2, <1>3, <1>4

LEMMA ServesAlone ==
  ASSUME RequestsOK, NEW c \in Client, Serve(c)
  PROVE  OthersStay(c) /\ (client[c] # Idle \/ c \in Using(menu))
<1>1. CASE Accept(c)
  BY <1>1, PreparesAlone DEF Accept
<1>2. CASE AcceptLeg(c)
  <2>1. client[c] # Idle
    BY <1>2 DEF AcceptLeg, Idle
  <2>2. CASE client' = [client EXCEPT ![c] = Idle]
    BY <2>1, <2>2, OneSet
  <2> QED
    BY <1>2, <2>1, <2>2, PreparesAlone DEF AcceptLeg
<1>3. CASE AcceptDeploy(c) \/ Send(c)
  <2>1. CASE client' = client
    BY <1>3, <2>1 DEF AcceptDeploy, Send, OthersStay
  <2>2. CASE \E b : client' = [client EXCEPT ![c] = b]
    BY <1>3, <2>2, OneSet DEF AcceptDeploy, Send
  <2> QED
    BY <1>3, <2>1, <2>2 DEF AcceptDeploy, Send
<1>4. CASE OneXSwapExecute(c) \/ OneXSwapAddLiquidity(c) \/ OneXSwapRemoveLiquidity(c)
  <2>1. client[c] # Idle
    BY <1>4 DEF OneXSwapExecute, OneXSwapAddLiquidity, OneXSwapRemoveLiquidity, Serving, Idle
  <2>2. CASE \E p : SaveFirst(c, p)
    BY <2>1, <2>2, SaveFirstSets
  <2>3. CASE client' = [client EXCEPT ![c] = Idle]
    BY <2>1, <2>3, OneSet
  <2>4. (\E p : SaveFirst(c, p)) \/ (\E p : Drop(c, p))
    BY <1>4, Zenon DEF OneXSwapExecute, OneXSwapAddLiquidity, OneXSwapRemoveLiquidity
  <2> QED
    BY <2>2, <2>3, <2>4, Zenon DEF Drop
<1>5. CASE UpdatePool(c)
  <2>1. client[c] # Idle
    BY <1>5 DEF UpdatePool, Idle
  <2>2. \E b : client' = [client EXCEPT ![c] = b]
    BY <1>5, Zenon DEF UpdatePool
  <2> QED
    BY <2>1, <2>2, OneSet
<1>6. CASE Ending(c)
  <2>1. client[c] # Idle
    BY <1>6, EndingEnds DEF Idle
  <2> QED
    BY <1>6, <2>1, EndingEnds, OneSet
<1> QED
  BY <1>1, <1>2, <1>3, <1>4, <1>5, <1>6 DEF Serve, Ending

LEMMA BooksAlone ==
  ASSUME RequestsOK, NEW c \in Client, BookStep(c)
  PROVE  OthersStay(c) /\ (client[c] # Idle \/ c \in Using(menu))
<1>1. CASE BookRequest(c)
  <2>1. \E b : client' = [client EXCEPT ![c] = b]
    BY <1>1 DEF BookRequest
  <2> QED
    BY <1>1, <2>1, OneSet DEF BookRequest
<1>2. CASE SyncFromSnapshot(c) \/ Transfer(c) \/ ApplyTransfer(c) \/ Settle(c) \/ SettleFails(c)
  <2>1. client[c] # Idle
    BY <1>2 DEF SyncFromSnapshot, Transfer, ApplyTransfer, Settle, SettleFails, Idle
  <2>2. \E b : client' = [client EXCEPT ![c] = b]
    <3>1. CASE SyncFromSnapshot(c)
      BY <3>1, Zenon DEF SyncFromSnapshot, SaveBook, EndRequest
    <3>2. CASE Transfer(c)
      BY <3>2, Zenon DEF Transfer
    <3>3. CASE ApplyTransfer(c)
      BY <3>3, Zenon DEF ApplyTransfer, SaveBook
    <3>4. CASE Settle(c) \/ SettleFails(c)
      BY <3>4, Zenon DEF Settle, SettleFails, SaveBook, EndRequest
    <3> QED
      BY <1>2, <3>1, <3>2, <3>3, <3>4
  <2> QED
    BY <2>1, <2>2, OneSet
<1> QED
  BY <1>1, <1>2 DEF BookStep

LEMMA InUseStays == DaemonInv /\ InUse /\ [DaemonNext]_<<vars, bookVars>> => InUse'
<1> SUFFICES ASSUME DaemonInv, InUse, [DaemonNext]_<<vars, bookVars>> PROVE InUse'
  OBVIOUS
<1>1. RequestsOK /\ menu' = menu
  BY MenuStays DEF DaemonInv, BridgeInv, Copies
<1>2. CASE client' = client
  BY <1>1, <1>2 DEF InUse
<1>3. ASSUME NEW c \in Client, Serve(c) \/ BookStep(c) PROVE InUse'
  <2>1. OthersStay(c) /\ (client[c] # Idle \/ c \in Using(menu))
    BY <1>1, <1>3, ServesAlone, BooksAlone
  <2> QED
    BY <1>1, <2>1 DEF InUse, OthersStay
<1>4. CASE DaemonCrash
  BY <1>4 DEF DaemonCrash, Crash, InUse
<1> QED
  BY <1>2, <1>3, <1>4 DEF DaemonNext, Tick, vars

\* With one request at a time, whoever takes a step finds the others idle.
LEMMA OthersIdle ==
  ASSUME InUse, Serial, NEW c \in Client, client[c] # Idle \/ c \in Using(menu)
  PROVE  \A d \in Client \ {c} : client[d] = Idle
<1>1. c \in Using(menu)
  BY DEF InUse
<1>2. PICK x : Using(menu) = {x}
  BY DEF Serial
<1> QED
  BY <1>1, <1>2 DEF InUse

-----------------------------------------------------------------------------
(* The pools make the steps of the abstract pool. *)

\* The pool q, before its first deposit too.
Present(q) == IF pools[q] = NoPool THEN EmptyPool ELSE pools[q]

AtWork(b) == b.pc \in {"loaded", "update"} /\ b.req.op \in {"amm", "add", "remove"}

\* What w holds is what r does to the pool as it is now.
WorkedOut(r, w) ==
  LET old == Present(w.id)
      zeroIn == r.from = w.id[1]
  IN  /\ w.id \in Pairs
      /\ \/ /\ r.op = "amm" /\ r.amt \in UInt /\ {w.id[1], w.id[2]} = {r.from, r.to}
            /\ CanSwap(old, zeroIn, r.amt)
            /\ w.copy = Swap(old, zeroIn, r.amt) /\ w.out = AmountOut(old, zeroIn, r.amt)
         \/ /\ r.op = "add" /\ r.a0 \in UInt /\ r.a1 \in UInt /\ {w.id[1], w.id[2]} = {r.t0, r.t1}
            /\ CanAdd(old, r.a0, r.a1)
            /\ w.copy = AddLiquidity(old, r.a0, r.a1) /\ w.out = Minted(old, r.a0, r.a1)
         \/ /\ r.op = "remove" /\ r.shares \in UInt /\ w.id = r.pool
            /\ CanRemove(old, r.shares)
            /\ w.copy = RemoveLiquidity(old, r.shares)
            /\ w.out = <<Paid0(old, r.shares) % Word, Paid1(old, r.shares) % Word>>

Following(b) == AtWork(b) => WorkedOut(b.req, b.work)

\* With one request at a time the pool copied is still the one there is.
PoolsFollow == Serial => \A c \in Client : Following(client[c])

LEMMA FollowingOthers ==
  ASSUME PoolsFollow, Serial, pools' = pools, NEW c \in Client, OthersStay(c)
  PROVE  \A d \in Client \ {c} : Following(client[d])'
BY DEF PoolsFollow, Following, AtWork, WorkedOut, Present, OthersStay

\* A request that has done its preparation.
LEMMA PreparedFollows ==
  ASSUME Copies, pools' = pools, NEW c \in Client, NEW r, NEW w, NEW next,
         GetPortfolio(c, r, w, next), AtWork([pc |-> "loaded", req |-> r]) => WorkedOut(r, w)
  PROVE  Following(client[c])'
<1>1. PICK p : client'[c] = [pc |-> "loaded", req |-> r, p |-> p, work |-> w, next |-> next]
  BY GetPortfolioSets DEF Copies
<1>2. client'[c].pc = "loaded" /\ client'[c].req = r /\ client'[c].work = w
  BY <1>1
<1>3. AtWork(client[c])' => WorkedOut(r, w)
  BY <1>2 DEF AtWork
<1>4. WorkedOut(r, w) => WorkedOut(client[c].req, client[c].work)'
  BY <1>2 DEF WorkedOut, Present
<1> QED
  BY <1>3, <1>4 DEF Following

LEMMA SwapFollows ==
  ASSUME Copies, PoolsBacked, pools' = pools, NEW c \in Client,
         NEW r \in handleOneXSwapExec \cup handleSwap \cup handleBridgeExec \cup PoolSwap,
         NEW next, PrepareSwap(c, r, next)
  PROVE  Following(client[c])'
<1> DEFINE q == PoolID(r.from, r.to)
           zeroIn == r.from = q[1]
           s == [r EXCEPT !.op = "amm"]
           w == [id |-> q, copy |-> Swap(pools[q], zeroIn, r.amt),
                 out |-> AmountOut(pools[q], zeroIn, r.amt)]
<1>1. s \in PoolSwap /\ r.amt \in UInt
  BY KeptAsSwap, BridgeAssumption
<1>2. s.op = "amm" /\ s.from = r.from /\ s.to = r.to /\ s.amt = r.amt
  BY DEF handleOneXSwapExec, handleSwap, handleBridgeExec, PoolSwap
<1>3. q \in Pairs /\ pools[q] # NoPool /\ CanSwap(pools[q], zeroIn, r.amt)
  BY PoolChosen DEF PrepareSwap, SwapQuoted
<1>4. {q[1], q[2]} = {r.from, r.to}
  BY DEF PrepareSwap, SwapQuoted, HasPool, PoolID
<1>5. GetPortfolio(c, s, w, next)
  BY DEF PrepareSwap
<1>6. Present(q) = pools[q]
  BY <1>3 DEF Present
<1>7. w.id = q /\ w.copy = Swap(pools[q], zeroIn, r.amt) /\ w.out = AmountOut(pools[q], zeroIn, r.amt)
  OBVIOUS
<1> HIDE DEF s, w, q
<1>8. WorkedOut(s, w)
  BY <1>1, <1>2, <1>3, <1>4, <1>6, <1>7 DEF WorkedOut
<1> QED
  BY <1>5, <1>8, PreparedFollows

LEMMA AddFollows ==
  ASSUME Copies, pools' = pools, NEW c \in Client, NEW r \in handleOneXSwapAddLiq, PrepareAdd(c, r)
  PROVE  Following(client[c])'
<1> DEFINE Flip(q) == pools[q] = NoPool /\ r.t0 = q[2]
           S(q) == IF Flip(q) THEN [r EXCEPT !.t0 = r.t1, !.t1 = r.t0, !.a0 = r.a1, !.a1 = r.a0]
                   ELSE r
           Old(q) == IF pools[q] = NoPool THEN EmptyPool ELSE pools[q]
           W(q) == [id |-> q, copy |-> AddLiquidity(Old(q), S(q).a0, S(q).a1),
                    out |-> Minted(Old(q), S(q).a0, S(q).a1)]
<1>1. PICK q \in Pairs : /\ {q[1], q[2]} = {r.t0, r.t1} /\ CanAdd(Old(q), S(q).a0, S(q).a1)
                         /\ GetPortfolio(c, S(q), W(q), <<>>)
  BY DEF PrepareAdd
<1>2. S(q) \in handleOneXSwapAddLiq /\ {S(q).t0, S(q).t1} = {r.t0, r.t1}
  BY DEF handleOneXSwapAddLiq
<1>3. S(q).a0 \in UInt /\ S(q).a1 \in UInt /\ S(q).op = "add"
  BY <1>2, BridgeAssumption DEF handleOneXSwapAddLiq
<1>4. /\ W(q).id = q /\ W(q).copy = AddLiquidity(Old(q), S(q).a0, S(q).a1)
      /\ W(q).out = Minted(Old(q), S(q).a0, S(q).a1)
  OBVIOUS
<1>5. Present(q) = Old(q)
  BY DEF Present
<1> HIDE DEF S, Old, W
<1>6. WorkedOut(S(q), W(q))
  BY <1>1, <1>2, <1>3, <1>4, <1>5 DEF WorkedOut
<1> QED
  BY <1>1, <1>6, PreparedFollows

LEMMA RemoveFollows ==
  ASSUME Copies, PoolsBacked, pools' = pools, NEW c \in Client,
         NEW r \in handleOneXSwapRemoveLiq, PrepareRemove(c, r)
  PROVE  Following(client[c])'
<1> DEFINE q == r.pool
           w == [id |-> q, copy |-> RemoveLiquidity(pools[q], r.shares),
                 out |-> <<Paid0(pools[q], r.shares) % Word, Paid1(pools[q], r.shares) % Word>>]
<1>1. r.pool \in Pairs /\ r.shares \in UInt /\ r.op = "remove"
  BY BridgeAssumption DEF handleOneXSwapRemoveLiq
<1>2. pools[q] # NoPool /\ CanRemove(pools[q], r.shares) /\ GetPortfolio(c, r, w, <<>>)
  BY DEF PrepareRemove
<1>3. Present(q) = pools[q]
  BY <1>2 DEF Present
<1>4. /\ w.id = q /\ w.copy = RemoveLiquidity(pools[q], r.shares)
      /\ w.out = <<Paid0(pools[q], r.shares) % Word, Paid1(pools[q], r.shares) % Word>>
  OBVIOUS
<1> HIDE DEF w
<1>5. WorkedOut(r, w)
  BY <1>1, <1>2, <1>3, <1>4 DEF WorkedOut
<1> QED
  BY <1>2, <1>5, PreparedFollows

LEMMA OtherFollows ==
  ASSUME Copies, pools' = pools, NEW c \in Client, NEW r, PrepareOther(c, r)
  PROVE  Following(client[c])'
<1>1. r.op \notin {"amm", "add", "remove"}
  BY DEF PrepareOther
<1>2. ~AtWork([pc |-> "loaded", req |-> r])
  BY <1>1 DEF AtWork
<1> QED
  BY <1>2, PreparedFollows DEF PrepareOther

LEMMA AcceptFollows ==
  ASSUME BridgeInv, NEW c \in Client, Accept(c)
  PROVE  pools' = pools /\ Following(client[c])'
<1> DEFINE Swaps == handleOneXSwapExec \cup handleSwap \cup handleBridgeExec \cup PoolSwap
<1>1. Copies /\ PoolsBacked /\ menu \in Menu /\ pools' = pools
  BY DEF BridgeInv, Accept
<1>2. PICK r \in Offered(menu) :
        \/ SwapByPool(r) /\ PrepareSwap(c, r, <<>>)
        \/ r.op = "bridge" /\ PrepareSwap(c, r, <<>>)
        \/ r.op = "bridge" /\ PrepareSwap(c, [r EXCEPT !.to = ONEX], <<SecondLeg(r)>>)
        \/ r.op = "add" /\ PrepareAdd(c, r)
        \/ r.op = "remove" /\ PrepareRemove(c, r)
        \/ PrepareOther(c, r)
  BY DEF Accept
<1>3. /\ r.op \in {"amm", "swap", "bridge"} => r \in Swaps
      /\ r.op = "add" => r \in handleOneXSwapAddLiq
      /\ r.op = "remove" => r \in handleOneXSwapRemoveLiq
  BY <1>1, OfferedRequests
<1>4. CASE r.op \in {"amm", "swap", "bridge"} /\ PrepareSwap(c, r, <<>>)
  BY <1>1, <1>3, <1>4, SwapFollows
<1>5. CASE r.op = "bridge" /\ PrepareSwap(c, [r EXCEPT !.to = ONEX], <<SecondLeg(r)>>)
  <2>1. [r EXCEPT !.to = ONEX] \in Swaps
    BY <1>3, <1>5, KeptAsSwap, BridgeAssumption
  <2> QED
    BY <1>1, <1>5, <2>1, SwapFollows
<1>6. CASE r.op = "add" /\ PrepareAdd(c, r)
  BY <1>1, <1>3, <1>6, AddFollows
<1>7. CASE r.op = "remove" /\ PrepareRemove(c, r)
  BY <1>1, <1>3, <1>7, RemoveFollows
<1>8. CASE PrepareOther(c, r)
  BY <1>1, <1>8, OtherFollows
<1> QED
  BY <1>1, <1>2, <1>4, <1>5, <1>6, <1>7, <1>8 DEF SwapByPool

LEMMA IdleFollows ==
  ASSUME RequestsOK, NEW c \in Client, NEW b, b.pc \notin {"loaded", "update"},
         client' = [client EXCEPT ![c] = b]
  PROVE  Following(client[c])'
<1>1. client'[c] = b
  BY OneSet
<1> QED
  BY <1>1 DEF Following, AtWork

LEMMA LegFollows ==
  ASSUME BridgeInv, NEW c \in Client, AcceptLeg(c)
  PROVE  pools' = pools /\ Following(client[c])'
<1>1. Copies /\ RequestsOK /\ PoolsBacked /\ pools' = pools
  BY DEF BridgeInv, AcceptLeg, Copies
<1>2. client[c].req \in PoolSwap
  <2>1. RequestOK(client[c]) /\ client[c].pc = "leg"
    BY <1>1 DEF RequestsOK, AcceptLeg
  <2> QED
    BY <2>1 DEF RequestOK, Idle, ServedOK
<1>3. CASE PrepareSwap(c, client[c].req, <<>>)
  BY <1>1, <1>2, <1>3, SwapFollows
<1>4. CASE client' = [client EXCEPT ![c] = Idle]
  BY <1>1, <1>4, IdleFollows DEF Idle
<1> QED
  BY <1>1, <1>3, <1>4 DEF AcceptLeg

LEMMA SaveFirstFollows ==
  ASSUME BridgeInv, PoolsFollow, Serial, NEW c \in Client, client[c].pc = "loaded", NEW p,
         SaveFirst(c, p), pools' = pools
  PROVE  Following(client[c])'
<1>1. RequestsOK /\ ServedOK(client[c])
  BY WhatIsServed DEF BridgeInv, Copies
<1>2. client'[c] = [client[c] EXCEPT !.pc = "update", !.p = p]
  BY <1>1, SaveFirstSets
<1>3. client'[c].pc = "update" /\ client'[c].req = client[c].req /\ client'[c].work = client[c].work
  BY <1>1, <1>2 DEF ServedOK
<1>4. Following(client[c])
  BY DEF PoolsFollow
<1> QED
  BY <1>3, <1>4 DEF Following, AtWork, WorkedOut, Present

LEMMA UpdateFollows ==
  ASSUME BridgeInv, NEW c \in Client, UpdatePool(c)
  PROVE  Following(client[c])'
<1>1. RequestsOK
  BY DEF BridgeInv, Copies
<1> DEFINE left == [pc |-> "leg", req |-> Head(client[c].next)]
           b == IF client[c].next = <<>> THEN Idle ELSE left
<1>2. client' = [client EXCEPT ![c] = b] \/ client' = [client EXCEPT ![c] = Idle]
  BY Zenon DEF UpdatePool
<1>3. b.pc \in {"idle", "leg"} /\ Idle.pc = "idle"
  BY DEF Idle
<1> HIDE DEF b
<1> QED
  BY <1>1, <1>2, <1>3, IdleFollows

\* A step of the book takes a request nowhere near the portfolio.
LEMMA BookAside ==
  ASSUME NEW c \in Client, BookStep(c)
  PROVE  \E b : client' = [client EXCEPT ![c] = b] /\ b.pc \notin {"loaded", "update", "deploy"}
<1>1. Idle.pc \notin {"loaded", "update", "deploy"}
  BY DEF Idle
<1>2. CASE BookRequest(c)
  <2>1. PICK r, snap : client' = [client EXCEPT ![c] =
                         IF r.op = "peek" THEN Idle ELSE [pc |-> "snapshot", req |-> r, snap |-> snap]]
    BY <1>2, Zenon DEF BookRequest
  <2> DEFINE b == IF r.op = "peek" THEN Idle ELSE [pc |-> "snapshot", req |-> r, snap |-> snap]
  <2>2. b.pc \notin {"loaded", "update", "deploy"}
    BY <1>1
  <2> QED
    BY <2>1, <2>2
<1>3. CASE SyncFromSnapshot(c)
  <2>1. [pc |-> "synced", req |-> client[c].req].pc \notin {"loaded", "update", "deploy"}
    OBVIOUS
  <2> QED
    BY <1>1, <1>3, <2>1, Zenon DEF SyncFromSnapshot, SaveBook, EndRequest
<1>4. CASE Transfer(c)
  <2>1. \A w : [pc |-> "copied", work |-> w].pc \notin {"loaded", "update", "deploy"}
    OBVIOUS
  <2> QED
    BY <1>1, <1>4, <2>1, Zenon DEF Transfer
<1>5. CASE ApplyTransfer(c)
  <2>1. \A w : [pc |-> "settle", work |-> w].pc \notin {"loaded", "update", "deploy"}
    OBVIOUS
  <2> QED
    BY <1>1, <1>5, <2>1, Zenon DEF ApplyTransfer, SaveBook
<1>6. CASE Settle(c) \/ SettleFails(c)
  BY <1>1, <1>6, Zenon DEF Settle, SettleFails, SaveBook, EndRequest
<1> QED
  BY <1>2, <1>3, <1>4, <1>5, <1>6 DEF BookStep

LEMMA BookFollows ==
  ASSUME BridgeInv, NEW c \in Client, BookStep(c)
  PROVE  pools' = pools /\ Following(client[c])'
<1>1. RequestsOK
  BY DEF BridgeInv, Copies
<1>2. pools' = pools
  BY DEF BookStep, BookRequest, SyncFromSnapshot, Transfer, ApplyTransfer, Settle, SettleFails, BookFrozen
<1>3. \E b : client' = [client EXCEPT ![c] = b] /\ b.pc \notin {"loaded", "update"}
  BY BookAside
<1> QED
  BY <1>1, <1>2, <1>3, IdleFollows

\* A step of c leaves c following the pools, and changes them only to put its
\* copy back.
LEMMA ServeFollows ==
  ASSUME BridgeInv, PoolsFollow, Serial, NEW c \in Client, Serve(c)
  PROVE  Following(client[c])' /\ (pools' = pools \/ UpdatePool(c))
<1>1. RequestsOK
  BY DEF BridgeInv, Copies
<1>2. CASE Accept(c) \/ AcceptLeg(c)
  BY <1>2, AcceptFollows, LegFollows
<1>3. CASE AcceptDeploy(c)
  <2>1. pools' = pools
    BY <1>3 DEF AcceptDeploy
  <2>2. PICK r, work : client' = [client EXCEPT ![c] = [pc |-> "deploy", req |-> r, work |-> work]]
    BY <1>3, Zenon DEF AcceptDeploy
  <2> QED
    BY <1>1, <2>1, <2>2, IdleFollows
<1>4. CASE Send(c)
  BY <1>4 DEF Send, PoolsFollow, Following, AtWork, WorkedOut, Present
<1>5. CASE OneXSwapExecute(c) \/ OneXSwapAddLiquidity(c) \/ OneXSwapRemoveLiquidity(c)
  <2>1. client[c].pc = "loaded" /\ pools' = pools
    BY <1>5 DEF OneXSwapExecute, OneXSwapAddLiquidity, OneXSwapRemoveLiquidity, Serving, Elsewhere
  <2>2. (\E p : SaveFirst(c, p)) \/ (\E p : Drop(c, p))
    BY <1>5, Zenon DEF OneXSwapExecute, OneXSwapAddLiquidity, OneXSwapRemoveLiquidity
  <2>3. Idle.pc \notin {"loaded", "update"}
    BY DEF Idle
  <2>4. ASSUME NEW p, Drop(c, p) PROVE Following(client[c])'
    BY <1>1, <2>3, <2>4, IdleFollows DEF Drop
  <2> QED
    BY <2>1, <2>2, <2>4, SaveFirstFollows
<1>6. CASE UpdatePool(c)
  BY <1>6, UpdateFollows
<1>7. CASE Ending(c)
  BY <1>1, <1>7, EndingEnds, IdleFollows DEF Idle
<1> QED
  BY <1>2, <1>3, <1>4, <1>5, <1>6, <1>7 DEF Serve, Ending

LEMMA FollowingStays == DaemonInv /\ InUse /\ PoolsFollow /\ [DaemonNext]_<<vars, bookVars>> => PoolsFollow'
<1> SUFFICES ASSUME DaemonInv, InUse, PoolsFollow, [DaemonNext]_<<vars, bookVars>>, Serial'
             PROVE  \A c \in Client : Following(client[c])'
  BY DEF PoolsFollow
<1>1. Serial /\ BridgeInv /\ RequestsOK
  BY MenuStays DEF Serial, DaemonInv, BridgeInv, Copies
<1>2. CASE UNCHANGED <<client, pools>>
  BY <1>1, <1>2 DEF PoolsFollow, Following, AtWork, WorkedOut, Present
<1>3. ASSUME NEW c \in Client, Serve(c) \/ BookStep(c) PROVE \A d \in Client : Following(client[d])'
  <2>1. OthersStay(c) /\ Following(client[c])' /\ (pools' = pools \/ UpdatePool(c))
    BY <1>1, <1>3, ServesAlone, BooksAlone, ServeFollows, BookFollows
  <2>2. \A d \in Client \ {c} : client[d] = Idle
    BY <1>1, <1>3, OthersIdle, ServesAlone, BooksAlone
  <2>3. ASSUME NEW d \in Client \ {c} PROVE Following(client[d])'
    BY <2>1, <2>2 DEF Following, AtWork, OthersStay, Idle
  <2> QED
    BY <2>1, <2>3
<1>4. CASE DaemonCrash
  BY <1>1, <1>4 DEF DaemonCrash, Crash, Serial
<1> QED
  BY <1>2, <1>3, <1>4 DEF DaemonNext, Tick, vars, bookVars

\* The arithmetic of the instances of Pool is that of the daemon.
LEMMA PoolArithmetic ==
  ASSUME NEW q \in Pairs
  PROVE  /\ \A p, z, n : PoolOf(q)!CanSwap(p, z, n) = CanSwap(p, z, n)
         /\ \A p, z, n : PoolOf(q)!Swap(p, z, n) = Swap(p, z, n)
         /\ \A p, m, n : PoolOf(q)!CanAdd(p, m, n) = CanAdd(p, m, n)
         /\ \A p, m, n : PoolOf(q)!AddLiquidity(p, m, n) = AddLiquidity(p, m, n)
         /\ \A p, n : PoolOf(q)!CanRemove(p, n) = CanRemove(p, n)
         /\ \A p, n : PoolOf(q)!RemoveLiquidity(p, n) = RemoveLiquidity(p, n)
         /\ PoolOf(q)!UInt = UInt
<1>1. PoolOf(q)!UInt = UInt
  BY Zenon DEF PoolOf!UInt, UInt
<1>2. \A i, o, n : PoolOf(q)!SwapOut(i, o, n) = SwapOut(i, o, n)
  BY Zenon DEF PoolOf!SwapOut, SwapOut
<1>3. \A p, z, n : PoolOf(q)!CanSwap(p, z, n) = CanSwap(p, z, n)
  BY <1>2, Zenon DEF PoolOf!CanSwap, CanSwap
<1>4. \A p, z, n : PoolOf(q)!Swap(p, z, n) = Swap(p, z, n)
  BY <1>2, Zenon DEF PoolOf!Swap, Swap
<1>5. \A n : PoolOf(q)!Isqrt(n) = Isqrt(n)
  BY Zenon DEF PoolOf!Isqrt, Isqrt
<1>6. \A p, m, n : PoolOf(q)!Minted(p, m, n) = Minted(p, m, n)
  BY <1>5, Zenon DEF PoolOf!Minted, Minted
<1>7. \A p, m, n : PoolOf(q)!CanAdd(p, m, n) = CanAdd(p, m, n)
  BY <1>1, <1>6, Zenon DEF PoolOf!CanAdd, CanAdd
<1>8. \A p, m, n : PoolOf(q)!AddLiquidity(p, m, n) = AddLiquidity(p, m, n)
  BY <1>6, Zenon DEF PoolOf!AddLiquidity, AddLiquidity
<1>9. \A p, n : PoolOf(q)!Burnt(p, n) = Burnt(p, n)
  BY Zenon DEF PoolOf!Burnt, Burnt
<1>10. \A p, n : PoolOf(q)!CanRemove(p, n) = CanRemove(p, n)
  BY <1>9, Zenon DEF PoolOf!CanRemove, CanRemove
<1>11. \A p, n : PoolOf(q)!Paid0(p, n) = Paid0(p, n) /\ PoolOf(q)!Paid1(p, n) = Paid1(p, n)
  BY <1>9, Zenon DEF PoolOf!Paid0, PoolOf!Paid1, Paid0, Paid1
<1>12. \A p, n : PoolOf(q)!RemoveLiquidity(p, n) = RemoveLiquidity(p, n)
  BY <1>9, <1>11, Zenon DEF PoolOf!RemoveLiquidity, RemoveLiquidity
<1> QED
  BY <1>1, <1>3, <1>4, <1>7, <1>8, <1>10, <1>12

LEMMA UpdateIsStep ==
  ASSUME BridgeInv, PoolsFollow, Serial, NEW c \in Client, UpdatePool(c),
         NEW q \in Pairs, pools'[q] # pools[q]
  PROVE  PoolOf(q)!PoolNext /\ pools'[q] \in PoolState
<1> DEFINE r == client[c].req
           w == client[c].work
           old == Present(q)
<1>1. ServedOK(client[c]) /\ client[c].pc = "update"
  <2>1. RequestOK(client[c]) /\ client[c].pc = "update"
    BY DEF BridgeInv, Copies, RequestsOK, UpdatePool
  <2> QED
    BY <2>1 DEF RequestOK, Idle
<1>2. r \in PoolRequest /\ r.op \in {"amm", "add", "remove"} /\ w.copy \in PoolState
  BY <1>1 DEF ServedOK, PoolRequest, PoolSwap, handleOneXSwapAddLiq, handleOneXSwapRemoveLiq, WorkOK, Backed
<1>3. WorkedOut(r, w)
  BY <1>1, <1>2 DEF PoolsFollow, Following, AtWork
<1>4. pools' = [pools EXCEPT ![w.id] = w.copy] /\ pools \in [Pairs -> PoolState \cup {NoPool}]
  BY DEF UpdatePool, BridgeInv, PoolsBacked
<1>5. q = w.id
  BY <1>4
<1>6. pools'[q] = w.copy
  BY <1>4, <1>5
<1>7. Present(q)' = w.copy
  BY <1>2, <1>6, BridgeAssumption DEF Present
<1> DEFINE now == IF pools[q] = NoPool THEN EmptyPool ELSE pools[q]
           then == IF pools'[q] = NoPool THEN EmptyPool ELSE pools'[q]
<1>8. PoolOf(q)!EmptyPool = EmptyPool
  BY DEF PoolOf!EmptyPool, EmptyPool
<1>9. now = old /\ then = w.copy
  BY <1>7 DEF Present
<1>10. ASSUME r.op = "amm" PROVE PoolOf(q)!PoolNext
  <2> DEFINE zeroIn == r.from = q[1]
  <2>1. zeroIn \in BOOLEAN /\ r.amt \in UInt /\ CanSwap(old, zeroIn, r.amt) /\ w.copy = Swap(old, zeroIn, r.amt)
    BY <1>3, <1>5, <1>10 DEF WorkedOut
  <2> HIDE DEF zeroIn, r, w, old
  <2>2. PoolOf(q)!SwapIn(zeroIn, r.amt)
    BY <1>9, <2>1, PoolArithmetic DEF PoolOf!SwapIn
  <2> QED
    BY <2>1, <2>2, PoolArithmetic DEF PoolOf!PoolNext
<1>11. ASSUME r.op = "add" PROVE PoolOf(q)!PoolNext
  <2>1. r.a0 \in UInt /\ r.a1 \in UInt /\ CanAdd(old, r.a0, r.a1) /\ w.copy = AddLiquidity(old, r.a0, r.a1)
    BY <1>3, <1>5, <1>11 DEF WorkedOut
  <2> HIDE DEF r, w, old
  <2>2. PoolOf(q)!Deposit(r.a0, r.a1)
    BY <1>9, <2>1, PoolArithmetic DEF PoolOf!Deposit
  <2> QED
    BY <2>1, <2>2, PoolArithmetic DEF PoolOf!PoolNext
<1>12. ASSUME r.op = "remove" PROVE PoolOf(q)!PoolNext
  <2>1. r.shares \in UInt /\ CanRemove(old, r.shares) /\ w.copy = RemoveLiquidity(old, r.shares)
    BY <1>3, <1>5, <1>12 DEF WorkedOut
  <2> HIDE DEF r, w, old
  <2>2. PoolOf(q)!Withdraw(r.shares)
    BY <1>9, <2>1, PoolArithmetic DEF PoolOf!Withdraw
  <2> QED
    BY <2>1, <2>2, PoolArithmetic DEF PoolOf!PoolNext
<1> QED
  BY <1>2, <1>6, <1>10, <1>11, <1>12

LEMMA InitialUse == DaemonInit => InUse /\ PoolsFollow
<1> SUFFICES ASSUME DaemonInit PROVE InUse /\ PoolsFollow
  OBVIOUS
<1>1. client = [c \in Client |-> Idle]
  BY DEF DaemonInit, Init
<1> QED
  BY <1>1 DEF InUse, PoolsFollow, Following, AtWork, Idle

LEMMA PoolStepFollows ==
  ASSUME DaemonInv, InUse, PoolsFollow, [DaemonNext]_<<vars, bookVars>>,
         Serial, NEW q \in Pairs, pools'[q] # pools[q]
  PROVE  PoolOf(q)!PoolNext /\ pools'[q] \in PoolState
<1>1. BridgeInv
  BY DEF DaemonInv
<1>2. ASSUME NEW c \in Client, Serve(c) PROVE PoolOf(q)!PoolNext /\ pools'[q] \in PoolState
  BY <1>1, <1>2, ServeFollows, UpdateIsStep
<1>3. ASSUME NEW c \in Client, BookStep(c) PROVE FALSE
  BY <1>1, <1>3, BookFollows
<1>4. ~DaemonCrash /\ ~Tick /\ ~UNCHANGED <<vars, bookVars>>
  BY DEF DaemonCrash, Crash, Serial, Tick, vars
<1> QED
  BY <1>2, <1>3, <1>4 DEF DaemonNext

\* With one request at a time, each pool of the daemon makes only the steps of
\* the abstract pool, for which PoolSharesBacked and ShareValueHolds are proved:
\* the copy put back was taken of the pool that is still there, and made by the
\* operation that was asked for (OneXSwapExecute, Store.Get, Store.Update).
THEOREM PoolsArePools == DaemonSpec => PoolsImplement
<1> DEFINE Step == Serial => \A q \in Pairs : pools'[q] # pools[q] => PoolOf(q)!PoolNext
<1>1. DaemonInv /\ InUse /\ PoolsFollow /\ [DaemonNext]_<<vars, bookVars>> => [Step]_vars
  BY PoolStepFollows
<1>2. DaemonInv /\ InUse /\ PoolsFollow /\ [DaemonNext]_<<vars, bookVars>> => InUse' /\ PoolsFollow'
  BY InUseStays, FollowingStays
<1> QED
  BY <1>1, <1>2, InitialUse, DaemonInvariantHolds, PTL DEF DaemonSpec, PoolsImplement

\* What a provider has in a pool of the daemon: with one request at a time, no
\* pool that has shares goes away or lowers what one of them stands for.
ProvidersKeepTheirPart ==
  [][Serial => \A q \in Pairs :
       pools[q] # NoPool /\ pools[q].shares > 0 =>
         pools'[q] # NoPool /\ ValueKept(pools[q], pools'[q])]_vars

LEMMA PoolNextIsMove ==
  ASSUME NEW q \in Pairs, PoolOf(q)!PoolNext
  PROVE  PoolMove(Present(q), Present(q)')
<1> DEFINE now == IF pools[q] = NoPool THEN EmptyPool ELSE pools[q]
           then == IF pools'[q] = NoPool THEN EmptyPool ELSE pools'[q]
<1>1. now = Present(q) /\ then = Present(q)'
  BY DEF Present
<1> HIDE DEF now, then
<1>2. PoolMove(now, then)
  BY PoolArithmetic DEF PoolOf!PoolNext, PoolOf!SwapIn, PoolOf!Deposit, PoolOf!Withdraw, PoolMove, now, then
<1> QED
  BY <1>1, <1>2

\* The abstract pool's promise, held by the daemon: whatever is swapped, added,
\* removed, bridged or listed, one request at a time, rounding takes nothing from
\* those who provide a pool (OneXSwapExecute, AddLiquidity, RemoveLiquidity).
THEOREM ProvidersAreSafe == DaemonSpec => ProvidersKeepTheirPart
<1> DEFINE Keeps(q) == pools[q] # NoPool /\ pools[q].shares > 0 =>
                        pools'[q] # NoPool /\ ValueKept(pools[q], pools'[q])
           Step == Serial => \A q \in Pairs : Keeps(q)
<1>1. ASSUME DaemonInv, InUse, PoolsFollow, [DaemonNext]_<<vars, bookVars>>, Serial, NEW q \in Pairs,
             pools[q] # NoPool, pools[q].shares > 0
      PROVE  pools'[q] # NoPool /\ ValueKept(pools[q], pools'[q])
  <2>1. pools[q] \in PoolState /\ pools[q].r0 > 0 /\ pools[q].r1 > 0
    BY <1>1 DEF DaemonInv, BridgeInv, PoolsBacked, Backed
  <2>2. CASE pools'[q] = pools[q]
    <3>1. /\ pools[q].r0 \in Nat /\ pools[q].r1 \in Nat /\ pools[q].shares \in Nat
          /\ pools[q].r0 * pools[q].r1 \in Nat
          /\ pools[q].r0 * pools[q].r1 * pools[q].shares \in Nat
          /\ pools[q].r0 * pools[q].r1 * pools[q].shares * pools[q].shares \in Nat
      BY <2>1, ProductType DEF PoolState
    <3> QED
      BY <1>1, <2>2, <3>1 DEF ValueKept
  <2>3. CASE pools'[q] # pools[q]
    <3>1. PoolMove(Present(q), Present(q)')
      BY <1>1, <2>3, PoolStepFollows, PoolNextIsMove
    <3>2. Present(q) = pools[q]
      BY <1>1 DEF Present
    <3>3. pools'[q] # NoPool
      BY <1>1, <2>3, PoolStepFollows, BridgeAssumption
    <3>4. Present(q)' = pools'[q]
      BY <3>3 DEF Present
    <3> QED
      BY <1>1, <2>1, <3>1, <3>2, <3>3, <3>4, MoveKeepsValue
  <2> QED
    BY <2>2, <2>3
<1>2. DaemonInv /\ InUse /\ PoolsFollow /\ [DaemonNext]_<<vars, bookVars>> => [Step]_vars
  BY <1>1
<1>3. DaemonInv /\ InUse /\ PoolsFollow /\ [DaemonNext]_<<vars, bookVars>> => InUse' /\ PoolsFollow'
  BY InUseStays, FollowingStays
<1> QED
  BY <1>2, <1>3, InitialUse, DaemonInvariantHolds, PTL DEF DaemonSpec, ProvidersKeepTheirPart

-----------------------------------------------------------------------------
(* What the node has paid is on record. *)

\* What a record says left the node, and a list of them.
LeftNode(x) == IF x.status = "on_chain" THEN x.out + Fee ELSE 0
OnRecord(list) == Total([i \in DOMAIN list |-> LeftNode(list[i])])

ListedOK(list) ==
  /\ \E S : list \in Seq(S)
  /\ \A i \in DOMAIN list : list[i].status \in Status /\ list[i].out \in Nat

LEMMA LeftType ==
  ASSUME NEW list, ListedOK(list)
  PROVE  /\ IsFiniteSet(DOMAIN list) /\ DOMAIN list = 1 .. Len(list) /\ Len(list) \in Nat
         /\ \A i \in DOMAIN list : LeftNode(list[i]) \in Nat
<1>1. IsFiniteSet(DOMAIN list) /\ DOMAIN list = 1 .. Len(list) /\ Len(list) \in Nat
  <2>1. PICK S : list \in Seq(S)
    BY DEF ListedOK
  <2> QED
    BY <2>1, ListDomain
<1>2. \A i \in DOMAIN list : LeftNode(list[i]) \in Nat
  BY BookAssumption DEF ListedOK, LeftNode
<1> QED
  BY <1>1, <1>2

LEMMA OnRecordType ==
  ASSUME NEW list, ListedOK(list)
  PROVE  OnRecord(list) \in Int
<1> DEFINE f == [i \in DOMAIN list |-> LeftNode(list[i])]
<1>1. IsFiniteSet(DOMAIN list) /\ f \in [DOMAIN list -> Int]
  BY LeftType
<1> HIDE DEF f
<1>2. Total(f) \in Int
  BY <1>1, TotalType
<1> QED
  BY <1>2 DEF f, OnRecord

\* A record in front adds what it says.
LEMMA OneRecordMore ==
  ASSUME NEW list, ListedOK(list), NEW x, x.status \in Status, x.out \in Nat
  PROVE  OnRecord(<<x>> \o list) = LeftNode(x) + OnRecord(list)
<1> DEFINE n == Len(list)
           longer == <<x>> \o list
           f == [i \in 1 .. n |-> LeftNode(list[i])]
           g == [i \in 1 .. n + 1 |-> LeftNode(longer[i])]
<1>1. /\ n \in Nat /\ DOMAIN list = 1 .. n
      /\ \A i \in 1 .. n : LeftNode(list[i]) \in Nat
  BY LeftType
<1>2. LeftNode(x) \in Nat
  BY BookAssumption DEF LeftNode
<1>3. DOMAIN longer = 1 .. n + 1 /\ longer[1] = x /\ \A i \in 1 .. n : longer[i + 1] = list[i]
  <2>1. PICK S : list \in Seq(S)
    BY DEF ListedOK
  <2>2. list \in Seq(S \cup {x}) /\ <<x>> \in Seq(S \cup {x})
    BY <2>1
  <2> QED
    BY <2>2
<1>4. OnRecord(list) = Total(f) /\ OnRecord(longer) = Total(g)
  BY <1>1, <1>3 DEF OnRecord
<1>5. \A i \in 1 .. n + 1 : i = 1 \/ (i - 1 \in 1 .. n /\ longer[i] = list[i - 1])
  <2> SUFFICES ASSUME NEW i \in 1 .. n + 1, i # 1 PROVE i - 1 \in 1 .. n /\ longer[i] = list[i - 1]
    OBVIOUS
  <2>1. i - 1 \in 1 .. n /\ (i - 1) + 1 = i
    BY <1>1
  <2> QED
    BY <1>3, <2>1
<1> HIDE DEF longer, n
<1>6. f \in [1 .. n -> Int] /\ g \in [1 .. n + 1 -> Int]
  BY <1>1, <1>2, <1>3, <1>5
<1>7. g[1] = LeftNode(x) /\ \A i \in 1 .. n : g[i + 1] = f[i]
  <2>1. 1 \in 1 .. n + 1 /\ \A i \in 1 .. n : i + 1 \in 1 .. n + 1
    BY <1>1
  <2> QED
    BY <1>3, <2>1
<1> HIDE DEF f, g
<1>8. Total(g) = g[1] + Total(f)
  BY <1>1, <1>6, <1>7, TotalShift
<1> QED
  BY <1>4, <1>7, <1>8 DEF longer

\* The first record is replaced: what it says takes the place of what it said.
LEMMA FirstRecordChanged ==
  ASSUME NEW list, ListedOK(list), list # <<>>, NEW x, x.status \in Status, x.out \in Nat
  PROVE  OnRecord([list EXCEPT ![1] = x]) = OnRecord(list) - LeftNode(list[1]) + LeftNode(x)
<1> DEFINE D == DOMAIN list
           new == [list EXCEPT ![1] = x]
           f == [i \in D |-> LeftNode(list[i])]
           g == [i \in D |-> LeftNode(new[i])]
<1>1. IsFiniteSet(D) /\ \A i \in D : LeftNode(list[i]) \in Nat
  BY LeftType
<1>2. LeftNode(x) \in Nat
  BY BookAssumption DEF LeftNode
<1>3. 1 \in D
  <2>1. PICK S : list \in Seq(S)
    BY DEF ListedOK
  <2> QED
    BY <2>1
<1>4. DOMAIN new = D /\ new[1] = x /\ \A i \in D \ {1} : new[i] = list[i]
  BY <1>3
<1>5. OnRecord(list) = Total(f) /\ OnRecord(new) = Total(g)
  BY <1>4 DEF OnRecord
<1> HIDE DEF new, D
<1>6. f \in [D -> Int] /\ g \in [D -> Int] /\ \A i \in D \ {1} : g[i] = f[i]
  BY <1>1, <1>2, <1>4
<1>7. f[1] = LeftNode(list[1]) /\ g[1] = LeftNode(x)
  BY <1>3, <1>4
<1> HIDE DEF f, g
<1>8. Total(g) = Total(f) - f[1] + g[1]
  BY <1>1, <1>3, <1>6, TotalUpdate
<1> QED
  BY <1>5, <1>7, <1>8 DEF new

\* No request pays from the node's wallet but the transfers of the book.
BookPays == \A r \in Offered(menu) : r.op # "send"

\* With one request at a time the file holds the book, and the book has no records
\* before it has accounts.
FileFollows ==
  Serial =>
    /\ (book = EmptyBook /\ bfile = NoBook) \/ bfile = book
    /\ DOMAIN book.accts = {} => book.xfers = <<>>

\* A record about to be settled is the first, as long as the list was not cut.
Paying ==
  Serial /\ BookPays /\ Len(book.xfers) < MaxTransfers =>
    /\ NodeBalance - nodeBal <= OnRecord(book.xfers)
    /\ \A c \in Client : client[c].pc = "settle" =>
         book.xfers # <<>> /\ book.xfers[1].status # "on_chain"

\* Reading the file again brings no other records.
LEMMA OpensBook ==
  ASSUME FileFollows, Serial
  PROVE  Opened.xfers = book.xfers /\ (DOMAIN Opened.accts = {} => DOMAIN book.accts = {})
<1>1. DOMAIN EmptyBook.accts = {} /\ EmptyBook.xfers = <<>>
  BY DEF EmptyBook
<1>2. CASE DOMAIN book.accts # {}
  BY <1>2 DEF Opened
<1>3. CASE DOMAIN book.accts = {} /\ bfile = NoBook
  BY <1>1, <1>3 DEF Opened, FileFollows
<1>4. CASE DOMAIN book.accts = {} /\ bfile # NoBook
  BY <1>4 DEF Opened, FileFollows
<1> QED
  BY <1>2, <1>3, <1>4

\* What a change of the book does when nothing fails.
LEMMA SavesBook ==
  ASSUME Copies, ~Faulty(menu), NEW c \in Client, NEW b, NEW next, SaveBook(c, b, next)
  PROVE  book' = b /\ bfile' = b /\ client'[c] = next
<1>1. book' = b /\ bfile' = b /\ client' = [client EXCEPT ![c] = next]
  BY DEF SaveBook
<1> QED
  BY <1>1, OneSet DEF Copies

\* The other clients are idle, and settle nothing.
LEMMA NoneSettles ==
  ASSUME DaemonInv, InUse, Serial, NEW c \in Client, Serve(c) \/ BookStep(c)
  PROVE  \A d \in Client \ {c} : client'[d] = Idle
<1>1. RequestsOK
  BY DEF DaemonInv, BridgeInv, Copies
<1>2. OthersStay(c) /\ (client[c] # Idle \/ c \in Using(menu))
  BY <1>1, ServesAlone, BooksAlone
<1> QED
  BY <1>2, OthersIdle DEF OthersStay

\* A step that leaves the book and the node's balance alone.
LEMMA PayingLater ==
  ASSUME Paying, menu' = menu, UNCHANGED <<book, nodeBal>>,
         \A c \in Client : client'[c].pc = "settle" => client[c].pc = "settle"
  PROVE  Paying'
BY DEF Paying, Serial, BookPays, OnRecord, LeftNode

LEMMA SyncRecords ==
  ASSUME DaemonInv, InUse, FileFollows, Paying, Serial, NEW c \in Client, SyncFromSnapshot(c)
  PROVE  FileFollows' /\ Paying'
<1>1. Copies /\ ~Faulty(menu) /\ menu' = menu /\ nodeBal' = nodeBal
  BY DEF DaemonInv, BridgeInv, Serial, SyncFromSnapshot, BookFrozen, bounds
<1>2. \A d \in Client \ {c} : client'[d] = Idle
  BY NoneSettles DEF BookStep
<1>3. CASE EndRequest(c)
  <2>1. UNCHANGED <<book, bfile>> /\ client'[c] = Idle
    BY <1>1, <1>3, OneSet DEF EndRequest, Copies
  <2>2. FileFollows'
    BY <1>1, <2>1 DEF FileFollows, Serial
  <2>3. Paying'
    BY <1>1, <1>2, <2>1, PayingLater DEF Idle
  <2> QED
    BY <2>2, <2>3
<1>4. CASE ~EndRequest(c)
  <2> DEFINE r == client[c].req
             b == [Opened EXCEPT !.accts = Synchronised(@, client[c].snap)]
             next == IF r.op \in {"convert", "transfer"} THEN [pc |-> "synced", req |-> r] ELSE Idle
  <2>1. SaveBook(c, b, next)
    BY <1>4 DEF SyncFromSnapshot
  <2>2. next.pc # "settle"
    BY DEF Idle
  <2>3. b.xfers = book.xfers /\ (DOMAIN b.accts = {} => DOMAIN book.accts = {})
    <3>1. Opened.xfers = book.xfers /\ (DOMAIN Opened.accts = {} => DOMAIN book.accts = {})
      BY OpensBook
    <3>2. BookOK(Opened)
      BY <1>4, OpenedOK DEF DaemonInv, SyncFromSnapshot
    <3>3. PICK a, x : Opened = [accts |-> a, xfers |-> x]
      BY <3>2 DEF BookOK
    <3>4. b = [accts |-> Synchronised(Opened.accts, client[c].snap), xfers |-> Opened.xfers]
      BY <3>3
    <3>5. DOMAIN Opened.accts \subseteq DOMAIN Synchronised(Opened.accts, client[c].snap)
      BY DEF Synchronised
    <3> HIDE DEF b
    <3>6. b.xfers = Opened.xfers /\ b.accts = Synchronised(Opened.accts, client[c].snap)
      BY <3>4
    <3> QED
      BY <3>1, <3>5, <3>6
  <2> HIDE DEF b, next
  <2>4. book' = b /\ bfile' = b /\ client'[c] = next
    BY <1>1, <2>1, SavesBook
  <2>5. FileFollows'
    BY <1>1, <2>3, <2>4 DEF FileFollows, Serial
  <2>6. Paying'
    <3>1. book'.xfers = book.xfers /\ \A d \in Client : client'[d].pc # "settle"
      BY <1>2, <2>2, <2>3, <2>4 DEF Idle
    <3> QED
      BY <1>1, <3>1 DEF Paying, Serial, BookPays, OnRecord, LeftNode
  <2> QED
    BY <2>5, <2>6
<1> QED
  BY <1>3, <1>4

LEMMA ApplyRecords ==
  ASSUME DaemonInv, InUse, FileFollows, Paying, Serial, NEW c \in Client, ApplyTransfer(c)
  PROVE  FileFollows' /\ Paying'
<1> DEFINE w == client[c].work
           list == <<Record(w)>> \o book.xfers
           b == [accts |-> Moved(book.accts, w), xfers |-> Kept(list)]
           next == IF w.external THEN [pc |-> "settle", work |-> w] ELSE Idle
<1>1. Copies /\ ~Faulty(menu) /\ menu' = menu /\ nodeBal' = nodeBal
  BY DEF DaemonInv, BridgeInv, Serial, ApplyTransfer, BookFrozen, bounds
<1>2. \A d \in Client \ {c} : client'[d] = Idle
  BY NoneSettles DEF BookStep
<1>3. client[c].pc = "copied" /\ TransferOK(w)
  <2>1. RequestOK(client[c]) /\ client[c].pc = "copied"
    BY <1>1 DEF Copies, RequestsOK, ApplyTransfer
  <2> QED
    BY <2>1 DEF RequestOK, Idle, ServedOK
<1>4. ListedOK(book.xfers) /\ Record(w).status \in {"pending", "completed"} /\ Record(w).out \in Nat
  BY <1>3 DEF DaemonInv, BookState, BookOK, ListedOK, Record, TransferOK
<1>5. SaveBook(c, b, next)
  BY DEF ApplyTransfer
<1>6. book' = b /\ bfile' = b /\ client'[c] = next
  <2> HIDE DEF b, next
  <2> QED
    BY <1>1, <1>5, SavesBook
<1>7. book'.accts = Moved(book.accts, w) /\ book'.xfers = Kept(list)
  BY <1>6
<1>8. DOMAIN Moved(book.accts, w) # {}
  BY DEF Moved, With
<1>9. FileFollows'
  BY <1>1, <1>6, <1>7, <1>8 DEF FileFollows, Serial
<1>10. OnRecord(list) = OnRecord(book.xfers)
  <2>1. OnRecord(list) = LeftNode(Record(w)) + OnRecord(book.xfers)
    BY <1>4, OneRecordMore DEF Status
  <2>2. LeftNode(Record(w)) = 0
    BY <1>4 DEF LeftNode
  <2>3. OnRecord(book.xfers) \in Int
    BY <1>4, OnRecordType
  <2> QED
    BY <2>1, <2>2, <2>3
<1>11. Len(Kept(list)) < MaxTransfers => Kept(list) = list /\ Len(book.xfers) < MaxTransfers
  <2>1. PICK S : book.xfers \in Seq(S)
    BY <1>4 DEF ListedOK
  <2>2. list \in Seq(S \cup {Record(w)}) /\ Len(list) = Len(book.xfers) + 1
    BY <2>1
  <2> HIDE DEF list
  <2>3. Kept(list) = SubSeq(list, 1, IF Len(list) > MaxTransfers THEN MaxTransfers ELSE Len(list))
    BY DEF Kept
  <2>4. CASE Len(list) > MaxTransfers
    <3>1. Len(SubSeq(list, 1, MaxTransfers)) = MaxTransfers
      BY <2>2, <2>4, BookAssumption
    <3> QED
      BY <2>3, <2>4, <3>1, BookAssumption
  <2>5. CASE ~(Len(list) > MaxTransfers)
    <3>1. SubSeq(list, 1, Len(list)) = list
      BY <2>2
    <3>2. Len(book.xfers) \in Nat /\ MaxTransfers \in Nat
      BY <2>1, BookAssumption
    <3> QED
      BY <2>2, <2>3, <2>5, <3>1, <3>2
  <2> QED
    BY <2>4, <2>5
<1>12. list # <<>> /\ list[1] = Record(w)
  <2>1. PICK S : book.xfers \in Seq(S)
    BY <1>4 DEF ListedOK
  <2>2. book.xfers \in Seq(S \cup {Record(w)}) /\ <<Record(w)>> \in Seq(S \cup {Record(w)})
    BY <2>1
  <2> QED
    BY <2>2
<1>13. Paying'
  <2> SUFFICES ASSUME Serial', BookPays', Len(book'.xfers) < MaxTransfers
               PROVE  /\ NodeBalance - nodeBal' <= OnRecord(book'.xfers)
                      /\ book'.xfers # <<>> /\ book'.xfers[1].status # "on_chain"
    BY <1>2 DEF Paying, Idle, OnRecord, LeftNode
  <2>1. book'.xfers = list /\ Len(book.xfers) < MaxTransfers
    BY <1>7, <1>11
  <2>2. NodeBalance - nodeBal <= OnRecord(book.xfers)
    BY <1>1, <2>1 DEF Paying, BookPays
  <2> HIDE DEF list
  <2> QED
    BY <1>1, <1>4, <1>10, <1>12, <2>1, <2>2
<1> QED
  BY <1>9, <1>13

LEMMA SettleRecords ==
  ASSUME DaemonInv, InUse, FileFollows, Paying, Serial, NEW c \in Client, Settle(c)
  PROVE  FileFollows' /\ Paying'
<1> DEFINE w == client[c].work
<1>1. Copies /\ ~Faulty(menu) /\ menu' = menu /\ nodeBal \in UInt
  BY DEF DaemonInv, BridgeInv, Serial, Settle, BookFrozen, bounds
<1>2. \A d \in Client \ {c} : client'[d] = Idle
  BY NoneSettles DEF BookStep
<1>3. client[c].pc = "settle" /\ TransferOK(w)
  <2>1. RequestOK(client[c]) /\ client[c].pc = "settle"
    BY <1>1 DEF Copies, RequestsOK, Settle
  <2> QED
    BY <2>1 DEF RequestOK, Idle, ServedOK
<1>4. PICK s \in SettledStatus(w) :
        /\ SaveBook(c, [book EXCEPT !.xfers = Resolved(@, [Record(w) EXCEPT !.status = s])], Idle)
        /\ nodeBal' \in IF s = "on_chain" THEN {nodeBal, nodeBal - w.out - Fee} ELSE {nodeBal}
  BY DEF Settle
<1> DEFINE rec == [Record(w) EXCEPT !.status = s]
           b == [book EXCEPT !.xfers = Resolved(@, rec)]
<1>5. s \in Status /\ rec.status = s /\ rec.out = w.out /\ w.out \in Nat /\ Fee \in Nat
  BY <1>3, <1>4, BookAssumption DEF SettledStatus, Status, Record, TransferOK
<1>6. book' = b /\ bfile' = b /\ client'[c] = Idle
  <2>1. SaveBook(c, b, Idle)
    BY <1>4
  <2> HIDE DEF b
  <2> QED
    BY <1>1, <2>1, SavesBook
<1>7. b.accts = book.accts /\ b.xfers = Resolved(book.xfers, rec)
  <2>1. PICK a, x : book = [accts |-> a, xfers |-> x]
    BY DEF DaemonInv, BookState, BookOK
  <2> HIDE DEF rec
  <2> QED
    BY <2>1
<1> HIDE DEF b, rec
<1>8. FileFollows'
  BY <1>1, <1>6, <1>7 DEF FileFollows, Serial, Resolved
<1>9. ListedOK(book.xfers)
  BY DEF DaemonInv, BookState, BookOK, ListedOK
<1>10. Paying'
  <2> SUFFICES ASSUME Serial', BookPays', Len(book'.xfers) < MaxTransfers
               PROVE  NodeBalance - nodeBal' <= OnRecord(book'.xfers)
    BY <1>2, <1>6 DEF Paying, Idle, OnRecord, LeftNode
  <2>1. Len(book'.xfers) = Len(book.xfers)
    <3>1. PICK S : book.xfers \in Seq(S)
      BY <1>9 DEF ListedOK
    <3>2. CASE book.xfers = <<>>
      BY <1>6, <1>7, <3>2 DEF Resolved
    <3>3. CASE book.xfers # <<>>
      <4>1. book'.xfers = [book.xfers EXCEPT ![1] = rec]
        BY <1>6, <1>7, <3>3 DEF Resolved
      <4>2. book.xfers \in Seq(S \cup {rec})
        BY <3>1
      <4> QED
        BY <4>1, <4>2
    <3> QED
      BY <3>2, <3>3
  <2>2. /\ NodeBalance - nodeBal <= OnRecord(book.xfers)
        /\ book.xfers # <<>> /\ book.xfers[1].status # "on_chain"
    BY <1>1, <1>3, <2>1 DEF Paying, BookPays
  <2>3. book'.xfers = [book.xfers EXCEPT ![1] = rec]
    BY <1>6, <1>7, <2>2 DEF Resolved
  <2>4. OnRecord(book'.xfers) = OnRecord(book.xfers) - LeftNode(book.xfers[1]) + LeftNode(rec)
    BY <1>5, <1>9, <2>2, <2>3, FirstRecordChanged
  <2>5. LeftNode(book.xfers[1]) = 0
    BY <2>2 DEF LeftNode
  <2>6. nodeBal' = nodeBal \/ nodeBal' = nodeBal - LeftNode(rec)
    BY <1>1, <1>4, <1>5, Integers64 DEF LeftNode
  <2>7. OnRecord(book.xfers) \in Int
    BY <1>9, OnRecordType
  <2>8. LeftNode(rec) \in Nat /\ nodeBal \in Nat /\ NodeBalance \in Nat
    <3>1. w.out + Fee \in Nat
      BY <1>5
    <3>2. LeftNode(rec) \in Nat
      BY <1>5, <3>1 DEF LeftNode
    <3> QED
      BY <1>1, <3>2, Integers64, BridgeAssumption
  <2> QED
    BY <2>2, <2>4, <2>5, <2>6, <2>7, <2>8
<1> QED
  BY <1>8, <1>10

LEMMA NotSettling ==
  ASSUME RequestsOK, NEW c \in Client, NEW b, b.pc # "settle", client' = [client EXCEPT ![c] = b]
  PROVE  client'[c].pc # "settle"
BY OneSet

LEMMA BookRecords ==
  ASSUME DaemonInv, InUse, FileFollows, Paying, NEW c \in Client, BookStep(c), Serial'
  PROVE  FileFollows' /\ Paying'
<1>1. Copies /\ RequestsOK /\ ~Faulty(menu) /\ menu' = menu /\ Serial
  BY BookElsewhere DEF DaemonInv, BridgeInv, Copies, Serial
<1>2. \A d \in Client \ {c} : client'[d] = Idle
  BY <1>1, NoneSettles
<1>3. ASSUME UNCHANGED <<book, bfile, nodeBal>>, client'[c].pc # "settle" PROVE FileFollows' /\ Paying'
  <2>1. Paying'
    BY <1>1, <1>2, <1>3, PayingLater DEF Idle
  <2> QED
    BY <1>1, <1>3, <2>1 DEF FileFollows
<1>4. CASE BookRequest(c)
  <2>1. PICK next : next.pc # "settle" /\ client' = [client EXCEPT ![c] = next]
    <3>1. PICK r, snap : client' = [client EXCEPT ![c] = IF r.op = "peek" THEN Idle
                                     ELSE [pc |-> "snapshot", req |-> r, snap |-> snap]]
      BY <1>4, Zenon DEF BookRequest
    <3> DEFINE next == IF r.op = "peek" THEN Idle ELSE [pc |-> "snapshot", req |-> r, snap |-> snap]
    <3>2. next.pc # "settle"
      BY DEF Idle
    <3> HIDE DEF next
    <3> QED
      BY <3>1, <3>2 DEF next
  <2> QED
    BY <1>1, <1>3, <1>4, <2>1, OneSet DEF BookRequest
<1>5. CASE Transfer(c)
  <2>1. client'[c].pc # "settle"
    <3>1. CASE \E w \in Passing(client[c].req) : client' = [client EXCEPT ![c] = [pc |-> "copied", work |-> w]]
      <4>1. PICK w : client' = [client EXCEPT ![c] = [pc |-> "copied", work |-> w]]
        BY <3>1
      <4> DEFINE b == [pc |-> "copied", work |-> w]
      <4>2. b.pc # "settle" /\ client' = [client EXCEPT ![c] = b]
        BY <4>1
      <4> HIDE DEF b
      <4> QED
        BY <1>1, <4>2, NotSettling
    <3>2. CASE client' = [client EXCEPT ![c] = Idle]
      <4>1. Idle.pc # "settle"
        BY DEF Idle
      <4> QED
        BY <1>1, <3>2, <4>1, NotSettling
    <3> QED
      BY <1>5, <3>1, <3>2 DEF Transfer
  <2> QED
    BY <1>3, <1>5, <2>1 DEF Transfer
<1>6. CASE SettleFails(c)
  <2>1. client'[c] = Idle
    BY <1>1, <1>6, OneSet DEF SettleFails, EndRequest
  <2> QED
    BY <1>3, <1>6, <2>1 DEF SettleFails, EndRequest, Idle
<1>7. CASE SyncFromSnapshot(c)
  BY <1>1, <1>7, SyncRecords
<1>8. CASE ApplyTransfer(c)
  BY <1>1, <1>8, ApplyRecords
<1>9. CASE Settle(c)
  BY <1>1, <1>9, SettleRecords
<1> QED
  BY <1>4, <1>5, <1>6, <1>7, <1>8, <1>9 DEF BookStep

\* Where the requests of the book are.
BookSteps == {"snapshot", "synced", "copied", "settle"}

LEMMA LoadingIsNoBook ==
  ASSUME RequestsOK, NEW c \in Client, NEW r, NEW w, NEW next, GetPortfolio(c, r, w, next)
  PROVE  client'[c].pc \notin BookSteps
<1>1. PICK p : client'[c] = [pc |-> "loaded", req |-> r, p |-> p, work |-> w, next |-> next]
  <2>1. OthersStay(c) /\ \E p : client'[c] = [pc |-> "loaded", req |-> r, p |-> p, work |-> w, next |-> next]
    BY GetPortfolioSets
  <2> QED
    BY <2>1
<1> QED
  BY <1>1 DEF BookSteps

\* A request that is served is none of the book's, and pays nothing but by Send.
LEMMA ServeIsNoBook ==
  ASSUME RequestsOK, NEW c \in Client, Serve(c)
  PROVE  /\ client'[c] = client[c] \/ client'[c].pc \notin BookSteps
         /\ nodeBal' = nodeBal \/ \E r \in Offered(menu) : r.op = "send"
<1> DEFINE Goal == client'[c] = client[c] \/ client'[c].pc \notin BookSteps
<1>0. Idle.pc = "idle"
  BY DEF Idle
<1> USE DEF BookSteps
<1>1. ASSUME NEW b, b.pc \notin BookSteps, client' = [client EXCEPT ![c] = b] PROVE Goal
  BY <1>1, OneSet
<1>2. ASSUME client' = [client EXCEPT ![c] = Idle] PROVE Goal
  BY <1>0, <1>2, OneSet
<1>3. ASSUME NEW r, NEW work, NEW next, GetPortfolio(c, r, work, next) PROVE Goal
  BY <1>3, LoadingIsNoBook
<1>4. /\ \A r, next : PrepareSwap(c, r, next) => Goal
      /\ \A r : PrepareAdd(c, r) \/ PrepareRemove(c, r) \/ PrepareOther(c, r) => Goal
  <2> HIDE DEF Goal
  <2>1. ASSUME NEW r, NEW next, PrepareSwap(c, r, next) PROVE Goal
    BY <1>3, <2>1 DEF PrepareSwap
  <2>2. ASSUME NEW r, PrepareAdd(c, r) PROVE Goal
    BY <1>3, <2>2 DEF PrepareAdd
  <2>3. ASSUME NEW r, PrepareRemove(c, r) PROVE Goal
    BY <1>3, <2>3 DEF PrepareRemove
  <2>4. ASSUME NEW r, PrepareOther(c, r) PROVE Goal
    BY <1>3, <2>4 DEF PrepareOther
  <2> QED
    BY <2>1, <2>2, <2>3, <2>4
<1>5. CASE Accept(c)
  <2> HIDE DEF Goal
  <2>1. Goal
    BY <1>4, <1>5, Zenon DEF Accept
  <2> QED
    BY <1>5, <2>1 DEF Accept, Goal
<1>6. CASE AcceptLeg(c)
  <2> HIDE DEF Goal
  <2>1. Goal
    BY <1>2, <1>4, <1>6, Zenon DEF AcceptLeg
  <2> QED
    BY <1>6, <2>1 DEF AcceptLeg, Goal
<1>7. CASE AcceptDeploy(c)
  <2>1. PICK r, k : client' = [client EXCEPT ![c] = [pc |-> "deploy", req |-> [r EXCEPT !.key = k], work |-> tokens]]
    BY <1>7, Zenon DEF AcceptDeploy
  <2> DEFINE b == [pc |-> "deploy", req |-> [r EXCEPT !.key = k], work |-> tokens]
  <2>2. b.pc \notin BookSteps /\ client' = [client EXCEPT ![c] = b]
    BY <2>1
  <2> HIDE DEF b, Goal
  <2>3. Goal
    BY <1>1, <2>2
  <2> QED
    BY <1>7, <2>3 DEF AcceptDeploy, Goal
<1>8. CASE Send(c)
  BY <1>8 DEF Send
<1>9. CASE OneXSwapExecute(c) \/ OneXSwapAddLiquidity(c) \/ OneXSwapRemoveLiquidity(c)
  <2>1. (\E p : SaveFirst(c, p)) \/ (\E p : Drop(c, p))
    BY <1>9, Zenon DEF OneXSwapExecute, OneXSwapAddLiquidity, OneXSwapRemoveLiquidity
  <2>2. nodeBal' = nodeBal /\ client[c].pc = "loaded"
    BY <1>9 DEF OneXSwapExecute, OneXSwapAddLiquidity, OneXSwapRemoveLiquidity, Elsewhere, Serving
  <2>3. CASE \E p : Drop(c, p)
    BY <1>2, <2>2, <2>3, Zenon DEF Drop
  <2>4. CASE \E p : SaveFirst(c, p)
    <3>1. PICK p : SaveFirst(c, p)
      BY <2>4
    <3>2. client'[c] = [client[c] EXCEPT !.pc = "update", !.p = p]
      BY <3>1, SaveFirstSets
    <3>3. client'[c].pc \notin BookSteps
      <4>1. CASE "pc" \in DOMAIN client[c]
        BY <3>2, <4>1
      <4>2. "pc" \in DOMAIN client[c]
        <5>1. RequestOK(client[c])
          BY DEF RequestsOK
        <5> QED
          BY <2>2, <5>1 DEF RequestOK, ServedOK, Idle, TransferOK
      <4> QED
        BY <4>1, <4>2
    <3> QED
      BY <2>2, <3>3
  <2> QED
    BY <2>1, <2>3, <2>4
<1>10. CASE UpdatePool(c)
  <2>1. nodeBal' = nodeBal
    BY <1>10 DEF UpdatePool
  <2>2. \/ client' = [client EXCEPT ![c] = Idle]
        \/ client' = [client EXCEPT ![c] = IF client[c].next = <<>> THEN Idle
                                           ELSE [pc |-> "leg", req |-> Head(client[c].next)]]
    BY <1>10, Zenon DEF UpdatePool
  <2> DEFINE b == IF client[c].next = <<>> THEN Idle ELSE [pc |-> "leg", req |-> Head(client[c].next)]
  <2>3. b.pc \notin BookSteps
    BY <1>0
  <2> HIDE DEF b, Goal
  <2>4. Goal
    BY <1>1, <1>2, <2>2, <2>3 DEF b
  <2> QED
    BY <2>1, <2>4 DEF Goal
<1>11. CASE Ending(c)
  BY <1>2, <1>11, EndingEnds
<1> QED
  BY <1>5, <1>6, <1>7, <1>8, <1>9, <1>10, <1>11 DEF Serve, Ending

LEMMA RecordingStays ==
  DaemonInv /\ InUse /\ FileFollows /\ Paying /\ [DaemonNext]_<<vars, bookVars>> => FileFollows' /\ Paying'
<1> SUFFICES ASSUME DaemonInv, InUse, FileFollows, Paying, [DaemonNext]_<<vars, bookVars>>
             PROVE  FileFollows' /\ Paying'
  OBVIOUS
<1>1. menu' = menu /\ RequestsOK
  BY MenuStays DEF DaemonInv, BridgeInv, Copies
<1>2. CASE ~Serial'
  BY <1>2 DEF FileFollows, Paying
<1>3. ASSUME Serial PROVE FileFollows' /\ Paying'
  <2>1. ASSUME UNCHANGED bookVars PROVE FileFollows'
    BY <1>1, <2>1 DEF FileFollows, Serial, bookVars
  <2>2. CASE (Tick /\ UNCHANGED bookVars) \/ UNCHANGED <<vars, bookVars>>
    BY <1>1, <2>1, <2>2, PayingLater DEF Tick, vars, bookVars
  <2>3. ASSUME NEW c \in Client, Serve(c), UNCHANGED bookVars PROVE Paying'
    <3>1. \A d \in Client \ {c} : client'[d] = Idle
      BY <1>3, <2>3, NoneSettles
    <3>2. client'[c] = client[c] \/ client'[c].pc # "settle"
      BY <1>1, <2>3, ServeIsNoBook DEF BookSteps
    <3>3. CASE nodeBal' = nodeBal
      BY <1>1, <2>3, <3>1, <3>2, <3>3, PayingLater DEF bookVars, Idle
    <3>4. CASE nodeBal' # nodeBal
      BY <1>1, <2>3, <3>4, ServeIsNoBook DEF Paying, BookPays
    <3> QED
      BY <3>3, <3>4
  <2>4. CASE \E c \in Client : BookStep(c)
    <3>1. Serial'
      BY <1>1, <1>3 DEF Serial
    <3> QED
      BY <2>4, <3>1, BookRecords
  <2>5. CASE DaemonCrash
    BY <1>3, <2>5 DEF DaemonCrash, Crash, Serial
  <2> QED
    BY <2>1, <2>2, <2>3, <2>4, <2>5 DEF DaemonNext
<1> QED
  BY <1>1, <1>2, <1>3 DEF Serial

\* With one request at a time, and as long as no record was cut off, what the
\* node's wallet has lost to transfers is in records that say so: the record put
\* first after a payment is the one of that payment (Transfer, settleLedgerExternal).
THEOREM PaymentsAreOnRecord == DaemonSpec => []OnChainRecorded
<1>1. DaemonInit => FileFollows /\ Paying
  <2> SUFFICES ASSUME DaemonInit PROVE FileFollows /\ Paying
    OBVIOUS
  <2>1. book = EmptyBook /\ bfile = NoBook /\ book.xfers = <<>> /\ nodeBal = NodeBalance
        /\ client = [c \in Client |-> Idle]
    BY DEF DaemonInit, Init, BookInit, EmptyBook
  <2>2. ListedOK(book.xfers) /\ OnRecord(<<>>) = 0
    <3>1. DOMAIN <<>> = {} /\ IsFiniteSet({}) /\ <<>> \in Seq({})
      BY FS_EmptySet
    <3>2. [i \in {} |-> LeftNode(<<>>[i])] = [i \in {} |-> 0]
      OBVIOUS
    <3> QED
      BY <2>1, <3>1, <3>2, TotalZero DEF OnRecord, ListedOK
  <2>3. NodeBalance \in Nat
    BY BridgeAssumption, Integers64
  <2> QED
    BY <2>1, <2>2, <2>3 DEF FileFollows, Paying, Idle
<1>2. Paying => OnChainRecorded
  <2>1. OnRecord(book.xfers) = Sum(book.xfers, LAMBDA x : IF x.status = "on_chain" THEN x.out + Fee ELSE 0)
    BY Zenon DEF OnRecord, LeftNode, Sum
  <2> QED
    BY <2>1 DEF Paying, BookPays, OnChainRecorded
<1> QED
  BY <1>1, <1>2, InitialUse, InUseStays, RecordingStays, DaemonInvariantHolds, PTL DEF DaemonSpec

-----------------------------------------------------------------------------
(* A transfer makes no value. *)

\* What a finite set is mapped onto is finite.
LEMMA FiniteCovered ==
  ASSUME NEW S, IsFiniteSet(S), NEW T, NEW f, \A t \in T : \E s \in S : f[s] = t
  PROVE  IsFiniteSet(T)
<1> DEFINE R == {s \in S : f[s] \in T}
           g == [s \in R |-> f[s]]
<1>1. IsFiniteSet(R)
  BY FS_Subset
<1>2. g \in Surjection(R, T)
  BY DEF Surjection
<1> HIDE DEF R, g
<1> QED
  BY <1>1, <1>2, FS_Surjection

\* The book and the snapshots being entered into it are finite.
BookFinite ==
  /\ IsFiniteSet(DOMAIN book.accts)
  /\ bfile \in {NoBook, Unreadable} \/ IsFiniteSet(DOMAIN bfile.accts)
  /\ \A c \in Client : client[c].pc = "snapshot" => IsFiniteSet(client[c].snap)

LEMMA BankFinite ==
  ASSUME NEW answers
  PROVE  IsFiniteSet(ReadBankLedgerWithProvider(BankConfig, answers))
<1> DEFINE S == BankConfig.rows
<1>1. IsFiniteSet(S)
  BY ListAssumption
<1>2. IsFiniteSet(PlaidEntries(S))
  <2> DEFINE f == [r \in S |-> Entry(<<r.id>>, r.cur, IF r.current # NoAmount THEN r.current ELSE r.available)]
  <2>1. \A t \in PlaidEntries(S) : \E r \in S : f[r] = t
    BY DEF PlaidEntries
  <2> HIDE DEF f, S
  <2> QED
    BY <1>1, <2>1, FiniteCovered
<1>3. IsFiniteSet(TrueLayerEntries(S))
  <2> DEFINE f == [r \in S |-> Entry(<<r.id>>, r.cur, IF r.current = 0 /\ r.available # NoAmount THEN r.available
                                                     ELSE r.current)]
  <2>1. \A t \in TrueLayerEntries(S) : \E r \in S : f[r] = t
    BY DEF TrueLayerEntries
  <2> HIDE DEF f, S
  <2> QED
    BY <1>1, <2>1, FiniteCovered
<1>4. IsFiniteSet(BankEntries(S))
  <2> DEFINE f == [r \in S |-> Entry(<<r.id>>, r.cur, r.current)]
  <2>1. \A t \in BankEntries(S) : \E r \in S : f[r] = t
    BY DEF BankEntries
  <2> HIDE DEF f, S
  <2> QED
    BY <1>1, <2>1, FiniteCovered
<1> QED
  BY <1>2, <1>3, <1>4, FS_EmptySet DEF ReadBankLedgerWithProvider

LEMMA SnapshotFinite ==
  ASSUME NEW p, NEW up, NEW bankUp, NEW list, list # <<>> => Head(list) \in Import
  PROVE  IsFiniteSet(Snapshot(p, up, bankUp, list))
<1> DEFINE AtNode == IF up /\ nodeBal > 0 THEN {Entry(<<"onex-native">>, KeyAsset[ONEX], nodeBal)} ELSE {}
           OnChains == ReadEVMEntries(TokenList, NativeBalance, TokenBalance)
           InWallet == IF Production(menu) THEN {}
                   ELSE {Entry(<<"portfolio", k>>, KeyAsset[k], p.bal[k]) : k \in {x \in Key : p.bal[x] > 0}}
           FromImport == IF list = <<>> THEN {} ELSE ParseImportLedger(Head(list))
           AtBank == ReadBankLedgerWithProvider(BankConfig, bankUp)
<1>1. IsFiniteSet(AtBank)
  BY BankFinite
<1>2. IsFiniteSet(AtNode)
  BY FS_EmptySet, FS_Singleton
<1>3. IsFiniteSet(OnChains)
  <2> DEFINE f == [t \in TokenList |->
                     Entry(<<"evm", t.id>>, t.symbol, IF t.known THEN TokenBalance[t.id] ELSE NativeBalance[t.chain])]
  <2>1. \A e \in OnChains : \E t \in TokenList : f[t] = e
    BY DEF ReadEVMEntries
  <2> HIDE DEF f, OnChains
  <2> QED
    BY <2>1, ListAssumption, FiniteCovered
<1>4. IsFiniteSet(InWallet)
  <2> DEFINE f == [k \in Key |-> Entry(<<"portfolio", k>>, KeyAsset[k], p.bal[k])]
  <2>1. \A e \in InWallet : \E k \in Key : f[k] = e
    OBVIOUS
  <2> HIDE DEF f, InWallet
  <2> QED
    BY <2>1, KeyAssumption, FiniteCovered
<1>5. IsFiniteSet(FromImport)
  BY ListAssumption, FS_EmptySet DEF ParseImportLedger
<1>6. Snapshot(p, up, bankUp, list) = AtBank \cup AtNode \cup OnChains \cup InWallet \cup FromImport
  BY DEF Snapshot
<1> HIDE DEF AtBank, AtNode, OnChains, InWallet, FromImport
<1> QED
  <2>1. IsFiniteSet(AtBank \cup AtNode)
    BY <1>1, <1>2, FS_Union
  <2>2. IsFiniteSet((AtBank \cup AtNode) \cup OnChains)
    BY <1>3, <2>1, FS_Union
  <2>3. IsFiniteSet((AtBank \cup AtNode \cup OnChains) \cup InWallet)
    BY <1>4, <2>2, FS_Union
  <2>4. IsFiniteSet((AtBank \cup AtNode \cup OnChains \cup InWallet) \cup FromImport)
    BY <1>5, <2>3, FS_Union
  <2> QED
    BY <1>6, <2>4

LEMMA SynchronisedFinite ==
  ASSUME NEW accts, IsFiniteSet(DOMAIN accts), NEW snap, IsFiniteSet(snap)
  PROVE  IsFiniteSet(DOMAIN Synchronised(accts, snap))
<1> DEFINE Ids == {e.id : e \in snap}
           f == [e \in snap |-> e.id]
<1>1. \A i \in Ids : \E e \in snap : f[e] = i
  OBVIOUS
<1>2. DOMAIN Synchronised(accts, snap) = DOMAIN accts \cup Ids
  BY DEF Synchronised
<1> HIDE DEF Ids, f
<1>3. IsFiniteSet(Ids)
  BY <1>1, FiniteCovered
<1> QED
  BY <1>2, <1>3, FS_Union

LEMMA WithFinite ==
  ASSUME NEW accts, IsFiniteSet(DOMAIN accts), NEW id, NEW a
  PROVE  IsFiniteSet(DOMAIN With(accts, id, a)) /\ DOMAIN With(accts, id, a) = DOMAIN accts \cup {id}
BY FS_AddElement DEF With

\* The snapshot of a request is made of what was answered to it.
LEMMA SnapshotTaken ==
  ASSUME DaemonInv, NEW c \in Client, BookRequest(c)
  PROVE  client'[c].pc = "snapshot" => IsFiniteSet(client'[c].snap)
<1>0. PICK r \in Offered(menu), up \in BOOLEAN, bankUp \in BOOLEAN : BookAsked(c, r, up, bankUp)
  BY BookRequestAsked
<1>1. LET p == Synced(IF CanLoad THEN Load ELSE DefaultPortfolio, up)
      IN  /\ imports' \in IF r.op = "import" THEN Imported(imports, r.doc) ELSE {imports}
          /\ client' = [client EXCEPT ![c] =
               IF r.op = "peek" THEN Idle
               ELSE [pc |-> "snapshot", req |-> r, snap |-> Snapshot(p, up, bankUp, imports')]]
  BY <1>0 DEF BookAsked
<1> DEFINE p == Synced(IF CanLoad THEN Load ELSE DefaultPortfolio, up)
           snap == Snapshot(p, up, bankUp, imports')
           b == IF r.op = "peek" THEN Idle ELSE [pc |-> "snapshot", req |-> r, snap |-> snap]
<1>2. imports' \in Seq(Import)
  BY BookRequestStep
<1>3. imports' # <<>> => Head(imports') \in Import
  BY <1>2
<1>4. RequestsOK
  BY DEF DaemonInv, BridgeInv, Copies
<1>5. client' = [client EXCEPT ![c] = b]
  BY <1>1
<1> HIDE DEF p
<1>6. IsFiniteSet(snap)
  BY <1>3, SnapshotFinite
<1> HIDE DEF snap
<1>7. b.pc = "snapshot" => IsFiniteSet(b.snap)
  BY <1>6 DEF Idle
<1> HIDE DEF b
<1>8. client'[c] = b
  BY <1>4, <1>5, OneSet
<1> QED
  BY <1>7, <1>8

\* A change of the book that leaves it finite.
LEMMA FiniteSaved ==
  ASSUME BookFinite, RequestsOK, NEW c \in Client, NEW b, NEW next, SaveBook(c, b, next),
         IsFiniteSet(DOMAIN b.accts), next.pc # "snapshot"
  PROVE  BookFinite'
<1>1. book' = b /\ bfile' \in {b, bfile}
  BY DEF SaveBook
<1>2. client' = [client EXCEPT ![c] = next] \/ client' = [client EXCEPT ![c] = Idle]
  BY DEF SaveBook
<1>3. OthersStay(c) /\ client'[c].pc # "snapshot"
  <2>1. Idle.pc # "snapshot"
    BY DEF Idle
  <2> QED
    BY <1>2, <2>1, OneSet
<1> QED
  BY <1>1, <1>3 DEF BookFinite, OthersStay

\* A step that leaves the book alone.
LEMMA FiniteKept ==
  ASSUME BookFinite, UNCHANGED <<book, bfile>>, NEW c \in Client, OthersStay(c),
         client'[c] = client[c] \/ (client'[c].pc = "snapshot" => IsFiniteSet(client'[c].snap))
  PROVE  BookFinite'
BY DEF BookFinite, OthersStay

LEMMA BookStepFinite ==
  ASSUME DaemonInv, BookFinite, NEW c \in Client, BookStep(c)
  PROVE  BookFinite'
<1>1. RequestsOK /\ OthersStay(c)
  BY BooksAlone DEF DaemonInv, BridgeInv, Copies
<1>2. ASSUME NEW b, client' = [client EXCEPT ![c] = b], b.pc # "snapshot", UNCHANGED <<book, bfile>>
      PROVE  BookFinite'
  <2>1. client'[c].pc # "snapshot"
    BY <1>1, <1>2, OneSet
  <2> QED
    BY <1>1, <1>2, <2>1, FiniteKept
<1>3. Idle.pc # "snapshot"
  BY DEF Idle
<1>4. CASE BookRequest(c)
  <2>1. UNCHANGED <<book, bfile>>
    BY <1>4 DEF BookRequest
  <2> QED
    BY <1>1, <1>4, <2>1, SnapshotTaken, FiniteKept
<1>5. CASE EndRequest(c)
  BY <1>2, <1>3, <1>5 DEF EndRequest
<1>6. CASE SyncFromSnapshot(c) /\ ~EndRequest(c)
  <2> DEFINE r == client[c].req
             b == [Opened EXCEPT !.accts = Synchronised(@, client[c].snap)]
             next == IF r.op \in {"convert", "transfer"} THEN [pc |-> "synced", req |-> r] ELSE Idle
  <2>1. SaveBook(c, b, next) /\ client[c].pc = "snapshot" /\ CanOpen
    BY <1>6 DEF SyncFromSnapshot
  <2>2. next.pc # "snapshot"
    BY <1>3
  <2>3. IsFiniteSet(DOMAIN b.accts)
    <3>1. PICK a, x : Opened = [accts |-> a, xfers |-> x]
      BY <2>1, OpenedOK DEF DaemonInv, BookOK
    <3>2. IsFiniteSet(DOMAIN Opened.accts)
      <4>1. DOMAIN EmptyBook.accts = {}
        BY DEF EmptyBook
      <4> QED
        BY <2>1, <4>1, FS_EmptySet DEF Opened, CanOpen, BookFinite
    <3>3. IsFiniteSet(client[c].snap)
      BY <2>1 DEF BookFinite
    <3>4. IsFiniteSet(DOMAIN Synchronised(Opened.accts, client[c].snap))
      BY <3>2, <3>3, SynchronisedFinite
    <3>5. b.accts = Synchronised(Opened.accts, client[c].snap)
      BY <3>1
    <3> QED
      BY <3>4, <3>5
  <2> HIDE DEF b, next
  <2> QED
    BY <1>1, <2>1, <2>2, <2>3, FiniteSaved
<1>7. CASE Transfer(c)
  <2>1. CASE client' = [client EXCEPT ![c] = Idle]
    BY <1>2, <1>3, <1>7, <2>1 DEF Transfer
  <2>2. ASSUME NEW w, client' = [client EXCEPT ![c] = [pc |-> "copied", work |-> w]] PROVE BookFinite'
    <3> DEFINE b == [pc |-> "copied", work |-> w]
    <3>1. b.pc # "snapshot" /\ client' = [client EXCEPT ![c] = b]
      BY <2>2
    <3> HIDE DEF b
    <3> QED
      BY <1>2, <1>7, <3>1 DEF Transfer
  <2> QED
    BY <1>7, <2>1, <2>2, Zenon DEF Transfer
<1>8. CASE ApplyTransfer(c)
  <2> DEFINE w == client[c].work
             b == [accts |-> Moved(book.accts, w), xfers |-> Kept(<<Record(w)>> \o book.xfers)]
             next == IF w.external THEN [pc |-> "settle", work |-> w] ELSE Idle
  <2>1. SaveBook(c, b, next)
    BY <1>8 DEF ApplyTransfer
  <2>2. next.pc # "snapshot"
    BY <1>3
  <2>3. IsFiniteSet(DOMAIN b.accts)
    <3> DEFINE debit == [asset |-> w.asset, bal |-> w.bal - w.amt]
               debited == With(book.accts, w.from, debit)
               to == IF w.to \in DOMAIN debited THEN debited[w.to].bal ELSE 0
               credit == [asset |-> w.outAsset, bal |-> to + w.out]
    <3>1. Moved(book.accts, w) = With(debited, w.to, credit)
      BY DEF Moved
    <3> HIDE DEF debit, credit
    <3>2. IsFiniteSet(DOMAIN debited)
      BY WithFinite DEF BookFinite
    <3> HIDE DEF debited
    <3>3. IsFiniteSet(DOMAIN With(debited, w.to, credit))
      BY <3>2, WithFinite
    <3> QED
      BY <3>1, <3>3
  <2> HIDE DEF b, next
  <2> QED
    BY <1>1, <2>1, <2>2, <2>3, FiniteSaved
<1>9. CASE Settle(c)
  <2>1. PICK list : SaveBook(c, [book EXCEPT !.xfers = list], Idle)
    BY <1>9, Zenon DEF Settle
  <2> DEFINE b == [book EXCEPT !.xfers = list]
  <2>2. b.accts = book.accts
    <3>1. PICK a, x : book = [accts |-> a, xfers |-> x]
      BY DEF DaemonInv, BookState, BookOK
    <3> QED
      BY <3>1
  <2>3. SaveBook(c, b, Idle)
    BY <2>1
  <2> HIDE DEF b
  <2> QED
    BY <1>1, <1>3, <2>2, <2>3, FiniteSaved DEF BookFinite
<1> QED
  BY <1>4, <1>5, <1>6, <1>7, <1>8, <1>9 DEF BookStep, SettleFails

LEMMA FiniteStays == DaemonInv /\ BookFinite /\ [DaemonNext]_<<vars, bookVars>> => BookFinite'
<1> SUFFICES ASSUME DaemonInv, BookFinite, [DaemonNext]_<<vars, bookVars>> PROVE BookFinite'
  OBVIOUS
<1>1. RequestsOK
  BY DEF DaemonInv, BridgeInv, Copies
<1>2. CASE UNCHANGED client /\ UNCHANGED bookVars
  BY <1>2 DEF BookFinite, bookVars
<1>3. ASSUME NEW c \in Client, Serve(c), UNCHANGED bookVars PROVE BookFinite'
  BY <1>1, <1>3, ServesAlone, ServeIsNoBook, FiniteKept DEF bookVars, BookSteps
<1>4. CASE DaemonCrash
  <2>1. /\ book' = EmptyBook /\ bfile' \in {bfile, Unreadable}
        /\ client' = [c \in Client |-> Idle]
    BY <1>4 DEF DaemonCrash, Crash
  <2>2. DOMAIN EmptyBook.accts = {} /\ Idle.pc # "snapshot"
    BY DEF EmptyBook, Idle
  <2> QED
    BY <2>1, <2>2, FS_EmptySet DEF BookFinite
<1> QED
  BY <1>2, <1>3, <1>4, BookStepFinite DEF DaemonNext, Tick, vars

\* What an account is worth, and accounts of which all are worth something.
Value(a) == Price[a.asset] * a.bal

Valued(accts) ==
  /\ IsFiniteSet(DOMAIN accts)
  /\ \A id \in DOMAIN accts : accts[id].asset \in DOMAIN Price /\ accts[id].bal \in Nat

LEMMA ValueType ==
  ASSUME NEW a, a.asset \in DOMAIN Price, a.bal \in Nat
  PROVE  Value(a) \in Nat
<1>1. Price[a.asset] \in Nat
  BY BookAssumption
<1> QED
  BY <1>1, ProductType DEF Value

LEMMA Distributes ==
  ASSUME NEW k \in Nat, NEW x \in Nat, NEW y \in Nat
  PROVE  k * (x + y) = k * x + k * y
BY SMT

\* Writing an account changes what all are worth by what that one is.
LEMMA WorthWith ==
  ASSUME NEW accts, Valued(accts), NEW id, NEW a, a.asset \in DOMAIN Price, a.bal \in Nat
  PROVE  /\ Valued(With(accts, id, a)) /\ Worth(accts) \in Int
         /\ Worth(With(accts, id, a)) =
              Worth(accts) - (IF id \in DOMAIN accts THEN Value(accts[id]) ELSE 0) + Value(a)
<1> DEFINE D == DOMAIN accts
           new == With(accts, id, a)
           f == [x \in D |-> Price[accts[x].asset] * accts[x].bal]
           g == [x \in D \cup {id} |-> Price[new[x].asset] * new[x].bal]
<1>1. /\ DOMAIN new = D \cup {id} /\ new[id] = a
      /\ \A x \in D : x # id => new[x] = accts[x]
  BY DEF With
<1>2. Worth(accts) = Total(f) /\ Worth(new) = Total(g)
  BY <1>1 DEF Worth
<1>3. /\ \A x \in D : Value(accts[x]) \in Nat
      /\ Value(a) \in Nat
  BY ValueType DEF Valued
<1>4. Valued(new)
  <2>1. IsFiniteSet(D \cup {id})
    BY FS_AddElement DEF Valued
  <2> QED
    BY <1>1, <2>1 DEF Valued
<1>5. /\ \A x \in D : f[x] = Value(accts[x])
      /\ g[id] = Value(a)
      /\ \A x \in D : x # id => g[x] = f[x]
  <2>1. \A x \in D \cup {id} : g[x] = Value(new[x])
    BY DEF Value
  <2>2. \A x \in D : f[x] = Value(accts[x])
    BY DEF Value
  <2> HIDE DEF f, g, new
  <2> QED
    BY <1>1, <2>1, <2>2
<1>6. DOMAIN f = D /\ DOMAIN g = D \cup {id} /\ f = [x \in D |-> f[x]] /\ g = [x \in D \cup {id} |-> g[x]]
  OBVIOUS
<1> HIDE DEF f, g, new
<1>7. f \in [D -> Int] /\ g \in [D \cup {id} -> Int]
  BY <1>3, <1>5, <1>6
<1>8. IsFiniteSet(D)
  BY DEF Valued
<1> HIDE DEF D
<1>9. Total(f) \in Int
  BY <1>7, <1>8, TotalType
<1>10. CASE id \in D
  <2>1. g \in [D -> Int] /\ \A x \in D \ {id} : g[x] = f[x]
    <3>1. D \cup {id} = D
      BY <1>10
    <3> QED
      BY <1>5, <1>7, <3>1
  <2>2. Total(g) = Total(f) - f[id] + g[id]
    BY <1>7, <1>8, <1>10, <2>1, TotalUpdate
  <2>3. Worth(new) = Worth(accts) - Value(accts[id]) + Value(a)
    BY <1>2, <1>5, <1>10, <2>2
  <2> QED
    BY <1>2, <1>4, <1>9, <1>10, <2>3 DEF new, D
<1>11. CASE id \notin D
  <2>0. \A x \in D : g[x] = f[x]
    BY <1>5, <1>11
  <2>1. Total(g) = Total(f) + g[id]
    <3>1. \A u, v : IsFiniteSet(D) /\ id \notin D /\ u \in [D -> Int] /\ v \in [D \cup {id} -> Int]
                      /\ (\A y \in D : v[y] = u[y])
                    => Total(v) = Total(u) + v[id]
      BY TotalNewAll, Zenon
    <3> QED
      BY <1>7, <1>8, <1>11, <2>0, <3>1, Zenon
  <2>2. Worth(new) = Worth(accts) - 0 + Value(a)
    BY <1>2, <1>3, <1>5, <1>9, <2>1
  <2> QED
    BY <1>2, <1>4, <1>9, <1>11, <2>2 DEF new, D
<1> QED
  BY <1>10, <1>11

\* What arrives is worth no more than what leaves.
Fair(w) == Price[w.outAsset] * w.out <= Price[w.asset] * w.amt

\* The copy is still what the account is.
Faithful(w) ==
  /\ w.from \in DOMAIN book.accts
  /\ book.accts[w.from].asset = w.asset /\ book.accts[w.from].bal = w.bal

LEMMA MovedWorth ==
  ASSUME Valued(book.accts), NEW w, TransferOK(w), Faithful(w), Fair(w), ~Relabels(w)
  PROVE  Worth(Moved(book.accts, w)) <= Worth(book.accts)
<1> DEFINE accts == book.accts
           debit == [asset |-> w.asset, bal |-> w.bal - w.amt]
           debited == With(accts, w.from, debit)
           to == IF w.to \in DOMAIN debited THEN debited[w.to].bal ELSE 0
           credit == [asset |-> w.outAsset, bal |-> to + w.out]
           P == Price[w.asset]
           Q == Price[w.outAsset]
<1>1. Moved(accts, w) = With(debited, w.to, credit)
  BY DEF Moved
<1>2. /\ debit.asset = w.asset /\ debit.bal = w.bal - w.amt /\ debit.bal \in Nat
      /\ w.asset \in DOMAIN Price /\ w.outAsset \in DOMAIN Price
      /\ w.bal \in Nat /\ w.amt \in Nat /\ w.out \in Nat
      /\ credit.asset = w.outAsset /\ credit.bal = to + w.out
  BY DEF TransferOK
<1>3. P \in Nat /\ Q \in Nat
  BY <1>2, BookAssumption
<1>4. /\ DOMAIN debited = DOMAIN accts \cup {w.from} /\ debited[w.from] = debit
      /\ \A x \in DOMAIN accts : x # w.from => debited[x] = accts[x]
  BY DEF With
<1>5. Value(debit) = P * (w.bal - w.amt) /\ Value(accts[w.from]) = P * w.bal /\ w.from \in DOMAIN accts
  BY <1>2 DEF Value, Faithful
<1>6. Value(credit) = Q * (to + w.out)
  BY <1>2 DEF Value
<1> HIDE DEF credit, debit
<1>7. Valued(debited) /\ Worth(accts) \in Int /\ Worth(debited) = Worth(accts) - P * w.bal + P * (w.bal - w.amt)
  <2>1. /\ Valued(With(accts, w.from, debit)) /\ Worth(accts) \in Int
        /\ Worth(With(accts, w.from, debit)) =
              Worth(accts) - (IF w.from \in DOMAIN accts THEN Value(accts[w.from]) ELSE 0) + Value(debit)
    BY <1>2, WorthWith
  <2> QED
    BY <1>5, <2>1
<1> HIDE DEF debited
<1>8. to \in Nat
  BY <1>7 DEF Valued
<1> HIDE DEF to
<1>9. credit.bal \in Nat /\ credit.asset \in DOMAIN Price
  BY <1>2, <1>8
<1>10. Worth(With(debited, w.to, credit)) =
         Worth(debited) - (IF w.to \in DOMAIN debited THEN Value(debited[w.to]) ELSE 0) + Q * (to + w.out)
  BY <1>6, <1>7, <1>9, WorthWith
<1>11. (IF w.to \in DOMAIN debited THEN Value(debited[w.to]) ELSE 0) = Q * to
  <2>1. CASE w.to = w.from
    <3>1. w.outAsset = w.asset
      BY <2>1 DEF Relabels
    <3>2. to = w.bal - w.amt
      BY <1>2, <1>4, <2>1 DEF to
    <3> QED
      BY <1>4, <1>5, <2>1, <3>1, <3>2
  <2>2. CASE w.to # w.from /\ w.to \in DOMAIN accts
    <3>1. debited[w.to] = accts[w.to] /\ w.to \in DOMAIN debited
      BY <1>4, <2>2
    <3>2. accts[w.to].asset = w.outAsset /\ to = accts[w.to].bal
      BY <2>2, <3>1 DEF Relabels, to
    <3> QED
      BY <3>1, <3>2 DEF Value
  <2>3. CASE w.to # w.from /\ w.to \notin DOMAIN accts
    <3>1. to = 0 /\ w.to \notin DOMAIN debited
      BY <1>4, <2>3 DEF to
    <3> QED
      BY <1>3, <3>1
  <2> QED
    BY <2>1, <2>2, <2>3
<1>12. /\ P * w.bal = P * (w.bal - w.amt) + P * w.amt
       /\ Q * (to + w.out) = Q * to + Q * w.out
  <2>1. w.bal - w.amt \in Nat /\ w.bal = (w.bal - w.amt) + w.amt
    BY <1>2 DEF debit
  <2> HIDE DEF P, Q
  <2>2. P * ((w.bal - w.amt) + w.amt) = P * (w.bal - w.amt) + P * w.amt
    BY <1>2, <1>3, <2>1, Distributes
  <2>3. Q * (to + w.out) = Q * to + Q * w.out
    BY <1>2, <1>3, <1>8, Distributes
  <2> QED
    BY <2>1, <2>2, <2>3
<1>13. /\ P * w.bal \in Int /\ P * (w.bal - w.amt) \in Int /\ P * w.amt \in Int
       /\ Q * to \in Int /\ Q * w.out \in Int
  <2>1. w.bal - w.amt \in Nat
    BY <1>2 DEF debit
  <2> HIDE DEF P, Q
  <2> QED
    BY <1>2, <1>3, <1>8, <2>1, ProductType
<1>14. Q * w.out <= P * w.amt
  BY DEF Fair
<1> HIDE DEF P, Q, accts
<1> QED
  BY <1>1, <1>7, <1>10, <1>11, <1>12, <1>13, <1>14 DEF accts

LEMMA ConvertedWorth ==
  ASSUME NEW n \in Nat, NEW from \in DOMAIN Price, NEW to \in DOMAIN Price, Convertible(from, to)
  PROVE  Price[to] * ConvertAmount(n, from, to) <= Price[from] * n
<1> DEFINE P == Price[from]
           Q == Price[to]
<1>1. P \in Nat /\ Q \in Nat \ {0}
  BY BookAssumption DEF Convertible
<1>2. ConvertAmount(n, from, to) = (n * P) \div Q
  BY DEF ConvertAmount
<1> HIDE DEF P, Q
<1>3. n * P \in Nat
  BY <1>1, ProductType
<1> DEFINE m == n * P
<1>4. m = P * n
  BY <1>1
<1>5. m \in Nat
  BY <1>3
<1> HIDE DEF m
<1>6. (m \div Q) \in Nat /\ (m \div Q) * Q <= m
  BY <1>1, <1>5, Quotient
<1> DEFINE q == m \div Q
<1>7. q * Q = Q * q
  BY <1>1, <1>6
<1> QED
  BY <1>2, <1>4, <1>6, <1>7 DEF m, P, Q

\* A transfer that passes is on a true copy and gives no more than it takes.
LEMMA PassingFair ==
  ASSUME BookState, NEW r, BookRequestOK(r), r.op \in {"convert", "transfer"}, NEW w \in Passing(r)
  PROVE  Faithful(w) /\ Fair(w)
<1>1. PICK x \in (IF r.op = "convert" THEN ConvertActive(r) ELSE {r}) :
        x.from \in DOMAIN book.accts /\ w = Worked(x, book.accts[x.from]) /\ w.open
  BY DEF Passing
<1> DEFINE from == book.accts[x.from]
           changed == x.conv # NoRef /\ x.conv # from.asset
           asset == IF changed THEN x.conv ELSE from.asset
<1>2. /\ w.from = x.from /\ w.asset = from.asset /\ w.outAsset = asset /\ w.bal = from.bal /\ w.amt = x.amt
      /\ w.out = (IF changed THEN ConvertAmount(x.amt, from.asset, asset) ELSE x.amt)
      /\ w.open = (~changed \/ Convertible(from.asset, asset))
  BY <1>1 DEF Worked
<1>3. TransferOK(w)
  BY PassingOK
<1>4. Faithful(w)
  BY <1>1, <1>2 DEF Faithful
<1> HIDE DEF from
<1>5. CASE ~changed
  <2>1. w.out = w.amt /\ w.outAsset = w.asset
    BY <1>2, <1>5
  <2>2. Price[w.asset] \in Nat /\ w.amt \in Nat
    BY <1>3, BookAssumption DEF TransferOK
  <2>3. Price[w.asset] * w.amt \in Nat
    BY <2>2, ProductType
  <2> QED
    BY <1>4, <2>1, <2>3 DEF Fair
<1>6. CASE changed
  <2>1. w.out = ConvertAmount(w.amt, w.asset, w.outAsset) /\ Convertible(w.asset, w.outAsset)
    BY <1>1, <1>2, <1>6
  <2> QED
    BY <1>3, <1>4, <2>1, ConvertedWorth DEF TransferOK, Fair
<1> QED
  BY <1>5, <1>6

\* With one request at a time the copy a transfer has is the account.
CopyFaithful ==
  Serial => \A c \in Client : client[c].pc = "copied" =>
              Faithful(client[c].work) /\ Fair(client[c].work)

LEMMA BookStepFaithful ==
  ASSUME DaemonInv, InUse, Serial, CopyFaithful, NEW c \in Client, BookStep(c)
  PROVE  CopyFaithful'
<1>1. RequestsOK /\ \A d \in Client \ {c} : client'[d] = Idle
  BY NoneSettles DEF DaemonInv, BridgeInv, Copies
<1>2. Idle.pc # "copied"
  BY DEF Idle
<1>3. ASSUME client'[c].pc # "copied" PROVE CopyFaithful'
  BY <1>1, <1>2, <1>3 DEF CopyFaithful
<1>4. ASSUME NEW b, b.pc # "copied", client' = [client EXCEPT ![c] = b] PROVE CopyFaithful'
  BY <1>1, <1>3, <1>4, OneSet
<1>5. ASSUME NEW b, NEW next, next.pc # "copied", SaveBook(c, b, next) PROVE CopyFaithful'
  BY <1>2, <1>4, <1>5 DEF SaveBook
<1>6. CASE BookRequest(c)
  <2>1. PICK r, snap : \/ client' = [client EXCEPT ![c] = Idle]
                       \/ client' = [client EXCEPT ![c] = [pc |-> "snapshot", req |-> r, snap |-> snap]]
    <3>1. PICK r \in Offered(menu), up \in BOOLEAN, bankUp \in BOOLEAN : BookAsked(c, r, up, bankUp)
      BY <1>6, BookRequestAsked
    <3> HIDE DEF Idle
    <3> QED
      BY <3>1 DEF BookAsked
  <2> DEFINE b == [pc |-> "snapshot", req |-> r, snap |-> snap]
  <2>2. b.pc # "copied"
    OBVIOUS
  <2>3. client' = [client EXCEPT ![c] = Idle] \/ client' = [client EXCEPT ![c] = b]
    BY <2>1
  <2> HIDE DEF b
  <2> QED
    BY <1>2, <1>4, <2>2, <2>3
<1>7. CASE SyncFromSnapshot(c)
  <2>1. CASE EndRequest(c)
    BY <1>2, <1>4, <2>1 DEF EndRequest
  <2>2. CASE ~EndRequest(c)
    <3> DEFINE r == client[c].req
               next == IF r.op \in {"convert", "transfer"} THEN [pc |-> "synced", req |-> r] ELSE Idle
    <3>1. next.pc # "copied"
      BY <1>2
    <3>2. PICK b : SaveBook(c, b, next)
      BY <1>7, <2>2, Zenon DEF SyncFromSnapshot
    <3> HIDE DEF next
    <3> QED
      BY <1>5, <3>1, <3>2
  <2> QED
    BY <2>1, <2>2
<1>8. CASE Transfer(c)
  <2>1. UNCHANGED <<book, bfile>> /\ client[c].pc = "synced"
    BY <1>8 DEF Transfer
  <2>2. CASE client' = [client EXCEPT ![c] = Idle]
    BY <1>2, <1>4, <2>2
  <2>3. ASSUME NEW w \in Passing(client[c].req), client' = [client EXCEPT ![c] = [pc |-> "copied", work |-> w]]
        PROVE  CopyFaithful'
    <3> DEFINE b == [pc |-> "copied", work |-> w]
               r == client[c].req
    <3>1. BookRequestOK(r) /\ r.op \in {"convert", "transfer"}
      <4>1. RequestOK(client[c])
        BY <1>1 DEF RequestsOK
      <4> QED
        BY <2>1, <4>1 DEF RequestOK, Idle, ServedOK
    <3>2. Faithful(w) /\ Fair(w)
      BY <2>3, <3>1, PassingFair DEF DaemonInv
    <3>3. b.work = w /\ client' = [client EXCEPT ![c] = b]
      BY <2>3
    <3> HIDE DEF b
    <3>4. client'[c].work = w
      BY <1>1, <3>3, OneSet
    <3> QED
      BY <1>1, <1>2, <2>1, <3>2, <3>4 DEF CopyFaithful, Faithful, Fair
  <2> QED
    BY <1>8, <2>2, <2>3, Zenon DEF Transfer
<1>9. CASE ApplyTransfer(c)
  <2> DEFINE w == client[c].work
             next == IF w.external THEN [pc |-> "settle", work |-> w] ELSE Idle
  <2>1. next.pc # "copied"
    BY <1>2
  <2>2. PICK b : SaveBook(c, b, next)
    BY <1>9, Zenon DEF ApplyTransfer
  <2> HIDE DEF next
  <2> QED
    BY <1>5, <2>1, <2>2
<1>10. CASE Settle(c)
  <2>1. PICK b : SaveBook(c, b, Idle)
    BY <1>10, Zenon DEF Settle
  <2> QED
    BY <1>2, <1>5, <2>1
<1>11. CASE SettleFails(c)
  BY <1>2, <1>4, <1>11 DEF SettleFails, EndRequest
<1> QED
  BY <1>6, <1>7, <1>8, <1>9, <1>10, <1>11 DEF BookStep

LEMMA FaithfulStays ==
  DaemonInv /\ InUse /\ CopyFaithful /\ [DaemonNext]_<<vars, bookVars>> => CopyFaithful'
<1> SUFFICES ASSUME DaemonInv, InUse, CopyFaithful, [DaemonNext]_<<vars, bookVars>>, Serial'
             PROVE  CopyFaithful'
  BY DEF CopyFaithful
<1>1. Serial /\ RequestsOK
  BY MenuStays DEF Serial, DaemonInv, BridgeInv, Copies
<1>2. CASE UNCHANGED client /\ UNCHANGED book
  BY <1>1, <1>2 DEF CopyFaithful, Faithful, Fair
<1>3. ASSUME NEW c \in Client, Serve(c), UNCHANGED bookVars PROVE CopyFaithful'
  <2>1. \A d \in Client \ {c} : client'[d] = Idle
    BY <1>1, <1>3, NoneSettles
  <2>2. client'[c] = client[c] \/ client'[c].pc # "copied"
    BY <1>1, <1>3, ServeIsNoBook DEF BookSteps
  <2> QED
    BY <1>1, <1>3, <2>1, <2>2 DEF CopyFaithful, Faithful, Fair, bookVars, Idle
<1>4. CASE DaemonCrash
  BY <1>4 DEF DaemonCrash, Crash, CopyFaithful, Idle
<1> QED
  BY <1>1, <1>2, <1>3, <1>4, BookStepFaithful DEF DaemonNext, Tick, vars, bookVars

\* With one request at a time a transfer, converted or not, to another account or
\* to its own, leaves accounts that are worth at most what they were: rounding
\* only loses (BookStore.Transfer, ConvertAmount).
THEOREM TransfersMakeNoValue == DaemonSpec => TransferConserves
<1> DEFINE Conserved ==
      \A c \in Client :
        Serial /\ client[c].pc = "copied" /\ book' # book /\ ~Relabels(client[c].work) =>
          Worth(book'.accts) <= Worth(book.accts)
<1>1. DaemonInv /\ InUse /\ BookFinite /\ CopyFaithful /\ [DaemonNext]_<<vars, bookVars>> => Conserved
  <2> SUFFICES ASSUME DaemonInv, InUse, BookFinite, CopyFaithful, [DaemonNext]_<<vars, bookVars>>,
                      NEW c \in Client, Serial, client[c].pc = "copied", book' # book,
                      ~Relabels(client[c].work)
               PROVE  Worth(book'.accts) <= Worth(book.accts)
    OBVIOUS
  <2> DEFINE w == client[c].work
  <2>1. client[c] # Idle /\ RequestsOK
    BY DEF Idle, DaemonInv, BridgeInv, Copies
  <2>2. CASE BookStep(c)
    <3>1. ApplyTransfer(c)
      BY <2>2 DEF BookStep, BookRequest, SyncFromSnapshot, Transfer, Settle, SettleFails, EndRequest, Idle
    <3>2. book' = [accts |-> Moved(book.accts, w), xfers |-> Kept(<<Record(w)>> \o book.xfers)]
      BY <3>1, Zenon DEF ApplyTransfer, SaveBook
    <3>3. book'.accts = Moved(book.accts, w)
      BY <3>2
    <3>4. TransferOK(w)
      <4>1. RequestOK(client[c])
        BY <2>1 DEF RequestsOK
      <4> QED
        BY <4>1 DEF RequestOK, Idle, ServedOK
    <3>5. Valued(book.accts)
      BY DEF Valued, BookFinite, DaemonInv, BookState, BookOK
    <3>6. Faithful(w) /\ Fair(w)
      BY DEF CopyFaithful
    <3> QED
      BY <3>3, <3>4, <3>5, <3>6, MovedWorth
  <2>3. ASSUME NEW d \in Client \ {c}, BookStep(d) PROVE FALSE
    <3>1. \A e \in Client \ {d} : client'[e] = Idle
      BY <2>3, NoneSettles
    <3>2. OthersStay(d)
      BY <2>1, <2>3, BooksAlone
    <3> QED
      BY <2>1, <2>3, <3>1, <3>2 DEF OthersStay
  <2>4. CASE DaemonCrash
    BY <2>4 DEF DaemonCrash, Crash, Serial
  <2> QED
    BY <2>2, <2>3, <2>4 DEF DaemonNext, bookVars
<1>2. DaemonInit => BookFinite /\ CopyFaithful
  <2>1. DOMAIN EmptyBook.accts = {} /\ Idle.pc = "idle"
    BY DEF EmptyBook, Idle
  <2> QED
    BY <2>1, FS_EmptySet DEF DaemonInit, Init, BookInit, BookFinite, CopyFaithful
<1> HIDE DEF Conserved
<1>3. DaemonSpec => [][Conserved]_<<vars, bookVars>>
  BY <1>1, <1>2, InitialUse, InUseStays, FiniteStays, FaithfulStays, DaemonInvariantHolds, PTL DEF DaemonSpec
<1> QED
  BY <1>3, Zenon DEF Conserved, TransferConserves

-----------------------------------------------------------------------------
(* One request at a time: the portfolio a request has is the cached one. *)

\* With one request at a time, every copy of the portfolio is the cached one.
CopyCurrent ==
  Serial => /\ file # Unreadable
            /\ \A c \in Client : client[c].pc \in {"loaded", "update"} => client[c].p = cache

\* A request that is being served has a well-formed copy of the portfolio.
LEMMA ServedHas ==
  ASSUME RequestsOK, NEW c \in Client, client[c].pc \in {"loaded", "update"}
  PROVE  ServedOK(client[c]) /\ client[c].p \in Portfolio
<1>1. RequestOK(client[c])
  BY DEF RequestsOK
<1>2. ServedOK(client[c])
  BY <1>1 DEF RequestOK, Idle
<1> QED
  BY <1>2 DEF ServedOK

\* The copy a request has is what the next load would give.
LEMMA LoadCurrent ==
  ASSUME Copies, CopyCurrent, Serial
  PROVE  /\ CanLoad /\ Load \in Portfolio
         /\ \A c \in Client : client[c].pc \in {"loaded", "update"} => client[c].p = Load
<1>1. CanLoad
  BY DEF CopyCurrent, CanLoad
<1>2. Load \in Portfolio
  BY <1>1, LoadOK DEF Copies
<1>3. ASSUME NEW c \in Client, client[c].pc \in {"loaded", "update"}
      PROVE  client[c].p = Load
  <2>1. client[c].p \in Portfolio /\ client[c].p = cache
    BY <1>3, ServedHas DEF Copies, CopyCurrent
  <2> QED
    BY <2>1, PortfolioAssumption DEF Load
<1> QED
  BY <1>1, <1>2, <1>3

\* GetPortfolio caches and saves the copy that it gives.
LEMMA SerialLoads ==
  ASSUME RequestsOK, Serial, NEW c \in Client, NEW r, NEW w, NEW next, GetPortfolio(c, r, w, next)
  PROVE  /\ cache' = Synced(Load, TRUE) /\ file' = Synced(Load, TRUE)
         /\ client'[c].pc = "loaded" /\ client'[c].req = r /\ client'[c].work = w
         /\ client'[c].p = Synced(Load, TRUE)
<1> DEFINE p == Synced(Load, TRUE)
           b == [pc |-> "loaded", req |-> r, p |-> p, work |-> w, next |-> next]
<1>1. cache' = p /\ file' = p /\ client' = [client EXCEPT ![c] = b]
  BY DEF GetPortfolio, Serial
<1>2. b.pc = "loaded" /\ b.req = r /\ b.work = w /\ b.p = p
  OBVIOUS
<1> HIDE DEF b, p
<1>3. client'[c] = b
  BY <1>1, OneSet
<1> QED
  BY <1>1, <1>2, <1>3 DEF p

\* SaveFirst caches and saves the copy, and leaves the pool to be put back.
LEMMA SerialSaves ==
  ASSUME RequestsOK, Serial, NEW c \in Client, client[c].pc = "loaded", NEW p, SaveFirst(c, p)
  PROVE  /\ cache' = p /\ file' = p
         /\ client'[c].pc = "update" /\ client'[c].req = client[c].req
         /\ client'[c].work = client[c].work /\ client'[c].p = p
<1>1. ServedOK(client[c])
  BY ServedHas
<1>2. client'[c] = [client[c] EXCEPT !.pc = "update", !.p = p]
  BY SaveFirstSets
<1>3. cache' = p /\ file' = p
  BY DEF SaveFirst, Serial
<1> QED
  BY <1>1, <1>2, <1>3 DEF ServedOK

\* An operation that ends its request saves what it puts into the cache.
LEMMA EndsSaved ==
  ASSUME ~Faulty(menu), NEW c \in Client, Ending(c)
  PROVE  file' = file \/ file' = cache'
<1> DEFINE Goal == file' = file \/ file' = cache'
<1>1. (\E p, t : Done(c, p, t)) \/ (\E p : Drop(c, p)) => Goal
  BY DEF Done, Drop
<1> HIDE DEF Goal
<1>2. ASSUME ~DeployPlatformToken(c) PROVE (\E p, t : Done(c, p, t)) \/ (\E p : Drop(c, p))
  <2>1. CASE Read(c)
    BY <2>1, Zenon DEF Read
  <2>2. CASE Stake(c)
    BY <2>2, Zenon DEF Stake
  <2>3. CASE Unstake(c)
    BY <2>3, Zenon DEF Unstake
  <2>4. CASE RecordDeposit(c)
    BY <2>4, Zenon DEF RecordDeposit
  <2>5. CASE SwapExecute(c)
    BY <2>5, Zenon DEF SwapExecute
  <2>6. CASE MintNFT(c)
    BY <2>6, Zenon DEF MintNFT
  <2>7. CASE TransferNFT(c)
    BY <2>7, Zenon DEF TransferNFT
  <2>8. CASE CompleteTask(c)
    BY <2>8, Zenon DEF CompleteTask
  <2>9. CASE CreateLoan(c)
    BY <2>9, Zenon DEF CreateLoan
  <2>10. CASE RepayLoan(c)
    BY <2>10, Zenon DEF RepayLoan
  <2>11. CASE SendToken(c)
    BY <2>11, Zenon DEF SendToken
  <2>12. CASE WrapPlatformToken(c)
    BY <2>12, Zenon DEF WrapPlatformToken
  <2> QED
    BY <1>2, <2>1, <2>2, <2>3, <2>4, <2>5, <2>6, <2>7, <2>8, <2>9, <2>10, <2>11, <2>12 DEF Ending
<1>3. CASE DeployPlatformToken(c)
  <2>1. (\E p, t : Done(c, p, t)) \/ file' = file
    BY <1>3, Zenon DEF DeployPlatformToken
  <2> QED
    BY <1>1, <2>1 DEF Goal
<1> QED
  BY <1>1, <1>2, <1>3 DEF Goal

\* What a step does to the portfolio and to its own request.
LEMMA ServeShapes ==
  ASSUME RequestsOK, Serial, NEW c \in Client, Serve(c)
  PROVE  \/ \E r, w, next : GetPortfolio(c, r, w, next)
         \/ client[c].pc = "loaded" /\ \E p : SaveFirst(c, p)
         \/ client'[c].pc \notin {"loaded", "update"} /\ (file' = file \/ file' = cache')
<1> DEFINE Gets  == \E r, w, next : GetPortfolio(c, r, w, next)
           Saves == client[c].pc = "loaded" /\ \E p : SaveFirst(c, p)
           Ends  == client'[c].pc \notin {"loaded", "update"} /\ (file' = file \/ file' = cache')
<1>1. ~Faulty(menu) /\ Idle.pc = "idle"
  BY DEF Serial, Idle
<1>2. ASSUME NEW b, b.pc \notin {"loaded", "update"}, client' = [client EXCEPT ![c] = b],
             file' = file \/ file' = cache'
      PROVE  Ends
  BY <1>2, OneSet
<1>3. ASSUME client' = [client EXCEPT ![c] = Idle], file' = file \/ file' = cache' PROVE Ends
  BY <1>1, <1>3, OneSet
<1>4. ASSUME NEW p, NEW t, Done(c, p, t) PROVE Ends
  <2>1. file' = cache' /\ client' = [client EXCEPT ![c] = Idle]
    BY <1>1, <1>4 DEF Done
  <2> HIDE DEF Ends
  <2> QED
    BY <1>3, <2>1
<1>5. ASSUME NEW p, Drop(c, p) PROVE Ends
  BY <1>3, <1>5 DEF Drop
<1>6. /\ \A r, next : PrepareSwap(c, r, next) => Gets
      /\ \A r : PrepareAdd(c, r) \/ PrepareRemove(c, r) \/ PrepareOther(c, r) => Gets
  <2>1. ASSUME NEW r, NEW next, PrepareSwap(c, r, next) PROVE Gets
    BY <2>1 DEF PrepareSwap
  <2>2. ASSUME NEW r, PrepareAdd(c, r) PROVE Gets
    BY <2>2 DEF PrepareAdd
  <2>3. ASSUME NEW r, PrepareRemove(c, r) PROVE Gets
    BY <2>3 DEF PrepareRemove
  <2>4. ASSUME NEW r, PrepareOther(c, r) PROVE Gets
    BY <2>4 DEF PrepareOther
  <2> HIDE DEF Gets
  <2> QED
    BY <2>1, <2>2, <2>3, <2>4
<1>7. CASE Accept(c)
  <2> HIDE DEF Gets
  <2>1. Gets
    BY <1>6, <1>7, Zenon DEF Accept
  <2> QED
    BY <2>1 DEF Gets
<1>8. CASE AcceptLeg(c)
  <2> HIDE DEF Gets, Ends
  <2>1. CASE PrepareSwap(c, client[c].req, <<>>)
    BY <1>6, <2>1 DEF Gets
  <2>2. CASE client' = [client EXCEPT ![c] = Idle] /\ file' = file
    BY <1>3, <2>2 DEF Ends
  <2> QED
    BY <1>8, <2>1, <2>2 DEF AcceptLeg
<1>9. CASE AcceptDeploy(c)
  <2>1. file' = file
    BY <1>9 DEF AcceptDeploy
  <2>2. PICK r, work : client' = [client EXCEPT ![c] = [pc |-> "deploy", req |-> r, work |-> work]]
    BY <1>9, Zenon DEF AcceptDeploy
  <2>3. Ends
    BY <1>2, <2>1, <2>2
  <2> QED
    BY <2>3
<1>10. CASE Send(c)
  BY <1>1, <1>10 DEF Send
<1>11. CASE OneXSwapExecute(c) \/ OneXSwapAddLiquidity(c) \/ OneXSwapRemoveLiquidity(c)
  <2>1. client[c].pc = "loaded"
    BY <1>11 DEF OneXSwapExecute, OneXSwapAddLiquidity, OneXSwapRemoveLiquidity, Serving
  <2>2. (\E p : SaveFirst(c, p)) \/ (\E p : Drop(c, p))
    BY <1>11, Zenon DEF OneXSwapExecute, OneXSwapAddLiquidity, OneXSwapRemoveLiquidity
  <2> QED
    BY <1>5, <2>1, <2>2
<1>12. CASE UpdatePool(c)
  <2>1. file' = file \/ file' = cache'
    BY <1>1, <1>12 DEF UpdatePool
  <2> DEFINE leg == [pc |-> "leg", req |-> Head(client[c].next)]
             b == IF client[c].next = <<>> THEN Idle ELSE leg
  <2>2. client' = [client EXCEPT ![c] = b] \/ client' = [client EXCEPT ![c] = Idle]
    BY <1>12, Zenon DEF UpdatePool
  <2>3. b.pc \notin {"loaded", "update"}
    BY <1>1
  <2> HIDE DEF b, Ends
  <2>4. Ends
    BY <1>2, <1>3, <2>1, <2>2, <2>3
  <2> QED
    BY <2>4 DEF Ends
<1>13. CASE Ending(c)
  <2>1. client' = [client EXCEPT ![c] = Idle]
    BY <1>13, EndingEnds
  <2>2. file' = file \/ file' = cache'
    BY <1>1, <1>13, EndsSaved
  <2> QED
    BY <1>3, <2>1, <2>2
<1> QED
  BY <1>7, <1>8, <1>9, <1>10, <1>11, <1>12, <1>13 DEF Serve, Ending

\* With one request at a time, what it has of the portfolio is what is cached.
LEMMA CopyStays ==
  ASSUME DaemonInv, InUse, CopyCurrent, [DaemonNext]_<<vars, bookVars>>
  PROVE  CopyCurrent'
<1> SUFFICES ASSUME Serial'
             PROVE  /\ file' # Unreadable
                    /\ \A c \in Client : client'[c].pc \in {"loaded", "update"} => client'[c].p = cache'
  BY DEF CopyCurrent
<1>1. Serial /\ RequestsOK /\ SavedOK /\ nodeBal \in UInt /\ menu' = menu
  BY MenuStays DEF Serial, DaemonInv, BridgeInv, Copies
<1>2. SavedOK'
  BY DaemonStepKeeps DEF DaemonInv, BridgeInv, Copies
<1>3. file # Unreadable /\ \A c \in Client : client[c].pc \in {"loaded", "update"} => client[c].p = cache
  BY <1>1 DEF CopyCurrent
<1>4. CASE UNCHANGED <<client, cache, file>>
  BY <1>3, <1>4
<1>5. ASSUME NEW c \in Client, OthersStay(c), client[c] # Idle \/ c \in Using(menu)
      PROVE  \A d \in Client \ {c} : client'[d].pc \notin {"loaded", "update"}
  <2>1. \A d \in Client \ {c} : client[d] = Idle
    BY <1>1, <1>5, OthersIdle
  <2> QED
    BY <1>5, <2>1 DEF OthersStay, Idle
<1>6. file' = cache' => file' # Unreadable
  BY <1>2, PortfolioAssumption DEF SavedOK
<1>7. ASSUME NEW c \in Client, Serve(c)
      PROVE  /\ file' # Unreadable
             /\ \A d \in Client : client'[d].pc \in {"loaded", "update"} => client'[d].p = cache'
  <2>1. \A d \in Client \ {c} : client'[d].pc \notin {"loaded", "update"}
    BY <1>1, <1>5, <1>7, ServesAlone
  <2>2. ASSUME NEW r, NEW w, NEW next, GetPortfolio(c, r, w, next)
        PROVE  file' = cache' /\ client'[c].p = cache'
    BY <1>1, <2>2, SerialLoads
  <2>3. ASSUME NEW p, client[c].pc = "loaded", SaveFirst(c, p)
        PROVE  file' = cache' /\ client'[c].p = cache'
    BY <1>1, <2>3, SerialSaves
  <2>4. \/ file' = cache' /\ client'[c].p = cache'
        \/ client'[c].pc \notin {"loaded", "update"} /\ (file' = file \/ file' = cache')
    <3>1. CASE \E r, w, next : GetPortfolio(c, r, w, next)
      BY <2>2, <3>1
    <3>2. CASE client[c].pc = "loaded" /\ \E p : SaveFirst(c, p)
      BY <2>3, <3>2
    <3> QED
      BY <1>1, <1>7, <3>1, <3>2, ServeShapes
  <2> QED
    BY <1>3, <1>6, <2>1, <2>4
<1>8. ASSUME NEW c \in Client, BookStep(c)
      PROVE  /\ file' # Unreadable
             /\ \A d \in Client : client'[d].pc \in {"loaded", "update"} => client'[d].p = cache'
  <2>1. \A d \in Client \ {c} : client'[d].pc \notin {"loaded", "update"}
    BY <1>1, <1>5, <1>8, BooksAlone
  <2>2. client'[c].pc \notin {"loaded", "update"}
    BY <1>1, <1>8, BookAside, OneSet
  <2>3. file' = file \/ file' = cache'
    <3>1. CASE BookRequest(c)
      BY <1>1, <3>1 DEF BookRequest, Serial
    <3>2. CASE ~BookRequest(c)
      BY <1>8, <3>2 DEF BookStep, SyncFromSnapshot, Transfer, ApplyTransfer, Settle, SettleFails, BookFrozen
    <3> QED
      BY <3>1, <3>2
  <2> QED
    BY <1>3, <1>6, <2>1, <2>2, <2>3
<1>9. ~DaemonCrash
  BY <1>1 DEF DaemonCrash, Crash, Serial
<1> QED
  BY <1>4, <1>7, <1>8, <1>9 DEF DaemonNext, Tick, vars

\* No request has a copy before the first is made.
LEMMA CopyStarts == DaemonInit => CopyCurrent
BY PortfolioAssumption DEF DaemonInit, Init, CopyCurrent, Idle

-----------------------------------------------------------------------------
(* Pools and the wallet make no token. *)

\* The tokens that neither the node nor a pool issues.
Plain == Key \ ({ONEX} \cup {LpKey[q] : q \in Pairs})

\* Those that k is paid in, of a pool or of a state of it.
Side0(p, q, k) == IF p # NoPool /\ q[1] = k THEN p.r0 ELSE 0
Side1(p, q, k) == IF p # NoPool /\ q[2] = k THEN p.r1 ELSE 0

\* What the tasks done in p have paid of k.
Earned(p, k) == Total([t \in p.done |-> TaskPay(k)[t]])

\* The portfolio p and the pools ps have no more than there was, and was earned.
Within(p, ps) ==
  \A k \in Plain : p.bal[k] + Reserve(ps, k) <= Prefunded[k] + Reserve(SeedPools, k) + Earned(p, k)

\* There are finitely many pools, each a pair of tokens.
LEMMA PairsFinite == IsFiniteSet(Pairs) /\ \A q \in Pairs : q = <<q[1], q[2]>> /\ q[1] \in Key /\ q[2] \in Key
<1>1. IsFiniteSet(Key \X Key)
  BY KeyAssumption, FS_Product
<1>2. Pairs \subseteq Key \X Key
  BY BridgeAssumption
<1> QED
  BY <1>1, <1>2, FS_Subset

\* A reserve of k is the sum of what it is on either side of the pools.
LEMMA ReserveSides ==
  ASSUME NEW ps \in [Pairs -> PoolState \cup {NoPool}], NEW k
  PROVE  /\ [q \in Pairs |-> Side0(ps[q], q, k)] \in [Pairs -> Int]
         /\ [q \in Pairs |-> Side1(ps[q], q, k)] \in [Pairs -> Int]
         /\ Reserve(ps, k) = Total([q \in Pairs |-> Side0(ps[q], q, k)])
                             + Total([q \in Pairs |-> Side1(ps[q], q, k)])
<1>1. /\ [q \in Pairs |-> IF ps[q] # NoPool /\ q[1] = k THEN ps[q].r0 ELSE 0] = [q \in Pairs |-> Side0(ps[q], q, k)]
      /\ [q \in Pairs |-> IF ps[q] # NoPool /\ q[2] = k THEN ps[q].r1 ELSE 0] = [q \in Pairs |-> Side1(ps[q], q, k)]
  BY DEF Side0, Side1
<1>2. \A q \in Pairs : Side0(ps[q], q, k) \in Int /\ Side1(ps[q], q, k) \in Int
  BY DEF Side0, Side1, PoolState
<1> QED
  BY <1>1, <1>2 DEF Reserve

\* A reserve is a number.
LEMMA ReserveType ==
  ASSUME NEW ps \in [Pairs -> PoolState \cup {NoPool}], NEW k
  PROVE  Reserve(ps, k) \in Int
<1> DEFINE f == [q \in Pairs |-> Side0(ps[q], q, k)]
           g == [q \in Pairs |-> Side1(ps[q], q, k)]
<1>1. f \in [Pairs -> Int] /\ g \in [Pairs -> Int] /\ Reserve(ps, k) = Total(f) + Total(g)
  BY ReserveSides
<1> HIDE DEF f, g
<1>2. Total(f) \in Int /\ Total(g) \in Int
  BY <1>1, PairsFinite, TotalType
<1> QED
  BY <1>1, <1>2

\* Replacing the pool of q changes its own tokens' reserves.
LEMMA ReserveUpdate ==
  ASSUME NEW ps \in [Pairs -> PoolState \cup {NoPool}], NEW us \in [Pairs -> PoolState \cup {NoPool}],
         NEW q \in Pairs, \A o \in Pairs \ {q} : us[o] = ps[o], NEW k
  PROVE  Reserve(us, k) = Reserve(ps, k) - Side0(ps[q], q, k) + Side0(us[q], q, k)
                          - Side1(ps[q], q, k) + Side1(us[q], q, k)
<1> DEFINE f == [o \in Pairs |-> Side0(ps[o], o, k)]
           g == [o \in Pairs |-> Side1(ps[o], o, k)]
           u == [o \in Pairs |-> Side0(us[o], o, k)]
           v == [o \in Pairs |-> Side1(us[o], o, k)]
<1>2. /\ f \in [Pairs -> Int] /\ g \in [Pairs -> Int] /\ Reserve(ps, k) = Total(f) + Total(g)
      /\ u \in [Pairs -> Int] /\ v \in [Pairs -> Int] /\ Reserve(us, k) = Total(u) + Total(v)
  BY ReserveSides
<1>3. /\ \A o \in Pairs \ {q} : u[o] = f[o] /\ v[o] = g[o]
      /\ f[q] = Side0(ps[q], q, k) /\ g[q] = Side1(ps[q], q, k)
      /\ u[q] = Side0(us[q], q, k) /\ v[q] = Side1(us[q], q, k)
  OBVIOUS
<1> HIDE DEF f, g, u, v
<1>4. Total(u) = Total(f) - f[q] + u[q] /\ Total(v) = Total(g) - g[q] + v[q]
  BY <1>2, <1>3, PairsFinite, TotalUpdate
<1>5. /\ Total(f) \in Int /\ Total(g) \in Int /\ Total(u) \in Int /\ Total(v) \in Int
      /\ f[q] \in Int /\ g[q] \in Int /\ u[q] \in Int /\ v[q] \in Int
  BY <1>2, PairsFinite, TotalType
<1> QED
  BY <1>2, <1>3, <1>4, <1>5

\* So are a balance, what was prefunded and what was earned.
LEMMA EarnedType ==
  ASSUME NEW p \in Portfolio, NEW k \in Key
  PROVE  Earned(p, k) \in Int /\ Prefunded[k] \in Int /\ p.bal[k] \in Int
BY NetType, BalanceType DEF Earned

\* The portfolio changes and a pool is put in place: nothing is made when what
\* both get together is not positive.
LEMMA WithinMoves ==
  ASSUME PoolsBacked, NEW p \in Portfolio, NEW r \in Portfolio, r.done = p.done,
         NEW q \in Pairs, NEW n \in PoolState, Within(p, pools),
         \A k \in Plain : r.bal[k] - p.bal[k] + (IF q[1] = k THEN n.r0 - Present(q).r0 ELSE 0)
                                              + (IF q[2] = k THEN n.r1 - Present(q).r1 ELSE 0) <= 0
  PROVE  Within(r, [pools EXCEPT ![q] = n])
<1> SUFFICES ASSUME NEW k \in Plain
             PROVE  r.bal[k] + Reserve([pools EXCEPT ![q] = n], k)
                      <= Prefunded[k] + Reserve(SeedPools, k) + Earned(r, k)
  BY DEF Within
<1>1. pools \in [Pairs -> PoolState \cup {NoPool}] /\ k \in Key
  BY DEF PoolsBacked, Plain
<1> DEFINE us == [pools EXCEPT ![q] = n]
<1>12. /\ us \in [Pairs -> PoolState \cup {NoPool}] /\ us[q] = n
       /\ \A o \in Pairs \ {q} : us[o] = pools[o]
  BY <1>1
<1> HIDE DEF us
<1>2. Reserve(us, k) = Reserve(pools, k) - Side0(pools[q], q, k) + Side0(n, q, k)
                       - Side1(pools[q], q, k) + Side1(n, q, k)
  <2>1. Reserve(us, k) = Reserve(pools, k) - Side0(pools[q], q, k) + Side0(us[q], q, k)
                         - Side1(pools[q], q, k) + Side1(us[q], q, k)
    BY <1>1, <1>12, ReserveUpdate
  <2> QED
    BY <1>12, <2>1
<1>3. n # NoPool
  BY BridgeAssumption
<1>4. Present(q) \in PoolState
  BY <1>1 DEF Present, EmptyPool, PoolState
<1>5. /\ Side0(n, q, k) - Side0(pools[q], q, k) = IF q[1] = k THEN n.r0 - Present(q).r0 ELSE 0
      /\ Side1(n, q, k) - Side1(pools[q], q, k) = IF q[2] = k THEN n.r1 - Present(q).r1 ELSE 0
  BY <1>1, <1>3 DEF Side0, Side1, Present, EmptyPool, PoolState
<1>6. /\ Side0(n, q, k) \in Int /\ Side0(pools[q], q, k) \in Int
      /\ Side1(n, q, k) \in Int /\ Side1(pools[q], q, k) \in Int
  BY <1>1 DEF Side0, Side1, PoolState
<1>7. Reserve(pools, k) \in Int /\ Reserve(SeedPools, k) \in Int
  BY <1>1, BridgeAssumption, ReserveType
<1>8. Earned(p, k) \in Int /\ Prefunded[k] \in Int /\ p.bal[k] \in Int /\ r.bal[k] \in Int
  BY <1>1, EarnedType
<1>9. Earned(r, k) = Earned(p, k)
  BY DEF Earned
<1>10. p.bal[k] + Reserve(pools, k) <= Prefunded[k] + Reserve(SeedPools, k) + Earned(p, k)
  BY DEF Within
<1>11. r.bal[k] - p.bal[k] + (Side0(n, q, k) - Side0(pools[q], q, k)) + (Side1(n, q, k) - Side1(pools[q], q, k)) <= 0
  BY <1>5
<1> QED
  BY <1>2, <1>6, <1>7, <1>8, <1>9, <1>10, <1>11 DEF us

\* A portfolio that has no more of anything stays within what there was.
LEMMA WithinLess ==
  ASSUME PoolsBacked, NEW p \in Portfolio, NEW r \in Portfolio, r.done = p.done, Within(p, pools),
         \A k \in Plain : r.bal[k] <= p.bal[k]
  PROVE  Within(r, pools)
<1> SUFFICES ASSUME NEW k \in Plain
             PROVE  r.bal[k] + Reserve(pools, k) <= Prefunded[k] + Reserve(SeedPools, k) + Earned(r, k)
  BY DEF Within
<1>1. pools \in [Pairs -> PoolState \cup {NoPool}] /\ k \in Key
  BY DEF PoolsBacked, Plain
<1>2. Reserve(pools, k) \in Int /\ Reserve(SeedPools, k) \in Int
  BY <1>1, BridgeAssumption, ReserveType
<1>3. Earned(p, k) \in Int /\ Prefunded[k] \in Int /\ p.bal[k] \in Int /\ r.bal[k] \in Int
  BY <1>1, EarnedType
<1>4. Earned(r, k) = Earned(p, k)
  BY DEF Earned
<1>5. p.bal[k] + Reserve(pools, k) <= Prefunded[k] + Reserve(SeedPools, k) + Earned(p, k)
  BY DEF Within
<1>6. r.bal[k] <= p.bal[k]
  OBVIOUS
<1> QED
  BY <1>2, <1>3, <1>4, <1>5, <1>6

\* So does the one that the node's balance is written into.
LEMMA WithinSynced ==
  ASSUME PoolsBacked, NEW p \in Portfolio, nodeBal \in UInt, NEW up, ~Production(menu), Within(p, pools)
  PROVE  Within(Synced(p, up), pools)
<1>1. Synced(p, up) \in Portfolio
  BY SyncedOK
<1>2. Synced(p, up).done = p.done /\ \A k \in Plain : Synced(p, up).bal[k] = p.bal[k]
  BY DEF Synced, Portfolio, Plain
<1>3. \A k \in Plain : p.bal[k] \in Int
  BY BalanceType DEF Plain
<1>4. \A k \in Plain : Synced(p, up).bal[k] <= p.bal[k]
  BY <1>2, <1>3
<1> QED
  BY <1>1, <1>2, <1>4, WithinLess

\* What a task pays is earned.
LEMMA TaskEarned ==
  ASSUME NEW p \in Portfolio, NEW i \in DOMAIN Reward, NEW k \in Key
  PROVE  completeTask(p, i).bal[k] - p.bal[k] <= Earned(completeTask(p, i), k) - Earned(p, k)
<1> DEFINE q == completeTask(p, i)
<1>1. q \in Portfolio
  BY TaskOK
<1>2. p.bal[k] \in Int /\ q.bal[k] \in Int /\ Earned(p, k) \in Int /\ Earned(q, k) \in Int
  BY <1>1, EarnedType
<1>3. CASE i \in p.done
  <2>1. q = p
    BY <1>3 DEF completeTask
  <2> QED
    BY <1>2, <2>1
<1>4. CASE i \notin p.done
  <2> DEFINE c == Credit(p, Reward[i].key, Reward[i].amt)
  <2>1. Reward[i].key \in Key /\ Reward[i].amt \in Nat
    BY BridgeAssumption
  <2>2. c \in Portfolio /\ SameRecords(p, c)
        /\ \A j \in Key : c.bal[j] <= p.bal[j] + (IF j = Reward[i].key THEN Reward[i].amt ELSE 0)
    BY <2>1, CreditBalances
  <2>3. q = [c EXCEPT !.done = @ \cup {i}]
    BY <1>4 DEF completeTask
  <2> HIDE DEF c
  <2>4. q.bal = c.bal /\ q.done = p.done \cup {i}
    BY <2>2, <2>3 DEF Portfolio, SameRecords
  <2> DEFINE D == p.done
             f == [j \in D |-> TaskPay(k)[j]]
             g == [j \in D \cup {i} |-> TaskPay(k)[j]]
  <2>5. IsFiniteSet(D) /\ D \subseteq DOMAIN Reward
    BY PortfolioFields, BridgeAssumption, FS_Subset
  <2>6. \A j \in DOMAIN Reward : TaskPay(k)[j] \in Int
    BY BridgeAssumption DEF TaskPay
  <2>7. i \notin D /\ f \in [D -> Int] /\ g \in [D \cup {i} -> Int] /\ (\A j \in D : g[j] = f[j])
        /\ g[i] = TaskPay(k)[i]
    BY <1>4, <2>5, <2>6
  <2>8. Earned(p, k) = Total(f) /\ Earned(q, k) = Total(g)
    BY <2>4 DEF Earned
  <2>9. TaskPay(k)[i] = (IF k = Reward[i].key THEN Reward[i].amt ELSE 0)
    BY DEF TaskPay
  <2> HIDE DEF D, f, g
  <2>10. \A v, w : /\ IsFiniteSet(D) /\ i \notin D /\ v \in [D -> Int] /\ w \in [D \cup {i} -> Int]
                   /\ (\A j \in D : w[j] = v[j])
                  => Total(w) = Total(v) + w[i]
    BY TotalNewAll, Zenon
  <2>11. Total(g) = Total(f) + g[i]
    BY <2>5, <2>7, <2>10, Zenon
  <2>12. q.bal[k] <= p.bal[k] + g[i] /\ g[i] \in Int
    BY <2>1, <2>2, <2>4, <2>7, <2>9
  <2> HIDE DEF q
  <2>13. q.bal[k] - p.bal[k] <= Earned(q, k) - Earned(p, k)
    BY <1>2, <2>8, <2>11, <2>12
  <2> QED
    BY <2>13 DEF q
<1> QED
  BY <1>3, <1>4

\* A task's reward adds to what was earned what it adds to the balance.
LEMMA WithinTaskIn ==
  ASSUME NEW ps \in [Pairs -> PoolState \cup {NoPool}], NEW p \in Portfolio, NEW i \in DOMAIN Reward, Within(p, ps)
  PROVE  Within(completeTask(p, i), ps)
<1> DEFINE q == completeTask(p, i)
<1> SUFFICES ASSUME NEW k \in Plain
             PROVE  q.bal[k] + Reserve(ps, k) <= Prefunded[k] + Reserve(SeedPools, k) + Earned(q, k)
  BY DEF Within
<1>1. k \in Key
  BY DEF Plain
<1>2. Reserve(ps, k) \in Int /\ Reserve(SeedPools, k) \in Int
  BY BridgeAssumption, ReserveType
<1>3. q \in Portfolio
  BY TaskOK
<1>4. /\ Earned(p, k) \in Int /\ Earned(q, k) \in Int /\ Prefunded[k] \in Int
      /\ p.bal[k] \in Int /\ q.bal[k] \in Int
  BY <1>1, <1>3, EarnedType
<1>5. p.bal[k] + Reserve(ps, k) <= Prefunded[k] + Reserve(SeedPools, k) + Earned(p, k)
  BY DEF Within
<1>6. q.bal[k] - p.bal[k] <= Earned(q, k) - Earned(p, k)
  BY <1>1, TaskEarned
<1> HIDE DEF q
<1> QED
  BY <1>2, <1>4, <1>5, <1>6

\* A removal of shares pays no more than the reserves and no less than nothing.
LEMMA RemovePays ==
  ASSUME NEW p, Backed(p), NEW s \in UInt, CanRemove(p, s)
  PROVE  Paid0(p, s) \in Nat /\ Paid1(p, s) \in Nat
<1> DEFINE b == Burnt(p, s)
<1>1. p.r0 \in Nat /\ p.r1 \in Nat /\ p.shares \in Nat /\ s \in Nat
  BY Integers64 DEF Backed, PoolState
<1>2. b > 0 /\ b \in Nat /\ b < p.shares /\ p.shares \in Nat \ {0}
  BY <1>1 DEF CanRemove, Burnt
<1>3. p.r0 \in Nat \ {0} /\ p.r1 \in Nat \ {0}
  BY <1>1, <1>2 DEF Backed
<1> HIDE DEF b
<1>4. (b * p.r0) \div p.shares \in Nat /\ (b * p.r1) \div p.shares \in Nat
  BY <1>2, <1>3, BurnLeaves
<1> QED
  BY <1>4 DEF Paid0, Paid1, b

\* What a swap, a deposit and a withdrawal do to both sides.
LEMMA SwapWithin ==
  ASSUME PoolsBacked, NEW p \in Portfolio, NEW r \in PoolRequest, r.op = "amm", NEW w,
         WorkOK(r, w), WorkedOut(r, w), Covers(p, r.from, r.amt), Within(p, pools)
  PROVE  Within(Credit(Debit(p, r.from, r.amt), r.to, w.out), [pools EXCEPT ![w.id] = w.copy])
<1> DEFINE q == w.id
           old == Present(q)
           n == w.copy
           x == Credit(Debit(p, r.from, r.amt), r.to, w.out)
           zeroIn == r.from = q[1]
<1>1. r.from \in Key /\ r.to \in Key /\ r.amt \in Nat /\ w.out \in Nat
  BY PoolFields, Integers64 DEF WorkOK
<1>2. /\ x \in Portfolio /\ SameRecords(p, x)
      /\ \A k \in Key : x.bal[k] - p.bal[k] <= (IF k = r.to THEN w.out ELSE 0) - (IF k = r.from THEN r.amt ELSE 0)
  BY <1>1, ExchangeBalances
<1>3. q \in Pairs /\ n \in PoolState /\ old \in PoolState
  BY DEF WorkOK, Backed, Present, PoolsBacked, EmptyPool, PoolState
<1>4. /\ {q[1], q[2]} = {r.from, r.to}
      /\ n = Swap(old, zeroIn, r.amt) /\ w.out = AmountOut(old, zeroIn, r.amt)
  BY DEF WorkedOut
<1>5. IF r.from = q[1]
      THEN r.to = q[2] /\ n.r0 = old.r0 + r.amt /\ n.r1 = old.r1 - w.out
      ELSE r.from = q[2] /\ r.to = q[1] /\ n.r0 = old.r0 - w.out /\ n.r1 = old.r1 + r.amt
  BY <1>4 DEF Swap, AmountOut
<1> HIDE DEF x, n, old
<1>6. ASSUME NEW k \in Plain
      PROVE  x.bal[k] - p.bal[k] + (IF q[1] = k THEN n.r0 - old.r0 ELSE 0)
                                 + (IF q[2] = k THEN n.r1 - old.r1 ELSE 0) <= 0
  <2>1. k \in Key /\ x.bal[k] \in Int /\ p.bal[k] \in Int
    BY <1>2, BalanceType DEF Plain
  <2>2. x.bal[k] - p.bal[k] <= (IF k = r.to THEN w.out ELSE 0) - (IF k = r.from THEN r.amt ELSE 0)
    BY <1>2, <2>1
  <2>3. n.r0 \in Int /\ n.r1 \in Int /\ old.r0 \in Int /\ old.r1 \in Int
    BY <1>3 DEF PoolState
  <2> QED
    BY <1>1, <1>5, <2>1, <2>2, <2>3
<1>7. x.done = p.done
  BY <1>2 DEF SameRecords
<1>8. Within(x, [pools EXCEPT ![q] = n])
  BY <1>2, <1>3, <1>6, <1>7, WithinMoves DEF old
<1> QED
  BY <1>8 DEF x, n

\* Added liquidity puts into the pool what it takes from the wallet.
LEMMA AddWithin ==
  ASSUME PoolsBacked, NEW p \in Portfolio, NEW r \in PoolRequest, r.op = "add", NEW w,
         WorkOK(r, w), WorkedOut(r, w), r.t0 = w.id[1], r.t1 = w.id[2],
         Covers(p, r.t0, r.a0), Covers(Debit(p, r.t0, r.a0), r.t1, r.a1), Within(p, pools)
  PROVE  Within(Credit(Debit(Debit(p, r.t0, r.a0), r.t1, r.a1), LpKey[w.id], w.out),
                [pools EXCEPT ![w.id] = w.copy])
<1> DEFINE q == w.id
           old == Present(q)
           n == w.copy
           d == Debit(p, r.t0, r.a0)
           x == Credit(Debit(d, r.t1, r.a1), LpKey[q], w.out)
<1>1. r.t0 \in Key /\ r.t1 \in Key /\ r.a0 \in Nat /\ r.a1 \in Nat /\ w.out \in Nat /\ LpKey[q] \in Key
  BY PoolFields, Integers64, BridgeAssumption DEF WorkOK
<1>2. d \in Portfolio /\ SameRecords(p, d)
      /\ \A k \in Key : d.bal[k] = p.bal[k] - (IF k = r.t0 THEN r.a0 ELSE 0)
  BY <1>1, DebitBalances
<1>3. Covers(d, r.t1, r.a1)
  OBVIOUS
<1> HIDE DEF d
<1>4. /\ x \in Portfolio /\ SameRecords(d, x)
      /\ \A k \in Key : x.bal[k] - d.bal[k] <= (IF k = LpKey[q] THEN w.out ELSE 0) - (IF k = r.t1 THEN r.a1 ELSE 0)
  BY <1>1, <1>2, <1>3, ExchangeBalances
<1>5. q \in Pairs /\ n \in PoolState /\ old \in PoolState
  BY DEF WorkOK, Backed, Present, PoolsBacked, EmptyPool, PoolState
<1>6. n.r0 = old.r0 + r.a0 /\ n.r1 = old.r1 + r.a1
  BY DEF WorkedOut, AddLiquidity
<1> HIDE DEF x, n, old
<1>7. ASSUME NEW k \in Plain
      PROVE  x.bal[k] - p.bal[k] + (IF q[1] = k THEN n.r0 - old.r0 ELSE 0)
                                 + (IF q[2] = k THEN n.r1 - old.r1 ELSE 0) <= 0
  <2>1. k \in Key /\ x.bal[k] \in Int /\ p.bal[k] \in Int /\ d.bal[k] \in Int /\ k # LpKey[q]
    BY <1>2, <1>4, <1>5, BalanceType DEF Plain
  <2>2. /\ x.bal[k] - d.bal[k] <= 0 - (IF k = r.t1 THEN r.a1 ELSE 0)
        /\ d.bal[k] = p.bal[k] - (IF k = r.t0 THEN r.a0 ELSE 0)
    BY <1>2, <1>4, <2>1
  <2>3. n.r0 \in Int /\ n.r1 \in Int /\ old.r0 \in Int /\ old.r1 \in Int
    BY <1>5 DEF PoolState
  <2> QED
    BY <1>1, <1>6, <2>1, <2>2, <2>3
<1>8. x.done = p.done
  BY <1>2, <1>4 DEF SameRecords
<1>9. Within(x, [pools EXCEPT ![q] = n])
  BY <1>4, <1>5, <1>7, <1>8, WithinMoves DEF old
<1> QED
  BY <1>9 DEF x, d, n

\* Removed liquidity pays the wallet what it takes from the pool.
LEMMA RemoveWithin ==
  ASSUME PoolsBacked, NEW p \in Portfolio, NEW r \in PoolRequest, r.op = "remove", NEW w,
         WorkOK(r, w), WorkedOut(r, w), Covers(p, LpKey[r.pool], r.shares), Within(p, pools)
  PROVE  Within(Credit(Credit(Debit(p, LpKey[r.pool], r.shares), r.pool[1], w.out[1]), r.pool[2], w.out[2]),
                [pools EXCEPT ![w.id] = w.copy])
<1> DEFINE q == w.id
           old == Present(q)
           n == w.copy
           d == Debit(p, LpKey[r.pool], r.shares)
           y == Credit(d, r.pool[1], w.out[1])
           x == Credit(y, r.pool[2], w.out[2])
<1>1. /\ q \in Pairs /\ q = r.pool /\ n \in PoolState /\ old \in PoolState /\ Backed(old)
      /\ q[1] \in Key /\ q[2] \in Key /\ LpKey[q] \in Key /\ r.shares \in UInt
  <2>1. q \in Pairs /\ q = r.pool /\ n \in PoolState /\ r.shares \in UInt
    BY PoolFields DEF WorkOK, WorkedOut, Backed
  <2>2. old \in PoolState /\ Backed(old)
    BY <2>1 DEF Present, PoolsBacked, EmptyPool, PoolState, Backed
  <2> QED
    BY <2>1, <2>2, PairsFinite, BridgeAssumption
<1>2. /\ CanRemove(old, r.shares) /\ n = RemoveLiquidity(old, r.shares)
      /\ w.out = <<Paid0(old, r.shares) % Word, Paid1(old, r.shares) % Word>>
  BY DEF WorkedOut
<1> DEFINE a == Paid0(old, r.shares)
           b == Paid1(old, r.shares)
<1>3. a \in Nat /\ b \in Nat
  BY <1>1, <1>2, RemovePays
<1>4. n.r0 = old.r0 - a /\ n.r1 = old.r1 - b
  BY <1>2 DEF RemoveLiquidity
<1>5. w.out[1] \in Nat /\ w.out[1] <= a /\ w.out[2] \in Nat /\ w.out[2] <= b
  <2>1. \A m \in Nat : m % Word \in Nat /\ m % Word <= m
    BY Integers64
  <2> HIDE DEF a, b
  <2>2. w.out = <<a % Word, b % Word>>
    BY <1>2 DEF a, b
  <2> QED
    BY <1>3, <2>1, <2>2
<1> HIDE DEF a, b, n, old
<1>6. d \in Portfolio /\ SameRecords(p, d)
      /\ \A k \in Key : d.bal[k] = p.bal[k] - (IF k = LpKey[q] THEN r.shares ELSE 0)
  BY <1>1, Integers64, DebitBalances
<1> HIDE DEF d
<1>7. y \in Portfolio /\ SameRecords(d, y)
      /\ \A k \in Key : y.bal[k] <= d.bal[k] + (IF k = q[1] THEN w.out[1] ELSE 0)
  BY <1>1, <1>5, <1>6, CreditBalances
<1> HIDE DEF y
<1>8. x \in Portfolio /\ SameRecords(y, x)
      /\ \A k \in Key : x.bal[k] <= y.bal[k] + (IF k = q[2] THEN w.out[2] ELSE 0)
  BY <1>1, <1>5, <1>7, CreditBalances
<1> HIDE DEF x
<1>9. ASSUME NEW k \in Plain
      PROVE  x.bal[k] - p.bal[k] + (IF q[1] = k THEN n.r0 - old.r0 ELSE 0)
                                 + (IF q[2] = k THEN n.r1 - old.r1 ELSE 0) <= 0
  <2>1. /\ k \in Key /\ x.bal[k] \in Int /\ p.bal[k] \in Int /\ d.bal[k] \in Int /\ y.bal[k] \in Int
        /\ k # LpKey[q]
    BY <1>1, <1>6, <1>7, <1>8, BalanceType DEF Plain
  <2>2. /\ x.bal[k] <= y.bal[k] + (IF k = q[2] THEN w.out[2] ELSE 0)
        /\ y.bal[k] <= d.bal[k] + (IF k = q[1] THEN w.out[1] ELSE 0)
        /\ d.bal[k] = p.bal[k]
    BY <1>6, <1>7, <1>8, <2>1
  <2>3. n.r0 \in Int /\ n.r1 \in Int /\ old.r0 \in Int /\ old.r1 \in Int
    BY <1>1 DEF PoolState
  <2> QED
    BY <1>3, <1>4, <1>5, <2>1, <2>2, <2>3
<1>10. x.done = p.done
  BY <1>6, <1>7, <1>8 DEF SameRecords
<1>11. Within(x, [pools EXCEPT ![q] = n])
  BY <1>1, <1>8, <1>9, <1>10, WithinMoves DEF old
<1> QED
  BY <1>1, <1>11 DEF x, y, d, n

-----------------------------------------------------------------------------

\* Only the pools are used, as in ThroughPools.
Pooling ==
  /\ Serial /\ ~Production(menu)
  /\ \A r \in Offered(menu) : r.op \in {"amm", "add", "remove", "bridge"} /\ InPoolOrder(r)

\* A request r and what it has worked out, w, of the pool.
PoolDeal(r, w) ==
  /\ r.op \in {"amm", "add", "remove"}
  /\ r.op = "add" => r.t0 = w.id[1] /\ r.t1 = w.id[2]

PoolWork(b) ==
  /\ b.pc \in {"idle", "leg", "loaded", "update"}
  /\ b.pc \in {"loaded", "update"} => PoolDeal(b.req, b.work)

\* Before the pool is put back, the portfolio saved goes with the copy.
Pooled ==
  Pooling =>
    /\ \A c \in Client : PoolWork(client[c])
    /\ (\A c \in Client : client[c].pc # "update") => Within(Load, pools)
    /\ \A c \in Client : client[c].pc = "update" =>
         Within(client[c].p, [pools EXCEPT ![client[c].work.id] = client[c].work.copy])

\* A portfolio in the cache is the one that is loaded.
LEMMA LoadIsCached == cache' \in Portfolio => Load' = cache'
BY PortfolioAssumption DEF Load

\* The pools' requests, from their GetPortfolio.
LEMMA DealPrepared ==
  ASSUME menu \in Menu, Pooling, NEW c \in Client, Accept(c)
  PROVE  \E s, w, next : GetPortfolio(c, s, w, next) /\ PoolDeal(s, w)
<1> DEFINE Swaps == handleOneXSwapExec \cup handleSwap \cup handleBridgeExec \cup PoolSwap
           Goal == \E s, w, next : GetPortfolio(c, s, w, next) /\ PoolDeal(s, w)
<1>1. PICK r \in Offered(menu) :
        \/ SwapByPool(r) /\ PrepareSwap(c, r, <<>>)
        \/ r.op = "bridge" /\ PrepareSwap(c, r, <<>>)
        \/ r.op = "bridge" /\ PrepareSwap(c, [r EXCEPT !.to = ONEX], <<SecondLeg(r)>>)
        \/ r.op = "add" /\ PrepareAdd(c, r)
        \/ r.op = "remove" /\ PrepareRemove(c, r)
        \/ PrepareOther(c, r)
  BY DEF Accept
<1>2. r.op \in {"amm", "add", "remove", "bridge"} /\ InPoolOrder(r)
  BY DEF Pooling
<1>3. /\ r.op \in {"amm", "swap", "bridge"} => r \in Swaps
      /\ r.op = "add" => r \in handleOneXSwapAddLiq
      /\ r.op = "remove" => r \in handleOneXSwapRemoveLiq
  BY OfferedRequests
<1>4. ASSUME NEW s \in Swaps, NEW next, PrepareSwap(c, s, next) PROVE Goal
  <2> DEFINE z == [s EXCEPT !.op = "amm"]
             q == PoolID(s.from, s.to)
             w == [id |-> q, copy |-> Swap(pools[q], s.from = q[1], s.amt),
                   out |-> AmountOut(pools[q], s.from = q[1], s.amt)]
  <2>1. z.op = "amm"
    BY DEF handleOneXSwapExec, handleSwap, handleBridgeExec, PoolSwap
  <2>2. GetPortfolio(c, z, w, next)
    BY <1>4 DEF PrepareSwap
  <2> HIDE DEF z, w
  <2> QED
    BY <2>1, <2>2 DEF PoolDeal
<1>5. CASE r.op \in {"amm", "bridge"} /\ PrepareSwap(c, r, <<>>)
  BY <1>3, <1>4, <1>5
<1>6. CASE r.op = "bridge" /\ PrepareSwap(c, [r EXCEPT !.to = ONEX], <<SecondLeg(r)>>)
  <2>1. [r EXCEPT !.to = ONEX] \in Swaps
    BY <1>3, <1>6, KeptAsSwap, BridgeAssumption
  <2> QED
    BY <1>4, <1>6, <2>1
<1>7. CASE r.op = "add" /\ PrepareAdd(c, r)
  <2> DEFINE Flip(q) == pools[q] = NoPool /\ r.t0 = q[2]
             S(q) == IF Flip(q) THEN [r EXCEPT !.t0 = r.t1, !.t1 = r.t0, !.a0 = r.a1, !.a1 = r.a0]
                     ELSE r
             Old(q) == IF pools[q] = NoPool THEN EmptyPool ELSE pools[q]
             W(q) == [id |-> q, copy |-> AddLiquidity(Old(q), S(q).a0, S(q).a1),
                      out |-> Minted(Old(q), S(q).a0, S(q).a1)]
  <2>1. PICK q \in Pairs : {q[1], q[2]} = {r.t0, r.t1} /\ GetPortfolio(c, S(q), W(q), <<>>)
    BY <1>7 DEF PrepareAdd
  <2>2. r \in handleOneXSwapAddLiq /\ <<r.t0, r.t1>> \in Pairs
    BY <1>2, <1>3, <1>7 DEF InPoolOrder
  <2>3. q = <<r.t0, r.t1>>
    <3>1. \A o \in Pairs : {q[1], q[2]} = {o[1], o[2]} => q = o
      BY BridgeAssumption
    <3> QED
      BY <2>1, <2>2, <3>1
  <2>4. S(q).op = "add" /\ S(q).t0 = q[1] /\ S(q).t1 = q[2]
    BY <2>2, <2>3 DEF handleOneXSwapAddLiq
  <2>5. W(q).id = q
    OBVIOUS
  <2> HIDE DEF S, W
  <2> QED
    BY <2>1, <2>4, <2>5 DEF PoolDeal
<1>8. CASE r.op = "remove" /\ PrepareRemove(c, r)
  <2>1. PICK w, next : GetPortfolio(c, r, w, next)
    BY <1>8 DEF PrepareRemove
  <2> QED
    BY <1>8, <2>1 DEF PoolDeal
<1>9. ~PrepareOther(c, r) /\ r.op # "swap"
  BY <1>2 DEF PrepareOther
<1> QED
  BY <1>1, <1>5, <1>6, <1>7, <1>8, <1>9 DEF SwapByPool

\* The next leg of a route loads the portfolio again, or ends the request.
LEMMA LegPrepared ==
  ASSUME BridgeInv, NEW c \in Client, AcceptLeg(c)
  PROVE  \/ \E s, w, next : GetPortfolio(c, s, w, next) /\ PoolDeal(s, w)
         \/ client' = [client EXCEPT ![c] = Idle] /\ UNCHANGED <<cache, file>>
<1>1. RequestsOK
  BY DEF BridgeInv, Copies
<1> DEFINE r == client[c].req
<1>2. r \in PoolSwap
  <2>1. RequestOK(client[c]) /\ client[c].pc = "leg"
    BY <1>1 DEF RequestsOK, AcceptLeg
  <2> QED
    BY <2>1 DEF RequestOK, Idle, ServedOK
<1>3. CASE PrepareSwap(c, r, <<>>)
  <2> DEFINE z == [r EXCEPT !.op = "amm"]
  <2>1. z.op = "amm"
    BY <1>2 DEF PoolSwap
  <2>2. PICK w : GetPortfolio(c, z, w, <<>>)
    BY <1>3 DEF PrepareSwap
  <2> HIDE DEF z
  <2> QED
    BY <2>1, <2>2 DEF PoolDeal
<1>4. CASE client' = [client EXCEPT ![c] = Idle] /\ UNCHANGED <<cache, file>>
  BY <1>4
<1> QED
  BY <1>3, <1>4 DEF AcceptLeg

-----------------------------------------------------------------------------

\* What Pooled says when c is the only one served.
PooledAt(c) ==
  /\ PoolWork(client[c])
  /\ IF client[c].pc = "update"
     THEN Within(client[c].p, [pools EXCEPT ![client[c].work.id] = client[c].work.copy])
     ELSE Within(Load, pools)

\* GetPortfolio keeps what Pooled says,
LEMMA PooledLoads ==
  ASSUME BridgeInv, Serial, ~Production(menu), CopyCurrent, NEW c \in Client, Within(Load, pools),
         NEW r, NEW w, NEW next, GetPortfolio(c, r, w, next), PoolDeal(r, w), pools' = pools
  PROVE  PooledAt(c)'
<1> DEFINE p == Synced(Load, TRUE)
<1>1. RequestsOK /\ Copies /\ PoolsBacked /\ nodeBal \in UInt
  BY DEF BridgeInv, Copies
<1>2. Load \in Portfolio
  BY <1>1, LoadCurrent
<1>3. p \in Portfolio /\ Within(p, pools)
  BY <1>1, <1>2, SyncedOK, WithinSynced
<1>4. /\ cache' = p /\ client'[c].pc = "loaded" /\ client'[c].req = r /\ client'[c].work = w
  BY <1>1, SerialLoads
<1> HIDE DEF p
<1>5. Load' = p
  BY <1>3, <1>4, LoadIsCached
<1>6. Within(Load, pools)'
  <2>1. Within(Load', pools')
    BY <1>3, <1>5
  <2> QED
    BY <2>1 DEF Within
<1>7. PoolWork(client[c])'
  BY <1>4 DEF PoolWork, PoolDeal
<1> QED
  BY <1>4, <1>6, <1>7 DEF PooledAt

\* Ending a request, with p left in the cache.
LEMMA PooledEnds ==
  ASSUME NEW c \in Client, client'[c].pc \in {"idle", "leg"}, cache' \in Portfolio, Within(cache', pools')
  PROVE  PooledAt(c)'
<1>1. Load' = cache'
  BY LoadIsCached
<1>2. Within(Load, pools)'
  <2>1. Within(Load', pools')
    BY <1>1
  <2> QED
    BY <2>1 DEF Within
<1> QED
  BY <1>2 DEF PooledAt, PoolWork

\* and so do the save before the pool is put back,
LEMMA PooledSaves ==
  ASSUME RequestsOK, Serial, NEW c \in Client, client[c].pc = "loaded", PoolDeal(client[c].req, client[c].work),
         NEW p, SaveFirst(c, p), pools' = pools,
         Within(p, [pools EXCEPT ![client[c].work.id] = client[c].work.copy])
  PROVE  PooledAt(c)'
<1>1. /\ client'[c].pc = "update" /\ client'[c].req = client[c].req
      /\ client'[c].work = client[c].work /\ client'[c].p = p
  BY SerialSaves
<1>2. PoolWork(client[c])'
  BY <1>1 DEF PoolWork, PoolDeal
<1>3. Within(client[c].p, [pools EXCEPT ![client[c].work.id] = client[c].work.copy])'
  <2>1. Within(client'[c].p, [pools' EXCEPT ![client'[c].work.id] = client'[c].work.copy])
    BY <1>1
  <2> QED
    BY <2>1 DEF Within
<1> QED
  BY <1>1, <1>2, <1>3 DEF PooledAt

\* a request that ends early,
LEMMA PooledDrops ==
  ASSUME RequestsOK, NEW c \in Client, PoolsBacked, pools' = pools, cache \in Portfolio, Within(cache, pools),
         NEW p \in Portfolio, Drop(c, p), Within(p, pools)
  PROVE  PooledAt(c)'
<1>1. client' = [client EXCEPT ![c] = Idle] /\ Idle.pc = "idle" /\ (cache' = p \/ cache' = cache)
  BY DEF Drop, Idle
<1>2. client'[c] = Idle
  BY <1>1, OneSet
<1>3. cache' \in Portfolio /\ Within(cache', pools')
  BY <1>1
<1> QED
  BY <1>1, <1>2, <1>3, PooledEnds

\* What a request of the pools has before it is checked.
LEMMA DealServed ==
  ASSUME BridgeInv, Serial, CopyCurrent, PoolsFollow, NEW c \in Client,
         client[c].pc \in {"loaded", "update"}, PoolDeal(client[c].req, client[c].work)
  PROVE  /\ client[c].req \in PoolRequest /\ WorkOK(client[c].req, client[c].work)
         /\ WorkedOut(client[c].req, client[c].work)
         /\ client[c].p = Load /\ client[c].p = cache /\ client[c].p \in Portfolio
         /\ PoolsBacked /\ RequestsOK
<1>1. RequestsOK /\ Copies /\ PoolsBacked
  BY DEF BridgeInv, Copies
<1>2. ServedOK(client[c]) /\ client[c].p \in Portfolio
  BY <1>1, ServedHas
<1>3. client[c].req.op \in {"amm", "add", "remove"}
  BY DEF PoolDeal
<1>4. client[c].req \in PoolRequest /\ WorkOK(client[c].req, client[c].work)
  BY <1>2, <1>3 DEF ServedOK
<1>5. WorkedOut(client[c].req, client[c].work)
  BY <1>3 DEF PoolsFollow, Following, AtWork
<1>6. client[c].p = Load /\ client[c].p = cache
  BY <1>1, LoadCurrent DEF CopyCurrent
<1> QED
  BY <1>1, <1>2, <1>4, <1>5, <1>6

\* a swap,
LEMMA PooledSwaps ==
  ASSUME BridgeInv, Serial, CopyCurrent, PoolsFollow, NEW c \in Client, PooledAt(c),
         OneXSwapExecute(c)
  PROVE  PooledAt(c)'
<1> DEFINE p == client[c].p
           r == client[c].req
           w == client[c].work
<1>1. client[c].pc = "loaded" /\ r.op = "amm" /\ pools' = pools
  BY DEF OneXSwapExecute, Serving, Elsewhere
<1>2. PoolDeal(r, w) /\ Within(Load, pools)
  BY <1>1 DEF PooledAt, PoolWork
<1>3. /\ r \in PoolRequest /\ WorkOK(r, w) /\ WorkedOut(r, w)
      /\ p = Load /\ p = cache /\ p \in Portfolio /\ PoolsBacked /\ RequestsOK
  BY <1>1, <1>2, DealServed
<1>4. CASE Covers(p, r.from, r.amt) /\ SaveFirst(c, Credit(Debit(p, r.from, r.amt), r.to, w.out))
  <2>1. Within(Credit(Debit(p, r.from, r.amt), r.to, w.out), [pools EXCEPT ![w.id] = w.copy])
    BY <1>1, <1>2, <1>3, <1>4, SwapWithin
  <2> QED
    BY <1>1, <1>2, <1>3, <1>4, <2>1, PooledSaves
<1>5. CASE Drop(c, p)
  BY <1>1, <1>2, <1>3, <1>5, PooledDrops
<1> QED
  BY <1>4, <1>5 DEF OneXSwapExecute

\* added liquidity,
LEMMA PooledAdds ==
  ASSUME BridgeInv, Serial, CopyCurrent, PoolsFollow, NEW c \in Client, PooledAt(c),
         OneXSwapAddLiquidity(c)
  PROVE  PooledAt(c)'
<1> DEFINE p == client[c].p
           r == client[c].req
           w == client[c].work
           q == Debit(p, r.t0, r.a0)
           x == Credit(Debit(q, r.t1, r.a1), LpKey[w.id], w.out)
<1>1. client[c].pc = "loaded" /\ r.op = "add" /\ pools' = pools
  BY DEF OneXSwapAddLiquidity, Serving, Elsewhere
<1>2. PoolDeal(r, w) /\ Within(Load, pools) /\ r.t0 = w.id[1] /\ r.t1 = w.id[2]
  BY <1>1 DEF PooledAt, PoolWork, PoolDeal
<1>3. /\ r \in PoolRequest /\ WorkOK(r, w) /\ WorkedOut(r, w)
      /\ p = Load /\ p = cache /\ p \in Portfolio /\ PoolsBacked /\ RequestsOK
  BY <1>1, <1>2, DealServed
<1>4. CASE Covers(p, r.t0, r.a0) /\ Covers(q, r.t1, r.a1) /\ SaveFirst(c, x)
  <2>1. Within(x, [pools EXCEPT ![w.id] = w.copy])
    BY <1>1, <1>2, <1>3, <1>4, AddWithin
  <2> QED
    BY <1>1, <1>2, <1>3, <1>4, <2>1, PooledSaves
<1>5. CASE Covers(p, r.t0, r.a0) /\ Drop(c, q)
  <2>1. r.t0 \in Key /\ r.a0 \in Nat
    BY <1>1, <1>3, PoolFields, Integers64
  <2>2. q \in Portfolio /\ SameRecords(p, q) /\ \A k \in Key : q.bal[k] = p.bal[k] - (IF k = r.t0 THEN r.a0 ELSE 0)
    BY <1>3, <1>5, <2>1, DebitBalances
  <2> HIDE DEF q
  <2>3. \A k \in Plain : q.bal[k] <= p.bal[k]
    <3>1. \A k \in Plain : k \in Key /\ p.bal[k] \in Int
      BY <1>3, BalanceType DEF Plain
    <3> QED
      BY <2>1, <2>2, <3>1
  <2>4. q.done = p.done
    BY <2>2 DEF SameRecords
  <2>5. Within(q, pools)
    BY <1>2, <1>3, <2>2, <2>3, <2>4, WithinLess
  <2> QED
    BY <1>1, <1>2, <1>3, <1>5, <2>2, <2>5, PooledDrops
<1>6. CASE Drop(c, p)
  BY <1>1, <1>2, <1>3, <1>6, PooledDrops
<1> QED
  BY <1>4, <1>5, <1>6 DEF OneXSwapAddLiquidity

\* removed liquidity,
LEMMA PooledRemoves ==
  ASSUME BridgeInv, Serial, CopyCurrent, PoolsFollow, NEW c \in Client, PooledAt(c),
         OneXSwapRemoveLiquidity(c)
  PROVE  PooledAt(c)'
<1> DEFINE p == client[c].p
           r == client[c].req
           w == client[c].work
           q == Debit(p, LpKey[r.pool], r.shares)
           x == Credit(Credit(q, r.pool[1], w.out[1]), r.pool[2], w.out[2])
<1>1. client[c].pc = "loaded" /\ r.op = "remove" /\ pools' = pools
  BY DEF OneXSwapRemoveLiquidity, Serving, Elsewhere
<1>2. PoolDeal(r, w) /\ Within(Load, pools)
  BY <1>1 DEF PooledAt, PoolWork
<1>3. /\ r \in PoolRequest /\ WorkOK(r, w) /\ WorkedOut(r, w)
      /\ p = Load /\ p = cache /\ p \in Portfolio /\ PoolsBacked /\ RequestsOK
  BY <1>1, <1>2, DealServed
<1>4. CASE Covers(p, LpKey[r.pool], r.shares) /\ SaveFirst(c, x)
  <2>1. Within(x, [pools EXCEPT ![w.id] = w.copy])
    BY <1>1, <1>2, <1>3, <1>4, RemoveWithin
  <2> QED
    BY <1>1, <1>2, <1>3, <1>4, <2>1, PooledSaves
<1>5. CASE Drop(c, p)
  BY <1>1, <1>2, <1>3, <1>5, PooledDrops
<1> QED
  BY <1>4, <1>5 DEF OneXSwapRemoveLiquidity

\* the pool that is put back,
LEMMA PooledUpdates ==
  ASSUME BridgeInv, BridgeInv', Serial, CopyCurrent, PoolsFollow, NEW c \in Client, PooledAt(c),
         UpdatePool(c)
  PROVE  PooledAt(c)'
<1> DEFINE p == client[c].p
           r == client[c].req
           w == client[c].work
           q == [p EXCEPT !.swaps = Append(@, [from |-> r.from, to |-> r.to, in |-> r.amt, out |-> w.out])]
           left == [pc |-> "leg", req |-> Head(client[c].next)]
           b == IF client[c].next = <<>> THEN Idle ELSE left
<1>1. client[c].pc = "update" /\ pools' = [pools EXCEPT ![w.id] = w.copy]
  BY DEF UpdatePool
<1>2. PoolDeal(r, w) /\ Within(p, pools')
  BY <1>1 DEF PooledAt, PoolWork
<1>3. /\ r \in PoolRequest /\ WorkOK(r, w) /\ WorkedOut(r, w)
      /\ p = Load /\ p = cache /\ p \in Portfolio /\ RequestsOK
  BY <1>1, <1>2, DealServed
<1>4. b.pc \in {"idle", "leg"} /\ Idle.pc = "idle"
  BY DEF Idle
<1>5. CASE r.op = "amm" /\ cache' = completeTask(q, "first-swap") /\ client' = [client EXCEPT ![c] = b]
  <2> DEFINE rec == [from |-> r.from, to |-> r.to, in |-> r.amt, out |-> w.out]
  <2>1. rec \in SwapRecord
    BY <1>3, <1>5, PoolFields, Integers64 DEF SwapRecord, WorkOK
  <2> HIDE DEF rec
  <2>2. [p EXCEPT !.swaps = Append(@, rec)] \in Portfolio
    BY <1>3, <2>1, RecordsOK
  <2>3. q \in Portfolio /\ q.bal = p.bal /\ q.done = p.done
    BY <1>3, <2>2 DEF rec, Portfolio
  <2> HIDE DEF q, b
  <2>4. PoolsBacked'
    BY DEF BridgeInv
  <2>5. Within(q, pools')
    BY <1>2, <2>3 DEF Within, Earned
  <2>6. "first-swap" \in DOMAIN Reward
    BY BridgeAssumption
  <2>7. completeTask(q, "first-swap") \in Portfolio /\ Within(completeTask(q, "first-swap"), pools')
    BY <2>3, <2>4, <2>5, <2>6, TaskOK, WithinTaskIn DEF PoolsBacked
  <2>8. client'[c] = b
    BY <1>3, <1>5, OneSet
  <2> QED
    BY <1>4, <1>5, <2>7, <2>8, PooledEnds
<1>6. CASE client' = [client EXCEPT ![c] = Idle] /\ cache' = cache
  <2>1. client'[c] = Idle
    BY <1>3, <1>6, OneSet
  <2> QED
    BY <1>2, <1>3, <1>4, <1>6, <2>1, PooledEnds
<1> QED
  <2>1. Serial => ~Faulty(menu)
    BY DEF Serial
  <2> QED
    BY <1>5, <1>6, <2>1, Zenon DEF UpdatePool

-----------------------------------------------------------------------------

\* every step of a request,
LEMMA PooledServes ==
  ASSUME BridgeInv, BridgeInv', Pooling, CopyCurrent, PoolsFollow, NEW c \in Client, PooledAt(c), Serve(c)
  PROVE  PooledAt(c)'
<1>1. Serial /\ RequestsOK /\ PoolsBacked /\ Copies /\ ~Production(menu) /\ menu \in Menu
  BY DEF Pooling, BridgeInv, Copies
<1>2. PoolWork(client[c]) /\ (client[c].pc # "update" => Within(Load, pools))
  BY DEF PooledAt
<1>3. CASE Accept(c)
  <2>1. PICK s, w, next : GetPortfolio(c, s, w, next) /\ PoolDeal(s, w)
    BY <1>1, <1>3, DealPrepared
  <2>2. Within(Load, pools) /\ pools' = pools
    BY <1>2, <1>3 DEF Accept, Idle
  <2> QED
    BY <1>1, <2>1, <2>2, PooledLoads
<1>4. CASE AcceptLeg(c)
  <2>1. Within(Load, pools) /\ pools' = pools
    BY <1>2, <1>4 DEF AcceptLeg
  <2>2. CASE \E s, w, next : GetPortfolio(c, s, w, next) /\ PoolDeal(s, w)
    BY <1>1, <2>1, <2>2, PooledLoads
  <2>3. CASE client' = [client EXCEPT ![c] = Idle] /\ UNCHANGED <<cache, file>>
    <3>1. client'[c] = Idle /\ Idle.pc = "idle"
      BY <1>1, <2>3, OneSet DEF Idle
    <3>2. menu' = menu
      BY <1>4 DEF AcceptLeg, bounds
    <3>3. Load' = Load
      BY <2>3, <3>2 DEF Load, DefaultPortfolio
    <3>4. Within(Load, pools)'
      <4>1. Within(Load', pools')
        BY <2>1, <3>3
      <4> QED
        BY <4>1 DEF Within
    <3> QED
      BY <3>1, <3>4 DEF PooledAt, PoolWork
  <2> QED
    BY <1>4, <2>2, <2>3, LegPrepared
<1>5. CASE OneXSwapExecute(c)
  BY <1>1, <1>5, PooledSwaps
<1>6. CASE OneXSwapAddLiquidity(c)
  BY <1>1, <1>6, PooledAdds
<1>7. CASE OneXSwapRemoveLiquidity(c)
  BY <1>1, <1>7, PooledRemoves
<1>8. CASE UpdatePool(c)
  BY <1>1, <1>8, PooledUpdates
<1>9. ~AcceptDeploy(c) /\ ~Send(c)
  BY DEF AcceptDeploy, Send, Pooling
<1>10. ~Ending(c)
  <2>1. client[c].pc # "deploy"
    BY <1>2 DEF PoolWork
  <2>2. client[c].pc = "loaded" => client[c].req.op \in {"amm", "add", "remove"}
    BY <1>2 DEF PoolWork, PoolDeal
  <2> QED
    BY <2>1, <2>2 DEF Ending, Read, Stake, Unstake, RecordDeposit, SwapExecute, MintNFT, TransferNFT,
                      CompleteTask, CreateLoan, RepayLoan, SendToken, DeployPlatformToken,
                      WrapPlatformToken, Serving
<1> QED
  BY <1>3, <1>4, <1>5, <1>6, <1>7, <1>8, <1>9, <1>10 DEF Serve, Ending

\* and every step of the daemon.
LEMMA PooledStays ==
  ASSUME DaemonInv, InUse, PoolsFollow, CopyCurrent, Pooled, [DaemonNext]_<<vars, bookVars>>
  PROVE  Pooled'
<1>1. BridgeInv /\ BridgeInv' /\ RequestsOK /\ menu' = menu
  BY DaemonStepKeeps, MenuStays DEF DaemonInv, BridgeInv, Copies
<1> SUFFICES ASSUME Pooling PROVE Pooled'
  BY <1>1 DEF Pooled, Pooling, Serial
<1>2. Serial
  BY DEF Pooling
<1>3. ASSUME NEW c \in Client, Serve(c) PROVE Pooled'
  <2>1. \A d \in Client \ {c} : client[d] = Idle /\ client'[d] = Idle
    BY <1>1, <1>2, <1>3, ServesAlone, OthersIdle DEF OthersStay
  <2>2. PooledAt(c)
    <3>1. client[c].pc = "update" \/ \A d \in Client : client[d].pc # "update"
      BY <2>1 DEF Idle
    <3> QED
      BY <3>1 DEF Pooled, PooledAt
  <2>3. PooledAt(c)'
    BY <1>1, <1>3, <2>2, PooledServes
  <2>4. \A d \in Client \ {c} : client'[d].pc = "idle"
    BY <2>1 DEF Idle
  <2>5. \A d \in Client : PoolWork(client[d])'
    BY <2>3, <2>4 DEF PooledAt, PoolWork
  <2>6. (\A d \in Client : client'[d].pc # "update") => Within(Load, pools)'
    BY <2>3 DEF PooledAt
  <2>7. ASSUME NEW d \in Client, client'[d].pc = "update"
        PROVE  Within(client[d].p, [pools EXCEPT ![client[d].work.id] = client[d].work.copy])'
    <3>1. d = c
      BY <2>4, <2>7
    <3> QED
      BY <2>3, <2>7, <3>1 DEF PooledAt
  <2> QED
    BY <2>5, <2>6, <2>7 DEF Pooled
<1>4. ~\E c \in Client : BookStep(c)
  <2> SUFFICES ASSUME NEW c \in Client, BookStep(c) PROVE FALSE
    OBVIOUS
  <2>1. client[c].pc \in {"idle", "leg", "loaded", "update"}
    BY DEF Pooled, PoolWork
  <2>2. BookRequest(c)
    BY <2>1 DEF BookStep, SyncFromSnapshot, Transfer, ApplyTransfer, Settle, SettleFails
  <2> QED
    BY <2>2 DEF BookRequest, BookOps, Pooling
<1>5. ASSUME UNCHANGED <<client, cache, file, pools>> PROVE Pooled'
  <2>1. Load' = Load
    BY <1>1, <1>5 DEF Load, DefaultPortfolio
  <2>2. Within(Load, pools) => Within(Load, pools)'
    BY <1>5, <2>1 DEF Within
  <2> QED
    BY <1>5, <2>2 DEF Pooled, PoolWork, PoolDeal, Within
<1>6. ~DaemonCrash
  BY <1>2 DEF DaemonCrash, Crash, Serial
<1> QED
  BY <1>3, <1>4, <1>5, <1>6 DEF DaemonNext, Tick, vars

\* The wallet starts with what was prefunded, the pools with their seeds.
LEMMA PooledStarts == DaemonInit => Pooled
<1> SUFFICES ASSUME DaemonInit, Pooling PROVE Pooled
  BY DEF Pooled
<1>1. /\ client = [c \in Client |-> Idle] /\ cache = NoPortfolio /\ file = NoPortfolio /\ pools = SeedPools
  BY DEF DaemonInit, Init
<1>2. Load = DefaultPortfolio /\ DefaultPortfolio.bal = Prefunded /\ DefaultPortfolio.done = {}
  BY <1>1 DEF Load, DefaultPortfolio, Pooling
<1>3. ASSUME NEW k \in Plain
      PROVE  Load.bal[k] + Reserve(pools, k) <= Prefunded[k] + Reserve(SeedPools, k) + Earned(Load, k)
  <2>1. Earned(Load, k) = 0
    <3>1. [t \in Load.done |-> TaskPay(k)[t]] = [t \in {} |-> 0]
      BY <1>2
    <3> QED
      BY <3>1, TotalZero, FS_EmptySet DEF Earned
  <2>2. Reserve(SeedPools, k) \in Int
    BY BridgeAssumption, ReserveType
  <2>3. Prefunded[k] \in Int
    BY BridgeAssumption, Integers64 DEF Plain
  <2> QED
    BY <1>1, <1>2, <2>1, <2>2, <2>3
<1>4. \A c \in Client : PoolWork(client[c]) /\ client[c].pc # "update"
  BY <1>1 DEF PoolWork, Idle
<1> QED
  BY <1>3, <1>4 DEF Pooled, Within

\* Swaps, bridge routes and liquidity move a token between the wallet and the
\* pools and never make any, at every place where no request is half done
\* (OneXSwapExecute, OneXSwapAddLiquidity, OneXSwapRemoveLiquidity,
\* BridgeExecute): the copy of the pool put back last is worth what the wallet
\* saved before has paid, for every arithmetic rounding and any prices.
THEOREM PoolsMakeNoToken == DaemonSpec => []PooledConserved
<1>1. DaemonInit => InUse /\ PoolsFollow /\ CopyCurrent /\ Pooled
  BY InitialUse, CopyStarts, PooledStarts
<1>2. /\ DaemonInv /\ InUse /\ PoolsFollow /\ CopyCurrent /\ Pooled
      /\ [DaemonNext]_<<vars, bookVars>>
     => InUse' /\ PoolsFollow' /\ CopyCurrent' /\ Pooled'
  BY InUseStays, FollowingStays, CopyStays, PooledStays
<1>3. DaemonInv /\ CopyCurrent /\ Pooled => PooledConserved
  <2> SUFFICES ASSUME DaemonInv, CopyCurrent, Pooled, ThroughPools,
                      NEW k \in Key \ ({ONEX} \cup {LpKey[q] : q \in Pairs})
               PROVE  Held(k) <= Prefunded[k] + Reserve(SeedPools, k)
                        + Total([t \in Load.done |-> IF Reward[t].key = k THEN Reward[t].amt ELSE 0])
    BY DEF PooledConserved
  <2>1. Pooling /\ Serial /\ Quiet
    BY DEF ThroughPools, Pooling
  <2>2. Within(Load, pools)
    BY <2>1 DEF Pooled, Quiet, Idle
  <2>3. Load \in Portfolio
    BY <2>1, LoadCurrent DEF DaemonInv, BridgeInv
  <2>4. [t \in Load.done |-> IF Reward[t].key = k THEN Reward[t].amt ELSE 0]
          = [t \in Load.done |-> TaskPay(k)[t]]
    <3>1. Load.done \subseteq DOMAIN Reward
      BY <2>3, PortfolioFields
    <3> QED
      BY <3>1 DEF TaskPay
  <2>5. Load.bal[k] + Reserve(pools, k) <= Prefunded[k] + Reserve(SeedPools, k) + Earned(Load, k)
    BY <2>2 DEF Within, Plain
  <2> QED
    BY <2>4, <2>5 DEF Held, Earned
<1> QED
  BY <1>1, <1>2, <1>3, DaemonInvariantHolds, PTL DEF DaemonSpec
=============================================================================
