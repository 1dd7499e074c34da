-------------------------------- MODULE Pool --------------------------------
(***************************************************************************)
(* What one pool promises its liquidity providers, whoever calls it and in *)
(* whichever order: the abstract specification that the pools of Bridge    *)
(* are held against.                                                       *)
(***************************************************************************)
EXTENDS AMM

VARIABLE pool

\* Any pool of configs/amm-pools.json that has something behind its shares, or
\* no pool yet.
PoolInit == pool \in PoolState /\ (pool.shares > 0 => pool.r0 > 0 /\ pool.r1 > 0)

SwapIn(zeroIn, ain) ==
  /\ CanSwap(pool, zeroIn, ain)
  /\ pool' = Swap(pool, zeroIn, ain)

Deposit(a0, a1) ==
  /\ CanAdd(pool, a0, a1)
  /\ pool' = AddLiquidity(pool, a0, a1)

Withdraw(s) ==
  /\ CanRemove(pool, s)
  /\ pool' = RemoveLiquidity(pool, s)

PoolNext ==
  \/ \E zeroIn \in BOOLEAN, ain \in UInt : SwapIn(zeroIn, ain)
  \/ \E a0, a1 \in UInt : Deposit(a0, a1)
  \/ \E s \in UInt : Withdraw(s)

PoolSpec == PoolInit /\ [][PoolNext]_pool

-----------------------------------------------------------------------------

\* Shares are always backed by both tokens, so that a later deposit never
\* divides by an empty reserve (AddLiquidity), and a swap never drains a side.
SharesBacked ==
  /\ pool \in PoolState
  /\ pool.shares > 0 => pool.r0 > 0 /\ pool.r1 > 0

\* No swap, deposit or withdrawal lowers what one share stands for: the product
\* of the reserves over the square of the shares never falls, so that every
\* rounding favours those who stay.
ShareValueNeverFalls ==
  [][pool.shares > 0 =>
       pool.r0 * pool.r1 * pool'.shares * pool'.shares
         <= pool'.r0 * pool'.r1 * pool.shares * pool.shares]_pool
=============================================================================
