-------------------------------- MODULE AMM --------------------------------
(***************************************************************************)
(* The arithmetic of amm.Pool (internal/bridge/amm/pool.go), a constant-   *)
(* product pool.  Reserves and shares are big integers, kept as decimal    *)
(* strings and never rounded; what a caller pays and gets is a uint64.     *)
(* The tokens' names are left to the caller: a swap says whether the first *)
(* token of the pool is the one paid in.                                   *)
(***************************************************************************)
EXTENDS Integers

CONSTANTS
  FeeBase,  \* 10000: fees are given in basis points
  FeeKept,  \* FeeBase less the fee of a pool
  Word      \* 2^64, the bound of the uint64 amounts

ASSUME AMMAssumption ==
  /\ FeeBase \in Nat \ {0}
  /\ FeeKept \in 0 .. FeeBase
  /\ Word \in Nat \ {0}

UInt == 0 .. Word - 1

PoolState == [r0 : Nat, r1 : Nat, shares : Nat]

EmptyPool == [r0 |-> 0, r1 |-> 0, shares |-> 0]

\* Mutant: the output is computed at the spot price.
SwapOut_spot(rin, rout, ain) == (ain * FeeKept * rout) \div (rin * FeeBase)

\* The quotient of QuoteSwap, rounded down.
SwapOut(rin, rout, ain) == (ain * FeeKept * rout) \div (rin * FeeBase + ain * FeeKept)

\* QuoteSwap answers: both reserves hold something, the output fits, and the
\* price is defined (an input of 0 divides by 0, which ends the request).
CanSwap(p, zeroIn, ain) ==
  LET rin  == IF zeroIn THEN p.r0 ELSE p.r1
      rout == IF zeroIn THEN p.r1 ELSE p.r0
  IN  /\ rin > 0 /\ rout > 0 /\ ain > 0
      /\ SwapOut(rin, rout, ain) < Word

AmountOut(p, zeroIn, ain) ==
  IF zeroIn THEN SwapOut(p.r0, p.r1, ain) ELSE SwapOut(p.r1, p.r0, ain)

Swap(p, zeroIn, ain) ==
  IF zeroIn
  THEN [r0 |-> p.r0 + ain, r1 |-> p.r1 - SwapOut(p.r0, p.r1, ain), shares |-> p.shares]
  ELSE [r0 |-> p.r0 - SwapOut(p.r1, p.r0, ain), r1 |-> p.r1 + ain, shares |-> p.shares]

Isqrt(n) == CHOOSE s \in 0 .. n : s * s <= n /\ n < (s + 1) * (s + 1)

\* The shares a deposit earns: the first one the square root of its product, a
\* later one what its smaller side is worth, rounded down and possibly nothing.
Minted(p, a0, a1) ==
  IF p.shares = 0 THEN Isqrt(a0 * a1)
  ELSE LET s0 == (a0 * p.shares) \div p.r0
           s1 == (a1 * p.shares) \div p.r1
       IN  IF s0 < s1 THEN s0 ELSE s1

CanAdd(p, a0, a1) ==
  /\ p.shares = 0 => Minted(p, a0, a1) > 0
  /\ Minted(p, a0, a1) \in UInt

AddLiquidity(p, a0, a1) ==
  [r0 |-> p.r0 + a0, r1 |-> p.r1 + a1, shares |-> p.shares + Minted(p, a0, a1)]

\* One share always stays.
Burnt(p, s) == IF s >= p.shares THEN p.shares - 1 ELSE s

CanRemove(p, s) == Burnt(p, s) > 0

\* What a burn takes out of the reserves, rounded down.
Paid0(p, s) == (Burnt(p, s) * p.r0) \div p.shares
Paid1(p, s) == (Burnt(p, s) * p.r1) \div p.shares

RemoveLiquidity(p, s) ==
  [r0 |-> p.r0 - Paid0(p, s), r1 |-> p.r1 - Paid1(p, s),
   shares |-> p.shares - Burnt(p, s)]
=============================================================================
