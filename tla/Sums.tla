-------------------------------- MODULE Sums --------------------------------
(***************************************************************************)
(* What a table of amounts adds up to: the balances of a chain, those of a *)
(* token, the taxes of its wallets.                                        *)
(***************************************************************************)
EXTENDS Integers, FiniteSets, FiniteSetsExt

\* What the values of f add up to.
Total(f) == MapThenSumSet(LAMBDA x : f[x], DOMAIN f)
=============================================================================
