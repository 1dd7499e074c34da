--------------------------- MODULE MCBlockchain ---------------------------
(***************************************************************************)
(* Instances of Blockchain for TLC: two accounts that pay each other and   *)
(* a miner, amounts far below the modulus, blocks of at most two           *)
(* transactions.                                                           *)
(***************************************************************************)
EXTENDS Blockchain

CONSTANTS alice, bob, miner

MCAddr == {alice, bob, miner}

Coinbase(a, v) == [from |-> NoAddr, to |-> a, amount |-> v, fee |-> 0,
                   nonce |-> 0, signed |-> TRUE]

MCGenesisTxs == <<Coinbase(alice, 5)>>

Pay(a, b, v, f, n) == [from |-> a, to |-> b, amount |-> v, fee |-> f,
                       nonce |-> n, signed |-> TRUE]

\* Alice's first payment, her second, one to herself, Bob's payment out of what
\* he was paid, and one whose signature does not verify.
Pay1 == Pay(alice, bob, 2, 1, 0)
Pay2 == Pay(alice, bob, 1, 0, 1)
Self == Pay(alice, alice, 1, 1, 0)
Back == Pay(bob, alice, 2, 0, 0)
Forged == [Pay(alice, bob, 1, 0, 0) EXCEPT !.signed = FALSE]

MCBatches == {<<>>, <<Pay1>>, <<Pay2>>, <<Pay1, Pay2>>, <<Pay1, Pay1>>,
              <<Pay1, Back>>, <<Back, Pay1>>, <<Self>>, <<Forged>>}

SmallBatches == {<<>>, <<Pay1>>, <<Pay1, Pay2>>, <<Pay2>>, <<Pay1, Pay1>>}

MCClock == {100}

\* The amounts of these instances are exact, as the proofs suppose.
ASSUME MCCoinsFit == CoinsFit
===========================================================================
