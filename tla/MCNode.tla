------------------------------ MODULE MCNode ------------------------------
(***************************************************************************)
(* Instances of Node for TLC: two wallets, a miner, and a faucet account,  *)
(* with two concurrent handlers.                                           *)
(***************************************************************************)
EXTENDS Node

CONSTANTS alice, bob, miner, h1, h2

MCAddr == {alice, bob, miner}

Coinbase(a, v) == [from |-> NoAddr, to |-> a, amount |-> v, fee |-> 0,
                   nonce |-> 0, signed |-> TRUE]

MCGenesisTxs == <<Coinbase(alice, 5), Coinbase(bob, 2)>>

Pay(a, b, v, f, n) == [from |-> a, to |-> b, amount |-> v, fee |-> f,
                       nonce |-> n, signed |-> TRUE]

\* Two payments of Alice's that leave her with nothing, and one of Bob's.
Pay1 == Pay(alice, bob, 3, 1, 0)
Pay2 == Pay(alice, bob, 1, 0, 1)
BobPays == Pay(bob, alice, 1, 1, 0)

MCRequests == {Pay1, Pay2, BobPays}
OneRequest == {Pay1}

PeerBatches == {<<>>, <<Pay1>>}
NoBatches == {}

MCHandlers == {h1, h2}

\* The two handlers do the same: states that differ in their names are one.
HandlerSymmetry == Permutations(MCHandlers)

MCClock == {100}

\* The instance without drips and disk errors meets the conditions of BatchesMine
\* and TimelyInclusion.
ASSUME MCLoneMiner == MaxDrips = 0 /\ MaxDiskErrors = 0 => LoneMiner /\ RoomForAll
===========================================================================
