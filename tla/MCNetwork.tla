----------------------------- MODULE MCNetwork -----------------------------
(***************************************************************************)
(* Instances of Network for TLC: two or three nodes, one of which may be a *)
(* peer of other software that answers a hello, and one of another chain.  *)
(***************************************************************************)
EXTENDS Network

CONSTANTS n1, n2, n3

\* n1 and n2 dial each other; n3 dials n1, and itself, as the seed list of the
\* main net has every node do.
MeshDials == {<<n1, n2>>, <<n2, n1>>, <<n3, n1>>, <<n3, n3>>}

\* n1 and n2 dial each other.
FollowDials == {<<n2, n1>>, <<n1, n2>>}

\* n2 and n3 both dial n1, but the chain of n3 is another one.
TwoDials == {<<n2, n1>>, <<n3, n1>>}

OneChain    == [n \in Nodes |-> "onex"]
OtherChain3 == [n \in Nodes |-> IF n = n3 THEN "other" ELSE "onex"]
=============================================================================
