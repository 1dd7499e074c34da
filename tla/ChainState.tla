---------------------------- MODULE ChainState ----------------------------
(***************************************************************************)
(* The account state of the OneX chain and the two functions that change   *)
(* it: ApplyTransaction and ApplyBlockReward (internal/chain/state.go).    *)
(*                                                                         *)
(* The Go state is a map whose missing keys read as the zero account, so   *)
(* it is a total function here.  The state root, a hash of the sorted      *)
(* entries, is the function itself: the hash is injective, and no check    *)
(* here compares a state that lacks an entry with one where it is zero.    *)
(***************************************************************************)
EXTENDS Integers, Sequences

CONSTANTS
  Addr,     \* the account addresses
  NoAddr,   \* the empty address: sender of a genesis allocation, absent miner
  Modulus   \* amounts are uint64: arithmetic is modulo 2^64 in the program

ASSUME AddrAssumption    == NoAddr \notin Addr
ASSUME ModulusAssumption == Modulus \in Nat \ {0}

Amount  == 0 .. Modulus - 1
Account == [balance : Amount, nonce : Nat]

ChainStates == [Addr -> Account]
EmptyState  == [a \in Addr |-> [balance |-> 0, nonce |-> 0]]

\* "signed" is the verdict of crypto.VerifyTx on the signature.
Transaction == [from : Addr \cup {NoAddr}, to : Addr, amount : Amount,
                fee : Amount, nonce : Nat, signed : BOOLEAN]

Plus(x, y)  == (x + y) % Modulus
Minus(x, y) == (x - y) % Modulus

Credit(st, a, v) == [st EXCEPT ![a].balance = Plus(@, v)]

\* Mutant: the sender's nonce stays where it is.
Debit_sameNonce(st, a, v) == [st EXCEPT ![a].balance = Minus(@, v)]

Debit(st, a, v) ==
  [st EXCEPT ![a] = [balance |-> Minus(@.balance, v), nonce |-> @.nonce + 1]]

\* Mutant: the nonce is not compared.
TxApplies_anyNonce(st, tx) ==
  tx.from = NoAddr \/
  (st[tx.from].balance >= Plus(tx.amount, tx.fee) /\ tx.signed)

\* The conditions under which ApplyTransaction returns no error.
TxApplies(st, tx) ==
  \/ tx.from = NoAddr
  \/ /\ st[tx.from].balance >= Plus(tx.amount, tx.fee)
     /\ st[tx.from].nonce = tx.nonce
     /\ tx.signed

\* Mutant: both accounts are read before either is written.
AfterTx_readFirst(st, tx, miner) ==
  IF tx.from = NoAddr
  THEN Credit(st, tx.to, tx.amount)
  ELSE LET paid == [Debit(st, tx.from, Plus(tx.amount, tx.fee))
                      EXCEPT ![tx.to].balance = Plus(st[tx.to].balance, tx.amount)]
       IN  IF tx.fee > 0 /\ miner # NoAddr
           THEN Credit(paid, miner, tx.fee)
           ELSE paid

\* The state ApplyTransaction leaves behind when it returns no error.  The
\* recipient is read after the sender is written, so that a transfer to
\* oneself costs the fee only.
AfterTx(st, tx, miner) ==
  IF tx.from = NoAddr
  THEN Credit(st, tx.to, tx.amount)
  ELSE LET paid == Credit(Debit(st, tx.from, Plus(tx.amount, tx.fee)),
                          tx.to, tx.amount)
       IN  IF tx.fee > 0 /\ miner # NoAddr
           THEN Credit(paid, miner, tx.fee)
           ELSE paid

ApplyBlockReward(st, miner, reward) ==
  IF miner = NoAddr \/ reward = 0 THEN st ELSE Credit(st, miner, reward)
===========================================================================
