----------------------------- MODULE OneXToken ------------------------------
(***************************************************************************)
(* The token contract the launcher deploys (contracts/src/OneXToken.sol),  *)
(* one action per external function.  A call that would revert is not      *)
(* enabled.  Arithmetic is modulo Big where the contract says "unchecked"  *)
(* and reverts elsewhere.  The wizard's answers the contract is launched   *)
(* with, and the calls that are made, are chosen once, as the plan.        *)
(***************************************************************************)
EXTENDS LaunchParams, FiniteSets, FiniteSetsExt

CONSTANTS
  Account,             \* the addresses but address(0)
  This,                \* the contract's own
  Plan, Wizard(_), Calls(_),
  MaxCalls, MaxTime    \* bounds

\* Who signs a permit is never address(0): ecrecover's failure is refused.
Signature == [owner : Account, spender : Account, value : Nat, nonce : Nat, deadline : Nat]

Address == Account \cup {This, Zero}

\* What a call's types say of its arguments.
CallsAssumption ==
  \A m \in Plan : \A c \in Calls(m) :
    /\ c.fn = "permit" => c.sig \in Signature
    /\ c.fn \in {"transfer", "transferFrom", "mint"} => c.to \in Address /\ c.n \in Nat
    /\ c.fn = "transfer" => c.by \in Address
    /\ c.fn = "transferFrom" => c.from \in Address

\* What the wizard's answers may be: any numbers, and fields that are empty,
\* malformed or an address.
WizardAssumption ==
  LET Field == Address \cup {NoAddress, BadAddress}
  IN  \A m \in Plan :
        LET f == Wizard(m)
        IN  /\ {f.supply, f.max, f.liq, f.div, f.burn} \subseteq Int
            /\ {f.owner, f.recipient, f.liqAt, f.divAt} \subseteq Field
            /\ f.accounts \in Seq(Field) /\ f.rates \in Seq(Int)

AccountAssumption ==
  /\ IsFiniteSet(Account) /\ Deployer \in Account
  /\ {NoAddress, BadAddress} \cap Address = {}

ASSUME CallsAssumption
ASSUME WizardAssumption
ASSUME AccountAssumption

VARIABLES
  plan, p,             \* p: what the constructor fixed
  totalSupply, bal, allow, owner, trading, paused,
  blacklist, excluded, pairs, last, nonces,
  clock, calls,
  accepted             \* history: the permits that were accepted, in order

money    == <<totalSupply, bal, last>>
settings == <<owner, trading, paused, blacklist, excluded, pairs>>
signed   == <<nonces, accepted>>
tokenVars == <<plan, p, money, allow, settings, signed, clock, calls>>

Flag(f) == f \in p.flags

\* The constructor.  A fee wallet that is address(0) becomes the owner, a
\* trading gate starts closed, and the last rate named for an account holds.
Constructed(q) ==
  /\ p = [q EXCEPT !.max = IF @ > 0 THEN @ ELSE q.supply,
                   !.liqAt = IF @ = Zero THEN q.owner ELSE @,
                   !.divAt = IF @ = Zero THEN q.owner ELSE @,
                   !.taxes = [a \in Address |->
                     LET of == {i \in DOMAIN q.taxes : q.taxes[i].at = a}
                     IN  IF of = {} THEN 0 ELSE q.taxes[Max(of)].bps]]
  /\ totalSupply = q.supply
  /\ bal = [a \in Address |-> IF a = q.recipient THEN q.supply ELSE 0]
  /\ allow = [a \in Address \X Address |-> 0]
  /\ owner = q.owner
  /\ trading = ("enableTrading" \notin q.flags)
  /\ paused = FALSE
  /\ blacklist = {} /\ pairs = {}
  /\ excluded = {q.owner, q.recipient, This}
  /\ last = [a \in Address |-> 0]
  /\ nonces = [a \in Address |-> 0]

TokenInit ==
  /\ plan \in Plan
  /\ LET q == InitParams(Wizard(plan)) IN q # Invalid /\ Constructible(q) /\ Constructed(q)
  /\ clock = 0 /\ calls = 0 /\ accepted = <<>>

-----------------------------------------------------------------------------

Exempt(from, to) == {from, to} \cap (excluded \cup pairs) # {}

WalletRate(from, to) ==
  IF Flag("walletTax") THEN p.taxes[from] + p.taxes[to] ELSE 0

TaxBps(from, to) ==
  (IF Flag("liqTax") THEN p.liq ELSE 0) + (IF Flag("divTax") THEN p.div ELSE 0)
    + (IF Flag("burnTax") THEN p.burn ELSE 0) + WalletRate(from, to)

\* Mutant: the burnt part stays with the receiver.
Split_burnt(from, to, n) ==
  IF Exempt(from, to) THEN [net |-> n, liq |-> 0, div |-> 0, burn |-> 0]
  ELSE LET burn == IF Flag("burnTax") THEN Share(n, p.burn) ELSE 0
       IN  [net  |-> n - Share(n, TaxBps(from, to)) + burn,
            liq  |-> IF Flag("liqTax") THEN Share(n, p.liq) ELSE 0,
            div  |-> (IF Flag("divTax") THEN Share(n, p.div) ELSE 0) + Share(n, WalletRate(from, to)),
            burn |-> burn]

\* _applyTaxes: the whole tax leaves the amount, and each part is rounded on
\* its own; what rounding loses is nobody's.
Split(from, to, n) ==
  IF Exempt(from, to) THEN [net |-> n, liq |-> 0, div |-> 0, burn |-> 0]
  ELSE [net  |-> n - Share(n, TaxBps(from, to)),
        liq  |-> IF Flag("liqTax") THEN Share(n, p.liq) ELSE 0,
        div  |-> (IF Flag("divTax") THEN Share(n, p.div) ELSE 0) + Share(n, WalletRate(from, to)),
        burn |-> IF Flag("burnTax") THEN Share(n, p.burn) ELSE 0]

\* The requirements of _transfer and _applyTaxes.
CanMove(from, to, n) ==
  LET held == ~Exempt(from, to)
  IN  /\ from # Zero /\ to # Zero
      /\ bal[from] >= n
      /\ ~(Flag("pausable") /\ paused)
      /\ Flag("enableTrading") /\ ~trading => ~held
      /\ Flag("blacklist") => {from, to} \cap blacklist = {}
      /\ held => /\ Flag("antiBot") => clock >= last[from] + p.cooldown
                 /\ Flag("maxTx") /\ p.maxTx > 0 => n <= p.maxTx
                 /\ TaxBps(from, to) <= TaxCap
                 /\ n * TaxBps(from, to) < Big
                 /\ Flag("maxWallet") /\ p.maxWallet > 0 =>
                      bal[to] + Split(from, to, n).net <= p.maxWallet

\* _transfer.
internalTransfer(from, to, n) ==
  LET s == Split(from, to, n)
      In(a, at, k) == IF a = at THEN k ELSE 0
  IN  /\ CanMove(from, to, n)
      /\ bal' = [a \in Address |-> (bal[a] - In(a, from, n) + In(a, to, s.net)
                                      + In(a, p.liqAt, s.liq) + In(a, p.divAt, s.div)) % Big]
      /\ totalSupply' = (totalSupply - s.burn) % Big
      /\ last' = IF Flag("antiBot") /\ ~Exempt(from, to)
                 THEN [last EXCEPT ![from] = clock, ![to] = clock] ELSE last

transfer(by, to, n) ==
  /\ internalTransfer(by, to, n)
  /\ UNCHANGED <<allow, settings, signed>>

approve(by, spender, n) ==
  /\ allow' = [allow EXCEPT ![<<by, spender>>] = n]
  /\ UNCHANGED <<money, settings, signed>>

transferFrom(by, from, to, n) ==
  /\ allow[from, by] >= n
  /\ allow' = [allow EXCEPT ![<<from, by>>] = @ - n]
  /\ internalTransfer(from, to, n)
  /\ UNCHANGED <<settings, signed>>

\* Mutant: the nonce is read and not used up.
Used_still(o) == nonces

Used(o) == [nonces EXCEPT ![o] = @ + 1]

\* The digest covers the owner's nonce, so that the owner must have signed
\* these very values at this nonce.
permit(s) ==
  /\ Flag("permit") /\ clock <= s.deadline
  /\ s.nonce = nonces[s.owner]
  /\ nonces' = Used(s.owner)
  /\ allow' = [allow EXCEPT ![<<s.owner, s.spender>>] = s.value]
  /\ accepted' = Append(accepted, s)
  /\ UNCHANGED <<money, settings>>

-----------------------------------------------------------------------------
(* The owner's functions. *)

mint(by, to, n) ==
  /\ by = owner /\ Flag("mintable")
  /\ totalSupply + n < Big /\ totalSupply + n <= p.max
  /\ totalSupply' = totalSupply + n
  /\ bal' = [bal EXCEPT ![to] = @ + n]
  /\ UNCHANGED <<last, allow, settings, signed>>

enableTrading(by) ==
  /\ by = owner /\ Flag("enableTrading")
  /\ trading' = TRUE
  /\ UNCHANGED <<money, allow, owner, paused, blacklist, excluded, pairs, signed>>

\* pause and unpause.
setPaused(by, b) ==
  /\ by = owner /\ Flag("pausable")
  /\ paused' = b
  /\ UNCHANGED <<money, allow, owner, trading, blacklist, excluded, pairs, signed>>

setBlacklisted(by, a, b) ==
  /\ by = owner /\ Flag("blacklist")
  /\ blacklist' = IF b THEN blacklist \cup {a} ELSE blacklist \ {a}
  /\ UNCHANGED <<money, allow, owner, trading, paused, excluded, pairs, signed>>

setExcluded(by, a, b) ==
  /\ by = owner
  /\ excluded' = IF b THEN excluded \cup {a} ELSE excluded \ {a}
  /\ UNCHANGED <<money, allow, owner, trading, paused, blacklist, pairs, signed>>

\* A pair is excluded when it is added and stays so when it is removed.
setAutomatedMarketMakerPair(by, a, b) ==
  /\ by = owner
  /\ pairs' = IF b THEN pairs \cup {a} ELSE pairs \ {a}
  /\ excluded' = IF b THEN excluded \cup {a} ELSE excluded
  /\ UNCHANGED <<money, allow, owner, trading, paused, blacklist, signed>>

\* The old owner is no longer excluded, whatever excluded it.  To address(0)
\* ownership is renounced.
transferOwnership(by, a) ==
  /\ by = owner
  /\ owner' = a
  /\ excluded' = (excluded \ {owner}) \cup ({a} \ {Zero})
  /\ UNCHANGED <<money, allow, trading, paused, blacklist, pairs, signed>>

Call(c) ==
  \/ c.fn = "transfer"      /\ transfer(c.by, c.to, c.n)
  \/ c.fn = "approve"       /\ approve(c.by, c.to, c.n)
  \/ c.fn = "transferFrom"  /\ transferFrom(c.by, c.from, c.to, c.n)
  \/ c.fn = "permit"        /\ permit(c.sig)
  \/ c.fn = "mint"          /\ mint(c.by, c.to, c.n)
  \/ c.fn = "enableTrading" /\ enableTrading(c.by)
  \/ c.fn = "pause"         /\ setPaused(c.by, c.set)
  \/ c.fn = "blacklist"     /\ setBlacklisted(c.by, c.to, c.set)
  \/ c.fn = "exclude"       /\ setExcluded(c.by, c.to, c.set)
  \/ c.fn = "pair"          /\ setAutomatedMarketMakerPair(c.by, c.to, c.set)
  \/ c.fn = "owner"         /\ transferOwnership(c.by, c.to)

TokenNext ==
  /\ UNCHANGED <<plan, p>>
  /\ \/ /\ calls < MaxCalls /\ calls' = calls + 1
        /\ UNCHANGED clock
        /\ \E c \in Calls(plan) : Call(c)
     \/ /\ clock < MaxTime /\ clock' = clock + 1
        /\ UNCHANGED <<money, allow, settings, signed, calls>>

TokenSpec == TokenInit /\ [][TokenNext]_tokenVars

-----------------------------------------------------------------------------

\* The balances never exceed the supply, although they are changed unchecked
\* and every part of a tax is rounded on its own (_applyTaxes), and the supply
\* never exceeds what was issued or the maximum mint allows, whichever is more.
HoldingsBacked ==
  /\ Total(bal) <= totalSupply
  /\ totalSupply <= p.supply \/ totalSupply <= p.max

\* No two accounts find a transfer between them refused for its tax: what
\* buildInitParams lets through stays within the contract's own cap, which
\* adds the rates of both ends.
TaxWithinCap ==
  \A a, b \in Address : a # b /\ ~Exempt(a, b) => TaxBps(a, b) <= TaxCap

\* A signed permit is accepted once, however often and by whomever it is sent.
PermitOnce ==
  \A i, j \in DOMAIN accepted : accepted[i] = accepted[j] => i = j
=============================================================================
