---------------------------- MODULE LaunchParams ----------------------------
(***************************************************************************)
(* What the launcher makes of the wizard's answers: the parameters of the  *)
(* constructor of a OneXToken contract (features.go, deploy.go,            *)
(* handleDeploy).  Percentages are hundredths of a percent, as             *)
(* int(pct * 100) leaves them.                                             *)
(***************************************************************************)
EXTENDS Integers, Sequences, Sums

CONSTANTS
  Zero,                 \* address(0)
  NoAddress, BadAddress, \* an empty field and one that is no address
  Deployer,             \* the address of the deployer key
  Base, TaxCap,         \* 10000 and MAX_TAX_BPS, 2500
  MaxTaxed,             \* at most so many accounts have a wallet tax
  Unit,                 \* 10^decimals
  Short, Big,           \* 2^16 and 2^256
  Invalid

LaunchAssumption ==
  /\ Base \in Nat \ {0} /\ TaxCap \in 0 .. Base
  /\ Unit \in Nat \ {0} /\ Short \in Nat \ {0} /\ Big \in Nat \ {0}

ASSUME LaunchAssumption

Lesser(a, b)  == IF a < b THEN a ELSE b
pctToBps(pct) == IF pct <= 0 THEN 0 ELSE Lesser(pct, TaxCap)
Share(n, pct) == (n * pct) \div Base

\* parseOptionalAddress: an empty or malformed field stands for the fallback.
OrElse(a, fallback) == IF a \in {NoAddress, BadAddress} THEN fallback ELSE a

\* The taxed accounts with their rates, at their places in the wizard's list:
\* one without an address is left out, one without a rate pays nothing, and a
\* rate is cut to 16 bits.
WalletTaxes(f) ==
  [i \in {j \in DOMAIN f.accounts : f.accounts[j] \notin {NoAddress, BadAddress}} |->
     [at  |-> f.accounts[i],
      bps |-> IF i <= Len(f.rates) THEN Lesser(f.rates[i], TaxCap) % Short ELSE 0]]

TotalTax(f) ==
  pctToBps(f.liq) + pctToBps(f.div) + pctToBps(f.burn)
    + Total([i \in DOMAIN WalletTaxes(f) |-> WalletTaxes(f)[i].bps])

\* Mutant: each rate is capped, but not their sum.
Accepted_each(f) ==
  /\ f.supply > 0 /\ (f.max # 0 => f.max > 0)
  /\ Cardinality(DOMAIN WalletTaxes(f)) <= MaxTaxed

\* parseSupply of both supplies, the number of wallet taxes and the total tax.
Accepted(f) ==
  /\ f.supply > 0 /\ (f.max # 0 => f.max > 0)
  /\ Cardinality(DOMAIN WalletTaxes(f)) <= MaxTaxed
  /\ TotalTax(f) <= TaxCap

\* A field left at 0 or empty has its default.  Nobody is named as deployer,
\* so that an owner who is not named is, at first, address(0).
buildInitParams(f) ==
  LET supply    == f.supply * Unit
      owner     == OrElse(f.owner, Zero)
      Pct(p, d) == IF p <= 0 THEN d ELSE p
  IN  [supply    |-> supply,
       max       |-> IF f.max # 0 THEN f.max * Unit
                     ELSE IF "mintable" \in f.flags THEN 2 * supply ELSE supply,
       flags     |-> f.flags,
       maxWallet |-> IF "maxWallet" \in f.flags THEN Share(supply, Pct(f.walletPct, Base \div 50)) ELSE 0,
       maxTx     |-> IF "maxTx" \in f.flags THEN Share(supply, Pct(f.txPct, Base \div 100)) ELSE 0,
       cooldown  |-> IF f.cooldown <= 0 THEN 30 ELSE f.cooldown,
       liq       |-> pctToBps(f.liq),
       div       |-> pctToBps(f.div),
       burn      |-> pctToBps(f.burn),
       owner     |-> owner,
       recipient |-> OrElse(f.recipient, owner),
       liqAt     |-> OrElse(f.liqAt, owner),
       divAt     |-> OrElse(f.divAt, owner),
       taxes     |-> WalletTaxes(f)]

\* handleDeploy puts the deployer for an owner that is address(0).
Owned(p) ==
  IF p.owner # Zero THEN p
  ELSE [p EXCEPT !.owner = Deployer, !.recipient = IF @ = Zero THEN Deployer ELSE @]

\* deployContract packs every number into a word of 256 bits.
InitParams(f) ==
  IF ~Accepted(f) THEN Invalid
  ELSE LET p == Owned(buildInitParams(f))
       IN  [p EXCEPT !.supply = @ % Big, !.max = @ % Big,
                     !.maxWallet = @ % Big, !.maxTx = @ % Big]

\* The requirements of the constructor.
Constructible(p) == p.owner # Zero /\ p.recipient # Zero /\ Cardinality(DOMAIN p.taxes) <= MaxTaxed
=============================================================================
