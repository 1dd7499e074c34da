-------------------------- MODULE OneXTokenProofs ---------------------------
(***************************************************************************)
(* For every set of accounts, every plan and any number of calls: a permit *)
(* is accepted once, the balances are covered by the supply, and no        *)
(* transfer is refused for its tax.                                        *)
(***************************************************************************)
EXTENDS OneXToken, SumProofs, TLAPS

\* Every accepted permit was signed for a nonce its owner has since passed, and
\* no two of them were signed by one owner for one nonce.
PermitInv ==
  /\ plan \in Plan
  /\ nonces \in [Address -> Nat]
  /\ accepted \in Seq(Signature)
  /\ \A i \in DOMAIN accepted : accepted[i].nonce < nonces[accepted[i].owner]
  /\ \A i, j \in DOMAIN accepted :
       accepted[i].owner = accepted[j].owner /\ accepted[i].nonce = accepted[j].nonce => i = j

\* The constructor accepts no permit.
LEMMA PermitInvInit == TokenInit => PermitInv
<1> SUFFICES ASSUME TokenInit PROVE PermitInv
  OBVIOUS
<1>1. plan \in Plan /\ nonces = [a \in Address |-> 0] /\ accepted = <<>>
  BY DEF TokenInit, Constructed
<1> QED
  BY <1>1 DEF PermitInv

\* A step that accepts no permit keeps the invariant.
LEMMA UnsignedStep ==
  ASSUME PermitInv, UNCHANGED <<plan, signed>>
  PROVE  PermitInv'
BY DEF PermitInv, signed

\* permit uses up the nonce that the accepted signature was for.
LEMMA SignedStep ==
  ASSUME PermitInv, plan' = plan, NEW s \in Signature, permit(s)
  PROVE  PermitInv'
<1>1. /\ s.owner \in Address /\ s.nonce \in Nat
      /\ s.nonce = nonces[s.owner]
      /\ nonces' = [nonces EXCEPT ![s.owner] = @ + 1]
      /\ accepted' = Append(accepted, s)
  BY DEF permit, Used, Signature, Address
<1>2. accepted' \in Seq(Signature) /\ nonces' \in [Address -> Nat]
  BY <1>1 DEF PermitInv
<1>3. /\ DOMAIN accepted' = DOMAIN accepted \cup {Len(accepted) + 1}
      /\ accepted'[Len(accepted) + 1] = s
      /\ Len(accepted) + 1 \notin DOMAIN accepted
      /\ \A i \in DOMAIN accepted : accepted'[i] = accepted[i]
  BY <1>1 DEF PermitInv
<1>4. \A i \in DOMAIN accepted : accepted[i].owner \in Address /\ accepted[i].nonce \in Nat
  <2>1. \A i \in DOMAIN accepted : accepted[i] \in Signature
    BY DEF PermitInv
  <2> QED
    BY <2>1 DEF Signature, Address
<1>5. \A a \in Address : nonces'[a] \in Nat /\ nonces[a] \in Nat /\ nonces[a] <= nonces'[a]
  BY <1>1 DEF PermitInv
<1>6. \A i \in DOMAIN accepted' : accepted'[i].nonce < nonces'[accepted'[i].owner]
  <2> SUFFICES ASSUME NEW i \in DOMAIN accepted'
               PROVE  accepted'[i].nonce < nonces'[accepted'[i].owner]
    OBVIOUS
  <2>1. CASE i \in DOMAIN accepted
    BY <2>1, <1>3, <1>4, <1>5 DEF PermitInv
  <2>2. CASE i = Len(accepted) + 1
    BY <2>2, <1>1, <1>3 DEF PermitInv
  <2> QED
    BY <2>1, <2>2, <1>3
<1>7. \A i \in DOMAIN accepted : ~(accepted[i].owner = s.owner /\ accepted[i].nonce = s.nonce)
  BY <1>1, <1>4, <1>5 DEF PermitInv
<1>8. \A i, j \in DOMAIN accepted' :
        accepted'[i].owner = accepted'[j].owner /\ accepted'[i].nonce = accepted'[j].nonce => i = j
  BY <1>3, <1>7 DEF PermitInv
<1> QED
  BY <1>2, <1>6, <1>8 DEF PermitInv

\* Of the calls, permit alone touches what was signed.
LEMMA PermitInvStep ==
  ASSUME PermitInv, [TokenNext]_tokenVars
  PROVE  PermitInv'
<1>1. CASE UNCHANGED tokenVars
  BY <1>1, UnsignedStep DEF tokenVars
<1>2. CASE /\ UNCHANGED <<plan, p>>
           /\ clock < MaxTime /\ clock' = clock + 1
           /\ UNCHANGED <<money, allow, settings, signed, calls>>
  BY <1>2, UnsignedStep
<1>3. ASSUME plan' = plan, NEW c \in Calls(plan), Call(c)
      PROVE  PermitInv'
  <2>1. CASE c.fn = "permit" /\ permit(c.sig)
    <3>1. c.sig \in Signature
      BY <2>1, CallsAssumption DEF PermitInv, CallsAssumption
    <3> QED
      BY <1>3, <2>1, <3>1, SignedStep
  <2>2. CASE transfer(c.by, c.to, c.n)
    BY <1>3, <2>2, UnsignedStep DEF transfer
  <2>3. CASE approve(c.by, c.to, c.n)
    BY <1>3, <2>3, UnsignedStep DEF approve
  <2>4. CASE transferFrom(c.by, c.from, c.to, c.n)
    BY <1>3, <2>4, UnsignedStep DEF transferFrom
  <2>5. CASE mint(c.by, c.to, c.n)
    BY <1>3, <2>5, UnsignedStep DEF mint
  <2>6. CASE enableTrading(c.by)
    BY <1>3, <2>6, UnsignedStep DEF enableTrading
  <2>7. CASE setPaused(c.by, c.set)
    BY <1>3, <2>7, UnsignedStep DEF setPaused
  <2>8. CASE setBlacklisted(c.by, c.to, c.set)
    BY <1>3, <2>8, UnsignedStep DEF setBlacklisted
  <2>9. CASE setExcluded(c.by, c.to, c.set)
    BY <1>3, <2>9, UnsignedStep DEF setExcluded
  <2>10. CASE setAutomatedMarketMakerPair(c.by, c.to, c.set)
    BY <1>3, <2>10, UnsignedStep DEF setAutomatedMarketMakerPair
  <2>11. CASE transferOwnership(c.by, c.to)
    BY <1>3, <2>11, UnsignedStep DEF transferOwnership
  <2> QED
    BY <1>3, <2>1, <2>2, <2>3, <2>4, <2>5, <2>6, <2>7, <2>8, <2>9, <2>10, <2>11 DEF Call
<1> QED
  BY <1>1, <1>2, <1>3 DEF TokenNext

\* A signed permit is accepted once, however often and by whomever it is sent
\* (permit reads the nonce it is verified against and raises it).
THEOREM PermitsAcceptedOnce == TokenSpec => []PermitOnce
<1>1. PermitInv => PermitOnce
  BY DEF PermitInv, PermitOnce
<1> QED
  BY <1>1, PermitInvInit, PermitInvStep, PTL DEF TokenSpec

(***************************************************************************)
(* Shares of an amount.                                                    *)
(***************************************************************************)

\* A quotient is the largest number that so often fits.
LEMMA QuotientIsLargest ==
  ASSUME NEW n \in Nat, NEW d \in Nat \ {0}
  PROVE  /\ n \div d \in Nat /\ (n \div d) * d <= n
         /\ \A q \in Nat : q * d <= n => q <= n \div d
<1>1. n \div d \in Nat /\ (n \div d) * d <= n /\ n < (n \div d + 1) * d
  BY SMT
<1>2. ASSUME NEW q \in Nat, q * d <= n, ~(q <= n \div d)
      PROVE  FALSE
  <2>1. n \div d + 1 <= q
    BY <1>1, <1>2
  <2>2. (n \div d + 1) * d <= q * d
    BY <1>1, <2>1, SMT
  <2>3. (n \div d + 1) * d \in Int /\ q * d \in Int
    BY <1>1
  <2> QED
    BY <1>1, <1>2, <2>2, <2>3
<1> QED
  BY <1>1, <1>2

\* Rounded on their own, shares are together no more than the share of both
\* rates, and no share is more than the whole.
LEMMA SharesAdd ==
  ASSUME NEW n \in Nat, NEW x \in Nat, NEW y \in Nat
  PROVE  /\ Share(n, x) \in Nat
         /\ Share(n, x) + Share(n, y) <= Share(n, x + y)
         /\ Share(n, 0) = 0
         /\ x <= Base => Share(n, x) <= n
<1>1. Base \in Nat \ {0}
  BY LaunchAssumption DEF LaunchAssumption
<1>2. n * x \in Nat /\ n * y \in Nat /\ n * (x + y) \in Nat /\ n * (x + y) = n * x + n * y /\ n * 0 = 0
  BY SMT
<1>3. /\ Share(n, x) \in Nat /\ Share(n, x) * Base <= n * x
      /\ Share(n, y) \in Nat /\ Share(n, y) * Base <= n * y
  BY <1>1, <1>2, QuotientIsLargest DEF Share
<1>4. Share(n, x) + Share(n, y) <= Share(n, x + y)
  <2>1. (Share(n, x) + Share(n, y)) * Base = Share(n, x) * Base + Share(n, y) * Base
    BY <1>1, <1>3, SMT
  <2>2. Share(n, x) * Base \in Nat /\ Share(n, y) * Base \in Nat
    BY <1>1, <1>3, SMT
  <2>3. (Share(n, x) + Share(n, y)) * Base <= n * (x + y)
    BY <1>2, <1>3, <2>1, <2>2
  <2>4. Share(n, x) + Share(n, y) \in Nat
    BY <1>3
  <2> QED
    BY <1>1, <1>2, <2>3, <2>4, QuotientIsLargest DEF Share
<1>5. Share(n, 0) = 0
  BY <1>1, <1>2, SMT DEF Share
<1>6. ASSUME x <= Base
      PROVE  Share(n, x) <= n
  <2>1. n * x <= n * Base /\ n * Base \in Nat /\ Share(n, x) * Base \in Nat
    BY <1>1, <1>3, <1>6, SMT
  <2>2. Share(n, x) * Base <= n * Base
    BY <1>2, <1>3, <2>1
  <2> QED
    BY <1>1, <1>3, <2>2, SMT
<1> QED
  BY <1>3, <1>4, <1>5, <1>6

(***************************************************************************)
(* What the constructor fixes.                                             *)
(***************************************************************************)

\* The parameters of a constructed contract: what buildInitParams let through.
ParamsOK(q) ==
  /\ {q.liq, q.div, q.burn, q.supply, q.max} \subseteq Nat
  /\ {q.liqAt, q.divAt} \subseteq Address
  /\ q.taxes \in [Address -> Nat]
  /\ \A a, b \in Address :
       a # b => q.liq + q.div + q.burn + q.taxes[a] + q.taxes[b] <= TaxCap

\* A finite set of numbers has a largest one.
LEMMA LargestExists ==
  ASSUME NEW S \in SUBSET Nat, IsFiniteSet(S), S # {}
  PROVE  Max(S) \in S
<1> DEFINE Good == {T \in SUBSET S : T # {} => \E x \in T : \A y \in T : x >= y}
<1>1. {} \in Good
  OBVIOUS
<1>2. ASSUME NEW T \in SUBSET S, T # {}, \A U \in SUBSET T : U # T => U \in Good
      PROVE  T \in Good
  <2>1. PICK t \in T : TRUE
    BY <1>2
  <2>2. T \ {t} \in Good
    BY <1>2, <2>1
  <2>3. CASE T \ {t} = {}
    BY <2>1, <2>3
  <2>4. CASE T \ {t} # {}
    <3>1. PICK x \in T \ {t} : \A y \in T \ {t} : x >= y
      BY <2>2, <2>4
    <3>2. t \in Nat /\ x \in Nat /\ \A y \in T : y \in Nat
      BY <2>1
    <3>3. CASE x >= t
      BY <3>1, <3>2, <3>3
    <3>4. CASE t >= x
      BY <2>1, <3>1, <3>2, <3>4
    <3> QED
      BY <3>2, <3>3, <3>4
  <2> QED
    BY <2>3, <2>4
<1>3. Good \in SUBSET (SUBSET S)
  OBVIOUS
<1> HIDE DEF Good
<1>4. \A T \in SUBSET S : T # {} /\ (\A U \in SUBSET T : U # T => U \in Good) => T \in Good
  BY <1>2
<1>5. Good = SUBSET S
  BY <1>1, <1>3, <1>4, SubsetInduction
<1>6. \E x \in S : \A y \in S : x >= y
  BY <1>5 DEF Good
<1> QED
  BY <1>6 DEF Max

\* Two accounts are taxed at different places of the wizard's list, so that
\* their rates are together at most the total that was let through.
LEMMA ParamsConstructed ==
  ASSUME TokenInit
  PROVE  ParamsOK(p)
<1> DEFINE f == Wizard(plan)
           w == WalletTaxes(f)
           bps == [i \in DOMAIN w |-> w[i].bps]
           q == InitParams(f)
           Of(a) == {i \in DOMAIN w : w[i].at = a}
<1>1. plan \in Plan /\ q # Invalid /\ Constructible(q) /\ Constructed(q)
  BY DEF TokenInit
<1>2. /\ {f.supply, f.max, f.liq, f.div, f.burn} \subseteq Int
      /\ {f.owner, f.recipient, f.liqAt, f.divAt} \subseteq Address \cup {NoAddress, BadAddress}
      /\ f.accounts \in Seq(Address \cup {NoAddress, BadAddress}) /\ f.rates \in Seq(Int)
  BY <1>1, WizardAssumption DEF WizardAssumption
<1>3. /\ q.liq = pctToBps(f.liq) /\ q.div = pctToBps(f.div) /\ q.burn = pctToBps(f.burn)
      /\ q.taxes = w /\ q.owner \in Address /\ {q.liqAt, q.divAt} \subseteq Address
  <2>1. Zero \in Address /\ Deployer \in Address
    BY AccountAssumption DEF Address, AccountAssumption
  <2>2. OrElse(f.owner, Zero) \in Address
    BY <1>2, <2>1 DEF OrElse
  <2>3. /\ OrElse(f.liqAt, OrElse(f.owner, Zero)) \in Address
        /\ OrElse(f.divAt, OrElse(f.owner, Zero)) \in Address
    BY <1>2, <2>2 DEF OrElse
  <2> DEFINE b == buildInitParams(f)
  <2>4. q = [Owned(b) EXCEPT !.supply = @ % Big, !.max = @ % Big,
                             !.maxWallet = @ % Big, !.maxTx = @ % Big]
    BY <1>1 DEF InitParams
  <2>5. /\ b.liq = pctToBps(f.liq) /\ b.div = pctToBps(f.div) /\ b.burn = pctToBps(f.burn)
        /\ b.taxes = w /\ {b.owner, b.liqAt, b.divAt} \subseteq Address
    BY <2>2, <2>3 DEF buildInitParams
  <2>6. /\ Owned(b).liq = b.liq /\ Owned(b).div = b.div /\ Owned(b).burn = b.burn
        /\ Owned(b).taxes = b.taxes /\ Owned(b).liqAt = b.liqAt /\ Owned(b).divAt = b.divAt
        /\ Owned(b).owner \in Address
    BY <2>1, <2>5 DEF Owned, buildInitParams
  <2>7. /\ q.liq = Owned(b).liq /\ q.div = Owned(b).div /\ q.burn = Owned(b).burn
        /\ q.taxes = Owned(b).taxes /\ q.owner = Owned(b).owner
        /\ q.liqAt = Owned(b).liqAt /\ q.divAt = Owned(b).divAt
    BY <2>4 DEF Owned, buildInitParams
  <2> HIDE DEF b
  <2> QED
    BY <2>5, <2>6, <2>7
<1>4. TaxCap \in Nat /\ Short \in Nat \ {0}
  BY LaunchAssumption DEF LaunchAssumption
<1>5. {q.liq, q.div, q.burn} \subseteq Nat
  BY <1>2, <1>3, <1>4 DEF pctToBps, Lesser
<1>6. DOMAIN w \in SUBSET Nat /\ IsFiniteSet(DOMAIN w)
  <2>1. DOMAIN f.accounts = 1 .. Len(f.accounts) /\ Len(f.accounts) \in Nat
    BY <1>2
  <2> HIDE DEF f
  <2>2. IsFiniteSet(1 .. Len(f.accounts))
    <3> DEFINE n == Len(f.accounts)
    <3>1. 1 \in Int /\ n \in Int
      BY <2>1
    <3> HIDE DEF n
    <3>2. IsFiniteSet(1 .. n)
      BY <3>1, FS_Interval
    <3> QED
      BY <3>2 DEF n
  <2>3. DOMAIN w \in SUBSET (1 .. Len(f.accounts))
    BY <2>1 DEF WalletTaxes
  <2> QED
    BY <2>1, <2>2, <2>3, FS_Subset
<1>7. bps \in [DOMAIN w -> Nat]
  <2> SUFFICES ASSUME NEW i \in DOMAIN w PROVE w[i].bps \in Nat
    OBVIOUS
  <2>1. w[i].bps = IF i <= Len(f.rates) THEN Lesser(f.rates[i], TaxCap) % Short ELSE 0
    BY DEF WalletTaxes
  <2>2. i \in Nat /\ i # 0
    BY <1>2, <1>6 DEF WalletTaxes
  <2>3. i <= Len(f.rates) => f.rates[i] \in Int
    BY <1>2, <2>2
  <2> QED
    BY <1>4, <2>1, <2>3 DEF Lesser
<1>8. q.liq + q.div + q.burn + Total(bps) <= TaxCap
  <2>1. TotalTax(f) <= TaxCap
    BY <1>1 DEF InitParams, Accepted
  <2>2. TotalTax(f) = q.liq + q.div + q.burn + Total(bps)
    BY <1>3 DEF TotalTax
  <2> QED
    BY <2>1, <2>2
<1>9. /\ p.liq = q.liq /\ p.div = q.div /\ p.burn = q.burn
      /\ {p.liqAt, p.divAt} \subseteq Address
      /\ p.taxes = [a \in Address |-> IF Of(a) = {} THEN 0 ELSE bps[Max(Of(a))]]
  <2> DEFINE rates == [a \in Address |-> IF Of(a) = {} THEN 0 ELSE w[Max(Of(a))].bps]
  <2>4. p = [q EXCEPT !.max = IF @ > 0 THEN @ ELSE q.supply,
                      !.liqAt = IF @ = Zero THEN q.owner ELSE @,
                      !.divAt = IF @ = Zero THEN q.owner ELSE @,
                      !.taxes = rates]
    BY <1>1, <1>3 DEF Constructed
  <2>5. \A x \in {"liq", "div", "burn", "liqAt", "divAt", "taxes"} : x \in DOMAIN q
    <3> DEFINE b == buildInitParams(f)
    <3>1. q = [Owned(b) EXCEPT !.supply = @ % Big, !.max = @ % Big,
                               !.maxWallet = @ % Big, !.maxTx = @ % Big]
      BY <1>1 DEF InitParams
    <3>2. {"liq", "div", "burn", "liqAt", "divAt", "taxes"} \subseteq DOMAIN b
      BY DEF buildInitParams
    <3> HIDE DEF b, q
    <3>3. DOMAIN Owned(b) = DOMAIN b
      BY DEF Owned
    <3>4. DOMAIN q = DOMAIN Owned(b)
      BY <3>1
    <3> QED
      BY <3>2, <3>3, <3>4
  <2> HIDE DEF q, rates
  <2>1. /\ p.liq = q.liq /\ p.div = q.div /\ p.burn = q.burn
        /\ {p.liqAt, p.divAt} \subseteq Address
    BY <1>3, <2>4, <2>5
  <2>6. p.taxes = rates
    BY <2>4, <2>5
  <2>2. p.taxes = [a \in Address |-> IF Of(a) = {} THEN 0 ELSE w[Max(Of(a))].bps]
    BY <2>6 DEF rates
  <2>3. ASSUME NEW a \in Address, Of(a) # {}
        PROVE  Max(Of(a)) \in DOMAIN w
    BY <1>6, <2>3, LargestExists, FS_Subset
  <2> QED
    BY <2>1, <2>2, <2>3
<1> HIDE DEF f, w, bps, q
<1>10. ASSUME NEW a \in Address, Of(a) # {}
       PROVE  Max(Of(a)) \in Of(a)
  BY <1>6, <1>10, LargestExists, FS_Subset
<1>11. ASSUME NEW a \in Address
       PROVE  p.taxes[a] \in Nat
  BY <1>7, <1>9, <1>10
<1>12. ASSUME NEW a \in Address, NEW b \in Address, a # b
       PROVE  p.taxes[a] + p.taxes[b] <= Total(bps)
  <2>1. Total(bps) \in Nat
    BY <1>6, <1>7, TotalNat
  <2>2. CASE Of(a) = {} \/ Of(b) = {}
    <3>1. \A x \in DOMAIN w : bps[x] <= Total(bps) /\ bps[x] \in Nat
      BY <1>6, <1>7, TotalBounds
    <3>2. \A x \in Address : p.taxes[x] \in Nat /\ p.taxes[x] <= Total(bps)
      BY <1>9, <1>10, <2>1, <3>1
    <3>3. p.taxes[a] = 0 \/ p.taxes[b] = 0
      BY <1>9, <2>2
    <3> QED
      BY <2>1, <3>2, <3>3
  <2>3. CASE Of(a) # {} /\ Of(b) # {}
    <3> DEFINE i == Max(Of(a))
               j == Max(Of(b))
    <3>1. i \in Of(a) /\ j \in Of(b)
      BY <1>10, <2>3
    <3> HIDE DEF i, j
    <3>2. i \in DOMAIN w /\ j \in DOMAIN w /\ i # j
      BY <1>12, <3>1
    <3>3. bps[i] + bps[j] <= Total(bps)
      BY <1>6, <1>7, <3>2, TotalBounds
    <3> QED
      BY <1>9, <2>3, <3>3 DEF i, j
  <2> QED
    BY <2>2, <2>3
<1>15. p.supply \in Nat /\ p.max \in Nat
  <2>1. q.supply \in Nat /\ q.max \in Nat
    <3> DEFINE b == Owned(buildInitParams(f))
    <3>1. q = [b EXCEPT !.supply = @ % Big, !.max = @ % Big,
                        !.maxWallet = @ % Big, !.maxTx = @ % Big]
      BY <1>1 DEF InitParams, q
    <3>2. "supply" \in DOMAIN b /\ "max" \in DOMAIN b /\ b.supply \in Int /\ b.max \in Int
      <4>1. f.supply * Unit \in Int /\ f.max * Unit \in Int
        BY <1>2, LaunchAssumption DEF LaunchAssumption
      <4> QED
        BY <4>1 DEF Owned, buildInitParams
    <3> HIDE DEF b
    <3>3. q.supply = b.supply % Big /\ q.max = b.max % Big
      BY <3>1, <3>2
    <3> QED
      BY <3>2, <3>3, LaunchAssumption DEF LaunchAssumption
  <2>2. p.supply = q.supply /\ p.max = IF q.max > 0 THEN q.max ELSE q.supply
    <3>1. "supply" \in DOMAIN q /\ "max" \in DOMAIN q
      BY <1>1 DEF InitParams, Owned, buildInitParams, q
    <3> QED
      BY <1>1, <3>1 DEF Constructed
  <2> QED
    BY <2>1, <2>2
<1>13. p.taxes \in [Address -> Nat]
  BY <1>9, <1>11
<1>14. \A a, b \in Address :
         a # b => p.liq + p.div + p.burn + p.taxes[a] + p.taxes[b] <= TaxCap
  <2> SUFFICES ASSUME NEW a \in Address, NEW b \in Address, a # b
               PROVE  p.liq + p.div + p.burn + p.taxes[a] + p.taxes[b] <= TaxCap
    OBVIOUS
  <2>1. Total(bps) \in Nat
    BY <1>6, <1>7, TotalNat
  <2>2. p.taxes[a] \in Nat /\ p.taxes[b] \in Nat /\ p.taxes[a] + p.taxes[b] <= Total(bps)
    BY <1>11, <1>12
  <2>3. {q.liq, q.div, q.burn} \subseteq Nat /\ p.liq = q.liq /\ p.div = q.div /\ p.burn = q.burn
    BY <1>5, <1>9
  <2> QED
    BY <1>4, <1>8, <2>1, <2>2, <2>3
<1> QED
  BY <1>5, <1>9, <1>13, <1>14, <1>15 DEF ParamsOK

(***************************************************************************)
(* The balances.                                                           *)
(***************************************************************************)

\* The inductive invariant: the balances are natural numbers that together are
\* no more than the supply, which fits in a word, so that the unchecked
\* subtractions and additions of _applyTaxes never wrap around.
MoneyInv ==
  /\ plan \in Plan
  /\ ParamsOK(p)
  /\ bal \in [Address -> Nat]
  /\ totalSupply \in Nat /\ totalSupply < Big
  /\ Total(bal) <= totalSupply
  /\ totalSupply <= p.supply \/ totalSupply <= p.max

LEMMA AddressFinite == IsFiniteSet(Address)
<1>1. Address = (Account \cup {This}) \cup {Zero}
  BY DEF Address
<1>2. IsFiniteSet(Account \cup {This})
  BY AccountAssumption, FS_AddElement DEF AccountAssumption
<1> QED
  BY <1>1, <1>2, FS_AddElement

\* The whole supply goes to the recipient.
LEMMA MoneyInvInit == TokenInit => MoneyInv
<1> SUFFICES ASSUME TokenInit PROVE MoneyInv
  OBVIOUS
<1> DEFINE f == Wizard(plan)
           q == InitParams(f)
<1>1. plan \in Plan /\ q # Invalid /\ Constructible(q) /\ Constructed(q)
  BY DEF TokenInit
<1>2. f.supply \in Int /\ Big \in Nat \ {0} /\ Unit \in Nat \ {0}
  BY <1>1, WizardAssumption, LaunchAssumption DEF WizardAssumption, LaunchAssumption
<1>3. q.supply = (f.supply * Unit) % Big
  BY <1>1 DEF InitParams, Owned, buildInitParams
<1>4. f.supply * Unit \in Int
  BY <1>2
<1> HIDE DEF f
<1>5. q.supply \in Nat /\ q.supply < Big
  BY <1>2, <1>3, <1>4
<1>6. /\ totalSupply = q.supply
      /\ bal = [a \in Address |-> IF a = q.recipient THEN q.supply ELSE 0]
      /\ p.supply = q.supply
  <2>1. "supply" \in DOMAIN q
    BY <1>1 DEF InitParams, Owned, buildInitParams
  <2> HIDE DEF q
  <2> QED
    BY <1>1, <2>1 DEF Constructed
<1> HIDE DEF q
<1>7. bal \in [Address -> Nat]
  BY <1>5, <1>6
<1>8. Total(bal) <= q.supply
  <2> DEFINE z == [a \in Address |-> 0]
  <2>1. z \in [Address -> Int] /\ bal \in [Address -> Int]
    BY <1>7
  <2>2. Total(z) = 0
    BY AddressFinite, TotalZero
  <2>3. CASE q.recipient \in Address
    <3>1. \A a \in Address \ {q.recipient} : bal[a] = z[a]
      BY <1>6
    <3>2. z[q.recipient] = 0 /\ bal[q.recipient] = q.supply
      BY <1>6, <2>3
    <3> HIDE DEF z
    <3>3. Total(bal) = Total(z) - z[q.recipient] + bal[q.recipient]
      BY <2>1, <2>3, <3>1, AddressFinite, TotalUpdate
    <3> QED
      BY <1>5, <2>2, <3>2, <3>3
  <2>4. CASE q.recipient \notin Address
    BY <1>5, <1>6, <2>2, <2>4
  <2> QED
    BY <2>3, <2>4
<1> QED
  BY <1>1, <1>5, <1>6, <1>7, <1>8, ParamsConstructed DEF MoneyInv

\* What an amount is split into is never more than the amount.
LEMMA SplitFacts ==
  ASSUME ParamsOK(p), NEW from \in Address, NEW to \in Address, NEW n \in Nat,
         ~Exempt(from, to) => TaxBps(from, to) <= TaxCap
  PROVE  LET s == Split(from, to, n)
         IN  /\ s.net \in Nat /\ s.liq \in Nat /\ s.div \in Nat /\ s.burn \in Nat
             /\ s.net + s.liq + s.div + s.burn <= n
<1> DEFINE s == Split(from, to, n)
           l == IF Flag("liqTax") THEN p.liq ELSE 0
           d == IF Flag("divTax") THEN p.div ELSE 0
           b == IF Flag("burnTax") THEN p.burn ELSE 0
           r == WalletRate(from, to)
<1>1. CASE Exempt(from, to)
  BY <1>1 DEF Split
<1>2. CASE ~Exempt(from, to)
  <2>1. l \in Nat /\ d \in Nat /\ b \in Nat /\ r \in Nat
    BY DEF ParamsOK, WalletRate
  <2>2. TaxBps(from, to) = l + d + b + r
    BY DEF TaxBps
  <2>3. l + d + b + r <= Base
    <3>1. TaxCap \in Nat /\ Base \in Nat /\ TaxCap <= Base
      BY LaunchAssumption DEF LaunchAssumption
    <3> HIDE DEF l, d, b, r
    <3> QED
      BY <1>2, <2>1, <2>2, <3>1
  <2>4. Share(n, 0) = 0
    BY SharesAdd
  <2>5. /\ s.net = n - Share(n, l + d + b + r) /\ s.liq = Share(n, l)
        /\ s.div = Share(n, d) + Share(n, r) /\ s.burn = Share(n, b)
    BY <1>2, <2>2, <2>4 DEF Split
  <2> HIDE DEF s, l, d, b, r
  <2>10. l + d \in Nat /\ l + d + b \in Nat /\ l + d + b + r \in Nat
    BY <2>1
  <2>6. /\ Share(n, l) + Share(n, d) <= Share(n, l + d)
        /\ Share(n, l + d) + Share(n, b) <= Share(n, l + d + b)
        /\ Share(n, l + d + b) + Share(n, r) <= Share(n, l + d + b + r)
    BY <2>1, <2>10, SharesAdd
  <2>7. /\ Share(n, l) \in Nat /\ Share(n, d) \in Nat /\ Share(n, b) \in Nat
        /\ Share(n, r) \in Nat /\ Share(n, l + d) \in Nat /\ Share(n, l + d + b) \in Nat
        /\ Share(n, l + d + b + r) \in Nat
    BY <2>1, <2>10, SharesAdd
  <2>8. Share(n, l + d + b + r) <= n
    BY <2>3, <2>10, SharesAdd
  <2>9. /\ s.net \in Nat /\ s.liq \in Nat /\ s.div \in Nat /\ s.burn \in Nat
        /\ s.net + s.liq + s.div + s.burn <= n
    BY <2>5, <2>6, <2>7, <2>8
  <2> QED
    BY <2>9 DEF s
<1> QED
  BY <1>1, <1>2

\* f with k more at x.
More(f, x, k) == [f EXCEPT ![x] = @ + k]

\* It is a table of amounts with a total that is k more.
LEMMA MoreFacts ==
  ASSUME NEW f \in [Address -> Nat], NEW x \in Address, NEW k \in Int, f[x] + k \in Nat
  PROVE  /\ More(f, x, k) \in [Address -> Nat]
         /\ Total(More(f, x, k)) = Total(f) + k
         /\ \A a \in Address : More(f, x, k)[a] = IF a = x THEN f[a] + k ELSE f[a]
<1> DEFINE g == More(f, x, k)
<1>1. /\ g \in [Address -> Nat] /\ g[x] = f[x] + k /\ \A y \in Address \ {x} : g[y] = f[y]
  BY DEF More
<1>2. g \in [Address -> Int] /\ f \in [Address -> Int]
  BY <1>1
<1> HIDE DEF g
<1>3. Total(g) = Total(f) - f[x] + g[x]
  BY <1>1, <1>2, AddressFinite, TotalUpdate
<1>4. Total(f) \in Int /\ f[x] \in Int
  BY <1>2, AddressFinite, TotalType
<1> QED
  BY <1>1, <1>3, <1>4 DEF g

\* A transfer moves the amount and its parts, and wraps nothing around.
LEMMA TransferKeeps ==
  ASSUME MoneyInv, UNCHANGED <<plan, p>>, NEW from \in Address, NEW to \in Address,
         NEW n \in Nat, internalTransfer(from, to, n)
  PROVE  MoneyInv'
<1> DEFINE s == Split(from, to, n)
           b1 == More(bal, from, 0 - n)
           b2 == More(b1, to, s.net)
           b3 == More(b2, p.liqAt, s.liq)
           b4 == More(b3, p.divAt, s.div)
           In(a, at, k) == IF a = at THEN k ELSE 0
           New(a) == bal[a] - In(a, from, n) + In(a, to, s.net)
                       + In(a, p.liqAt, s.liq) + In(a, p.divAt, s.div)
<1>1. /\ CanMove(from, to, n)
      /\ bal' = [a \in Address |-> New(a) % Big]
      /\ totalSupply' = (totalSupply - s.burn) % Big
  BY DEF internalTransfer
<1>2. /\ bal[from] >= n /\ (~Exempt(from, to) => TaxBps(from, to) <= TaxCap)
  BY <1>1 DEF CanMove
<1>3. /\ s.net \in Nat /\ s.liq \in Nat /\ s.div \in Nat /\ s.burn \in Nat
      /\ s.net + s.liq + s.div + s.burn <= n
  BY <1>2, SplitFacts DEF MoneyInv
<1>4. p.liqAt \in Address /\ p.divAt \in Address /\ bal \in [Address -> Nat]
      /\ Big \in Nat \ {0}
  BY LaunchAssumption DEF MoneyInv, ParamsOK, LaunchAssumption
<1> HIDE DEF s
<1>5. /\ b1 \in [Address -> Nat] /\ Total(b1) = Total(bal) + (0 - n)
      /\ \A a \in Address : b1[a] = IF a = from THEN bal[a] + (0 - n) ELSE bal[a]
  <2>1. 0 - n \in Int /\ bal[from] + (0 - n) \in Nat
    BY <1>2, <1>4
  <2> QED
    BY <1>4, <2>1, MoreFacts
<1> HIDE DEF b1
<1>6. /\ b2 \in [Address -> Nat] /\ Total(b2) = Total(b1) + s.net
      /\ \A a \in Address : b2[a] = IF a = to THEN b1[a] + s.net ELSE b1[a]
  <2>1. s.net \in Int /\ b1[to] + s.net \in Nat
    BY <1>3, <1>5
  <2> QED
    BY <1>5, <2>1, MoreFacts
<1> HIDE DEF b2
<1>7. /\ b3 \in [Address -> Nat] /\ Total(b3) = Total(b2) + s.liq
      /\ \A a \in Address : b3[a] = IF a = p.liqAt THEN b2[a] + s.liq ELSE b2[a]
  <2>1. s.liq \in Int /\ b2[p.liqAt] + s.liq \in Nat
    BY <1>3, <1>4, <1>6
  <2> QED
    BY <1>4, <1>6, <2>1, MoreFacts
<1> HIDE DEF b3
<1>8. /\ b4 \in [Address -> Nat] /\ Total(b4) = Total(b3) + s.div
      /\ \A a \in Address : b4[a] = IF a = p.divAt THEN b3[a] + s.div ELSE b3[a]
  <2>1. s.div \in Int /\ b3[p.divAt] + s.div \in Nat
    BY <1>3, <1>4, <1>7
  <2> QED
    BY <1>4, <1>7, <2>1, MoreFacts
<1> HIDE DEF b4
<1>9. Total(bal) \in Nat /\ Total(b4) \in Nat
  BY <1>4, <1>8, AddressFinite, TotalNat
<1>10. Total(b4) = Total(bal) + (0 - n) + s.net + s.liq + s.div
  BY <1>5, <1>6, <1>7, <1>8
<1>11. n <= Total(bal)
  <2>1. bal[from] <= Total(bal) /\ bal[from] \in Nat
    BY <1>4, AddressFinite, TotalBounds
  <2> QED
    BY <1>2, <1>9, <2>1
<1>12. totalSupply \in Nat /\ totalSupply < Big /\ Total(bal) <= totalSupply
  BY DEF MoneyInv
<1>13. /\ totalSupply' = totalSupply - s.burn /\ totalSupply' \in Nat /\ totalSupply' < Big
       /\ Total(b4) <= totalSupply' /\ totalSupply' <= totalSupply
  <2>1. totalSupply - s.burn \in Nat /\ totalSupply - s.burn < Big
    BY <1>3, <1>4, <1>9, <1>11, <1>12
  <2>2. (totalSupply - s.burn) % Big = totalSupply - s.burn
    BY <1>4, <2>1
  <2> QED
    BY <1>1, <1>3, <1>9, <1>10, <1>12, <2>1, <2>2
<1>14. bal' = b4
  <2> SUFFICES ASSUME NEW a \in Address PROVE New(a) % Big = b4[a]
    BY <1>1, <1>8
  <2>1. New(a) = b4[a]
    BY <1>3, <1>4, <1>5, <1>6, <1>7, <1>8
  <2>2. b4[a] \in Nat /\ b4[a] <= Total(b4)
    BY <1>8, AddressFinite, TotalBounds
  <2>3. b4[a] < Big
    BY <1>4, <1>9, <1>13, <2>2
  <2> HIDE DEF New
  <2> QED
    BY <1>4, <2>1, <2>2, <2>3
<1>15. totalSupply' <= p.supply \/ totalSupply' <= p.max
  <2>3. p.supply \in Nat /\ p.max \in Nat
    BY DEF MoneyInv, ParamsOK
  <2>1. CASE totalSupply <= p.supply
    BY <1>12, <1>13, <2>1, <2>3
  <2>2. CASE totalSupply <= p.max
    BY <1>12, <1>13, <2>2, <2>3
  <2> QED
    BY <2>1, <2>2 DEF MoneyInv
<1> QED
  BY <1>8, <1>13, <1>14, <1>15 DEF MoneyInv, ParamsOK

\* mint adds to the supply what it adds to a balance.
LEMMA MintKeeps ==
  ASSUME MoneyInv, UNCHANGED <<plan, p>>, NEW by, NEW to \in Address, NEW n \in Nat, mint(by, to, n)
  PROVE  MoneyInv'
<1>1. /\ totalSupply + n < Big /\ totalSupply + n <= p.max
      /\ totalSupply' = totalSupply + n /\ bal' = More(bal, to, n)
  BY DEF mint, More
<1>2. bal \in [Address -> Nat] /\ totalSupply \in Nat /\ Total(bal) <= totalSupply
  BY DEF MoneyInv
<1>3. bal[to] + n \in Nat
  BY <1>2
<1>4. More(bal, to, n) \in [Address -> Nat] /\ Total(More(bal, to, n)) = Total(bal) + n
  BY <1>2, <1>3, MoreFacts
<1>5. Total(bal) \in Nat
  BY <1>2, AddressFinite, TotalNat
<1>6. Total(bal') <= totalSupply'
  BY <1>1, <1>2, <1>4, <1>5
<1> QED
  BY <1>1, <1>2, <1>4, <1>6 DEF MoneyInv, ParamsOK

\* The other functions leave the money alone.
LEMMA MoneyUntouched ==
  ASSUME MoneyInv, UNCHANGED <<plan, p, money>>
  PROVE  MoneyInv'
BY DEF MoneyInv, ParamsOK, money

\* Every step keeps the invariant.
LEMMA MoneyInvStep ==
  ASSUME MoneyInv, [TokenNext]_tokenVars
  PROVE  MoneyInv'
<1>1. CASE UNCHANGED tokenVars
  BY <1>1, MoneyUntouched DEF tokenVars
<1>2. CASE /\ UNCHANGED <<plan, p>>
           /\ clock < MaxTime /\ clock' = clock + 1
           /\ UNCHANGED <<money, allow, settings, signed, calls>>
  BY <1>2, MoneyUntouched
<1>3. ASSUME UNCHANGED <<plan, p>>, NEW c \in Calls(plan), Call(c)
      PROVE  MoneyInv'
  <2>1. /\ c.fn \in {"transfer", "transferFrom", "mint"} => c.to \in Address /\ c.n \in Nat
        /\ c.fn = "transfer" => c.by \in Address
        /\ c.fn = "transferFrom" => c.from \in Address
    BY CallsAssumption DEF MoneyInv, CallsAssumption
  <2>2. CASE c.fn = "transfer" /\ transfer(c.by, c.to, c.n)
    BY <1>3, <2>1, <2>2, TransferKeeps DEF transfer
  <2>3. CASE c.fn = "transferFrom" /\ transferFrom(c.by, c.from, c.to, c.n)
    BY <1>3, <2>1, <2>3, TransferKeeps DEF transferFrom
  <2>4. CASE c.fn = "mint" /\ mint(c.by, c.to, c.n)
    BY <1>3, <2>1, <2>4, MintKeeps
  <2>5. CASE permit(c.sig) \/ approve(c.by, c.to, c.n)
    BY <1>3, <2>5, MoneyUntouched DEF permit, approve
  <2>6. CASE enableTrading(c.by)
    BY <1>3, <2>6, MoneyUntouched DEF enableTrading
  <2>7. CASE setPaused(c.by, c.set)
    BY <1>3, <2>7, MoneyUntouched DEF setPaused
  <2>8. CASE setBlacklisted(c.by, c.to, c.set)
    BY <1>3, <2>8, MoneyUntouched DEF setBlacklisted
  <2>9. CASE setExcluded(c.by, c.to, c.set)
    BY <1>3, <2>9, MoneyUntouched DEF setExcluded
  <2>10. CASE setAutomatedMarketMakerPair(c.by, c.to, c.set)
    BY <1>3, <2>10, MoneyUntouched DEF setAutomatedMarketMakerPair
  <2>11. CASE transferOwnership(c.by, c.to)
    BY <1>3, <2>11, MoneyUntouched DEF transferOwnership
  <2> QED
    BY <1>3, <2>2, <2>3, <2>4, <2>5, <2>6, <2>7, <2>8, <2>9, <2>10, <2>11 DEF Call
<1> QED
  BY <1>1, <1>2, <1>3 DEF TokenNext

\* The balances never exceed the supply, nor the supply what was issued or may
\* be minted, although _applyTaxes computes unchecked and rounds every part of a
\* tax on its own.
THEOREM HoldingsAreBacked == TokenSpec => []HoldingsBacked
<1>1. MoneyInv => HoldingsBacked
  BY DEF MoneyInv, HoldingsBacked
<1> QED
  BY <1>1, MoneyInvInit, MoneyInvStep, PTL DEF TokenSpec

\* No transfer between two accounts is ever refused for its tax: parseSupply and
\* the cap on the total tax let no parameters through that _applyTaxes refuses,
\* whichever two wallet taxes meet.
THEOREM TaxStaysWithinCap == TokenSpec => []TaxWithinCap
<1>1. MoneyInv => TaxWithinCap
  <2> SUFFICES ASSUME MoneyInv, NEW a \in Address, NEW b \in Address, a # b
               PROVE  TaxBps(a, b) <= TaxCap
    BY DEF TaxWithinCap
  <2>1. /\ p.liq + p.div + p.burn + p.taxes[a] + p.taxes[b] <= TaxCap
        /\ {p.liq, p.div, p.burn} \subseteq Nat /\ p.taxes[a] \in Nat /\ p.taxes[b] \in Nat
    BY DEF MoneyInv, ParamsOK
  <2>2. TaxCap \in Nat
    BY LaunchAssumption DEF LaunchAssumption
  <2> QED
    BY <2>1, <2>2 DEF TaxBps, WalletRate
<1> QED
  BY <1>1, MoneyInvInit, MoneyInvStep, PTL DEF TokenSpec
=============================================================================
