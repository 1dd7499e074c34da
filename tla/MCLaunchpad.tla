---------------------------- MODULE MCLaunchpad -----------------------------
(***************************************************************************)
(* The launcher and the contract it launches, on a small instance.  A menu *)
(* says which clients send what; under "token" the clients are done and    *)
(* the contract a plan describes is called.                                *)
(***************************************************************************)
EXTENDS Launcher, OneXToken

CONSTANTS dep, ann, bob, fee, cli, web

LaunchpadInit ==
  /\ LauncherInit
  /\ TokenInit
  /\ menu # "token" => plan = "minted"

LaunchpadNext ==
  \/ menu # "token" /\ LauncherNext /\ UNCHANGED tokenVars
  \/ menu = "token" /\ TokenNext /\ UNCHANGED launcherVars

LaunchpadSpec == LaunchpadInit /\ [][LaunchpadNext]_<<launcherVars, tokenVars>>

-----------------------------------------------------------------------------
(* The contract. *)

MCAccount == {dep, ann, bob, fee}

Plain == [chain |-> "", supply |-> 8, max |-> 0, flags |-> {}, walletPct |-> 0, txPct |-> 0, cooldown |-> 0,
          liq |-> 0, div |-> 0, burn |-> 0, owner |-> NoAddress, recipient |-> ann,
          liqAt |-> NoAddress, divAt |-> NoAddress, accounts |-> <<>>, rates |-> <<>>]

Sig(o, s, n, k) == [owner |-> o, spender |-> s, value |-> n, nonce |-> k, deadline |-> 1]
To(a, b, n)     == [fn |-> "transfer", by |-> a, to |-> b, n |-> n]
From(s, a, b, n) == [fn |-> "transferFrom", by |-> s, from |-> a, to |-> b, n |-> n]
By(fn, a)       == [fn |-> fn, by |-> a]
On(fn, a, b, v) == [fn |-> fn, by |-> a, to |-> b, set |-> v]

\* Rates are in eighths: the cap is a quarter.
MCWizard(m) ==
  CASE m = "taxed"  -> [Plain EXCEPT !.flags = {"liqTax", "burnTax", "walletTax", "maxWallet", "maxTx"},
                          !.liq = 1, !.burn = 1, !.walletPct = 5, !.txPct = 4, !.divAt = fee, !.recipient = NoAddress,
                          !.accounts = <<bob, BadAddress, ann>>, !.rates = <<0>>]
    [] m = "over"   -> [Plain EXCEPT !.flags = {"liqTax", "burnTax"}, !.liq = 1, !.burn = 9]
    [] m = "heavy"  -> [Plain EXCEPT !.flags = {"divTax", "burnTax", "walletTax"}, !.div = 1, !.burn = 1, !.liqAt = fee,
                          !.accounts = <<bob, ann, bob>>, !.rates = <<1, 1, 1>>]
    [] m = "spread" -> [Plain EXCEPT !.flags = {"divTax", "walletTax"}, !.owner = ann, !.recipient = dep,
                          !.accounts = <<bob, fee>>, !.rates = <<1, 1>>]
    [] m = "gated"  -> [Plain EXCEPT !.flags = {"enableTrading", "pausable", "blacklist", "antiBot"}, !.cooldown = 1]
    [] m = "minted" -> [Plain EXCEPT !.flags = {"mintable", "permit"}, !.supply = 3]
    [] m = "capped" -> [Plain EXCEPT !.flags = {"mintable"}, !.supply = 5, !.max = 2]
    [] m = "lost"   -> [Plain EXCEPT !.owner = ann, !.recipient = Zero]
    [] m = "huge"   -> [Plain EXCEPT !.flags = {"mintable", "burnTax"}, !.supply = 32, !.burn = 2]

MCCalls(m) ==
  CASE m \in {"taxed", "heavy", "over", "spread", "capped", "huge"} ->
         {To(dep, ann, 13), To(ann, bob, 8), To(ann, bob, 5), To(bob, fee, 4), To(bob, bob, 4), To(fee, ann, 1),
          On("exclude", dep, ann, FALSE), On("pair", dep, bob, TRUE), On("pair", dep, bob, FALSE),
          [fn |-> "mint", by |-> dep, to |-> bob, n |-> 1]}
    [] m = "gated"  -> {To(ann, bob, 2), To(bob, fee, 1), By("enableTrading", dep),
                        On("pause", dep, dep, TRUE), On("pause", dep, dep, FALSE), On("exclude", dep, bob, TRUE),
                        On("blacklist", dep, bob, TRUE), On("blacklist", dep, bob, FALSE),
                        On("owner", dep, ann, TRUE), On("owner", dep, Zero, TRUE)}
    [] m = "minted" -> {[fn |-> "mint", by |-> b, to |-> bob, n |-> 4] : b \in {dep, ann}}
                       \cup {[fn |-> "permit", sig |-> s] : s \in {Sig(ann, bob, 2, 0), Sig(ann, bob, 2, 1), Sig(ann, bob, 1, 0)}}
                       \cup {From(bob, ann, fee, 2), From(bob, ann, fee, 1),
                             [fn |-> "approve", by |-> ann, to |-> bob, n |-> 3]}

-----------------------------------------------------------------------------
(* The launcher. *)

MCClient  == {cli, web}
MCSlug(s) == CASE s \in {"", "bnb"} -> "bsc" [] s = "ethereum" -> "eth" [] OTHER -> s
MCRegistrySlug(s) == CASE s \in {"", "bnb"} -> "bsc" [] s = "eth" -> "ethereum" [] OTHER -> s
MCOrder   == <<"bsc", "eth">>
MCResult  == [bsc |-> <<dep, 0>>, eth |-> <<dep, 1>>]
MCUsing(m)  == IF m \in {"deploys", "mirrors", "registers"} THEN {cli, web} ELSE {cli}
MCFaulty(m) == m = "faults"
MCKey       == TRUE

Tx(by, k, ch, f) == [by |-> by, nonce |-> k, chain |-> ch, params |-> f]
WalletTx(k, ch)  == Tx("wallet", k, ch, Invalid)
Deploy(ch, m)    == [op |-> "deploy", post |-> TRUE, key |-> TRUE, chain |-> ch, features |-> MCWizard(m)]
Register(ch, t)  == [op |-> "register", post |-> TRUE, key |-> TRUE, chain |-> ch, tx |-> t]
Liquidity(ch, a, b) == [op |-> "liquidity", post |-> TRUE, key |-> TRUE, chain |-> ch, token |-> a, pair |-> b]
Mirror(w, v, r)  == [op |-> "mirror", post |-> w, key |-> TRUE, verify |-> v, reload |-> r]
Fix(w, r)        == [op |-> "fix", post |-> w, key |-> TRUE, reload |-> r]
List(ch, a)      == [op |-> "listing", post |-> FALSE, key |-> FALSE, chain |-> ch, token |-> a]

MCOffered(m) ==
  CASE m = "deploy"    -> {Deploy("", "taxed"), Deploy("bnb", "over"), Deploy("eth", "minted"), Deploy("spl", "taxed"),
                           Deploy("bsc", "lost"),
                           [Deploy("bsc", "minted") EXCEPT !.key = FALSE], List("bsc", <<dep, 0>>)}
    [] m = "deploys"   -> {Deploy("bsc", "taxed"), Deploy("eth", "minted")}
    [] m = "registers" -> {Register("bsc", WalletTx(0, "bsc")), Register("eth", WalletTx(0, "eth")),
                           Register("bsc", WalletTx(0, "eth")), Fix(FALSE, FALSE)}
    [] m = "mirror"    -> {Mirror(TRUE, FALSE, FALSE), Mirror(FALSE, TRUE, TRUE), Mirror(FALSE, TRUE, FALSE), Mirror(FALSE, FALSE, TRUE),
                           Deploy("bsc", "taxed"), Deploy("eth", "taxed"), Fix(TRUE, FALSE)}
    [] m = "mirrors"   -> {Mirror(TRUE, FALSE, FALSE), Mirror(FALSE, FALSE, TRUE), Deploy("bsc", "taxed")}
    [] m = "listings"  -> {List("bsc", <<"wallet", 0>>), List("eth", <<"wallet", 0>>), List("solana", <<"wallet", 0>>),
                           List("nowhere", <<"wallet", 0>>), Liquidity("bnb", <<"wallet", 0>>, NoAddress),
                           Liquidity("eth", <<"wallet", 0>>, <<"pair", 1>>)}
    [] m = "faults"    -> {Deploy("bsc", "taxed"), Mirror(TRUE, FALSE, FALSE), Fix(FALSE, TRUE),
                           List("bsc", <<dep, 0>>), Register("bsc", WalletTx(0, "bsc"))}
    [] OTHER -> {}
=============================================================================
