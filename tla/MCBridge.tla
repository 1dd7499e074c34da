------------------------------ MODULE MCBridge ------------------------------
(***************************************************************************)
(* Instances of LedgerBook for TLC, the whole daemon.  A menu is a         *)
(* scenario: the requests one or two clients send, in which mode, with or  *)
(* without faults.  The menus do not mix, so that a run explores the sum   *)
(* of them and not their product.                                          *)
(***************************************************************************)
EXTENDS LedgerBook

CONSTANTS c1, c2

MCOnexKey == {"onex", "wonex", "sonex"}
MCKey     == MCOnexKey \cup {"lpa", "lpb", "usd", "btc", "gold", "wgold", "wwgold", "tok", "wtok", "tok2"}

MCPairs     == {<<"btc", "onex">>, <<"onex", "usd">>}
MCLpKey     == [q \in MCPairs |-> IF q[1] = "btc" THEN "lpa" ELSE "lpb"]
MCSeedPools == [q \in MCPairs |-> IF q[1] = "btc" THEN NoPool
                                  ELSE [r0 |-> 6, r1 |-> 4, shares |-> 5]]
MCPrefunded == [k \in MCKey |-> CASE k \in {"onex", "wonex", "usd", "btc", "gold"} -> 5
                                  [] OTHER -> 0]
MCOnChain   == [k \in MCKey |-> IF k = "usd" THEN 2 ELSE 0]

\* Two pools with one receipt, as onex-stake and wonex-stake have.
Open     == [stake |-> "gold", receipt |-> "sonex", min |-> 1, lock |-> 0, apy |-> 1]
Locked   == [stake |-> "wonex", receipt |-> "sonex", min |-> 2, lock |-> 1, apy |-> 1]
MCStakePools == {Open, Locked}

MCRate   == [x \in MCKey \X MCKey |-> CASE x = <<"gold", "usd">> -> 3
                                        [] x = <<"usd", "onex">> -> 2
                                        [] OTHER -> 0]
MCReward == [t \in {"welcome", "first-swap", "mint-nft", "deposit", "first-stake", "create-token"} |->
              [key |-> CASE t = "first-stake" -> "gold" [] t = "first-swap" -> "wonex"
                         [] OTHER -> "onex",
               amt |-> 1]]
MCWrappedKey == [k \in {"gold", "wgold", "tok"} |-> CASE k = "gold" -> "wgold" [] k = "wgold" -> "wwgold"
                                                     [] OTHER -> "wtok"]

Swp(a, b, n)      == [op |-> "amm", from |-> a, to |-> b, amt |-> n]
Add(a, b, n, m)   == [op |-> "add", t0 |-> a, t1 |-> b, a0 |-> n, a1 |-> m]
Remove(a, b, n)   == [op |-> "remove", pool |-> <<a, b>>, shares |-> n]
Unst(i)           == [op |-> "unstake", id |-> i]
Stk(p, n)         == [op |-> "stake", pool |-> p, amt |-> n]
Dep(k, n)         == [op |-> "deposit", key |-> k, amt |-> n]
Old(a, b, n)      == [op |-> "swap", from |-> a, to |-> b, amt |-> n]
Loan(t, k, n, d, m) == [op |-> "loan", type |-> t, colKey |-> k, col |-> n, debtKey |-> d, debt |-> m]
Rep(i)            == [op |-> "repay", id |-> i]
Snd(k, n)         == [op |-> "send", key |-> k, amt |-> n]
Route(a, b, n)    == [op |-> "bridge", from |-> a, to |-> b, amt |-> n]
Dpl(k, n)         == [op |-> "deploy", key |-> k, supply |-> n]
Wrp(k, n)         == [op |-> "wrap", key |-> k, amt |-> n]
Tsk(t)            == [op |-> "task", id |-> t]
Mint              == [op |-> "mint"]
Give(i)           == [op |-> "give", id |-> i, to |-> "other"]
Rd                == [op |-> "read"]

\* The book: a Plaid bank with a row that has only an available balance and one
\* that has none, one EVM token that is known and one that is not.
MCBankConfig ==
  [provider |-> "auto", plaid |-> TRUE, truelayer |-> FALSE, file |-> TRUE,
   rows |-> {[id |-> "b1", cur |-> "USD", current |-> 4, available |-> 3],
             [id |-> "b2", cur |-> "EUR", current |-> NoAmount, available |-> 2],
             [id |-> "b3", cur |-> "EUR", current |-> NoAmount, available |-> NoAmount]}]
MCTokenList == {[id |-> "usdt", symbol |-> "USD", chain |-> "bsc", evm |-> TRUE, known |-> TRUE],
                [id |-> "cake", symbol |-> "NEW", chain |-> "bsc", evm |-> TRUE, known |-> FALSE],
                [id |-> "xlm", symbol |-> "NEW", chain |-> "stellar", evm |-> FALSE, known |-> FALSE]}
MCNativeBalance == [ch \in {"bsc", "stellar"} |-> 0]
MCTokenBalance  == [t \in {"usdt", "cake", "xlm"} |-> 1]
MCPrice    == [a \in {"ONEX", "USD", "EUR", "BTC", "NEW"} |->
                CASE a = "BTC" -> 4 [] a \in {"USD", "EUR"} -> 2 [] a = "ONEX" -> 1 [] OTHER -> 0]
MCKeyAsset == [k \in MCKey |-> CASE k = "onex" -> "ONEX" [] k = "usd" -> "USD"
                                 [] k = "btc" -> "BTC" [] OTHER -> "NEW"]
MCImport   == {[format |-> "import", rows |-> {Entry(<<"import", "0">>, "BTC", 1)}],
               [format |-> "map", rows |-> {Entry(<<"map", "USD">>, "USD", 3)}]}

Raw(form, chain, addr, shapes) ==
  [form |-> form, chain |-> chain, rail |-> "", addr |-> addr, shapes |-> shapes]

Xfer(a, b, n, conv, x) == [op |-> "transfer", from |-> a, to |-> b, ext |-> x, amt |-> n,
                           conv |-> conv, preview |-> FALSE]
Conv(n, a, b) == [op |-> "convert", active |-> TRUE, from |-> NoRef, fromAsset |-> a,
                  toAsset |-> b, amt |-> n]
Out(n, x)     == Xfer(<<"b1">>, NoRef, n, "ONEX", x)
ToOnex        == Raw("onex", "", "friend", {"long"})
ToBank        == Raw("bank", "", "IBAN1", {"iban"})
ToNowhere     == Raw("chain", "solana", "0xab", {"hex", "evm"})
Books         == [op |-> "accounts"]
Docs          == {[op |-> "import", doc |-> d] : d \in Import}

MCOffered(m) ==
  CASE m = "stakes"   -> {Stk(Open, 2), Stk(Locked, 2), Unst(1), Unst(2)}
    [] m = "loans"    -> {Loan("borrow", "gold", 2, "usd", 3), Loan("lend", "usd", 3, "btc", 1),
                          Loan("borrow", "gold", 1, "usd", BadAmount), Rep(1), Rep(2), Snd("usd", 2)}
    [] m = "gifts"    -> {Mint, Give(1), Tsk("welcome"), Dep("wonex", 2), Dep("usd", 2),
                          Old("gold", "usd", 2), Rd, Snd("onex", 2)}
    [] m \in {"pool", "poolrace"} ->
         {Swp("onex", "usd", 2), Swp("btc", "onex", 5), Swp("usd", "onex", 3), Add("onex", "usd", 2, 2),
          Add("btc", "onex", 4, 1), Remove("onex", "usd", 2), Remove("btc", "onex", 2)}
    [] m = "route"    -> {Route("btc", "usd", 2), Route("usd", "onex", 2), Route("usd", "btc", 1),
                          Add("btc", "onex", 4, 2), Old("onex", "usd", 1)}
    [] m = "platform" -> {Dpl("tok", 3), Wrp("tok", 1), Wrp("gold", 2), Wrp("wgold", 1), Dpl("gold", 2), Rd}
    [] m = "real"     -> {Dep("usd", 2), Old("gold", "usd", 1), Swp("usd", "onex", 2),
                          Dpl("gold", 3), Rd}
    [] m = "race"     -> {Stk(Open, 3), Dep("wonex", 1), Unst(1), Old("gold", "usd", 2),
                          Loan("borrow", "gold", 2, "usd", 3)}
    [] m = "faults"   -> {Stk(Open, 3), Unst(1), Dep("wonex", 1), Old("gold", "usd", 2), Tsk("welcome")}
    [] m = "torn"     -> {Wrp("gold", 1), Wrp("tok", 1), Dpl("tok", 2), Swp("onex", "usd", 2),
                          Remove("onex", "usd", 2), Rd}
    [] m = "book"     -> {Xfer(<<"b1">>, <<"b2">>, 2, "EUR", NoRef), Xfer(<<"b1">>, <<"b1">>, 1, NoRef, NoRef),
                          Conv(2, "USD", "BTC"), Out(1, ToOnex), Out(1, ToBank), Out(1, ToNowhere)}
    [] m = "bookreads" -> {Books, [op |-> "peek"], Conv(3, "NEW", "USD"), Conv(1, "BTC", "USD"),
                          [Out(1, ToBank) EXCEPT !.preview = TRUE],
                          Xfer(<<"b1">>, NoRef, 1, NoRef, Raw("bare", "", "addr", {"solana", "tron"}))}
                         \cup Docs
    [] m \in {"bookrace", "booktorn"} ->
         {Books, Xfer(<<"b1">>, <<"b2">>, 3, "EUR", NoRef), Out(2, ToOnex)}

MCUsing(m)      == IF m \in {"race", "poolrace", "bookrace"} THEN {c1, c2} ELSE {c1}
MCProduction(m) == m \in {"real", "bookrace", "booktorn", "book"}
MCFaulty(m)     == m \in {"faults", "torn", "booktorn"}
=============================================================================
