------------------------------ MODULE Ledgers ------------------------------
(***************************************************************************)
(* What the ledger engine reads and what a transfer's destination means    *)
(* (internal/ledger without its book): banks, chains and imported files    *)
(* become entries of one shape, amounts are converted by their prices, and *)
(* a destination becomes an account of the book.                           *)
(*                                                                         *)
(* Amounts are whole numbers of one unit; what the code holds as decimal   *)
(* strings and floats is rounded down to it.  A document is the format it  *)
(* has and its rows, an address the set of shapes its characters fit.      *)
(***************************************************************************)
EXTENDS Integers, Sequences, FiniteSets

CONSTANTS
  Price,        \* unitUSD of every asset, 0 when there is none
  NoAmount,     \* a missing balance
  NoDest        \* a destination that does not parse

\* An Entry of a snapshot; ids are tuples of names.
Entry(id, asset, bal) == [id |-> id, asset |-> asset, bal |-> bal]

-----------------------------------------------------------------------------
(* Banks. *)

\* The configured provider, or the first one that has its credentials.
ResolvedProvider(cfg) ==
  CASE cfg.provider # "auto" -> cfg.provider
    [] cfg.provider = "auto" /\ cfg.plaid -> "plaid"
    [] cfg.provider = "auto" /\ ~cfg.plaid /\ cfg.truelayer -> "truelayer"
    [] cfg.provider = "auto" /\ ~cfg.plaid /\ ~cfg.truelayer /\ cfg.file -> "file"
    [] OTHER -> "api"

\* Plaid: the current balance, else the available one, else the row is left out.
PlaidEntries(rows) ==
  {Entry(<<r.id>>, r.cur, IF r.current # NoAmount THEN r.current ELSE r.available) :
     r \in {x \in rows : {x.current, x.available} # {NoAmount}}}

\* TrueLayer: a row whose own request fails is left out; a current balance of 0
\* is taken for a missing one.
TrueLayerEntries(rows) ==
  {Entry(<<r.id>>, r.cur, IF r.current = 0 /\ r.available # NoAmount THEN r.available
                          ELSE r.current) :
     r \in {x \in rows : x.current # NoAmount}}

\* A bank file or the bank's own interface: rows without a balance are left out.
BankEntries(rows) ==
  {Entry(<<r.id>>, r.cur, r.current) : r \in {x \in rows : x.current # NoAmount}}

\* What the bank is read as; a provider that does not answer gives no entries,
\* and the error is dropped.
ReadBankLedgerWithProvider(cfg, answers) ==
  IF ~answers THEN {}
  ELSE CASE ResolvedProvider(cfg) = "plaid" -> PlaidEntries(cfg.rows)
         [] ResolvedProvider(cfg) = "truelayer" -> TrueLayerEntries(cfg.rows)
         [] OTHER -> BankEntries(cfg.rows)

\* A bank transfer is submitted by a live provider, and pending with any other
\* or when the provider fails: never an error.
InitiateBankTransfer(cfg, answers) ==
  IF ResolvedProvider(cfg) \in {"plaid", "truelayer"} /\ answers
  THEN "bank-submitted" ELSE "bank-pending"

-----------------------------------------------------------------------------
(* Chains and imports. *)

\* Tokens of EVM chains with a node to ask and a balance that is not 0; a token
\* whose contract is not known is read as the chain's native coin.
ReadEVMEntries(tokenList, native, balance) ==
  {Entry(<<"evm", t.id>>, t.symbol, IF t.known THEN balance[t.id] ELSE native[t.chain]) :
     t \in {x \in tokenList : x.evm /\ (IF x.known THEN balance[x.id] ELSE native[x.chain]) > 0}}

\* Formats are tried in this order, and the first with a row is taken.
ParseAnyLedger(doc) ==
  IF doc.format \in {"import", "bank", "map", "rows"} /\ doc.rows # {}
  THEN doc.rows ELSE {}

\* Reading an import again knows one of the formats only.
ParseImportLedger(doc) == IF doc.format = "import" THEN doc.rows ELSE {}

-----------------------------------------------------------------------------
(* Conversion and destinations. *)

\* ConvertAmount: from and to must both have a price.
Convertible(from, to) == Price[from] > 0 /\ Price[to] > 0

ConvertAmount(n, from, to) == (n * Price[from]) \div Price[to]

\* The kind of account that an address on a chain is.
ChainKind(chain) ==
  CASE chain \in {"onex-mainnet-1", "onex-testnet-1"} -> "onex"
    [] chain \in {"solana", "bitcoin", "tron"} -> chain
    [] OTHER -> "evm"

\* An account id: chains of the EVM kind are told apart, OneX nets are not.
externalAccountIDFromDest(kind, chain, addr) ==
  CASE kind = "onex" -> <<"external", "onex", addr>>
    [] kind = "bank" -> <<"external", "bank", chain, addr>>
    [] OTHER         -> <<"external", "chain", chain, addr>>

Dest(kind, chain, addr) ==
  [kind |-> kind, chain |-> chain,
   id |-> externalAccountIDFromDest(kind, chain, addr)]

\* An address must have the shape of its chain; one of OneX may have any.
parseChainExternal(chain, raw) ==
  IF ChainKind(chain) # "onex" /\ ChainKind(chain) \notin raw.shapes THEN NoDest
  ELSE Dest(ChainKind(chain), chain, raw.addr)

\* An account at a bank: the rail is swift when none is named.
parseBankExternal(raw) ==
  IF raw.addr = "" THEN NoDest
  ELSE Dest("bank", IF raw.rail = "" THEN "swift" ELSE raw.rail, raw.addr)

\* A bare address is tried as each chain's in turn, then as an IBAN.
BareKinds == <<"evm", "bitcoin", "tron", "solana">>

ParseExternalDestination(raw) ==
  CASE raw.form = "bank"  -> parseBankExternal(raw)
    [] raw.form = "onex"  -> IF "long" \in raw.shapes THEN Dest("onex", "onex-mainnet-1", raw.addr)
                             ELSE NoDest
    [] raw.form = "chain" -> parseChainExternal(raw.chain, raw)
    [] raw.form = "bare"  ->
         LET fits == {i \in DOMAIN BareKinds : BareKinds[i] \in raw.shapes}
             first == CHOOSE i \in fits : \A j \in fits : i <= j
         IN  IF fits # {}
             THEN parseChainExternal(IF first = 1 THEN "ethereum" ELSE BareKinds[first], raw)
             ELSE IF "iban" \in raw.shapes THEN Dest("bank", "iban", raw.addr) ELSE NoDest
    [] OTHER -> NoDest

\* What does not parse becomes an account all the same, by its prefix.
externalAccountID(raw, asset) ==
  IF raw.form \in {"onex", "bank"} THEN <<"external", raw.form, raw.addr>>
  ELSE IF "hex" \in raw.shapes THEN <<"external", "crypto", raw.addr>>
  ELSE <<"external", "acct", asset, raw.addr>>

ExternalTo(raw, asset) ==
  LET d == ParseExternalDestination(raw)
  IN  [id |-> IF d = NoDest THEN externalAccountID(raw, asset) ELSE d.id, dest |-> d]
=============================================================================
