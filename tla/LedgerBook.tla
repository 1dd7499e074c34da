----------------------------- MODULE LedgerBook -----------------------------
(***************************************************************************)
(* The daemon with its ledger book (internal/ledger/book.go, bridge's      *)
(* ledger.go, ledger_book.go and ledger_handlers.go).                      *)
(*                                                                         *)
(* Every request first reads all the ledgers there are into a snapshot and *)
(* enters it into the book.  A transfer then copies the account it debits, *)
(* checks the copy, and later, under the lock, writes the copy back: in    *)
(* between another request may have changed the account.  An external      *)
(* transfer is settled outside the lock, through the node for ONEX, and    *)
(* its record is put in the first place of the list, whichever record is   *)
(* there by then.                                                          *)
(***************************************************************************)
EXTENDS Bridge, Ledgers

CONSTANTS
  BankConfig,   \* LoadBankProviderConfig, with the rows the bank answers
  TokenList, NativeBalance, TokenBalance, \* what the EVM chains answer
  KeyAsset,     \* the symbol of a balance key
  Import,       \* the documents clients may import
  Fee,          \* of an ONEX payment
  NoRef,        \* a part of a request that is left out
  NoBook,       \* no ledger-book.json
  MaxTransfers  \* 500, the records kept

VARIABLES
  book,    \* BookStore.data: accounts by id, and records, newest first
  bfile,   \* ledger-book.json
  imports  \* the import files, the one whose random name is greatest first

bookVars == <<book, bfile, imports>>

EmptyBook == [accts |-> <<>>, xfers |-> <<>>]

BookInit == book = EmptyBook /\ bfile = NoBook /\ imports = <<>>

-----------------------------------------------------------------------------
(* HTTP handlers. *)

handleLedgerRead     == [op : {"peek"}]
\* The accounts, the transfers and the whole snapshot: each syncs the book.
handleLedgerAccounts == [op : {"accounts"}]
handleLedgerImport   == [op : {"import"}, doc : Import]
handleLedgerConvert(Account, Asset) ==
  [op : {"convert"}, active : BOOLEAN, from : Account \cup {NoRef}, fromAsset : Asset,
   toAsset : Asset, amt : Amounts]
handleLedgerTransfer(Account, Asset, Raw) ==
  [op : {"transfer"}, from : Account, to : Account \cup {NoRef}, ext : Raw \cup {NoRef},
   amt : Amounts \ {0}, conv : Asset \cup {NoRef}, preview : BOOLEAN]

BookOps == {"peek", "accounts", "import", "convert", "transfer"}

\* Clients send nothing but what the handlers of the daemon let through.
ASSUME OfferedAssumption ==
  \A m \in Menu : \A r \in Offered(m) :
    \/ r \in PortfolioRequest
    \/ r \in handleLedgerRead \cup handleLedgerAccounts \cup handleLedgerImport
    \/ r.op = "convert"  /\ r \in handleLedgerConvert({r.from}, DOMAIN Price)
    \/ r.op = "transfer" /\ r \in handleLedgerTransfer({r.from, r.to}, DOMAIN Price, {r.ext})

\* Every asset that occurs has its price, 0 when none is known, and what the
\* banks, the chains and the imports answer are amounts.
ASSUME BookAssumption ==
  /\ Price \in [DOMAIN Price -> Nat] /\ KeyAsset \in [Key -> DOMAIN Price]
  /\ \A r \in BankConfig.rows : r.cur \in DOMAIN Price /\ {r.current, r.available} \subseteq Nat \cup {NoAmount}
  /\ \A t \in TokenList : t.evm => t.symbol \in DOMAIN Price
       /\ (IF t.known THEN TokenBalance[t.id] ELSE NativeBalance[t.chain]) \in Nat
  /\ \A d \in Import : \A e \in d.rows : e.asset \in DOMAIN Price /\ e.bal \in Nat
  /\ Fee \in Nat /\ MaxTransfers \in Nat

\* What a bank answers, the tokens looked up and a document's rows are lists.
ASSUME ListAssumption ==
  /\ IsFiniteSet(BankConfig.rows) /\ IsFiniteSet(TokenList)
  /\ \A d \in Import : IsFiniteSet(d.rows)

-----------------------------------------------------------------------------
(* Reading. *)

\* Engine.Read: the bank, the node, the EVM chains, the portfolio (not in
\* production) and the latest import; a source that fails is left out.
Snapshot(p, up, bankUp, list) ==
  ReadBankLedgerWithProvider(BankConfig, bankUp)
  \cup (IF up /\ nodeBal > 0 THEN {Entry(<<"onex-native">>, KeyAsset[ONEX], nodeBal)} ELSE {})
  \cup ReadEVMEntries(TokenList, NativeBalance, TokenBalance)
  \cup (IF Production(menu) THEN {}
        ELSE {Entry(<<"portfolio", k>>, KeyAsset[k], p.bal[k]) : k \in {x \in Key : p.bal[x] > 0}})
  \cup (IF list = <<>> THEN {} ELSE ParseImportLedger(Head(list)))

\* SaveLedgerImport: the new file's name, a hash of the time, may sort anywhere
\* among the others, and LoadLatestImport takes the name that sorts last.
Imported(list, doc) ==
  {SubSeq(list, 1, i) \o <<doc>> \o SubSeq(list, i + 1, Len(list)) : i \in 0 .. Len(list)}

\* ReadRealLedger, whose GetPortfolio saves the portfolio it synced.
BookRequest(c) ==
  /\ client[c] = Idle /\ c \in Using(menu) /\ served < MaxServed
  /\ \E r \in Offered(menu), up, bankUp \in IF Faulty(menu) THEN BOOLEAN ELSE {TRUE} :
       /\ r.op \in BookOps
       /\ r.op = "convert" => r.active \/ r.from # NoRef
       /\ r.op = "import" => ParseAnyLedger(r.doc) # {}
       /\ imports' \in IF r.op = "import" THEN Imported(imports, r.doc) ELSE {imports}
       /\ LET p == Synced(IF CanLoad THEN Load ELSE DefaultPortfolio, up)
          IN  /\ IF CanLoad THEN /\ cache' = p /\ holder' = Nobody
                                 /\ file' \in IF Faulty(menu) THEN {file, p} ELSE {p}
                 ELSE UNCHANGED <<cache, holder, file>>
              /\ client' = [client EXCEPT ![c] =
                   IF r.op = "peek" THEN Idle
                   ELSE [pc |-> "snapshot", req |-> r,
                         snap |-> Snapshot(p, up, bankUp, imports')]]
  /\ served' = served + 1
  /\ UNCHANGED <<book, bfile, pools, platform, nodeBal, day, menu, crashes>>

\* load: the file is read again as long as no account is in memory.
CanOpen == DOMAIN book.accts # {} \/ bfile # Unreadable
Opened  == IF DOMAIN book.accts # {} THEN book ELSE IF bfile = NoBook THEN EmptyBook ELSE bfile

BookFrozen == UNCHANGED <<imports, cache, holder, file, pools, platform, day, bounds>>

\* Mutant: what was changed stays in memory.
SaveBook_later(c, b, next) ==
  /\ book' = b /\ UNCHANGED bfile
  /\ client' = [client EXCEPT ![c] = next]

\* A write of the book, which may fail, after which c goes on as "next".
SaveBook(c, b, next) ==
  /\ book' = b
  /\ \/ bfile' = b /\ client' = [client EXCEPT ![c] = next]
     \/ Faulty(menu) /\ bfile' = bfile /\ client' = [client EXCEPT ![c] = Idle]

EndRequest(c) == client' = [client EXCEPT ![c] = Idle] /\ UNCHANGED <<book, bfile>>

\* An account takes what the snapshot says unless the book has more.
Synchronised(accts, snap) ==
  [id \in DOMAIN accts \cup {e.id : e \in snap} |->
     LET es == {e \in snap : e.id = id}
         e  == CHOOSE x \in es : TRUE
     IN  IF es = {} \/ (id \in DOMAIN accts /\ accts[id].bal > e.bal) THEN accts[id]
         ELSE [asset |-> e.asset, bal |-> e.bal]]

SyncFromSnapshot(c) ==
  LET r == client[c].req
  IN  /\ client[c].pc = "snapshot"
      /\ \/ /\ CanOpen
            /\ SaveBook(c, [Opened EXCEPT !.accts = Synchronised(@, client[c].snap)],
                        IF r.op \in {"convert", "transfer"} THEN [pc |-> "synced", req |-> r]
                        ELSE Idle)
         \/ ~CanOpen /\ EndRequest(c)
      /\ BookFrozen /\ UNCHANGED nodeBal

-----------------------------------------------------------------------------
(* Transferring. *)

\* pickAccount: one with the largest balance of the asset.
Picked(asset) ==
  LET with == {id \in DOMAIN book.accts : book.accts[id].asset = asset /\ book.accts[id].bal > 0}
  IN  {id \in with : \A o \in with : book.accts[o].bal <= book.accts[id].bal}

\* ConvertActive: a transfer into the book's vault of the other asset.
ConvertActive(r) ==
  IF r.fromAsset = r.toAsset \/ ~Convertible(r.fromAsset, r.toAsset) THEN {}
  ELSE {[op |-> "transfer", from |-> id, to |-> <<"book", r.toAsset>>, ext |-> NoRef,
         amt |-> r.amt, conv |-> r.toAsset, preview |-> FALSE] :
          id \in IF r.from # NoRef THEN {r.from} ELSE Picked(r.fromAsset)}

\* What Transfer finds the request r to be, on the account it copies: the asset
\* and amount that arrive, and where.
Worked(r, from) ==
  LET changed == r.conv # NoRef /\ r.conv # from.asset
      asset   == IF changed THEN r.conv ELSE from.asset
      ext     == IF r.to = NoRef /\ r.ext # NoRef THEN ExternalTo(r.ext, asset)
                 ELSE [id |-> r.to, dest |-> NoDest]
  IN  [from |-> r.from, bal |-> from.bal, asset |-> from.asset, amt |-> r.amt,
       out |-> IF changed THEN ConvertAmount(r.amt, from.asset, asset) ELSE r.amt,
       outAsset |-> asset, to |-> ext.id, dest |-> ext.dest, external |-> r.ext # NoRef,
       open |-> ~changed \/ Convertible(from.asset, asset)]

\* The transfers that the request r asks for and that pass every check.
Passing(r) ==
  {w \in {Worked(x, book.accts[x.from]) :
            x \in {y \in IF r.op = "convert" THEN ConvertActive(r) ELSE {r} :
                     y.from \in DOMAIN book.accts /\ ~y.preview}} :
     w.amt > 0 /\ w.bal >= w.amt /\ w.open /\ w.to # NoRef}

\* Transfer up to its lock: the account is copied and the copy checked; a
\* preview, or a request that is refused, ends here and changes nothing.
Transfer(c) ==
  /\ client[c].pc = "synced"
  /\ \/ \E w \in Passing(client[c].req) :
          client' = [client EXCEPT ![c] = [pc |-> "copied", work |-> w]]
     \/ Passing(client[c].req) = {} /\ client' = [client EXCEPT ![c] = Idle]
  /\ UNCHANGED <<book, bfile, nodeBal>> /\ BookFrozen

With(accts, id, a) == [x \in DOMAIN accts \cup {id} |-> IF x = id THEN a ELSE accts[x]]

\* Mutant: the account that is credited is read before the other is written.
Moved_readFirst(accts, w) ==
  LET to == IF w.to \in DOMAIN accts THEN accts[w.to].bal ELSE 0
  IN  With(With(accts, w.from, [asset |-> w.asset, bal |-> w.bal - w.amt]),
           w.to, [asset |-> w.outAsset, bal |-> to + w.out])

\* The copy less the amount is written back; the other account, new or not, is
\* read after that and gets the asset that arrives.
Moved(accts, w) ==
  LET debited == With(accts, w.from, [asset |-> w.asset, bal |-> w.bal - w.amt])
      to == IF w.to \in DOMAIN debited THEN debited[w.to].bal ELSE 0
  IN  With(debited, w.to, [asset |-> w.outAsset, bal |-> to + w.out])

Record(w) == [from |-> w.from, to |-> w.to, out |-> w.out,
              status |-> IF w.external THEN "pending" ELSE "completed"]

\* Mutant: one record too many stays.
Kept_oneMore(list) ==
  SubSeq(list, 1, IF Len(list) > MaxTransfers + 1 THEN MaxTransfers + 1 ELSE Len(list))

Kept(list) == SubSeq(list, 1, IF Len(list) > MaxTransfers THEN MaxTransfers ELSE Len(list))

ApplyTransfer(c) ==
  LET w == client[c].work
  IN  /\ client[c].pc = "copied"
      /\ SaveBook(c, [accts |-> Moved(book.accts, w),
                      xfers |-> Kept(<<Record(w)>> \o book.xfers)],
                  IF w.external THEN [pc |-> "settle", work |-> w] ELSE Idle)
      /\ BookFrozen /\ UNCHANGED nodeBal

\* How settleLedgerExternal ends, as the status of the record: ONEX is paid by
\* the node's wallet (Send), the other chains wait, a bank is asked; a reference,
\* even to a transfer that is pending at the bank, counts as submitted.
SettledStatus(w) ==
  CASE w.dest = NoDest -> {"pending"}
    [] w.dest # NoDest /\ w.dest.kind = "onex" ->
         IF nodeBal >= w.out + Fee THEN {"on_chain"} ELSE {}
    [] w.dest # NoDest /\ w.dest.kind = "bank" ->
         {IF ref \in {"", "pending-settlement"} THEN "pending" ELSE "submitted" :
            ref \in {InitiateBankTransfer(BankConfig, up) : up \in BOOLEAN}}
    [] OTHER -> {"submitted"}

\* Mutant: the record is looked for in the last place.
Resolved_last(list, rec) == IF list = <<>> THEN list ELSE [list EXCEPT ![Len(list)] = rec]

Resolved(list, rec) == IF list = <<>> THEN list ELSE [list EXCEPT ![1] = rec]

\* The transfer is settled, its record put first and the book saved.
Settle(c) ==
  LET w == client[c].work
  IN  /\ client[c].pc = "settle"
      /\ \E s \in SettledStatus(w) :
           /\ SaveBook(c, [book EXCEPT !.xfers = Resolved(@, [Record(w) EXCEPT !.status = s])], Idle)
           /\ nodeBal' \in IF s = "on_chain" THEN {nodeBal, nodeBal - w.out - Fee} ELSE {nodeBal}
      /\ BookFrozen

\* Nothing is undone when the node does not take the payment: the debit stays
\* and its record is left pending.
SettleFails(c) ==
  /\ client[c].pc = "settle"
  /\ SettledStatus(client[c].work) = {}
       \/ (Faulty(menu) /\ client[c].work.dest # NoDest /\ client[c].work.dest.kind = "onex")
  /\ EndRequest(c) /\ BookFrozen /\ UNCHANGED nodeBal

-----------------------------------------------------------------------------
(* The daemon: its DeFi requests and its book. *)

BookStep(c) == \/ BookRequest(c) \/ SyncFromSnapshot(c) \/ Transfer(c)
               \/ ApplyTransfer(c) \/ Settle(c) \/ SettleFails(c)

\* The book in memory is lost; its file may be torn while it is written.
DaemonCrash ==
  /\ Crash /\ book' = EmptyBook /\ imports' = imports
  /\ bfile' \in {bfile} \cup (IF \E c \in Client : client[c].pc \in {"snapshot", "copied", "settle"}
                              THEN {Unreadable} ELSE {})

DaemonNext ==
  \/ \E c \in Client : Serve(c) /\ UNCHANGED bookVars
  \/ \E c \in Client : BookStep(c)
  \/ Tick /\ UNCHANGED bookVars
  \/ DaemonCrash

DaemonInit == Init /\ BookInit

DaemonSpec == DaemonInit /\ [][DaemonNext]_<<vars, bookVars>>

-----------------------------------------------------------------------------
(* Properties. *)

Status == {"completed", "pending", "on_chain", "submitted"}

\* Accounts and records have their types: no order of transfers, on whichever
\* copies, leaves a negative balance.
BookTypeOK ==
  /\ book = EmptyBook \/ \A id \in DOMAIN book.accts : book.accts[id].bal \in Nat
  /\ Len(book.xfers) <= MaxTransfers
  /\ \A i \in DOMAIN book.xfers : book.xfers[i].status \in Status /\ book.xfers[i].out \in Nat
  /\ bfile \in {NoBook, Unreadable} \/ Len(bfile.xfers) <= MaxTransfers

Worth(accts) == Total([id \in DOMAIN accts |-> Price[accts[id].asset] * accts[id].bal])

\* An account that gets another asset than it had is relabelled, balance and
\* all: the code does not look at it.
Relabels(w) ==
  \/ w.to = w.from /\ w.outAsset # w.asset
  \/ w.to \in DOMAIN book.accts /\ book.accts[w.to].asset # w.outAsset

\* With one request at a time a transfer makes no value, to itself, with or
\* without a conversion: the accounts are worth at most what they were
\* (Transfer, ConvertAmount).  Overlapping transfers do make some, as the copy
\* that is written back undoes the other's debit.
TransferConserves ==
  [][\A c \in Client :
       Serial /\ client[c].pc = "copied" /\ book' # book /\ ~Relabels(client[c].work) =>
         Worth(book'.accts) <= Worth(book.accts)]_<<vars, bookVars>>

\* ONEX does not leave the node's wallet without a record that says so: what it
\* lost is at most what the records in state "on_chain" paid out, although each
\* is found again by its place only (Transfer, settleLedgerExternal).
OnChainRecorded ==
  Serial /\ Quiet /\ Len(book.xfers) < MaxTransfers /\ (\A r \in Offered(menu) : r.op # "send") =>
    NodeBalance - nodeBal <=
      Sum(book.xfers, LAMBDA x : IF x.status = "on_chain" THEN x.out + Fee ELSE 0)

\* However requests overlap, once none is running the file holds the book: every
\* change is followed by a save, so that a restart loses nothing then.
BookSaved ==
  Quiet /\ ~Faulty(menu) /\ book # EmptyBook => bfile = book

\* What book.go:120 says of an account from which something was transferred out,
\* so that the book has less of it than the ledger: "keep lower book balance if
\* user transferred out since last sync".  The bank's own balances do not change
\* here.
LoweredStays ==
  [][\A c \in Client : client[c].pc = "snapshot" =>
       \A id \in DOMAIN book.accts \cap {<<r.id>> : r \in BankConfig.rows} :
         id \in DOMAIN book'.accts => book'.accts[id].bal <= book.accts[id].bal]_<<vars, bookVars>>
=============================================================================
