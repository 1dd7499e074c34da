------------------------------ MODULE Launcher ------------------------------
(***************************************************************************)
(* The token launcher (bsc-launcher/server): it deploys token contracts    *)
(* with its own key or registers those of a wallet, keeps a register of    *)
(* tokens, of liquidity and of listings in files, and follows the mirrored *)
(* coin on every chain.                                                    *)
(*                                                                         *)
(* Each file is read whole and written whole, with no lock from the one to *)
(* the other, and each HTTP request runs in a goroutine of its own.  The   *)
(* chains, their nodes and the wallets are external.  Requests that change *)
(* nothing but an answer are operators over the state.  Which requests the *)
(* clients send is chosen once, as the menu.                               *)
(***************************************************************************)
EXTENDS LaunchParams, FiniteSets, FiniteSetsExt

CONSTANTS
  Client,
  Slug(_),         \* normalizeChainSlug
  RegistrySlug(_), \* normalizeRegistryChain
  Supported, EVM,  \* supportedChains; those with a chain id and a node
  Registry,        \* the chains of dex-registry.json
  MirrorOrder,     \* mirrorChains of flash-coin-mirror.json
  MirrorResult,    \* flash-coin-mirror-result.json: a chain's predicted address
  MirrorSaved,     \* flash-coin-live-addresses.json, at first
  WithMeta,        \* the chains of chains.json, which have a node
  KeyRequired,     \* an API key is configured
  PerMin, Minute,  \* so many requests pass in so many units of time
  LiquiditySeen, HoldersSeen, \* what the price and explorer services may report
  Menu, Offered(_), Using(_), Faulty(_),
  NoTx, NoBook, Torn,
  MaxServed, MaxNow, MaxWallet, MaxCrashes \* bounds

\* The chains start without a contract of the launcher's, so that no address
\* saved before is live.
SavedAssumption ==
  MirrorSaved \notin {NoBook, Torn} =>
    LET deps == MirrorSaved.deps
    IN  /\ MirrorSaved = [canonical |-> MirrorSaved.canonical, deps |-> deps]
        /\ deps = [ch \in DOMAIN deps |->
                     [addr |-> deps[ch].addr, pred |-> deps[ch].pred,
                      status |-> deps[ch].status, verified |-> deps[ch].verified]]
        /\ \A ch \in DOMAIN deps : deps[ch].status # "live"

ASSUME SavedAssumption

\* The limit is a positive number, and the launcher's key is no browser's wallet.
ASSUME LauncherAssumption == PerMin \in Nat \ {0} /\ Deployer # "wallet"

\* What a client may have had recorded as a listing (ListingBridgeRecord), under
\* each menu.
ListingRecord(m) ==
  {[key |-> <<RegistrySlug(o.chain), o.token>>, ready |-> ready,
    coingecko |-> ready, coinmarketcap |-> ready /\ deep] :
     o \in {p \in Offered(m) : p.op = "listing"}, ready \in BOOLEAN, deep \in BOOLEAN}

\* A set of such records is no torn file, and a menu has finitely many clients.
ASSUME MenuAssumption ==
  \A m \in Menu : /\ IsFiniteSet(Using(m))
                  /\ \A listings \in SUBSET ListingRecord(m) : listings # Torn

VARIABLES
  menu,
  file,        \* tokens, liquidity, listings and the live mirror, as last written
  hits,        \* the rate limiter's times for each client
  now,
  sent, mined, failed, \* external: creation transactions, on all chains
  req,         \* the requests being served
  told,        \* history: what clients were told is stored
  served, crashes

external     == <<sent, mined, failed>>
launcherVars == <<menu, file, hits, now, external, req, told, served, crashes>>

Idle == [pc |-> "idle"]

LauncherInit ==
  /\ menu \in Menu
  /\ file = [tokens |-> <<>>, liquidity |-> <<>>, listings |-> {}, live |-> MirrorSaved]
  /\ hits = [c \in Client |-> <<>>] /\ now = 0
  /\ sent = {} /\ mined = {} /\ failed = {}
  /\ req = [c \in Client |-> Idle]
  /\ told = {} /\ served = 0 /\ crashes = 0

Go(c, r)  == req' = [req EXCEPT ![c] = r]
Answer(c) == Go(c, Idle)

-----------------------------------------------------------------------------
(* The chains.  A contract's address follows from its creator and the       *)
(* creator's nonce, so that it may be the same on two chains.               *)

AddressOf(t)    == <<t.by, t.nonce>>
Deployed(ch, a) == \E t \in mined : t.chain = ch /\ AddressOf(t) = a
Sender(ch, by)  == {t \in sent \cup mined \cup failed : t.chain = ch /\ t.by = by}

\* A transaction is mined after those its sender sent before; it fails when the
\* constructor does, or for want of gas.
Mine(t) ==
  /\ t.nonce = Cardinality(Sender(t.chain, t.by) \ sent)
  /\ sent' = sent \ {t}
  /\ \/ /\ Constructible(t.params)
        /\ mined' = mined \cup {t} /\ UNCHANGED failed
     \/ /\ Constructible(t.params) => Faulty(menu)
        /\ failed' = failed \cup {t} /\ UNCHANGED mined
  /\ UNCHANGED <<menu, file, hits, now, req, told, served, crashes>>

\* A wallet in the browser creates a contract without the launcher.
WalletDeploys(ch, ok) ==
  LET t == [by |-> "wallet", nonce |-> Cardinality(Sender(ch, "wallet")), chain |-> ch, params |-> Invalid]
  IN  /\ t.nonce < MaxWallet
      /\ mined'  = IF ok THEN mined \cup {t} ELSE mined
      /\ failed' = IF ok THEN failed ELSE failed \cup {t}
      /\ UNCHANGED <<menu, file, hits, now, sent, req, told, served, crashes>>

-----------------------------------------------------------------------------
(* rateLimiter.Allow. *)

\* The client's times of the last minute, in their order.
Recent(c) ==
  LET kept[i \in 0 .. Len(hits[c])] ==
        IF i = 0 THEN <<>>
        ELSE IF hits[c][i] > now - Minute THEN Append(kept[i - 1], hits[c][i])
        ELSE kept[i - 1]
  IN  kept[Len(hits[c])]

\* Mutant: one request more than the limit passes.
Allow_oneMore(c) == Len(Recent(c)) <= PerMin

Allow(c) == Len(Recent(c)) < PerMin

Hit(c) == hits' = [hits EXCEPT ![c] = IF Allow(c) THEN Append(Recent(c), now) ELSE Recent(c)]

-----------------------------------------------------------------------------
(* Deploying with the launcher's key (handleDeploy, deployContract). *)

\* The first name is never blank once normalised, so that the chain among the
\* features is never looked at.
resolveChainSlug(name, feature) == Slug(name)

Refused(c) == UNCHANGED <<req, file, told>>

handleDeploy(c, o) ==
  LET ch == resolveChainSlug(o.chain, o.features.chain)
      ip == InitParams(o.features)
  IN  /\ o.op = "deploy" /\ Hit(c)
      /\ IF Allow(c) /\ ch \in EVM /\ ip # Invalid
         THEN Go(c, [pc |-> "nonce", chain |-> ch, params |-> ip]) /\ UNCHANGED <<file, told>>
         ELSE Refused(c)

Step(c) == UNCHANGED <<menu, hits, now, served, crashes>>

\* PendingNonceAt.
ReadNonce(c) ==
  /\ req[c].pc = "nonce"
  /\ Go(c, [pc |-> "send", tx |->
       [by |-> Deployer, nonce |-> Cardinality(Sender(req[c].chain, Deployer)),
        chain |-> req[c].chain, params |-> req[c].params]])
  /\ UNCHANGED <<file, told, external>>

\* The node refuses a nonce that was mined and a transaction it has; another
\* one with the nonce of a waiting one is refused or takes its place.
Send(c) ==
  LET t     == req[c].tx
      rival == {u \in Sender(t.chain, t.by) : u.nonce = t.nonce}
  IN  /\ req[c].pc = "send"
      /\ \/ /\ rival \subseteq sent \ {t}
            /\ sent' = (sent \ rival) \cup {t}
            /\ Go(c, [pc |-> "wait", tx |-> t])
         \/ /\ rival # {} \/ Faulty(menu)
            /\ Answer(c) /\ UNCHANGED sent
      /\ UNCHANGED <<file, told, mined, failed>>

Row(t, a, ch, how) == [addr |-> a, chain |-> ch, tx |-> t, method |-> how]
Adding(rec)        == [pc |-> "load", store |-> "tokens", mode |-> "add", rec |-> rec, next |-> "done"]

\* Mutant: a transaction that was sent counts as mined.
Confirmed_sent(t) == t \in mined \cup sent

\* A successful receipt with a contract's address.
Confirmed(t) == t \in mined

waitReceipt(c) ==
  LET t == req[c].tx
  IN  /\ req[c].pc = "wait"
      /\ \/ Confirmed(t) /\ Go(c, Adding(Row(t, AddressOf(t), t.chain, "backend")))
         \/ t \in failed /\ Answer(c)
         \/ (Faulty(menu) \/ t \notin sent \cup mined) /\ Answer(c)  \* three minutes
      /\ UNCHANGED <<file, told, external>>

\* verifyDeployTx: the receipt's address is registered, whatever address the
\* client sent along.
handleRegister(c, o) ==
  /\ o.op = "register" /\ UNCHANGED hits
  /\ IF resolveChainSlug(o.chain, "") = o.tx.chain /\ o.tx.chain \in EVM /\ Confirmed(o.tx)
     THEN Go(c, Adding(Row(o.tx, AddressOf(o.tx), o.tx.chain, "metamask"))) /\ UNCHANGED <<file, told>>
     ELSE Refused(c)

-----------------------------------------------------------------------------
(* The files: TokenStore.Add and Upsert, LiquidityStore.Add,                *)
(* saveListingBridge, saveFlashMirrorLive.                                  *)

Holds(list, a) == \E i \in DOMAIN list : list[i].addr = a

\* A file that does not parse is an error for the registers; the listings are
\* then written anew, and the mirror does not read what it overwrites.
CanStore(r, old) ==
  /\ r.store \in {"tokens", "liquidity"} => old # Torn
  /\ r.mode = "add" => ~Holds(old, r.rec.addr)

\* Mutant: a record is put into a new list.
Stored_anew(r, old) ==
  CASE r.mode \in {"add", "append"} -> <<r.rec>>
    [] r.mode = "upsert" -> Append(SelectSeq(old, LAMBDA x : x.addr # r.rec.addr), r.rec)
    [] r.mode = "key" -> {x \in IF old = Torn THEN {} ELSE old : x.key # r.rec.key} \cup {r.rec}

Stored(r, old) ==
  CASE r.mode \in {"add", "append"} -> Append(old, r.rec)
    [] r.mode = "upsert" -> IF Holds(old, r.rec.addr)
                            THEN [i \in DOMAIN old |-> IF old[i].addr = r.rec.addr THEN r.rec ELSE old[i]]
                            ELSE Append(old, r.rec)
    [] r.mode = "key" -> {x \in IF old = Torn THEN {} ELSE old : x.key # r.rec.key} \cup {r.rec}

LoadStore(c) ==
  LET r == req[c]
  IN  /\ r.pc = "load"
      /\ IF CanStore(r, file[r.store])
         THEN Go(c, [pc |-> "save", store |-> r.store, rec |-> r.rec, next |-> r.next,
                     copy |-> Stored(r, file[r.store])])
         ELSE Answer(c)
      /\ UNCHANGED <<file, told, external>>

SaveStore(c) ==
  LET r == req[c]
  IN  /\ r.pc = "save"
      /\ file' = [file EXCEPT ![r.store] = r.copy]
      /\ told' = IF r.store = "live" THEN told ELSE told \cup {<<r.store, r.rec>>}
      /\ IF r.next = "book" THEN Go(c, [pc |-> "book", verify |-> FALSE, reload |-> TRUE]) ELSE Answer(c)
      /\ UNCHANGED external

\* The pair is the client's, or what the exchange's factory finds, if it does.
handleLiquidityRegister(c, o) ==
  /\ o.op = "liquidity" /\ UNCHANGED <<hits, file, told>>
  /\ \E found \in {NoAddress, <<"pair", o.token>>} :
       Go(c, [pc |-> "load", store |-> "liquidity", mode |-> "append", next |-> "done",
              rec |-> [chain |-> RegistrySlug(o.chain), token |-> o.token,
                       pair |-> IF o.pair = NoAddress THEN found ELSE o.pair]])

-----------------------------------------------------------------------------
(* The mirrored coin. *)

FirstKnown(list) ==
  LET known == {i \in DOMAIN list : list[i] # NoAddress}
  IN  IF known = {} THEN NoAddress ELSE list[Min(known)]

\* mirrorResultToBook.
Predicted(a) == [addr |-> a, pred |-> a, status |-> "predicted", verified |-> FALSE]

\* loadFlashMirrorBook, with enrichFlashDeployments and
\* ensureMirrorContractAddresses: what was saved stands over what was
\* predicted, and blank addresses are filled from the canonical one, which is
\* the first known in the order of the chains.
loadFlashMirrorBook(live) ==
  LET old  == IF live \in {NoBook, Torn} THEN [canonical |-> NoAddress, deps |-> <<>>] ELSE live
      all  == DOMAIN MirrorResult \cup DOMAIN old.deps
      deps == [ch \in all |->
                 IF ch \notin DOMAIN old.deps THEN Predicted(MirrorResult[ch])
                 ELSE LET d == old.deps[ch]
                      IN  [d EXCEPT !.pred = FirstKnown(<<@>> \o (IF ch \in DOMAIN MirrorResult
                                                        THEN <<MirrorResult[ch]>> ELSE <<>>) \o <<d.addr>>)]]
      order == SelectSeq(MirrorOrder, LAMBDA ch : ch \in all)
      canon == FirstKnown(<<old.canonical>>
                 \o [i \in DOMAIN order |-> FirstKnown(<<deps[order[i]].addr, deps[order[i]].pred>>)])
  IN  [canonical |-> canon,
       deps |-> [ch \in all |-> [deps[ch] EXCEPT !.addr = FirstKnown(<<@, canon>>),
                                                 !.pred = FirstKnown(<<@, canon>>)]]]

\* Mutant: the address found live is not noted.
verify_unnoted(book, up) ==
  [book EXCEPT !.deps = [ch \in DOMAIN @ |->
     IF ch \notin up \/ book.canonical = NoAddress THEN @[ch]
     ELSE IF Deployed(ch, book.canonical) THEN [@[ch] EXCEPT !.verified = TRUE, !.status = "live"]
     ELSE [@[ch] EXCEPT !.verified = FALSE]]]

\* verifyFlashMirrorOnChain, where the chains in "up" answer: only the
\* canonical address is looked for.
verifyFlashMirrorOnChain(book, up) ==
  [book EXCEPT !.deps = [ch \in DOMAIN @ |->
     IF ch \notin up \/ book.canonical = NoAddress THEN @[ch]
     ELSE IF Deployed(ch, book.canonical)
     THEN [@[ch] EXCEPT !.verified = TRUE, !.status = "live", !.addr = book.canonical]
     ELSE [@[ch] EXCEPT !.verified = FALSE]]]

\* reloadFlashMirrorPayload: each chain's own address is looked for; no answer
\* counts as no contract, and what is live stays so.
reloadFlashMirrorPayload(book, up) ==
  [book EXCEPT !.deps = [ch \in DOMAIN @ |->
     LET a == FirstKnown(<<@[ch].addr, @[ch].pred, book.canonical>>)
         d == [@[ch] EXCEPT !.addr = a, !.pred = a]
     IN  IF ch \notin WithMeta \/ a = NoAddress THEN d
         ELSE IF ch \in up /\ Deployed(ch, a) THEN [d EXCEPT !.verified = TRUE, !.status = "live"]
         ELSE IF d.status = "predicted" THEN [d EXCEPT !.verified = FALSE]
         ELSE d]]

\* A POST verifies, reloads and saves; a GET does what its query asks for, and
\* only a reload is saved.
handleFlashMirror(c, o) ==
  /\ o.op = "mirror" /\ UNCHANGED <<file, told>>
  /\ IF o.post THEN Hit(c) ELSE UNCHANGED hits
  /\ IF o.post /\ ~Allow(c) THEN UNCHANGED req
     ELSE Go(c, [pc |-> "book", verify |-> o.post \/ o.verify, reload |-> o.post \/ o.reload])

LoadMirror(c) ==
  /\ req[c].pc = "book"
  /\ Go(c, [pc |-> "look", verify |-> req[c].verify, reload |-> req[c].reload,
            book |-> loadFlashMirrorBook(file.live)])
  /\ UNCHANGED <<file, told, external>>

LookUpMirror(c) ==
  LET r   == req[c]
      Ups == IF Faulty(menu) THEN SUBSET WithMeta ELSE {WithMeta}
  IN  /\ r.pc = "look"
      /\ \E up1, up2 \in Ups :
           LET seen == IF r.verify THEN verifyFlashMirrorOnChain(r.book, up1) ELSE r.book
           IN  IF r.reload
               THEN Go(c, [pc |-> "save", store |-> "live", rec |-> NoTx, next |-> "done",
                           copy |-> reloadFlashMirrorPayload(seen, up2)])
               ELSE Answer(c)
      /\ UNCHANGED <<file, told, external>>

\* registerFlashCoinToken, then the mirror's reload: the canonical address is
\* put into the register over whatever is there, on any method.
handleFixPending(c, o) ==
  LET a    == loadFlashMirrorBook(file.live).canonical
      next == IF o.post \/ o.reload THEN "book" ELSE "done"
  IN  /\ o.op = "fix" /\ UNCHANGED <<hits, file, told>>
      /\ IF a # NoAddress
         THEN Go(c, [pc |-> "load", store |-> "tokens", mode |-> "upsert", next |-> next,
                     rec |-> Row(NoTx, a, "bsc", "mirror")])
         ELSE IF next = "book" THEN Go(c, [pc |-> "book", verify |-> FALSE, reload |-> TRUE])
         ELSE UNCHANGED req

\* handleTokens, mergeFlashCoinToken: the mirrored coin is shown even when it
\* is not registered.
handleTokens ==
  LET a == loadFlashMirrorBook(file.live).canonical
  IN  IF a = NoAddress \/ Holds(file.tokens, a) THEN file.tokens
      ELSE Append(file.tokens, Row(NoTx, a, "bsc", "mirror"))

-----------------------------------------------------------------------------
(* Listings. *)

\* scoreReadiness of a token with an explorer.
scoreReadiness(live, liq, holders) ==
  20 + (IF live THEN 25 ELSE 0)
     + (IF liq >= 1000 THEN 35 ELSE IF liq > 0 THEN 15 ELSE 0)
     + (IF holders >= 10 THEN 20 ELSE IF holders > 0 THEN 10 ELSE 0)

Ready(live, liq, holders) == scoreReadiness(live, liq, holders) >= 70 /\ liq > 0 /\ live

\* buildListingBridge and listingProviders: a chain the launcher does not
\* support but the exchange registry does has no node to look at.
Listing(ch, token, liq, holders) ==
  LET ready == Ready(Slug(ch) \in EVM /\ Deployed(Slug(ch), token), liq, holders)
  IN  [key |-> <<ch, token>>, ready |-> ready,
       coingecko |-> ready, coinmarketcap |-> ready /\ liq >= 5000]

handleListingBridge(c, o) ==
  LET ch == RegistrySlug(o.chain)
  IN  /\ o.op = "listing" /\ Hit(c)
      /\ IF Allow(c) /\ (Slug(ch) \in Supported \/ ch \in Registry)
         THEN /\ \E liq \in LiquiditySeen, holders \in HoldersSeen :
                   Go(c, [pc |-> "load", store |-> "listings", mode |-> "key", next |-> "done",
                          rec |-> Listing(ch, o.token, liq, holders)])
              /\ UNCHANGED <<file, told>>
         ELSE Refused(c)

-----------------------------------------------------------------------------

\* withAPIAuth: only requests that are not a GET need the key.
Authorised(o) == KeyRequired /\ o.post => o.key

Receive(c) ==
  /\ req[c] = Idle /\ c \in Using(menu) /\ served < MaxServed
  /\ served' = served + 1
  /\ \E o \in Offered(menu) :
       \/ ~Authorised(o) /\ UNCHANGED <<hits, req, file, told>>
       \/ /\ Authorised(o)
          /\ \/ handleDeploy(c, o)
             \/ handleRegister(c, o)
             \/ handleLiquidityRegister(c, o)
             \/ handleFlashMirror(c, o)
             \/ handleFixPending(c, o)
             \/ handleListingBridge(c, o)
  /\ UNCHANGED <<menu, now, external, crashes>>

Serving(c) ==
  /\ \/ ReadNonce(c)
     \/ Send(c)
     \/ waitReceipt(c)
     \/ LoadStore(c)
     \/ SaveStore(c)
     \/ LoadMirror(c)
     \/ LookUpMirror(c)
  /\ Step(c)

Tick ==
  /\ now < MaxNow /\ now' = now + 1
  /\ UNCHANGED <<menu, file, hits, external, req, told, served, crashes>>

\* A file being written is torn; the limiter forgets.
Crash ==
  /\ Faulty(menu) /\ crashes < MaxCrashes /\ crashes' = crashes + 1
  /\ LET written == {req[c].store : c \in {d \in Client : req[d].pc = "save"}}
     IN  \E torn \in SUBSET written :
           file' = [s \in DOMAIN file |-> IF s \in torn THEN Torn ELSE file[s]]
  /\ req' = [c \in Client |-> Idle]
  /\ hits' = [c \in Client |-> <<>>]
  /\ UNCHANGED <<menu, now, external, told, served>>

LauncherNext ==
  \/ \E c \in Client : Receive(c) \/ Serving(c)
  \/ \E t \in sent : Mine(t)
  \/ \E ch \in EVM, ok \in BOOLEAN : WalletDeploys(ch, ok)
  \/ Tick
  \/ Crash

LauncherSpec == LauncherInit /\ [][LauncherNext]_launcherVars

-----------------------------------------------------------------------------

\* The requests are where their handlers put them, nobody has more requests on
\* the limiter's record than the limit (rateLimiter.Allow keeps those of the
\* last minute and no others), and no account has two mined transactions with
\* one nonce on a chain.
LauncherTypeOK ==
  /\ DOMAIN file = {"tokens", "liquidity", "listings", "live"}
  /\ \A c \in Client : /\ Len(hits[c]) <= PerMin
                       /\ \A i \in DOMAIN hits[c] : hits[c][i] \in 0 .. now
                       /\ req[c].pc \in {"idle", "nonce", "send", "wait", "load", "save", "book", "look"}
  /\ \A t, u \in mined \cup failed : <<t.chain, t.by, t.nonce>> = <<u.chain, u.by, u.nonce>> => t = u

\* However requests interleave, the register names no address twice, and every
\* contract in it that was deployed here or registered by a wallet was created
\* by the transaction named with it, on the chain named with it (Add,
\* deployContract, verifyDeployTx).
RegisteredDeployed ==
  file.tokens # Torn =>
    /\ \A i, j \in DOMAIN file.tokens : file.tokens[i].addr = file.tokens[j].addr => i = j
    /\ \A i \in DOMAIN file.tokens :
         LET t == file.tokens[i]
         IN  t.method # "mirror" => t.tx \in mined /\ t.tx.chain = t.chain /\ AddressOf(t.tx) = t.addr

\* While one client is served at a time and nothing fails, what a client was
\* told is stored stays there: a token under its address, a listing under its
\* chain and token, liquidity as it was recorded.
AnswersStored ==
  Cardinality(Using(menu)) = 1 /\ ~Faulty(menu) =>
    \A x \in told :
      CASE x[1] = "tokens"    -> Holds(handleTokens, x[2].addr)
        [] x[1] = "liquidity" -> \E i \in DOMAIN file.liquidity : file.liquidity[i] = x[2]
        [] x[1] = "listings"  -> \E l \in file.listings : l.key = x[2].key

\* What is saved as live, or as ready for an index, was deployed at that very
\* address on that very chain, although the mirror looks for the canonical
\* address first and each chain's own later, and saves over others' work
\* (verifyFlashMirrorOnChain, reloadFlashMirrorPayload, saveListingBridge).
LiveMeansDeployed ==
  /\ file.live \notin {NoBook, Torn} =>
       \A ch \in DOMAIN file.live.deps :
         file.live.deps[ch].status = "live" => Deployed(ch, file.live.deps[ch].addr)
  /\ file.listings # Torn =>
       \A l \in file.listings : l.ready => Deployed(Slug(l.key[1]), l.key[2])
=============================================================================
