--------------------------- MODULE LauncherProofs ---------------------------
(***************************************************************************)
(* Whatever clients ask for at once and wherever the launcher stops, its   *)
(* register names no address twice and no contract that was not created,   *)
(* and nothing is noted as live that was not deployed.  The limiter keeps  *)
(* to its limit, and what a client that is alone was told is stored stays. *)
(***************************************************************************)
EXTENDS Launcher, SumProofs, TLAPS

\* A row that does not come from the mirror names the transaction that created
\* its contract.
Vouched(x) ==
  x.method # "mirror" => x.tx \in mined /\ x.tx.chain = x.chain /\ AddressOf(x.tx) = x.addr

SoundRegister(l) ==
  /\ \E S : l \in Seq(S)
  /\ \A i, j \in DOMAIN l : l[i].addr = l[j].addr => i = j
  /\ \A i \in DOMAIN l : Vouched(l[i])

\* What a request holds of the register between its steps.
SoundRequest(r) ==
  /\ r.pc = "load" /\ r.store = "tokens" => r.mode \in {"add", "upsert"} /\ Vouched(r.rec)
  /\ r.pc = "save" /\ r.store = "tokens" => SoundRegister(r.copy)

Stores == {"tokens", "liquidity", "listings", "live"}

\* RegisteredDeployed alone is not inductive: rows wait in the requests, and a
\* whole register waits in each that is about to write it.
RegisterInv ==
  /\ file = [s \in Stores |-> file[s]]
  /\ file.tokens # Torn => SoundRegister(file.tokens)
  /\ req = [c \in Client |-> req[c]]
  /\ \A c \in Client : SoundRequest(req[c])

LEMMA RegisterInvInit == LauncherInit => RegisterInv
<1> SUFFICES ASSUME LauncherInit PROVE RegisterInv
  OBVIOUS
<1>1. file.tokens = <<>> /\ file = [s \in Stores |-> file[s]]
  BY DEF LauncherInit, Stores
<1>2. <<>> \in Seq({}) /\ DOMAIN <<>> = {}
  OBVIOUS
<1>3. SoundRegister(file.tokens)
  BY <1>1, <1>2 DEF SoundRegister
<1>4. req = [c \in Client |-> Idle] /\ Idle.pc = "idle"
  BY DEF LauncherInit, Idle
<1> QED
  BY <1>1, <1>3, <1>4 DEF RegisterInv, SoundRequest

\* More mined transactions take nothing from what is known of the others.
LEMMA MoreMined ==
  ASSUME RegisterInv, mined \subseteq mined', UNCHANGED <<file, req>>
  PROVE  RegisterInv'
<1>1. \A x : Vouched(x) => (x.method # "mirror" => x.tx \in mined' /\ x.tx.chain = x.chain /\ AddressOf(x.tx) = x.addr)
  BY DEF Vouched
<1>2. SoundRegister(file.tokens) => SoundRegister(file.tokens)'
  BY <1>1 DEF SoundRegister, Vouched, AddressOf
<1>3. ASSUME NEW c \in Client, SoundRequest(req[c])
      PROVE  SoundRequest(req[c])'
  BY <1>1, <1>3 DEF SoundRequest, SoundRegister, Vouched, AddressOf
<1> QED
  BY <1>2, <1>3 DEF RegisterInv

\* A step of one request that writes no file.
LEMMA OneRequestStep ==
  ASSUME RegisterInv, NEW c \in Client,
         req' = [d \in Client |-> IF d = c THEN req'[c] ELSE req[d]],
         SoundRequest(req[c])',
         UNCHANGED <<file, mined>>
  PROVE  RegisterInv'
<1>1. \A x : Vouched(x) <=> (x.method # "mirror" => x.tx \in mined' /\ x.tx.chain = x.chain /\ AddressOf(x.tx) = x.addr)
  BY DEF Vouched
<1>2. SoundRegister(file.tokens) => SoundRegister(file.tokens)'
  BY <1>1 DEF SoundRegister, Vouched, AddressOf
<1>3. ASSUME NEW d \in Client, d # c
      PROVE  SoundRequest(req[d])'
  <2>1. req'[d] = req[d] /\ SoundRequest(req[d])
    BY <1>3 DEF RegisterInv
  <2> QED
    BY <1>1, <2>1 DEF SoundRequest, SoundRegister, Vouched, AddressOf
<1>4. req' = [d \in Client |-> req'[d]]
  OBVIOUS
<1>5. file' = [s \in Stores |-> file'[s]]
  BY DEF RegisterInv
<1> QED
  BY <1>2, <1>3, <1>4, <1>5 DEF RegisterInv

\* A request that is answered, or holds nothing of the register, is sound.
LEMMA SoundElsewhere ==
  ASSUME NEW c \in Client, req'[c].pc \notin {"load", "save"} \/ req'[c].store # "tokens"
  PROVE  SoundRequest(req[c])'
BY DEF SoundRequest

\* What a client asks for reaches the register only through a request.
LEMMA ReceiveStep ==
  ASSUME RegisterInv, NEW c \in Client, Receive(c)
  PROVE  RegisterInv'
<1>1. mined' = mined
  BY DEF Receive, external
<1>2. CASE UNCHANGED <<req, file>>
  BY <1>1, <1>2, MoreMined
<1>3. ASSUME NEW o, handleDeploy(c, o), ~UNCHANGED <<req, file>>
      PROVE  RegisterInv'
  <2>1. /\ req' = [d \in Client |-> IF d = c THEN req'[c] ELSE req[d]]
        /\ req'[c].pc = "nonce" /\ file' = file
    BY <1>3 DEF handleDeploy, Go, Refused, RegisterInv
  <2> QED
    BY <1>1, <2>1, SoundElsewhere, OneRequestStep
<1>4. ASSUME NEW o, handleRegister(c, o), ~UNCHANGED <<req, file>>
      PROVE  RegisterInv'
  <2>1. /\ req' = [d \in Client |-> IF d = c THEN req'[c] ELSE req[d]]
        /\ req'[c] = Adding(Row(o.tx, AddressOf(o.tx), o.tx.chain, "metamask"))
        /\ file' = file /\ o.tx \in mined
    BY <1>4 DEF handleRegister, Go, Refused, RegisterInv, Confirmed
  <2>2. SoundRequest(req[c])'
    BY <1>1, <2>1 DEF SoundRequest, Adding, Row, Vouched, AddressOf
  <2> QED
    BY <1>1, <2>1, <2>2, OneRequestStep
<1>5. ASSUME NEW o, handleLiquidityRegister(c, o)
      PROVE  RegisterInv'
  <2>1. /\ req' = [d \in Client |-> IF d = c THEN req'[c] ELSE req[d]]
        /\ req'[c].store = "liquidity" /\ file' = file
    BY <1>5 DEF handleLiquidityRegister, Go, RegisterInv
  <2> QED
    BY <1>1, <2>1, SoundElsewhere, OneRequestStep
<1>6. ASSUME NEW o, handleFlashMirror(c, o), ~UNCHANGED <<req, file>>
      PROVE  RegisterInv'
  <2>1. /\ req' = [d \in Client |-> IF d = c THEN req'[c] ELSE req[d]]
        /\ req'[c].pc = "book" /\ file' = file
    BY <1>6 DEF handleFlashMirror, Go, RegisterInv
  <2> QED
    BY <1>1, <2>1, SoundElsewhere, OneRequestStep
<1>7. ASSUME NEW o, handleFixPending(c, o), ~UNCHANGED <<req, file>>
      PROVE  RegisterInv'
  <2> DEFINE a == loadFlashMirrorBook(file.live).canonical
             next == IF o.post \/ o.reload THEN "book" ELSE "done"
  <2>1. /\ req' = [d \in Client |-> IF d = c THEN req'[c] ELSE req[d]]
        /\ file' = file
        /\ \/ req'[c] = [pc |-> "load", store |-> "tokens", mode |-> "upsert", next |-> next,
                         rec |-> Row(NoTx, a, "bsc", "mirror")]
           \/ req'[c].pc = "book"
    BY <1>7 DEF handleFixPending, Go, RegisterInv
  <2>2. SoundRequest(req[c])'
    BY <2>1 DEF SoundRequest, Row, Vouched
  <2> QED
    BY <1>1, <2>1, <2>2, OneRequestStep
<1>8. ASSUME NEW o, handleListingBridge(c, o), ~UNCHANGED <<req, file>>
      PROVE  RegisterInv'
  <2>1. /\ req' = [d \in Client |-> IF d = c THEN req'[c] ELSE req[d]]
        /\ req'[c].store = "listings" /\ file' = file
    BY <1>8 DEF handleListingBridge, Go, Refused, RegisterInv
  <2> QED
    BY <1>1, <2>1, SoundElsewhere, OneRequestStep
<1> QED
  BY <1>2, <1>3, <1>4, <1>5, <1>6, <1>7, <1>8 DEF Receive

\* A new row joins rows with other addresses, or takes the place of the row
\* with its own.
LEMMA StoredSound ==
  ASSUME NEW c \in Client, SoundRequest(req[c]), SoundRegister(file.tokens),
         req[c].pc = "load", req[c].store = "tokens", CanStore(req[c], file.tokens)
  PROVE  SoundRegister(Stored(req[c], file.tokens))
<1> DEFINE old == file.tokens
           x   == req[c].rec
           new == Stored(req[c], old)
<1> SUFFICES SoundRegister(new)
  OBVIOUS
<1>1. PICK S : old \in Seq(S)
  BY DEF SoundRegister
<1>2. Vouched(x) /\ req[c].mode \in {"add", "upsert"}
  BY DEF SoundRequest
<1>3. CASE ~Holds(old, x.addr)
  <2>1. new = Append(old, x)
    BY <1>2, <1>3 DEF Stored
  <2>2. old \in Seq(S \cup {x}) /\ x \in S \cup {x}
    BY <1>1
  <2>3. /\ new \in Seq(S \cup {x})
        /\ DOMAIN new = DOMAIN old \cup {Len(old) + 1}
        /\ new[Len(old) + 1] = x
        /\ \A i \in DOMAIN old : new[i] = old[i]
    BY <2>1, <2>2
  <2>4. \A i \in DOMAIN old : old[i].addr # x.addr /\ Vouched(old[i])
    BY <1>3 DEF Holds, SoundRegister
  <2>5. \A i, j \in DOMAIN new : new[i].addr = new[j].addr => i = j
    BY <2>3, <2>4 DEF SoundRegister
  <2> HIDE DEF new, x
  <2> QED
    BY <1>2, <2>3, <2>4, <2>5 DEF SoundRegister
<1>4. CASE Holds(old, x.addr)
  <2>1. new = [i \in DOMAIN old |-> IF old[i].addr = x.addr THEN x ELSE old[i]]
    BY <1>2, <1>4 DEF Stored, CanStore
  <2>2. DOMAIN new = DOMAIN old /\ \A i \in DOMAIN old : new[i] \in S \cup {x}
    BY <1>1, <2>1
  <2>3. new \in Seq(S \cup {x})
    BY <1>1, <2>1, <2>2
  <2>4. \A i \in DOMAIN new : new[i].addr = old[i].addr /\ Vouched(new[i])
    BY <1>2, <2>1 DEF SoundRegister
  <2>5. \A i, j \in DOMAIN new : new[i].addr = new[j].addr => i = j
    BY <2>2, <2>4 DEF SoundRegister
  <2> HIDE DEF new, x
  <2> QED
    BY <2>3, <2>4, <2>5 DEF SoundRegister
<1> QED
  BY <1>3, <1>4

\* The steps of a request being served.
LEMMA ServingStep ==
  ASSUME RegisterInv, NEW c \in Client, Serving(c)
  PROVE  RegisterInv'
<1>1. ASSUME \/ ReadNonce(c) \/ Send(c) \/ LoadMirror(c)
      PROVE  RegisterInv'
  <2>1. /\ req' = [d \in Client |-> IF d = c THEN req'[c] ELSE req[d]]
        /\ req'[c].pc \in {"send", "wait", "idle", "look"}
        /\ file' = file /\ mined' = mined
    BY <1>1 DEF ReadNonce, Send, LoadMirror, Answer, Idle, Go, RegisterInv, external
  <2> QED
    BY <2>1, SoundElsewhere, OneRequestStep
<1>2. CASE waitReceipt(c)
  <2> DEFINE t == req[c].tx
  <2>1. /\ req' = [d \in Client |-> IF d = c THEN req'[c] ELSE req[d]]
        /\ file' = file /\ mined' = mined
        /\ \/ t \in mined /\ req'[c] = Adding(Row(t, AddressOf(t), t.chain, "backend"))
           \/ req'[c].pc = "idle"
    BY <1>2 DEF waitReceipt, Confirmed, Answer, Idle, Go, RegisterInv, external
  <2>2. SoundRequest(req[c])'
    BY <2>1 DEF SoundRequest, Adding, Row, Vouched, AddressOf
  <2> QED
    BY <2>1, <2>2, OneRequestStep
<1>3. CASE LoadStore(c)
  <2> DEFINE r    == req[c]
             copy == Stored(r, file[r.store])
  <2>1. /\ req' = [d \in Client |-> IF d = c THEN req'[c] ELSE req[d]]
        /\ r.pc = "load" /\ file' = file /\ mined' = mined
        /\ \/ /\ CanStore(r, file[r.store])
              /\ req'[c] = [pc |-> "save", store |-> r.store, rec |-> r.rec, next |-> r.next, copy |-> copy]
           \/ req'[c].pc = "idle"
    BY <1>3 DEF LoadStore, Answer, Idle, Go, RegisterInv, external
  <2>2. ASSUME r.store = "tokens", CanStore(r, file[r.store])
        PROVE  SoundRegister(copy)
    <3>1. SoundRequest(r) /\ SoundRegister(file.tokens)
      BY <2>2 DEF RegisterInv, CanStore
    <3> QED
      BY <2>1, <2>2, <3>1, StoredSound
  <2> HIDE DEF copy
  <2>3. ASSUME SoundRegister(copy), req'[c].copy = copy
        PROVE  SoundRegister(req[c].copy)'
    BY <2>1, <2>3 DEF SoundRegister, Vouched, AddressOf
  <2>4. SoundRequest(req[c])'
    BY <2>1, <2>2, <2>3 DEF SoundRequest
  <2> QED
    BY <2>1, <2>4, OneRequestStep
<1>4. CASE SaveStore(c)
  <2>1. /\ req' = [d \in Client |-> IF d = c THEN req'[c] ELSE req[d]]
        /\ req'[c].pc \in {"book", "idle"}
        /\ mined' = mined
        /\ file' = [s \in Stores |-> IF s = req[c].store THEN req[c].copy ELSE file[s]]
    BY <1>4 DEF SaveStore, Answer, Idle, Go, RegisterInv, external
  <2>2. file'.tokens # Torn => SoundRegister(file'.tokens)
    <3>1. CASE req[c].store = "tokens"
      BY <1>4, <2>1, <3>1 DEF RegisterInv, SoundRequest, SaveStore, Stores
    <3>2. CASE req[c].store # "tokens"
      BY <2>1, <3>2 DEF RegisterInv, Stores
    <3> QED
      BY <3>1, <3>2
  <2>3. SoundRegister(file'.tokens) => SoundRegister(file.tokens)'
    <3>1. mined' = mined
      BY <2>1
    <3> QED
      BY <3>1 DEF SoundRegister, Vouched, AddressOf
  <2>4. \A d \in Client : SoundRequest(req[d])'
    <3> SUFFICES ASSUME NEW d \in Client PROVE SoundRequest(req[d])'
      OBVIOUS
    <3>1. CASE d = c
      BY <2>1, <3>1, SoundElsewhere
    <3>2. CASE d # c
      <4>1. req'[d] = req[d] /\ SoundRequest(req[d])
        BY <2>1, <3>2 DEF RegisterInv
      <4> QED
        BY <2>1, <4>1 DEF SoundRequest, SoundRegister, Vouched, AddressOf
    <3> QED
      BY <3>1, <3>2
  <2> QED
    BY <2>1, <2>2, <2>3, <2>4 DEF RegisterInv
<1>5. CASE LookUpMirror(c)
  <2>1. /\ req' = [d \in Client |-> IF d = c THEN req'[c] ELSE req[d]]
        /\ req'[c].pc = "idle" \/ req'[c].store = "live"
        /\ file' = file /\ mined' = mined
    BY <1>5 DEF LookUpMirror, Answer, Idle, Go, RegisterInv, external
  <2> QED
    BY <2>1, SoundElsewhere, OneRequestStep
<1> QED
  BY <1>1, <1>2, <1>3, <1>4, <1>5 DEF Serving

LEMMA RegisterInvStep ==
  ASSUME RegisterInv, [LauncherNext]_launcherVars
  PROVE  RegisterInv'
<1>1. CASE UNCHANGED launcherVars
  BY <1>1, MoreMined DEF launcherVars, external
<1>2. ASSUME NEW c \in Client, Receive(c) \/ Serving(c)
      PROVE  RegisterInv'
  <2>1. CASE Receive(c)
    BY <2>1, ReceiveStep
  <2>2. CASE Serving(c)
    BY <2>2, ServingStep
  <2> QED
    BY <1>2, <2>1, <2>2
<1>3. ASSUME NEW t \in sent, Mine(t)
      PROVE  RegisterInv'
  BY <1>3, MoreMined DEF Mine
<1>4. ASSUME NEW ch \in EVM, NEW ok \in BOOLEAN, WalletDeploys(ch, ok)
      PROVE  RegisterInv'
  BY <1>4, MoreMined DEF WalletDeploys
<1>5. CASE Tick
  BY <1>5, MoreMined DEF Tick, external
<1>6. CASE Crash
  <2>1. /\ mined' = mined
        /\ req' = [c \in Client |-> Idle]
        /\ \E torn : file' = [s \in DOMAIN file |-> IF s \in torn THEN Torn ELSE file[s]]
    BY <1>6 DEF Crash, external
  <2>2. /\ file' = [s \in Stores |-> file'[s]]
        /\ file'.tokens \in {Torn, file.tokens}
    BY <2>1 DEF RegisterInv, Stores
  <2>4. file'.tokens # Torn => SoundRegister(file.tokens)'
    BY <2>1, <2>2 DEF RegisterInv, SoundRegister, Vouched, AddressOf
  <2>5. \A c \in Client : SoundRequest(req[c])'
    BY <2>1 DEF SoundRequest, Idle
  <2> QED
    BY <2>1, <2>2, <2>4, <2>5 DEF RegisterInv
<1> QED
  BY <1>1, <1>2, <1>3, <1>4, <1>5, <1>6 DEF LauncherNext

\* However requests interleave and wherever the launcher stops, no address is
\* registered twice, and a contract in the register was created by the
\* transaction named with it (TokenStore.Add, deployContract, verifyDeployTx).
THEOREM RegisterIsSound == LauncherSpec => []RegisteredDeployed
<1>1. RegisterInv => RegisteredDeployed
  BY DEF RegisterInv, SoundRegister, Vouched, RegisteredDeployed
<1> QED
  BY <1>1, RegisterInvInit, RegisterInvStep, PTL DEF LauncherSpec

(***************************************************************************)
(* What is noted as live was deployed.                                     *)
(***************************************************************************)

\* An address that is known is the first of those it heads.
LEMMA FirstKnownHead ==
  ASSUME NEW S, NEW l \in Seq(S), l # <<>>, l[1] # NoAddress
  PROVE  FirstKnown(l) = l[1]
<1> DEFINE known == {i \in DOMAIN l : l[i] # NoAddress}
<1>1. DOMAIN l \subseteq Nat \ {0} /\ 1 \in DOMAIN l
  OBVIOUS
<1>2. 1 \in known /\ \A i \in known : 1 <= i /\ i \in Nat
  BY <1>1
<1> HIDE DEF known
<1>3. Min(known) = 1
  BY <1>2 DEF Min
<1>4. FirstKnown(l) = IF known = {} THEN NoAddress ELSE l[Min(known)]
  BY DEF FirstKnown, known
<1> QED
  BY <1>2, <1>3, <1>4

\* The transactions ms created the contract at a on ch.
Created(ms, ch, a) == \E t \in ms : t.chain = ch /\ AddressOf(t) = a

\* A book of records of the mirror, in which what is live was created at the
\* address noted.
SoundDeployment(ms, ch, d) ==
  /\ d = [addr |-> d.addr, pred |-> d.pred, status |-> d.status, verified |-> d.verified]
  /\ d.status = "live" => d.addr # NoAddress /\ Created(ms, ch, d.addr)

SoundBook(ms, b) ==
  /\ b = [canonical |-> b.canonical, deps |-> b.deps]
  /\ b.deps = [ch \in DOMAIN b.deps |-> b.deps[ch]]
  /\ \A ch \in DOMAIN b.deps : SoundDeployment(ms, ch, b.deps[ch])

SoundListings(ms, l) == \A x \in l : x.ready => Created(ms, Slug(x.key[1]), x.key[2])

\* What a request holds of the mirror and of the listings between its steps.
SoundMirrorRequest(ms, r) ==
  /\ r.pc = "look" => SoundBook(ms, r.book)
  /\ r.pc = "save" /\ r.store = "live" => SoundBook(ms, r.copy)
  /\ r.pc = "save" /\ r.store = "listings" => SoundListings(ms, r.copy)
  /\ r.pc = "load" => /\ r.store # "live"
                      /\ r.store = "listings" => r.mode = "key" /\ SoundListings(ms, {r.rec})

\* LiveMeansDeployed alone is not inductive: a book is kept in a request from
\* its load to its save, while other requests save theirs.
MirrorInv ==
  /\ file.live \notin {NoBook, Torn} => SoundBook(mined, file.live)
  /\ file.listings # Torn => SoundListings(mined, file.listings)
  /\ \A c \in Client : SoundMirrorRequest(mined, req[c])

LEMMA MirrorInvInit == LauncherInit => MirrorInv
<1> SUFFICES ASSUME LauncherInit PROVE MirrorInv
  OBVIOUS
<1>1. file.live = MirrorSaved /\ file.listings = {} /\ req = [c \in Client |-> Idle]
  BY DEF LauncherInit
<1>2. MirrorSaved \notin {NoBook, Torn} => SoundBook(mined, MirrorSaved)
  <2> DEFINE deps == MirrorSaved.deps
  <2> SUFFICES ASSUME MirrorSaved \notin {NoBook, Torn} PROVE SoundBook(mined, MirrorSaved)
    OBVIOUS
  <2>1. /\ MirrorSaved = [canonical |-> MirrorSaved.canonical, deps |-> deps]
        /\ deps = [ch \in DOMAIN deps |->
                     [addr |-> deps[ch].addr, pred |-> deps[ch].pred,
                      status |-> deps[ch].status, verified |-> deps[ch].verified]]
        /\ \A ch \in DOMAIN deps : deps[ch].status # "live"
    BY SavedAssumption DEF SavedAssumption
  <2> HIDE DEF deps
  <2>2. \A ch \in DOMAIN deps : SoundDeployment(mined, ch, deps[ch])
    BY <2>1 DEF SoundDeployment
  <2>3. deps = [ch \in DOMAIN deps |-> deps[ch]]
    BY <2>1
  <2> QED
    BY <2>1, <2>2, <2>3 DEF SoundBook, deps
<1>3. ASSUME NEW c \in Client PROVE SoundMirrorRequest(mined, req[c])
  BY <1>1 DEF SoundMirrorRequest, Idle
<1> QED
  BY <1>1, <1>2, <1>3 DEF MirrorInv, SoundListings

\* What was sound stays so when more is mined.
LEMMA SoundStays ==
  ASSUME NEW ms, NEW ns, ms \subseteq ns
  PROVE  /\ \A b : SoundBook(ms, b) => SoundBook(ns, b)
         /\ \A l : SoundListings(ms, l) => SoundListings(ns, l)
         /\ \A r : SoundMirrorRequest(ms, r) => SoundMirrorRequest(ns, r)
<1>1. \A ch, a : Created(ms, ch, a) => Created(ns, ch, a)
  BY DEF Created
<1>2. \A b : SoundBook(ms, b) => SoundBook(ns, b)
  BY <1>1 DEF SoundBook, SoundDeployment
<1>3. \A l : SoundListings(ms, l) => SoundListings(ns, l)
  BY <1>1 DEF SoundListings
<1> QED
  BY <1>2, <1>3 DEF SoundMirrorRequest

\* A step of the chains.
LEMMA MirrorMoreMined ==
  ASSUME MirrorInv, mined \subseteq mined', UNCHANGED <<file, req>>
  PROVE  MirrorInv'
BY SoundStays DEF MirrorInv

\* A step of one request that writes no file.
LEMMA MirrorRequestStep ==
  ASSUME MirrorInv, NEW c \in Client, UNCHANGED <<file, mined>>,
         req' = [d \in Client |-> IF d = c THEN req'[c] ELSE req[d]],
         SoundMirrorRequest(mined, req'[c])
  PROVE  MirrorInv'
<1>1. \A d \in Client : SoundMirrorRequest(mined, req'[d])
  BY DEF MirrorInv
<1> QED
  BY <1>1 DEF MirrorInv

\* A request that is not at one of these places holds nothing of them.
LEMMA NothingHeld ==
  ASSUME NEW ms, NEW r,
         r.pc \notin {"look", "save", "load"} \/ (r.pc \in {"save", "load"} /\ r.store \in {"tokens", "liquidity"})
  PROVE  SoundMirrorRequest(ms, r)
BY DEF SoundMirrorRequest

\* Loading fills in addresses that were blank, none of them live.
LEMMA LoadedBookSound ==
  ASSUME NEW ms, NEW live, live \notin {NoBook, Torn} => SoundBook(ms, live)
  PROVE  SoundBook(ms, loadFlashMirrorBook(live))
<1> DEFINE old  == IF live \in {NoBook, Torn} THEN [canonical |-> NoAddress, deps |-> <<>>] ELSE live
           all  == DOMAIN MirrorResult \cup DOMAIN old.deps
           deps == [ch \in all |->
                 IF ch \notin DOMAIN old.deps THEN Predicted(MirrorResult[ch])
                 ELSE LET d == old.deps[ch]
                      IN  [d EXCEPT !.pred = FirstKnown(<<@>> \o (IF ch \in DOMAIN MirrorResult
                                                        THEN <<MirrorResult[ch]>> ELSE <<>>) \o <<d.addr>>)]]
           book == loadFlashMirrorBook(live)
           canon == book.canonical
<1>1. /\ book = [canonical |-> canon, deps |-> book.deps]
      /\ book.deps = [ch \in all |-> [deps[ch] EXCEPT !.addr = FirstKnown(<<@, canon>>),
                                                    !.pred = FirstKnown(<<@, canon>>)]]
  BY DEF loadFlashMirrorBook
<1>2. \A ch \in DOMAIN old.deps : SoundDeployment(ms, ch, old.deps[ch])
  <2>1. CASE live \in {NoBook, Torn}
    BY <2>1
  <2>2. CASE live \notin {NoBook, Torn}
    BY <2>2 DEF SoundBook
  <2> QED
    BY <2>1, <2>2
<1> HIDE DEF old, book, canon
<1>3. ASSUME NEW ch \in all
      PROVE  SoundDeployment(ms, ch, deps[ch])
  <2>1. CASE ch \notin DOMAIN old.deps
    BY <2>1 DEF Predicted, SoundDeployment
  <2>2. CASE ch \in DOMAIN old.deps
    <3>1. \E x : deps[ch] = [old.deps[ch] EXCEPT !.pred = x]
      BY <2>2
    <3>2. SoundDeployment(ms, ch, old.deps[ch])
      BY <1>2, <2>2
    <3> HIDE DEF deps
    <3> QED
      BY <3>1, <3>2 DEF SoundDeployment
  <2> QED
    BY <2>1, <2>2
<1> HIDE DEF deps
<1>4. ASSUME NEW ch \in all
      PROVE  SoundDeployment(ms, ch, book.deps[ch])
  <2> DEFINE d == deps[ch]
  <2>1. d.addr # NoAddress => FirstKnown(<<d.addr, canon>>) = d.addr
    <3> DEFINE l == <<d.addr, canon>>
    <3>1. l \in Seq({d.addr, canon}) /\ l # <<>> /\ l[1] = d.addr
      OBVIOUS
    <3> HIDE DEF l
    <3>2. d.addr # NoAddress => FirstKnown(l) = d.addr
      BY <3>1, FirstKnownHead
    <3> QED
      BY <3>2 DEF l
  <2>2. book.deps[ch] = [d EXCEPT !.addr = FirstKnown(<<d.addr, canon>>),
                                  !.pred = FirstKnown(<<d.pred, canon>>)]
    BY <1>1, <1>3 DEF SoundDeployment
  <2>3. SoundDeployment(ms, ch, d)
    BY <1>3
  <2> HIDE DEF d
  <2> QED
    BY <2>1, <2>2, <2>3 DEF SoundDeployment
<1>5. DOMAIN book.deps = all
  BY <1>1
<1> QED
  BY <1>1, <1>4, <1>5 DEF SoundBook, book

\* Both ways of looking note as live only what they found.
LEMMA VerifiedBookSound ==
  ASSUME NEW b, SoundBook(mined, b), NEW up
  PROVE  SoundBook(mined, verifyFlashMirrorOnChain(b, up))
<1> DEFINE v == verifyFlashMirrorOnChain(b, up)
           deps == [ch \in DOMAIN b.deps |->
             IF ch \notin up \/ b.canonical = NoAddress THEN b.deps[ch]
             ELSE IF Deployed(ch, b.canonical)
             THEN [b.deps[ch] EXCEPT !.verified = TRUE, !.status = "live", !.addr = b.canonical]
             ELSE [b.deps[ch] EXCEPT !.verified = FALSE]]
<1>3. v = [b EXCEPT !.deps = deps]
  BY DEF verifyFlashMirrorOnChain
<1> HIDE DEF v, deps
<1>4. v = [canonical |-> v.canonical, deps |-> v.deps] /\ v.deps = deps
  BY <1>3 DEF SoundBook
<1>1. /\ v = [canonical |-> v.canonical, deps |-> v.deps]
      /\ v.deps = [ch \in DOMAIN b.deps |->
           IF ch \notin up \/ b.canonical = NoAddress THEN b.deps[ch]
           ELSE IF Deployed(ch, b.canonical)
           THEN [b.deps[ch] EXCEPT !.verified = TRUE, !.status = "live", !.addr = b.canonical]
           ELSE [b.deps[ch] EXCEPT !.verified = FALSE]]
  BY <1>4 DEF deps
<1>2. ASSUME NEW ch \in DOMAIN b.deps
      PROVE  SoundDeployment(mined, ch, v.deps[ch])
  <2>1. SoundDeployment(mined, ch, b.deps[ch])
    BY DEF SoundBook
  <2>2. CASE ch \notin up \/ b.canonical = NoAddress
    BY <1>1, <2>1, <2>2
  <2>3. CASE b.canonical # NoAddress /\ Deployed(ch, b.canonical) /\ ch \in up
    <3> DEFINE x == b.deps[ch]
               a == b.canonical
    <3>1. Created(mined, ch, a)
      BY <2>3 DEF Created, Deployed
    <3>2. v.deps[ch] = [x EXCEPT !.verified = TRUE, !.status = "live", !.addr = a]
      BY <1>1, <2>3
    <3>3. SoundDeployment(mined, ch, x) /\ a # NoAddress
      BY <2>1, <2>3
    <3> HIDE DEF x, a, v
    <3> QED
      BY <3>1, <3>2, <3>3 DEF SoundDeployment
  <2>4. CASE b.canonical # NoAddress /\ ~Deployed(ch, b.canonical) /\ ch \in up
    BY <1>1, <2>1, <2>4 DEF SoundDeployment
  <2> QED
    BY <2>2, <2>3, <2>4
<1> QED
  BY <1>1, <1>2 DEF SoundBook, v

LEMMA ReloadedBookSound ==
  ASSUME NEW b, SoundBook(mined, b), NEW up
  PROVE  SoundBook(mined, reloadFlashMirrorPayload(b, up))
<1> DEFINE v == reloadFlashMirrorPayload(b, up)
           Found(ch) == FirstKnown(<<b.deps[ch].addr, b.deps[ch].pred, b.canonical>>)
           d(ch)  == [b.deps[ch] EXCEPT !.addr = Found(ch), !.pred = Found(ch)]
           deps  == [ch \in DOMAIN b.deps |->
             IF ch \notin WithMeta \/ Found(ch) = NoAddress THEN d(ch)
             ELSE IF ch \in up /\ Deployed(ch, Found(ch)) THEN [d(ch) EXCEPT !.verified = TRUE, !.status = "live"]
             ELSE IF d(ch).status = "predicted" THEN [d(ch) EXCEPT !.verified = FALSE]
             ELSE d(ch)]
<1>4. v = [b EXCEPT !.deps = deps]
  BY DEF reloadFlashMirrorPayload
<1> HIDE DEF v, deps
<1>5. v = [canonical |-> v.canonical, deps |-> v.deps] /\ v.deps = deps
  BY <1>4 DEF SoundBook
<1>1. /\ v = [canonical |-> v.canonical, deps |-> v.deps]
      /\ v.deps = [ch \in DOMAIN b.deps |->
           IF ch \notin WithMeta \/ Found(ch) = NoAddress THEN d(ch)
           ELSE IF ch \in up /\ Deployed(ch, Found(ch)) THEN [d(ch) EXCEPT !.verified = TRUE, !.status = "live"]
           ELSE IF d(ch).status = "predicted" THEN [d(ch) EXCEPT !.verified = FALSE]
           ELSE d(ch)]
  BY <1>5 DEF deps
<1>2. ASSUME NEW ch \in DOMAIN b.deps
      PROVE  SoundDeployment(mined, ch, v.deps[ch])
  <2>1. SoundDeployment(mined, ch, b.deps[ch])
    BY DEF SoundBook
  <2>2. b.deps[ch].addr # NoAddress => Found(ch) = b.deps[ch].addr
    <3> DEFINE l == <<b.deps[ch].addr, b.deps[ch].pred, b.canonical>>
    <3>1. l \in Seq({b.deps[ch].addr, b.deps[ch].pred, b.canonical}) /\ l # <<>> /\ l[1] = b.deps[ch].addr
      OBVIOUS
    <3> HIDE DEF l
    <3>2. b.deps[ch].addr # NoAddress => FirstKnown(l) = b.deps[ch].addr
      BY <3>1, FirstKnownHead
    <3> QED
      BY <3>2 DEF l
  <2>3. SoundDeployment(mined, ch, d(ch)) /\ d(ch).addr = Found(ch)
    <3> DEFINE x == b.deps[ch]
               a == Found(ch)
    <3>1. d(ch) = [x EXCEPT !.addr = a, !.pred = a]
      OBVIOUS
    <3>2. SoundDeployment(mined, ch, x) /\ (x.addr # NoAddress => a = x.addr)
      BY <2>1, <2>2
    <3>3. d(ch).addr = Found(ch) <=> d(ch).addr = a
      OBVIOUS
    <3> HIDE DEF x, a, d, Found
    <3>4. SoundDeployment(mined, ch, d(ch)) /\ d(ch).addr = a
      BY <3>1, <3>2 DEF SoundDeployment
    <3> QED
      BY <3>3, <3>4
  <2> HIDE DEF Found
  <2> HIDE DEF d
  <2>4. CASE ch \notin WithMeta \/ Found(ch) = NoAddress
    BY <1>1, <2>3, <2>4
  <2>5. CASE ch \in WithMeta /\ Found(ch) # NoAddress /\ ch \in up /\ Deployed(ch, Found(ch))
    <3> DEFINE x == d(ch)
               a == Found(ch)
    <3>1. Created(mined, ch, a)
      BY <2>5 DEF Created, Deployed
    <3>2. v.deps[ch] = [x EXCEPT !.verified = TRUE, !.status = "live"]
      BY <1>1, <2>5
    <3>3. SoundDeployment(mined, ch, x) /\ x.addr = a /\ a # NoAddress
      BY <2>3, <2>5
    <3> HIDE DEF x, a, v
    <3> QED
      BY <3>1, <3>2, <3>3 DEF SoundDeployment
  <2>6. CASE ch \in WithMeta /\ Found(ch) # NoAddress /\ ~(ch \in up /\ Deployed(ch, Found(ch)))
    BY <1>1, <2>3, <2>6 DEF SoundDeployment
  <2> QED
    BY <2>4, <2>5, <2>6
<1>3. DOMAIN v.deps = DOMAIN b.deps
  BY <1>1
<1> QED
  BY <1>1, <1>2, <1>3 DEF SoundBook, v

\* What a client asks for.
LEMMA MirrorReceiveStep ==
  ASSUME RegisterInv, MirrorInv, NEW c \in Client, Receive(c)
  PROVE  MirrorInv'
<1>1. mined' = mined
  BY DEF Receive, external
<1>2. CASE UNCHANGED <<req, file>>
  BY <1>1, <1>2, MirrorMoreMined
<1>3. ASSUME NEW o, handleDeploy(c, o) \/ handleFlashMirror(c, o), ~UNCHANGED <<req, file>>
      PROVE  MirrorInv'
  <2>1. /\ req' = [d \in Client |-> IF d = c THEN req'[c] ELSE req[d]]
        /\ req'[c].pc \in {"nonce", "book"} /\ file' = file
    BY <1>3 DEF handleDeploy, handleFlashMirror, Go, Refused, RegisterInv
  <2> QED
    BY <1>1, <2>1, NothingHeld, MirrorRequestStep
<1>4. ASSUME NEW o, handleRegister(c, o), ~UNCHANGED <<req, file>>
      PROVE  MirrorInv'
  <2>1. /\ req' = [d \in Client |-> IF d = c THEN req'[c] ELSE req[d]]
        /\ req'[c] = Adding(Row(o.tx, AddressOf(o.tx), o.tx.chain, "metamask")) /\ file' = file
    BY <1>4 DEF handleRegister, Go, Refused, RegisterInv
  <2>2. req'[c].pc = "load" /\ req'[c].store = "tokens"
    BY <2>1 DEF Adding
  <2> QED
    BY <1>1, <2>1, <2>2, NothingHeld, MirrorRequestStep
<1>5. ASSUME NEW o, handleLiquidityRegister(c, o)
      PROVE  MirrorInv'
  <2>1. /\ req' = [d \in Client |-> IF d = c THEN req'[c] ELSE req[d]]
        /\ req'[c].pc = "load" /\ req'[c].store = "liquidity" /\ file' = file
    BY <1>5 DEF handleLiquidityRegister, Go, RegisterInv
  <2> QED
    BY <1>1, <2>1, NothingHeld, MirrorRequestStep
<1>6. ASSUME NEW o, handleFixPending(c, o), ~UNCHANGED <<req, file>>
      PROVE  MirrorInv'
  <2>1. /\ req' = [d \in Client |-> IF d = c THEN req'[c] ELSE req[d]]
        /\ file' = file
        /\ (req'[c].pc = "load" /\ req'[c].store = "tokens") \/ req'[c].pc = "book"
    BY <1>6 DEF handleFixPending, Go, RegisterInv
  <2> QED
    BY <1>1, <2>1, NothingHeld, MirrorRequestStep
<1>7. ASSUME NEW o, handleListingBridge(c, o), ~UNCHANGED <<req, file>>
      PROVE  MirrorInv'
  <2> DEFINE ch == RegistrySlug(o.chain)
  <2>1. PICK liq \in LiquiditySeen, holders \in HoldersSeen :
          Go(c, [pc |-> "load", store |-> "listings", mode |-> "key", next |-> "done",
                 rec |-> Listing(ch, o.token, liq, holders)])
    BY <1>7 DEF handleListingBridge, Refused
  <2> DEFINE rec == Listing(ch, o.token, liq, holders)
  <2>2. SoundListings(mined, {rec})
    <3> DEFINE on == Deployed(Slug(ch), o.token)
    <3>1. rec.key = <<ch, o.token>> /\ (rec.ready => on)
      BY DEF Listing, Ready
    <3> HIDE DEF rec, ch, on
    <3>2. rec.ready => Created(mined, Slug(rec.key[1]), rec.key[2])
      BY <3>1 DEF Created, Deployed, on
    <3> QED
      BY <3>2 DEF SoundListings
  <2> HIDE DEF rec
  <2>3. /\ req' = [d \in Client |-> IF d = c THEN req'[c] ELSE req[d]]
        /\ req'[c] = [pc |-> "load", store |-> "listings", mode |-> "key", next |-> "done", rec |-> rec]
        /\ file' = file
    BY <1>7, <2>1 DEF handleListingBridge, Go, Refused, RegisterInv, rec
  <2>4. SoundMirrorRequest(mined, req'[c])
    BY <2>2, <2>3 DEF SoundMirrorRequest
  <2> QED
    BY <1>1, <2>3, <2>4, MirrorRequestStep
<1> QED
  BY <1>2, <1>3, <1>4, <1>5, <1>6, <1>7 DEF Receive

\* The steps of a request being served.
LEMMA MirrorServingStep ==
  ASSUME RegisterInv, MirrorInv, NEW c \in Client, Serving(c)
  PROVE  MirrorInv'
<1>1. SoundMirrorRequest(mined, req[c])
  BY DEF MirrorInv
<1>2. ASSUME ReadNonce(c) \/ Send(c)
      PROVE  MirrorInv'
  <2>1. /\ req' = [d \in Client |-> IF d = c THEN req'[c] ELSE req[d]]
        /\ req'[c].pc \in {"send", "wait", "idle"}
        /\ file' = file /\ mined' = mined
    BY <1>2 DEF ReadNonce, Send, Answer, Idle, Go, RegisterInv, external
  <2> QED
    BY <2>1, NothingHeld, MirrorRequestStep
<1>3. CASE waitReceipt(c)
  <2>1. /\ req' = [d \in Client |-> IF d = c THEN req'[c] ELSE req[d]]
        /\ file' = file /\ mined' = mined
        /\ (req'[c].pc = "load" /\ req'[c].store = "tokens") \/ req'[c].pc = "idle"
    BY <1>3 DEF waitReceipt, Answer, Idle, Go, RegisterInv, external, Adding
  <2> QED
    BY <2>1, NothingHeld, MirrorRequestStep
<1>4. CASE LoadStore(c)
  <2> DEFINE r    == req[c]
             copy == Stored(r, file[r.store])
  <2>1. /\ req' = [d \in Client |-> IF d = c THEN req'[c] ELSE req[d]]
        /\ r.pc = "load" /\ file' = file /\ mined' = mined
        /\ \/ req'[c] = [pc |-> "save", store |-> r.store, rec |-> r.rec, next |-> r.next, copy |-> copy]
           \/ req'[c].pc = "idle"
    BY <1>4 DEF LoadStore, Answer, Idle, Go, RegisterInv, external
  <2>2. ASSUME r.store = "listings"
        PROVE  SoundListings(mined, copy)
    <3> DEFINE old == file.listings
    <3>1. r.mode = "key" /\ SoundListings(mined, {r.rec})
      BY <1>1, <2>1, <2>2 DEF SoundMirrorRequest
    <3>2. copy = {x \in IF old = Torn THEN {} ELSE old : x.key # r.rec.key} \cup {r.rec}
      BY <2>2, <3>1 DEF Stored
    <3>3. old # Torn => SoundListings(mined, old)
      BY DEF MirrorInv
    <3> HIDE DEF copy
    <3> QED
      BY <3>1, <3>2, <3>3 DEF SoundListings
  <2> HIDE DEF copy
  <2>3. SoundMirrorRequest(mined, req'[c])
    BY <1>1, <2>1, <2>2 DEF SoundMirrorRequest
  <2> QED
    BY <2>1, <2>3, MirrorRequestStep
<1>5. CASE SaveStore(c)
  <2> DEFINE r == req[c]
  <2>1. /\ req' = [d \in Client |-> IF d = c THEN req'[c] ELSE req[d]]
        /\ req'[c].pc \in {"book", "idle"} /\ r.pc = "save"
        /\ mined' = mined
        /\ file' = [s \in Stores |-> IF s = r.store THEN r.copy ELSE file[s]]
    BY <1>5 DEF SaveStore, Answer, Idle, Go, RegisterInv, external
  <2>2. file'.live \notin {NoBook, Torn} => SoundBook(mined, file'.live)
    BY <1>1, <2>1 DEF Stores, MirrorInv, SoundMirrorRequest
  <2>3. file'.listings # Torn => SoundListings(mined, file'.listings)
    BY <1>1, <2>1 DEF Stores, MirrorInv, SoundMirrorRequest
  <2>4. \A d \in Client : SoundMirrorRequest(mined, req'[d])
    BY <2>1, NothingHeld DEF MirrorInv
  <2> QED
    BY <2>1, <2>2, <2>3, <2>4 DEF MirrorInv
<1>6. CASE LoadMirror(c)
  <2> DEFINE book == loadFlashMirrorBook(file.live)
  <2>1. /\ req' = [d \in Client |-> IF d = c THEN req'[c] ELSE req[d]]
        /\ req'[c].pc = "look" /\ req'[c].book = book /\ UNCHANGED <<file, mined>>
    BY <1>6 DEF LoadMirror, Go, RegisterInv, external
  <2>2. SoundBook(mined, book)
    BY LoadedBookSound DEF MirrorInv
  <2> HIDE DEF book
  <2> QED
    BY <2>1, <2>2, MirrorRequestStep DEF SoundMirrorRequest
<1>7. CASE LookUpMirror(c)
  <2> DEFINE r == req[c]
             Seen(up) == IF r.verify THEN verifyFlashMirrorOnChain(r.book, up) ELSE r.book
  <2>1. /\ req' = [d \in Client |-> IF d = c THEN req'[c] ELSE req[d]]
        /\ r.pc = "look" /\ UNCHANGED <<file, mined>>
        /\ \/ req'[c].pc = "idle"
           \/ /\ req'[c].pc = "save" /\ req'[c].store = "live"
              /\ \E up1, up2 : req'[c].copy = reloadFlashMirrorPayload(Seen(up1), up2)
    BY <1>7 DEF LookUpMirror, Answer, Idle, Go, RegisterInv, external
  <2>2. SoundBook(mined, r.book)
    BY <1>1, <2>1 DEF SoundMirrorRequest
  <2>3. \A up1 : SoundBook(mined, Seen(up1))
    BY <2>2, VerifiedBookSound
  <2> HIDE DEF Seen
  <2>4. \A up1, up2 : SoundBook(mined, reloadFlashMirrorPayload(Seen(up1), up2))
    BY <2>3, ReloadedBookSound
  <2>5. SoundMirrorRequest(mined, req'[c])
    BY <2>1, <2>4 DEF SoundMirrorRequest
  <2> QED
    BY <2>1, <2>5, MirrorRequestStep
<1> QED
  BY <1>2, <1>3, <1>4, <1>5, <1>6, <1>7 DEF Serving

LEMMA MirrorInvStep ==
  ASSUME RegisterInv, MirrorInv, [LauncherNext]_launcherVars
  PROVE  MirrorInv'
<1>1. CASE UNCHANGED launcherVars
  BY <1>1, MirrorMoreMined DEF launcherVars, external
<1>2. ASSUME NEW c \in Client, Receive(c) \/ Serving(c)
      PROVE  MirrorInv'
  BY <1>2, MirrorReceiveStep, MirrorServingStep
<1>3. ASSUME NEW t \in sent, Mine(t)
      PROVE  MirrorInv'
  BY <1>3, MirrorMoreMined DEF Mine
<1>4. ASSUME NEW ch \in EVM, NEW ok \in BOOLEAN, WalletDeploys(ch, ok)
      PROVE  MirrorInv'
  BY <1>4, MirrorMoreMined DEF WalletDeploys
<1>5. CASE Tick
  BY <1>5, MirrorMoreMined DEF Tick, external
<1>6. CASE Crash
  <2>1. /\ mined' = mined
        /\ req' = [c \in Client |-> Idle]
        /\ \E torn : file' = [s \in DOMAIN file |-> IF s \in torn THEN Torn ELSE file[s]]
    BY <1>6 DEF Crash, external
  <2>2. file'.live \in {Torn, file.live} /\ file'.listings \in {Torn, file.listings}
    BY <2>1 DEF RegisterInv, Stores
  <2>3. \A c \in Client : SoundMirrorRequest(mined, req'[c])
    BY <2>1, NothingHeld DEF Idle
  <2> QED
    BY <2>1, <2>2, <2>3 DEF MirrorInv
<1> QED
  BY <1>1, <1>2, <1>3, <1>4, <1>5, <1>6 DEF LauncherNext

\* What is saved as live, or as ready for an index, was deployed at that address
\* on that chain, although every request saves the whole book over the others',
\* and a chain that does not answer is taken for one without the contract
\* (verifyFlashMirrorOnChain, reloadFlashMirrorPayload, saveListingBridge).
THEOREM WhatIsLiveIsDeployed == LauncherSpec => []LiveMeansDeployed
<1>1. MirrorInv => LiveMeansDeployed
  BY DEF MirrorInv, SoundBook, SoundDeployment, SoundListings, Created, Deployed, LiveMeansDeployed
<1>2. RegisterInv /\ MirrorInv /\ [LauncherNext]_launcherVars => RegisterInv' /\ MirrorInv'
  BY RegisterInvStep, MirrorInvStep
<1> QED
  BY <1>1, <1>2, RegisterInvInit, MirrorInvInit, PTL DEF LauncherSpec

(***************************************************************************)
(* The limiter, and the nonces of the transactions.                        *)
(***************************************************************************)

IsRecent(t) == t > now - Minute

\* g holds, for each i up to m, the times among the first i that are recent.
IsKept(s, m, g) ==
  g = [i \in 0 .. m |-> IF i = 0 THEN <<>>
                        ELSE IF IsRecent(s[i]) THEN Append(g[i - 1], s[i])
                        ELSE g[i - 1]]

LEMMA RecentUnfolded ==
  ASSUME NEW c
  PROVE  Recent(c) = (CHOOSE g : IsKept(hits[c], Len(hits[c]), g))[Len(hits[c])]
BY Zenon DEF Recent, IsKept, IsRecent

LEMMA KeptSteps ==
  ASSUME NEW s, NEW m \in Nat, NEW g, IsKept(s, m, g)
  PROVE  /\ g[0] = <<>>
         /\ \A i \in 1 .. m : g[i] = IF IsRecent(s[i]) THEN Append(g[i - 1], s[i]) ELSE g[i - 1]
<1>1. 0 \in 0 .. m /\ \A i \in 1 .. m : i \in 0 .. m /\ i # 0
  OBVIOUS
<1> QED
  BY <1>1, Zenon DEF IsKept

LEMMA KeptExists ==
  ASSUME NEW s, NEW n \in Nat
  PROVE  \E g : IsKept(s, n, g)
<1> DEFINE Good == {m \in 0 .. n : \E g : IsKept(s, m, g)}
<1>1. 0 \in Good
  <2> DEFINE g == [i \in 0 .. 0 |-> <<>>]
  <2>1. IsKept(s, 0, g)
    BY DEF IsKept
  <2> QED
    BY <2>1
<1>2. ASSUME NEW m \in 0 .. n - 1, m \in Good PROVE m + 1 \in Good
  <2>1. PICK g : IsKept(s, m, g)
    BY <1>2
  <2> DEFINE h == [i \in 0 .. m + 1 |-> IF i # m + 1 THEN g[i]
                                        ELSE IF IsRecent(s[i]) THEN Append(g[m], s[i])
                                        ELSE g[m]]
  <2>2. IsKept(s, m + 1, h)
    <3>1. /\ g[0] = <<>>
          /\ \A i \in 1 .. m : g[i] = IF IsRecent(s[i]) THEN Append(g[i - 1], s[i]) ELSE g[i - 1]
      BY <2>1, KeptSteps
    <3>2. \A i \in 0 .. m : h[i] = g[i]
      OBVIOUS
    <3>3. h[m + 1] = IF IsRecent(s[m + 1]) THEN Append(g[m], s[m + 1]) ELSE g[m]
      OBVIOUS
    <3>4. h = [i \in 0 .. m + 1 |-> h[i]]
      OBVIOUS
    <3> HIDE DEF h
    <3>5. h[0] = <<>>
      BY <3>1, <3>2
    <3>6. \A i \in 1 .. m + 1 : h[i] = IF IsRecent(s[i]) THEN Append(h[i - 1], s[i]) ELSE h[i - 1]
      <4> SUFFICES ASSUME NEW i \in 1 .. m + 1
                   PROVE  h[i] = IF IsRecent(s[i]) THEN Append(h[i - 1], s[i]) ELSE h[i - 1]
        OBVIOUS
      <4>1. CASE i = m + 1
        BY <3>2, <3>3, <4>1
      <4>2. CASE i # m + 1
        BY <3>1, <3>2, <4>2
      <4> QED
        BY <4>1, <4>2
    <3>7. \A i \in 0 .. m + 1 : h[i] = IF i = 0 THEN <<>>
                                        ELSE IF IsRecent(s[i]) THEN Append(h[i - 1], s[i])
                                        ELSE h[i - 1]
      BY <3>5, <3>6
    <3> QED
      BY <3>4, <3>7 DEF IsKept
  <2> HIDE DEF h
  <2> QED
    BY <2>2
<1> HIDE DEF Good
<1>3. Good = 0 .. n
  <2>1. Good \in SUBSET (0 .. n)
    BY DEF Good
  <2> QED
    BY <1>1, <1>2, <2>1, IntervalInduction
<1> QED
  BY <1>3 DEF Good

\* The recent times are some of the times.
LEMMA RecentOK ==
  ASSUME NEW S, NEW c, hits[c] \in Seq(S)
  PROVE  Recent(c) \in Seq(S) /\ Len(Recent(c)) <= Len(hits[c])
<1> DEFINE s == hits[c]
           n == Len(s)
           g == CHOOSE x : IsKept(s, n, x)
           Good == {i \in 0 .. n : g[i] \in Seq(S) /\ Len(g[i]) <= i}
<1>1. n \in Nat /\ \A i \in 1 .. n : s[i] \in S
  OBVIOUS
<1>2. IsKept(s, n, g)
  BY <1>1, KeptExists
<1>3. Recent(c) = g[n]
  BY RecentUnfolded
<1> HIDE DEF g, n, s
<1>4. g[0] = <<>> /\ \A i \in 1 .. n : g[i] = g[i - 1] \/ g[i] = Append(g[i - 1], s[i])
  <2>1. /\ g[0] = <<>>
        /\ \A i \in 1 .. n : g[i] = IF IsRecent(s[i]) THEN Append(g[i - 1], s[i]) ELSE g[i - 1]
    BY <1>1, <1>2, KeptSteps
  <2> QED
    BY <2>1
<1>5. 0 \in Good
  <2>1. <<>> \in Seq(S) /\ Len(<<>>) = 0 /\ 0 \in 0 .. n
    BY <1>1
  <2>2. g[0] \in Seq(S) /\ Len(g[0]) <= 0
    <3>1. g[0] = <<>>
      BY <1>4
    <3> HIDE DEF Good
    <3> QED
      BY <2>1, <3>1
  <2> QED
    BY <2>1, <2>2
<1>6. ASSUME NEW k \in 0 .. n - 1, k \in Good PROVE k + 1 \in Good
  <2>1. /\ k + 1 \in 1 .. n /\ (k + 1) - 1 = k
        /\ g[k] \in Seq(S) /\ Len(g[k]) <= k /\ s[k + 1] \in S
    BY <1>1, <1>6
  <2>2. g[k + 1] = g[k] \/ g[k + 1] = Append(g[k], s[k + 1])
    BY <1>4, <2>1
  <2>3. g[k + 1] \in Seq(S) /\ Len(g[k + 1]) <= k + 1
    <3>1. CASE g[k + 1] = g[k]
      BY <2>1, <3>1
    <3>2. CASE g[k + 1] = Append(g[k], s[k + 1])
      BY <2>1, <3>2
    <3> QED
      BY <2>2, <3>1, <3>2
  <2> QED
    BY <1>1, <2>1, <2>3
<1> HIDE DEF Good
<1>7. Good = 0 .. n
  <2>1. Good \in SUBSET (0 .. n)
    BY DEF Good
  <2> QED
    BY <1>1, <1>5, <1>6, <2>1, IntervalInduction
<1>8. n \in Good
  BY <1>1, <1>7
<1> QED
  BY <1>3, <1>8 DEF Good, n, s

LimitInv ==
  /\ now \in Nat
  /\ hits = [c \in Client |-> hits[c]]
  /\ \A c \in Client : hits[c] \in Seq(0 .. now) /\ Len(hits[c]) <= PerMin

LEMMA HitLimited ==
  ASSUME LimitInv, now' = now, NEW c \in Client, Hit(c)
  PROVE  LimitInv'
<1> DEFINE l == IF Allow(c) THEN Append(Recent(c), now) ELSE Recent(c)
<1>1. hits' = [hits EXCEPT ![c] = l]
  BY DEF Hit
<1>2. hits[c] \in Seq(0 .. now) /\ Len(hits[c]) <= PerMin /\ now \in 0 .. now
  BY DEF LimitInv
<1>3. Recent(c) \in Seq(0 .. now) /\ Len(Recent(c)) <= Len(hits[c])
  BY <1>2, RecentOK
<1>4. l \in Seq(0 .. now) /\ Len(l) <= PerMin
  <2>1. CASE Allow(c)
    <3>1. Len(Recent(c)) < PerMin /\ l = Append(Recent(c), now)
      BY <2>1 DEF Allow
    <3> DEFINE q == Recent(c)
    <3>2. q \in Seq(0 .. now) /\ Len(q) < PerMin /\ PerMin \in Nat /\ now \in 0 .. now
      BY <1>2, <1>3, <3>1, LauncherAssumption
    <3> HIDE DEF q
    <3>3. Append(q, now) \in Seq(0 .. now) /\ Len(Append(q, now)) <= PerMin
      BY <3>2
    <3> QED
      BY <3>1, <3>3 DEF q
  <2>2. CASE ~Allow(c)
    BY <1>2, <1>3, <2>2, LauncherAssumption
  <2> QED
    BY <2>1, <2>2
<1> HIDE DEF l
<1> QED
  BY <1>1, <1>4 DEF LimitInv

\* Transactions that were mined or failed, of one sender on one chain, and what
\* tells a transaction from the sender's others.
Settled(ch, by) == {t \in mined \cup failed : t.chain = ch /\ t.by = by}
Place(t)        == <<t.chain, t.by, t.nonce>>

\* The nonces of a sender's settled transactions are below their number, which
\* is the nonce of the next one.
NonceInv ==
  /\ IsFiniteSet(mined \cup failed)
  /\ sent \cap (mined \cup failed) = {}
  /\ \A t \in sent : t.by = Deployer
  /\ \A t \in mined \cup failed : t.nonce \in Nat /\ t.nonce < Cardinality(Settled(t.chain, t.by))
  /\ \A t, u \in mined \cup failed : Place(t) = Place(u) => t = u

LEMMA OneSettled ==
  ASSUME NonceInv, NEW t, t.nonce = Cardinality(Settled(t.chain, t.by)),
         mined' \cup failed' = (mined \cup failed) \cup {t},
         sent' \subseteq sent \ {t}
  PROVE  NonceInv'
<1> DEFINE all == mined \cup failed
<1>1. \A u \in all : Settled(u.chain, u.by) \subseteq all
  BY DEF Settled
<1>2. \A ch, by : IsFiniteSet(Settled(ch, by)) /\ Cardinality(Settled(ch, by)) \in Nat
  <2> SUFFICES ASSUME NEW ch, NEW by
               PROVE  IsFiniteSet(Settled(ch, by)) /\ Cardinality(Settled(ch, by)) \in Nat
    OBVIOUS
  <2>1. Settled(ch, by) \in SUBSET all
    BY DEF Settled
  <2>2. IsFiniteSet(Settled(ch, by))
    BY <2>1, FS_Subset DEF NonceInv
  <2> QED
    BY <2>2, FS_CardinalityType
<1>3. \A u \in all : Place(u) # Place(t)
  <2> SUFFICES ASSUME NEW u \in all, Place(u) = Place(t) PROVE FALSE
    OBVIOUS
  <2>1. u.chain = t.chain /\ u.by = t.by /\ u.nonce = t.nonce
    BY DEF Place
  <2>2. u.nonce \in Nat /\ u.nonce < Cardinality(Settled(t.chain, t.by))
    BY <2>1 DEF NonceInv
  <2> QED
    BY <2>1, <2>2
<1>4. t \notin all
  BY <1>3
<1>5. \A ch, by : Settled(ch, by)' = IF t.chain = ch /\ t.by = by THEN Settled(ch, by) \cup {t} ELSE Settled(ch, by)
  BY DEF Settled
<1>6. \A ch, by : /\ Cardinality(Settled(ch, by)') \in Nat
                  /\ Cardinality(Settled(ch, by)') >= Cardinality(Settled(ch, by))
                  /\ t.chain = ch /\ t.by = by =>
                       Cardinality(Settled(ch, by)') = Cardinality(Settled(ch, by)) + 1
  <2> SUFFICES ASSUME NEW ch, NEW by
               PROVE  /\ Cardinality(Settled(ch, by)') \in Nat
                      /\ Cardinality(Settled(ch, by)') >= Cardinality(Settled(ch, by))
                      /\ t.chain = ch /\ t.by = by =>
                           Cardinality(Settled(ch, by)') = Cardinality(Settled(ch, by)) + 1
    OBVIOUS
  <2>1. t \notin Settled(ch, by)
    BY <1>4 DEF Settled
  <2>2. Cardinality(Settled(ch, by) \cup {t}) = Cardinality(Settled(ch, by)) + 1
    BY <1>2, <2>1, FS_AddElement
  <2>3. IsFiniteSet(Settled(ch, by)) /\ Cardinality(Settled(ch, by)) \in Nat
    BY <1>2
  <2>4. CASE t.chain = ch /\ t.by = by
    <3>1. Settled(ch, by)' = Settled(ch, by) \cup {t}
      BY <1>5, <2>4
    <3> QED
      BY <2>2, <2>3, <3>1
  <2>5. CASE ~(t.chain = ch /\ t.by = by)
    <3>1. Settled(ch, by)' = Settled(ch, by)
      BY <1>5, <2>5
    <3> QED
      BY <2>3, <2>5, <3>1
  <2> QED
    BY <2>4, <2>5
<1>7. \A u \in mined' \cup failed' : u.nonce \in Nat /\ u.nonce < Cardinality(Settled(u.chain, u.by)')
  <2> SUFFICES ASSUME NEW u \in all \cup {t}
               PROVE  u.nonce \in Nat /\ u.nonce < Cardinality(Settled(u.chain, u.by)')
    OBVIOUS
  <2>1. CASE u \in all
    <3>1. u.nonce \in Nat /\ u.nonce < Cardinality(Settled(u.chain, u.by))
      BY <2>1 DEF NonceInv
    <3> QED
      BY <1>2, <1>6, <3>1
  <2>2. CASE u = t
    BY <1>2, <1>6, <2>2
  <2> QED
    BY <2>1, <2>2
<1>8. IsFiniteSet(mined' \cup failed')
  BY FS_AddElement DEF NonceInv
<1>9. sent' \cap (mined' \cup failed') = {} /\ \A u \in sent' : u.by = Deployer
  BY DEF NonceInv
<1>10. \A u, v \in mined' \cup failed' : Place(u) = Place(v) => u = v
  BY <1>3 DEF NonceInv
<1> QED
  BY <1>7, <1>8, <1>9, <1>10 DEF NonceInv, Settled, Place

LEMMA NoneSettled ==
  ASSUME NonceInv, UNCHANGED <<mined, failed>>, sent' \cap (mined \cup failed) = {},
         \A t \in sent' : t.by = Deployer
  PROVE  NonceInv'
BY DEF NonceInv, Settled, Place

\* Requests are where their handlers put them, and send for the launcher only.
Places == {"idle", "nonce", "send", "wait", "load", "save", "book", "look"}

PlaceOK(r) == r.pc \in Places /\ (r.pc = "send" => r.tx.by = Deployer)

PlaceInv == \A c \in Client : PlaceOK(req[c])

LEMMA PlaceStep ==
  ASSUME PlaceInv, NEW c \in Client,
         req' = [d \in Client |-> IF d = c THEN req'[c] ELSE req[d]], PlaceOK(req'[c])
  PROVE  PlaceInv'
<1>1. \A d \in Client : req'[d] = req[d] \/ d = c
  OBVIOUS
<1> QED
  BY <1>1 DEF PlaceInv, PlaceOK

LEMMA ReceiveKeepsTypes ==
  ASSUME RegisterInv, LimitInv, NonceInv, PlaceInv, NEW c \in Client, Receive(c)
  PROVE  LimitInv' /\ NonceInv' /\ PlaceInv'
<1>1. UNCHANGED <<sent, mined, failed, now>>
  BY DEF Receive, external
<1>2. NonceInv'
  BY <1>1, NoneSettled DEF NonceInv
<1>3. PICK o : \/ UNCHANGED <<hits, req, file, told>>
               \/ handleDeploy(c, o) \/ handleRegister(c, o) \/ handleLiquidityRegister(c, o)
               \/ handleFlashMirror(c, o) \/ handleFixPending(c, o) \/ handleListingBridge(c, o)
  BY DEF Receive
<1>4. hits' = hits \/ Hit(c)
  BY <1>3 DEF handleDeploy, handleRegister, handleLiquidityRegister, handleFlashMirror, handleFixPending,
     handleListingBridge
<1>5. LimitInv'
  <2>1. CASE hits' = hits
    BY <1>1, <2>1 DEF LimitInv
  <2> QED
    BY <1>1, <1>4, <2>1, HitLimited
<1>6. \/ req' = req
      \/ /\ req' = [d \in Client |-> IF d = c THEN req'[c] ELSE req[d]]
         /\ req'[c].pc \in {"nonce", "load", "book"}
  <2>2. CASE handleDeploy(c, o)
    BY <2>2 DEF handleDeploy, Refused, Go, RegisterInv
  <2>3. CASE handleRegister(c, o)
    <3> DEFINE r == Adding(Row(o.tx, AddressOf(o.tx), o.tx.chain, "metamask"))
    <3>1. r.pc = "load"
      BY DEF Adding
    <3> HIDE DEF r
    <3>2. UNCHANGED req \/ req' = [req EXCEPT ![c] = r]
      BY <2>3 DEF handleRegister, Refused, Go, r
    <3> QED
      BY <3>1, <3>2 DEF RegisterInv
  <2>4. CASE handleLiquidityRegister(c, o)
    BY <2>4 DEF handleLiquidityRegister, Go, RegisterInv
  <2>5. CASE handleFlashMirror(c, o)
    BY <2>5 DEF handleFlashMirror, Go, RegisterInv
  <2>6. CASE handleFixPending(c, o)
    BY <2>6 DEF handleFixPending, Go, RegisterInv
  <2>7. CASE handleListingBridge(c, o)
    BY <2>7 DEF handleListingBridge, Refused, Go, RegisterInv
  <2> QED
    BY <1>3, <2>2, <2>3, <2>4, <2>5, <2>6, <2>7
<1>7. PlaceInv'
  <2>1. CASE req' = req
    BY <2>1 DEF PlaceInv, PlaceOK
  <2>2. CASE req' # req
    BY <1>6, <2>2, PlaceStep DEF PlaceOK, Places
  <2> QED
    BY <2>1, <2>2
<1> QED
  BY <1>2, <1>5, <1>7

LEMMA ServingKeepsTypes ==
  ASSUME RegisterInv, LimitInv, NonceInv, PlaceInv, NEW c \in Client, Serving(c)
  PROVE  LimitInv' /\ NonceInv' /\ PlaceInv'
<1>1. UNCHANGED <<hits, now>>
  BY DEF Serving, Step
<1>2. LimitInv'
  BY <1>1 DEF LimitInv
<1>3. PlaceOK(req[c])
  BY DEF PlaceInv
<1>4. UNCHANGED external \/ Send(c)
  BY DEF Serving, ReadNonce, waitReceipt, LoadStore, SaveStore, LoadMirror, LookUpMirror
<1>5. NonceInv'
  <2>1. CASE UNCHANGED external
    BY <2>1, NoneSettled DEF NonceInv, external
  <2>2. CASE Send(c)
    <3> DEFINE t == req[c].tx
               rival == {u \in Sender(t.chain, t.by) : u.nonce = t.nonce}
    <3>1. UNCHANGED <<mined, failed>> /\ t.by = Deployer
      BY <1>3, <2>2 DEF Send, PlaceOK
    <3>2. CASE sent' = sent
      BY <3>1, <3>2, NoneSettled DEF NonceInv
    <3>3. CASE rival \subseteq sent \ {t} /\ sent' = (sent \ rival) \cup {t}
      <4>1. t \notin mined \cup failed
        BY <3>3 DEF Sender
      <4> HIDE DEF rival, t
      <4> QED
        BY <3>1, <3>3, <4>1, NoneSettled DEF NonceInv
    <3> QED
      BY <2>2, <3>2, <3>3, Zenon DEF Send
  <2> QED
    BY <1>4, <2>1, <2>2
<1>6. /\ req' = [d \in Client |-> IF d = c THEN req'[c] ELSE req[d]]
      /\ PlaceOK(req'[c])
  <2> USE DEF PlaceOK, Places, Go, Answer, Idle, RegisterInv
  <2>1. CASE ReadNonce(c)
    BY <2>1 DEF ReadNonce
  <2>2. CASE Send(c)
    BY <2>2 DEF Send
  <2>3. CASE waitReceipt(c)
    BY <2>3 DEF waitReceipt, Adding
  <2>4. CASE LoadStore(c)
    BY <2>4 DEF LoadStore
  <2>5. CASE SaveStore(c)
    BY <2>5 DEF SaveStore
  <2>6. CASE LoadMirror(c)
    BY <2>6 DEF LoadMirror
  <2>7. CASE LookUpMirror(c)
    BY <2>7 DEF LookUpMirror
  <2> QED
    BY <2>1, <2>2, <2>3, <2>4, <2>5, <2>6, <2>7 DEF Serving
<1>7. PlaceInv'
  BY <1>6, PlaceStep
<1> QED
  BY <1>2, <1>5, <1>7

LEMMA TypesStay ==
  ASSUME RegisterInv, LimitInv, NonceInv, PlaceInv, [LauncherNext]_launcherVars
  PROVE  LimitInv' /\ NonceInv' /\ PlaceInv'
<1>1. CASE UNCHANGED launcherVars
  BY <1>1, NoneSettled DEF launcherVars, external, LimitInv, NonceInv, PlaceInv
<1>2. ASSUME NEW c \in Client, Receive(c) \/ Serving(c)
      PROVE  LimitInv' /\ NonceInv' /\ PlaceInv'
  BY <1>2, ReceiveKeepsTypes, ServingKeepsTypes
<1>3. ASSUME NEW t \in sent, Mine(t)
      PROVE  LimitInv' /\ NonceInv' /\ PlaceInv'
  <2>1. UNCHANGED <<hits, now, req>>
    BY <1>3 DEF Mine
  <2>2. Sender(t.chain, t.by) \ sent = Settled(t.chain, t.by)
    BY DEF Sender, Settled, NonceInv
  <2>3. /\ t.nonce = Cardinality(Settled(t.chain, t.by))
        /\ mined' \cup failed' = (mined \cup failed) \cup {t}
        /\ sent' = sent \ {t}
    BY <1>3, <2>2 DEF Mine
  <2>4. NonceInv'
    BY <2>3, OneSettled
  <2> QED
    BY <2>1, <2>4 DEF LimitInv, PlaceInv
<1>4. ASSUME NEW ch \in EVM, NEW ok \in BOOLEAN, WalletDeploys(ch, ok)
      PROVE  LimitInv' /\ NonceInv' /\ PlaceInv'
  <2> DEFINE t == [by |-> "wallet", nonce |-> Cardinality(Sender(ch, "wallet")), chain |-> ch, params |-> Invalid]
  <2>1. UNCHANGED <<hits, now, req, sent>> /\ mined' \cup failed' = (mined \cup failed) \cup {t}
    BY <1>4 DEF WalletDeploys
  <2>2. t \notin sent
    BY LauncherAssumption DEF NonceInv
  <2>3. Sender(ch, "wallet") = Settled(t.chain, t.by)
    BY LauncherAssumption DEF Sender, Settled, NonceInv
  <2>4. t.nonce = Cardinality(Settled(t.chain, t.by)) /\ sent' \subseteq sent \ {t}
    BY <2>1, <2>2, <2>3
  <2> HIDE DEF t
  <2>5. NonceInv'
    BY <2>1, <2>4, OneSettled
  <2> QED
    BY <2>1, <2>5 DEF LimitInv, PlaceInv
<1>5. CASE Tick
  <2>1. UNCHANGED <<hits, sent, mined, failed, req>> /\ now' = now + 1
    BY <1>5 DEF Tick, external
  <2>2. NonceInv' /\ PlaceInv'
    BY <2>1, NoneSettled DEF NonceInv, PlaceInv
  <2>3. LimitInv'
    <3>1. now \in Nat /\ now' \in Nat /\ 0 .. now \subseteq 0 .. now'
      BY <2>1 DEF LimitInv
    <3>2. \A c \in Client : hits[c] \in Seq(0 .. now') /\ Len(hits[c]) <= PerMin
      BY <3>1 DEF LimitInv
    <3> QED
      BY <2>1, <3>1, <3>2 DEF LimitInv
  <2> QED
    BY <2>2, <2>3
<1>6. CASE Crash
  <2>1. UNCHANGED <<now, sent, mined, failed>> /\ req' = [c \in Client |-> Idle] /\ hits' = [c \in Client |-> <<>>]
    BY <1>6 DEF Crash, external
  <2>2. NonceInv'
    BY <2>1, NoneSettled DEF NonceInv
  <2>3. PlaceInv'
    BY <2>1 DEF PlaceInv, PlaceOK, Places, Idle
  <2>4. LimitInv'
    <3>1. \A S : <<>> \in Seq(S) /\ Len(<<>>) = 0
      OBVIOUS
    <3> QED
      BY <2>1, <3>1, LauncherAssumption DEF LimitInv
  <2> QED
    BY <2>2, <2>3, <2>4
<1> QED
  BY <1>1, <1>2, <1>3, <1>4, <1>5, <1>6 DEF LauncherNext

LEMMA TypesStart == LauncherInit => LimitInv /\ NonceInv /\ PlaceInv
<1> SUFFICES ASSUME LauncherInit PROVE LimitInv /\ NonceInv /\ PlaceInv
  OBVIOUS
<1>1. LimitInv
  <2>1. <<>> \in Seq(0 .. 0) /\ Len(<<>>) = 0
    OBVIOUS
  <2> QED
    BY <2>1, LauncherAssumption DEF LauncherInit, LimitInv
<1>2. NonceInv
  <2>1. sent = {} /\ mined \cup failed = {}
    BY DEF LauncherInit
  <2> QED
    BY <2>1, FS_EmptySet DEF NonceInv
<1>3. PlaceInv
  BY DEF LauncherInit, PlaceInv, PlaceOK, Places, Idle
<1> QED
  BY <1>1, <1>2, <1>3

\* The limiter never holds more requests of a client than the limit, none of them
\* from the future (rateLimiter.Allow), and whatever is sent, replaced or refused,
\* no account has two settled transactions with one nonce on a chain.
THEOREM LauncherTypeCorrect == LauncherSpec => []LauncherTypeOK
<1>1. RegisterInv /\ LimitInv /\ NonceInv /\ PlaceInv => LauncherTypeOK
  <2> SUFFICES ASSUME RegisterInv, LimitInv, NonceInv, PlaceInv PROVE LauncherTypeOK
    OBVIOUS
  <2>1. DOMAIN file = {"tokens", "liquidity", "listings", "live"}
    BY DEF RegisterInv, Stores
  <2>2. \A c \in Client : Len(hits[c]) <= PerMin /\ \A i \in DOMAIN hits[c] : hits[c][i] \in 0 .. now
    BY DEF LimitInv
  <2>3. \A c \in Client : req[c].pc \in {"idle", "nonce", "send", "wait", "load", "save", "book", "look"}
    BY DEF PlaceInv, PlaceOK, Places
  <2>4. \A t, u \in mined \cup failed : <<t.chain, t.by, t.nonce>> = <<u.chain, u.by, u.nonce>> => t = u
    BY DEF NonceInv, Place
  <2> QED
    BY <2>1, <2>2, <2>3, <2>4 DEF LauncherTypeOK
<1>2. /\ RegisterInv /\ LimitInv /\ NonceInv /\ PlaceInv /\ [LauncherNext]_launcherVars
      => RegisterInv' /\ LimitInv' /\ NonceInv' /\ PlaceInv'
  BY RegisterInvStep, TypesStay
<1> QED
  BY <1>1, <1>2, RegisterInvInit, TypesStart, PTL DEF LauncherSpec

(***************************************************************************)
(* One client at a time, and nothing fails.                                *)
(***************************************************************************)

Alone == Cardinality(Using(menu)) = 1 /\ ~Faulty(menu)

IsList(list) == \E S : list \in Seq(S)

\* A store holds what a client was told it does.
Keeps(store, list, e) ==
  CASE store = "tokens"    -> Holds(list, e.addr)
    [] store = "liquidity" -> \E i \in DOMAIN list : list[i] = e
    [] store = "listings"  -> \E l \in list : l.key = e.key

\* What a store may be.
IsStore(store, list) ==
  /\ store \in {"tokens", "liquidity"} => IsList(list)
  /\ store = "listings" => list \subseteq ListingRecord(menu)

Mode(store) ==
  CASE store = "tokens" -> {"add", "upsert"} [] store = "liquidity" -> {"append"} [] store = "listings" -> {"key"}

\* A request waits with a record for a store, or with what the store is to be,
\* which holds what is there already and the record.
Keeping(r) ==
  /\ r.pc = "load" =>
       /\ r.store \in {"tokens", "liquidity", "listings"} /\ r.mode \in Mode(r.store)
       /\ r.store = "listings" => r.rec \in ListingRecord(menu)
  /\ r.pc = "save" /\ r.store # "live" =>
       /\ r.store \in {"tokens", "liquidity", "listings"}
       /\ IsStore(r.store, r.copy)
       /\ Keeps(r.store, r.copy, r.rec)
       /\ \A e : Keeps(r.store, file[r.store], e) => Keeps(r.store, r.copy, e)

KeepInv ==
  /\ \A c \in Client : req[c].pc # "idle" => c \in Using(menu)
  /\ \A s \in {"tokens", "liquidity", "listings"} : IsStore(s, file[s])
  /\ \A c \in Client : Keeping(req[c])
  /\ \A x \in told : x[1] \in {"tokens", "liquidity", "listings"} /\ Keeps(x[1], file[x[1]], x[2])

LEMMA OneClient ==
  ASSUME menu \in Menu, Alone, NEW c \in Using(menu), NEW d \in Using(menu)
  PROVE  c = d
<1>1. \E u : Using(menu) = {u}
  BY MenuAssumption, FS_Singleton DEF Alone
<1> QED
  BY <1>1

\* What was stored stays when a record is added, put in its place or appended.
LEMMA StoredKeeps ==
  ASSUME menu \in Menu, NEW r, NEW old,
         r.store \in {"tokens", "liquidity", "listings"}, r.mode \in Mode(r.store),
         r.store = "listings" => r.rec \in ListingRecord(menu),
         IsStore(r.store, old), CanStore(r, old)
  PROVE  /\ IsStore(r.store, Stored(r, old))
         /\ Keeps(r.store, Stored(r, old), r.rec)
         /\ \A e : Keeps(r.store, old, e) => Keeps(r.store, Stored(r, old), e)
<1> DEFINE x   == r.rec
           new == Stored(r, old)
<1>1. ASSUME IsList(old), new = Append(old, x)
      PROVE  /\ IsList(new)
             /\ DOMAIN new = DOMAIN old \cup {Len(old) + 1}
             /\ new[Len(old) + 1] = x
             /\ \A i \in DOMAIN old : new[i] = old[i]
  <2>1. PICK S : old \in Seq(S)
    BY <1>1 DEF IsList
  <2> HIDE DEF new, x
  <2>2. old \in Seq(S \cup {x}) /\ x \in S \cup {x}
    BY <2>1
  <2>3. /\ new \in Seq(S \cup {x})
        /\ DOMAIN new = DOMAIN old \cup {Len(old) + 1}
        /\ new[Len(old) + 1] = x
        /\ \A i \in DOMAIN old : new[i] = old[i]
    BY <1>1, <2>2
  <2> QED
    BY <2>3 DEF IsList
<1>2. CASE r.store = "tokens"
  <2>1. IsList(old) /\ r.mode \in {"add", "upsert"}
    BY <1>2 DEF IsStore, Mode
  <2>2. CASE ~Holds(old, x.addr)
    <3>1. new = Append(old, x)
      BY <2>1, <2>2 DEF Stored
    <3>2. /\ IsList(new)
          /\ DOMAIN new = DOMAIN old \cup {Len(old) + 1}
          /\ new[Len(old) + 1] = x
          /\ \A i \in DOMAIN old : new[i] = old[i]
      BY <1>1, <2>1, <3>1
    <3> HIDE DEF new, x
    <3>3. Holds(new, x.addr) /\ \A e : Holds(old, e.addr) => Holds(new, e.addr)
      BY <3>2 DEF Holds
    <3> QED
      BY <1>2, <3>2, <3>3 DEF IsStore, Keeps, new, x
  <2>3. CASE Holds(old, x.addr)
    <3>1. new = [i \in DOMAIN old |-> IF old[i].addr = x.addr THEN x ELSE old[i]]
      BY <2>1, <2>3 DEF Stored, CanStore
    <3> HIDE DEF new, x
    <3>2. PICK S : old \in Seq(S)
      BY <2>1 DEF IsList
    <3>3. DOMAIN new = DOMAIN old /\ \A i \in DOMAIN old : new[i] \in S \cup {x} /\ new[i].addr = old[i].addr
      BY <3>1, <3>2
    <3>4. new \in Seq(S \cup {x})
      BY <3>1, <3>2, <3>3
    <3>5. Holds(new, x.addr) /\ \A e : Holds(old, e.addr) => Holds(new, e.addr)
      BY <2>3, <3>3 DEF Holds
    <3> QED
      BY <1>2, <3>4, <3>5 DEF IsStore, Keeps, IsList, new, x
  <2> QED
    BY <2>2, <2>3
<1>3. CASE r.store = "liquidity"
  <2>1. IsList(old) /\ new = Append(old, x)
    BY <1>3 DEF IsStore, Mode, Stored
  <2>2. /\ IsList(new)
        /\ DOMAIN new = DOMAIN old \cup {Len(old) + 1}
        /\ new[Len(old) + 1] = x
        /\ \A i \in DOMAIN old : new[i] = old[i]
    BY <1>1, <2>1
  <2> HIDE DEF new, x
  <2>3. /\ \E i \in DOMAIN new : new[i] = x
        /\ \A e : (\E i \in DOMAIN old : old[i] = e) => \E i \in DOMAIN new : new[i] = e
    BY <2>2
  <2> QED
    BY <1>3, <2>2, <2>3 DEF IsStore, Keeps, new, x
<1>4. CASE r.store = "listings"
  <2>1. old \subseteq ListingRecord(menu) /\ x \in ListingRecord(menu) /\ r.mode = "key"
    BY <1>4 DEF IsStore, Mode
  <2>2. old # Torn
    BY <2>1, MenuAssumption
  <2>3. new = {y \in old : y.key # x.key} \cup {x}
    BY <2>1, <2>2 DEF Stored
  <2> HIDE DEF new, x
  <2>4. /\ new \subseteq ListingRecord(menu)
        /\ \E l \in new : l.key = x.key
        /\ \A e : (\E l \in old : l.key = e.key) => \E l \in new : l.key = e.key
    BY <2>1, <2>3
  <2> QED
    BY <1>4, <2>4 DEF IsStore, Keeps, new, x
<1> QED
  BY <1>2, <1>3, <1>4

\* A step of one request, of the client that is alone, that writes no file.
LEMMA KeepStep ==
  ASSUME KeepInv, NEW c \in Client, c \in Using(menu),
         req' = [d \in Client |-> IF d = c THEN req'[c] ELSE req[d]],
         Keeping(req[c])',
         UNCHANGED <<menu, file, told>>
  PROVE  KeepInv'
<1>1. ASSUME NEW d \in Client, d # c
      PROVE  Keeping(req[d])' /\ (req'[d].pc # "idle" => d \in Using(menu))
  <2>1. req'[d] = req[d] /\ Keeping(req[d]) /\ (req[d].pc # "idle" => d \in Using(menu))
    BY <1>1 DEF KeepInv
  <2> QED
    BY <2>1 DEF Keeping, IsStore
<1>2. req'[c].pc # "idle" => c \in Using(menu)
  OBVIOUS
<1>3. \A s \in {"tokens", "liquidity", "listings"} : IsStore(s, file[s])'
  BY DEF KeepInv, IsStore
<1>4. \A x \in told' : x[1] \in {"tokens", "liquidity", "listings"} /\ Keeps(x[1], file'[x[1]], x[2])
  BY DEF KeepInv
<1> QED
  BY <1>1, <1>2, <1>3, <1>4 DEF KeepInv

LEMMA KeepingElsewhere ==
  ASSUME NEW r, r.pc \notin {"load", "save"} \/ (r.pc = "save" /\ r.store = "live")
  PROVE  Keeping(r)
BY DEF Keeping

ListingOf(key, ready, deep) ==
  [key |-> key, ready |-> ready, coingecko |-> ready, coinmarketcap |-> ready /\ deep]

LEMMA RecordOffered ==
  ASSUME NEW o \in Offered(menu), o.op = "listing", NEW ready \in BOOLEAN, NEW deep \in BOOLEAN
  PROVE  ListingOf(<<RegistrySlug(o.chain), o.token>>, ready, deep) \in ListingRecord(menu)
BY SMT DEF ListingRecord, ListingOf

LEMMA AtLeast == ASSUME NEW n, NEW m PROVE \E d \in BOOLEAN : d <=> (n >= m)
OBVIOUS

LEMMA ListingRecorded ==
  ASSUME NEW o \in Offered(menu), o.op = "listing", NEW liq, NEW holders
  PROVE  Listing(RegistrySlug(o.chain), o.token, liq, holders) \in ListingRecord(menu)
<1> DEFINE up    == Slug(RegistrySlug(o.chain)) \in EVM /\ Deployed(Slug(RegistrySlug(o.chain)), o.token)
           ready == Ready(up, liq, holders)
           key   == <<RegistrySlug(o.chain), o.token>>
<1>1. Listing(RegistrySlug(o.chain), o.token, liq, holders) = ListingOf(key, ready, liq >= 5000)
  BY Zenon DEF Listing, ListingOf
<1> HIDE DEF ready, key
<1>2. ready \in BOOLEAN
  BY SMT DEF ready, Ready
<1>3. PICK d \in BOOLEAN : d <=> (liq >= 5000)
  BY AtLeast
<1>4. ListingOf(key, ready, d) \in ListingRecord(menu)
  BY <1>2, RecordOffered DEF key
<1>5. ListingOf(key, ready, liq >= 5000) \in ListingRecord(menu)
  BY <1>3, <1>4, SMT
<1> QED
  BY <1>1, <1>5, SMT

\* What a client asks for.
LEMMA ReceiveKeeps ==
  ASSUME RegisterInv, KeepInv, NEW c \in Client, Receive(c)
  PROVE  KeepInv'
<1>1. c \in Using(menu) /\ menu' = menu
  BY DEF Receive
<1>2. PICK o \in Offered(menu) : \/ UNCHANGED <<hits, req, file, told>>
               \/ handleDeploy(c, o) \/ handleRegister(c, o) \/ handleLiquidityRegister(c, o)
               \/ handleFlashMirror(c, o) \/ handleFixPending(c, o) \/ handleListingBridge(c, o)
  BY DEF Receive
<1>3. UNCHANGED <<file, told>>
  BY <1>2 DEF handleDeploy, handleRegister, handleLiquidityRegister, handleFlashMirror, handleFixPending,
     handleListingBridge, Refused
<1> DEFINE One == req' = [d \in Client |-> IF d = c THEN req'[c] ELSE req[d]]
<1>4. req' = req \/ (One /\ Keeping(req[c])')
  <2>1. CASE handleDeploy(c, o)
    <3>1. req' = req \/ (One /\ req'[c].pc = "nonce")
      BY <2>1 DEF handleDeploy, Refused, Go, RegisterInv
    <3> QED
      BY <3>1 DEF Keeping
  <2>2. CASE handleRegister(c, o)
    <3> DEFINE x == Row(o.tx, AddressOf(o.tx), o.tx.chain, "metamask")
    <3>1. req' = req \/ (One /\ req'[c] = Adding(x))
      BY <2>2 DEF handleRegister, Refused, Go, RegisterInv
    <3> HIDE DEF x
    <3>2. One /\ req'[c] = Adding(x) => Keeping(req[c])'
      BY DEF Keeping, Adding, Mode
    <3> QED
      BY <3>1, <3>2
  <2>3. CASE handleLiquidityRegister(c, o)
    <3>1. One /\ req'[c].pc = "load" /\ req'[c].store = "liquidity" /\ req'[c].mode = "append"
      BY <2>3 DEF handleLiquidityRegister, Go, RegisterInv
    <3> QED
      BY <3>1 DEF Keeping, Mode
  <2>4. CASE handleFlashMirror(c, o)
    <3>1. req' = req \/ (One /\ req'[c].pc = "book")
      BY <2>4 DEF handleFlashMirror, Go, RegisterInv
    <3> QED
      BY <3>1 DEF Keeping
  <2>5. CASE handleFixPending(c, o)
    <3>1. \/ req' = req
          \/ One /\ req'[c].pc = "load" /\ req'[c].store = "tokens" /\ req'[c].mode = "upsert"
          \/ One /\ req'[c].pc = "book"
      BY <2>5 DEF handleFixPending, Go, RegisterInv
    <3> QED
      BY <3>1 DEF Keeping, Mode
  <2>6. CASE handleListingBridge(c, o)
    <3> DEFINE ch == RegistrySlug(o.chain)
    <3>1. \/ req' = req
          \/ \E liq, holders :
               req' = [req EXCEPT ![c] =
                 [pc |-> "load", store |-> "listings", mode |-> "key", next |-> "done",
                  rec |-> Listing(ch, o.token, liq, holders)]]
      BY <2>6 DEF handleListingBridge, Refused, Go
    <3>2. CASE req' # req
      <4>1. PICK liq, holders :
               req' = [req EXCEPT ![c] =
                 [pc |-> "load", store |-> "listings", mode |-> "key", next |-> "done",
                  rec |-> Listing(ch, o.token, liq, holders)]]
        BY <3>1, <3>2
      <4>2. Listing(ch, o.token, liq, holders) \in ListingRecord(menu)
        BY <2>6, ListingRecorded DEF handleListingBridge
      <4> DEFINE x == Listing(ch, o.token, liq, holders)
      <4> HIDE DEF x
      <4>3. One /\ req'[c] = [pc |-> "load", store |-> "listings", mode |-> "key", next |-> "done", rec |-> x]
        BY <4>1 DEF RegisterInv, x
      <4>4. ListingRecord(menu') = ListingRecord(menu)
        BY <1>1
      <4>5. x \in ListingRecord(menu')
        BY <4>2, <4>4 DEF x
      <4>6. /\ req'[c].pc = "load" /\ req'[c].store = "listings" /\ req'[c].mode = "key"
            /\ req'[c].rec \in ListingRecord(menu')
        BY <4>3, <4>5
      <4>7. ListingRecord(menu)' = ListingRecord(menu')
        OBVIOUS
      <4> QED
        BY <4>3, <4>6, <4>7 DEF Keeping, Mode
    <3> QED
      BY <3>2
  <2> QED
    BY <1>2, <2>1, <2>2, <2>3, <2>4, <2>5, <2>6
<1>5. CASE req' = req
  BY <1>1, <1>3, <1>5 DEF KeepInv, Keeping, IsStore
<1> QED
  BY <1>1, <1>3, <1>4, <1>5, KeepStep

\* The steps of a request.
LEMMA ServingKeeps ==
  ASSUME RegisterInv, menu \in Menu, Alone, KeepInv, NEW c \in Client, Serving(c)
  PROVE  KeepInv'
<1>1. req[c].pc # "idle" /\ menu' = menu
  BY DEF Serving, Step, ReadNonce, Send, waitReceipt, LoadStore, SaveStore, LoadMirror, LookUpMirror
<1>2. c \in Using(menu) /\ Keeping(req[c])
  BY <1>1 DEF KeepInv
<1> DEFINE One == req' = [d \in Client |-> IF d = c THEN req'[c] ELSE req[d]]
<1>3. CASE ReadNonce(c) \/ Send(c) \/ LoadMirror(c) \/ LookUpMirror(c)
  <2>1. /\ One /\ UNCHANGED <<file, told>>
        /\ \/ req'[c].pc \in {"send", "wait", "idle", "look"}
           \/ req'[c].pc = "save" /\ req'[c].store = "live"
    BY <1>3 DEF ReadNonce, Send, LoadMirror, LookUpMirror, Answer, Idle, Go, RegisterInv
  <2>2. Keeping(req[c])'
    BY <2>1 DEF Keeping
  <2> QED
    BY <1>1, <1>2, <2>1, <2>2, KeepStep
<1>4. CASE waitReceipt(c)
  <2> DEFINE x == Row(req[c].tx, AddressOf(req[c].tx), req[c].tx.chain, "backend")
  <2>1. /\ One /\ UNCHANGED <<file, told>>
        /\ req'[c].pc = "idle" \/ req'[c] = Adding(x)
    BY <1>4 DEF waitReceipt, Answer, Idle, Go, RegisterInv
  <2> HIDE DEF x
  <2>2. Keeping(req[c])'
    BY <2>1 DEF Keeping, Adding, Mode
  <2> QED
    BY <1>1, <1>2, <2>1, <2>2, KeepStep
<1>5. CASE LoadStore(c)
  <2> DEFINE r    == req[c]
             old  == file[r.store]
             copy == Stored(r, old)
  <2>1. /\ One /\ UNCHANGED <<file, told>> /\ r.pc = "load"
        /\ \/ req'[c].pc = "idle"
           \/ /\ CanStore(r, old)
              /\ req'[c] = [pc |-> "save", store |-> r.store, rec |-> r.rec, next |-> r.next, copy |-> copy]
    BY <1>5 DEF LoadStore, Answer, Idle, Go, RegisterInv
  <2>2. CASE CanStore(r, old) /\ req'[c].pc # "idle"
    <3>1. /\ r.store \in {"tokens", "liquidity", "listings"} /\ r.mode \in Mode(r.store)
          /\ r.store = "listings" => r.rec \in ListingRecord(menu)
      BY <1>2, <2>1 DEF Keeping
    <3>2. IsStore(r.store, old)
      BY <3>1 DEF KeepInv
    <3> HIDE DEF r, old
    <3>3. /\ IsStore(r.store, copy) /\ Keeps(r.store, copy, r.rec)
          /\ \A e : Keeps(r.store, old, e) => Keeps(r.store, copy, e)
      BY <2>2, <3>1, <3>2, StoredKeeps
    <3> HIDE DEF copy
    <3>4. /\ req'[c].pc = "save" /\ req'[c].store = r.store /\ req'[c].rec = r.rec /\ req'[c].copy = copy
          /\ file'[r.store] = old
      BY <2>1, <2>2 DEF old
    <3>5. Keeping(req[c])'
      BY <1>1, <3>1, <3>3, <3>4 DEF Keeping, IsStore
    <3> QED
      BY <1>1, <1>2, <2>1, <3>5, KeepStep
  <2>3. CASE req'[c].pc = "idle"
    <3>1. Keeping(req[c])'
      BY <2>3 DEF Keeping
    <3> QED
      BY <1>1, <1>2, <2>1, <3>1, KeepStep
  <2> QED
    BY <2>1, <2>2, <2>3
<1>6. CASE SaveStore(c)
  <2> DEFINE r == req[c]
  <2>1. /\ One /\ r.pc = "save"
        /\ req'[c].pc \in {"book", "idle"}
        /\ file' = [s \in Stores |-> IF s = r.store THEN r.copy ELSE file[s]]
        /\ told' = IF r.store = "live" THEN told ELSE told \cup {<<r.store, r.rec>>}
    BY <1>6 DEF SaveStore, Answer, Idle, Go, RegisterInv
  <2>2. \A d \in Client : d # c => req'[d] = req[d] /\ req[d].pc = "idle"
    BY <1>2, <2>1, OneClient DEF KeepInv
  <2>3. \A d \in Client : Keeping(req[d])' /\ (req'[d].pc # "idle" => d \in Using(menu))
    BY <1>2, <2>1, <2>2 DEF Keeping
  <2>4. \A s \in {"tokens", "liquidity", "listings"} :
          s \in Stores /\ file'[s] = IF s = r.store THEN r.copy ELSE file[s]
    BY <2>1 DEF Stores
  <2>5. CASE r.store = "live"
    <3>1. told' = told /\ \A s \in {"tokens", "liquidity", "listings"} : file'[s] = file[s]
      BY <2>1, <2>4, <2>5
    <3>2. \A s \in {"tokens", "liquidity", "listings"} : IsStore(s, file[s])'
      BY <1>1, <3>1 DEF KeepInv, IsStore
    <3>3. \A x \in told' : x[1] \in {"tokens", "liquidity", "listings"} /\ Keeps(x[1], file'[x[1]], x[2])
      BY <3>1 DEF KeepInv
    <3> QED
      BY <1>1, <2>3, <3>2, <3>3 DEF KeepInv
  <2>6. CASE r.store # "live"
    <3>1. /\ r.store \in {"tokens", "liquidity", "listings"}
          /\ IsStore(r.store, r.copy)
          /\ Keeps(r.store, r.copy, r.rec)
          /\ \A e : Keeps(r.store, file[r.store], e) => Keeps(r.store, r.copy, e)
      BY <1>2, <2>1, <2>6 DEF Keeping
    <3> HIDE DEF r
    <3>2. \A s \in {"tokens", "liquidity", "listings"} : IsStore(s, file[s])'
      BY <1>1, <2>4, <3>1 DEF KeepInv, IsStore
    <3>3. told' = told \cup {<<r.store, r.rec>>} /\ file'[r.store] = r.copy
      BY <2>1, <2>4, <2>6, <3>1
    <3>4. ASSUME NEW x \in told
          PROVE  x[1] \in {"tokens", "liquidity", "listings"} /\ Keeps(x[1], file'[x[1]], x[2])
      <4>1. x[1] \in {"tokens", "liquidity", "listings"} /\ Keeps(x[1], file[x[1]], x[2])
        BY DEF KeepInv
      <4>2. CASE x[1] = r.store
        BY <3>1, <3>3, <4>1, <4>2
      <4>3. CASE x[1] # r.store
        <5>1. file'[x[1]] = file[x[1]]
          BY <2>4, <4>1, <4>3
        <5> QED
          BY <4>1, <5>1
      <4> QED
        BY <4>2, <4>3
    <3>5. Keeps(r.store, file'[r.store], r.rec)
      BY <3>1, <3>3
    <3>6. \A x \in told' : x[1] \in {"tokens", "liquidity", "listings"} /\ Keeps(x[1], file'[x[1]], x[2])
      <4> SUFFICES ASSUME NEW x \in told'
                   PROVE  x[1] \in {"tokens", "liquidity", "listings"} /\ Keeps(x[1], file'[x[1]], x[2])
        OBVIOUS
      <4>1. CASE x \in told
        BY <3>4, <4>1
      <4>2. CASE x = <<r.store, r.rec>>
        <5>1. x[1] = r.store /\ x[2] = r.rec
          BY <4>2
        <5> QED
          BY <3>1, <3>5, <5>1
      <4> QED
        BY <3>3, <4>1, <4>2
    <3> QED
      BY <1>1, <2>3, <3>2, <3>6 DEF KeepInv
  <2> QED
    BY <2>5, <2>6
<1> QED
  BY <1>3, <1>4, <1>5, <1>6 DEF Serving

LEMMA KeepStays ==
  ASSUME RegisterInv, menu \in Menu, Alone, KeepInv, [LauncherNext]_launcherVars
  PROVE  KeepInv'
<1>1. ASSUME UNCHANGED <<menu, file, req, told>> PROVE KeepInv'
  BY <1>1 DEF KeepInv, Keeping, IsStore
<1>2. CASE UNCHANGED launcherVars
  BY <1>1, <1>2 DEF launcherVars
<1>3. ASSUME NEW c \in Client, Receive(c) \/ Serving(c) PROVE KeepInv'
  BY <1>3, ReceiveKeeps, ServingKeeps
<1>4. ASSUME NEW t \in sent, Mine(t) PROVE KeepInv'
  BY <1>1, <1>4 DEF Mine
<1>5. ASSUME NEW ch \in EVM, NEW ok \in BOOLEAN, WalletDeploys(ch, ok) PROVE KeepInv'
  BY <1>1, <1>5 DEF WalletDeploys
<1>6. CASE Tick
  BY <1>1, <1>6 DEF Tick
<1>7. ~Crash
  BY DEF Crash, Alone
<1> QED
  BY <1>2, <1>3, <1>4, <1>5, <1>6, <1>7 DEF LauncherNext

LEMMA MenuStays ==
  ASSUME menu \in Menu, [LauncherNext]_launcherVars
  PROVE  menu' = menu
BY DEF LauncherNext, launcherVars, Receive, Serving, Step, Mine, WalletDeploys, Tick, Crash

LEMMA KeepStart == LauncherInit => menu \in Menu /\ KeepInv
<1> SUFFICES ASSUME LauncherInit PROVE menu \in Menu /\ KeepInv
  OBVIOUS
<1>1. /\ menu \in Menu /\ told = {} /\ req = [c \in Client |-> Idle]
      /\ file.tokens = <<>> /\ file.liquidity = <<>> /\ file.listings = {}
  BY DEF LauncherInit
<1>2. <<>> \in Seq({})
  OBVIOUS
<1>3. \A s \in {"tokens", "liquidity", "listings"} : IsStore(s, file[s])
  BY <1>1, <1>2 DEF IsStore, IsList
<1>4. \A c \in Client : req[c].pc = "idle" /\ Keeping(req[c])
  BY <1>1 DEF Idle, Keeping
<1> QED
  BY <1>1, <1>3, <1>4 DEF KeepInv

\* While one client is served at a time and nothing fails, what the client was
\* told is stored stays in the register, among the liquidity or among the
\* listings (TokenStore, LiquidityStore, saveListingBridge).
THEOREM WhatIsToldIsStored == LauncherSpec => []AnswersStored
<1> DEFINE Inv == RegisterInv /\ menu \in Menu /\ (Alone => KeepInv)
<1>1. LauncherInit => Inv
  BY RegisterInvInit, KeepStart
<1>2. Inv /\ [LauncherNext]_launcherVars => Inv'
  <2> SUFFICES ASSUME Inv, [LauncherNext]_launcherVars PROVE Inv'
    OBVIOUS
  <2>1. menu' = menu
    BY MenuStays
  <2>2. Alone' => Alone
    BY <2>1 DEF Alone
  <2> QED
    BY <2>1, <2>2, RegisterInvStep, KeepStays
<1>3. Inv => AnswersStored
  <2> SUFFICES ASSUME Inv, Alone, NEW x \in told
               PROVE  CASE x[1] = "tokens"    -> Holds(handleTokens, x[2].addr)
                        [] x[1] = "liquidity" -> \E i \in DOMAIN file.liquidity : file.liquidity[i] = x[2]
                        [] x[1] = "listings"  -> \E l \in file.listings : l.key = x[2].key
    BY DEF AnswersStored, Alone
  <2>1. x[1] \in {"tokens", "liquidity", "listings"} /\ Keeps(x[1], file[x[1]], x[2])
    BY DEF KeepInv
  <2>2. CASE x[1] = "tokens"
    <3>1. Holds(file.tokens, x[2].addr) /\ IsList(file.tokens)
      BY <2>1, <2>2 DEF Keeps, KeepInv, IsStore
    <3>2. PICK S : file.tokens \in Seq(S)
      BY <3>1 DEF IsList
    <3> DEFINE y == Row(NoTx, loadFlashMirrorBook(file.live).canonical, "bsc", "mirror")
    <3>3. handleTokens \in {file.tokens, Append(file.tokens, y)}
      BY Zenon DEF handleTokens
    <3> HIDE DEF y
    <3>4. \A i \in DOMAIN file.tokens : i \in DOMAIN Append(file.tokens, y) /\ Append(file.tokens, y)[i] = file.tokens[i]
      <4>1. file.tokens \in Seq(S \cup {y})
        BY <3>2
      <4> QED
        BY <4>1
    <3>5. Holds(handleTokens, x[2].addr)
      BY <3>1, <3>3, <3>4 DEF Holds
    <3> QED
      BY <2>2, <3>5
  <2>3. CASE x[1] = "liquidity"
    BY <2>1, <2>3 DEF Keeps
  <2>4. CASE x[1] = "listings"
    BY <2>1, <2>4 DEF Keeps
  <2> QED
    BY <2>1, <2>2, <2>3, <2>4
<1> QED
  BY <1>1, <1>2, <1>3, PTL DEF LauncherSpec
=============================================================================
