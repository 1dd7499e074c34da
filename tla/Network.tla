------------------------------ MODULE Network ------------------------------
(***************************************************************************)
(* The peer-to-peer layer of several nodes (internal/network/network.go):  *)
(* dialling a seed, the exchange of hellos, the table of peers, the reply  *)
(* to a request for blocks, and the broadcast of blocks and transactions.  *)
(*                                                                         *)
(* A connection is a pair <<dialer, seed>> with two ends.  One goroutine   *)
(* reads each end; other goroutines write to it at any time.  A node's     *)
(* chain is here the sequence of its blocks' labels, the stamp of its      *)
(* genesis block and then the miner of each block; a block is the sequence *)
(* up to it, so that it determines its ancestors as a hash does.           *)
(***************************************************************************)
EXTENDS Integers, Sequences

CONSTANTS
  Nodes,
  Dials,      \* the connections the seed lists ask for: <<dialer, seed>>
  Stamps,     \* the times at which a genesis block may be made
  Miners,     \* the nodes that mine
  Clients,    \* the nodes that a wallet submits a transaction to
  Answering,  \* peers of other software, which answer a hello with a hello
  ChainID,    \* the chain id of each node
  MaxHeight,  \* bound: no block is mined above this index
  Lossy       \* whether readMsg meets more than one message in the socket

ASSUME NetworkAssumption ==
  /\ Dials \subseteq Nodes \X Nodes
  /\ Stamps \cap Nodes = {}
  /\ Miners \subseteq Nodes /\ Clients \subseteq Nodes /\ Answering \subseteq Nodes
  /\ MaxHeight \in Nat /\ Lossy \in BOOLEAN

VARIABLES
  chain,     \* the blocks of each node
  pool,      \* the transactions of each node; one is named for its first node
  peers,     \* Server.peers: for each peer id, the height it said and the end
  link,      \* each end: "none", "hello" (in handshake), "open" or "closed"
  inbox,     \* the messages on their way to each end
  todo,      \* the received blocks its reader has still to apply
  reply,     \* the answer its reader is about to write
  syncing,   \* calls of syncFromPeers: <<its dialling end, from>>, 0 before from is set
  announce   \* the block a miner is about to broadcast

endVars == <<link, inbox, todo, reply, syncing>>
vars    == <<chain, pool, peers, endVars, announce>>

Ends   == Dials \X {"dialer", "listener"}
Other(e) == <<e[1], IF e[2] = "dialer" THEN "listener" ELSE "dialer">>
Owner(e) == IF e[2] = "dialer" THEN e[1][1] ELSE e[1][2]

Tip(n)       == Len(chain[n]) - 1
BlockOf(n, i) == SubSeq(chain[n], 1, i + 1)

Hello(n)       == [type |-> "hello", id |-> n, height |-> Tip(n)]
GetBlocks(i)   == [type |-> "getblocks", from |-> i]
Blocks(bs)     == [type |-> "blocks", blocks |-> bs]
NewBlock(b)    == [type |-> "newblock", block |-> b]
Tx(n)          == [type |-> "tx", tx |-> n]
Garbled        == [type |-> "garbled"]

Init ==
  /\ chain \in [Nodes -> {<<s>> : s \in Stamps}]
  /\ pool = [n \in Nodes |-> {}]
  /\ peers = [n \in Nodes |-> <<>>]
  /\ link = [e \in Ends |-> "none"] /\ inbox = [e \in Ends |-> <<>>]
  /\ todo = [e \in Ends |-> <<>>] /\ reply = [e \in Ends |-> <<>>]
  /\ syncing = {}
  /\ announce = [n \in Nodes |-> <<>>]

-----------------------------------------------------------------------------
(* Messages. *)

\* The queues after m is written at every end in es.  A write to a connection
\* that either side has closed is lost, and its error ignored.
Written(es, m) ==
  [e \in Ends |-> IF Other(e) \in es /\ link[e] # "closed" /\ link[Other(e)] # "closed"
                  THEN Append(inbox[e], m) ELSE inbox[e]]

\* What may be left of a queue once readMsg has returned its first message: the
\* reader it made for the call has taken, and forgets, any number of the next
\* messages, the last of them perhaps in part.
Unread(q) ==
  {Tail(q)} \cup
  (IF ~Lossy THEN {} ELSE
     {SubSeq(q, k, Len(q)) : k \in 2 .. Len(q) + 1} \cup
     {<<Garbled>> \o SubSeq(q, k + 1, Len(q)) : k \in 2 .. Len(q)})

\* Mutant: the entry keeps the other side's end of the connection.
Register_otherEnd(n, h, e) ==
  peers' = [peers EXCEPT ![n] =
              [p \in DOMAIN @ \cup {h.id} |->
                 IF p = h.id THEN [height |-> h.height, end |-> Other(e)] ELSE @[p]]]

Register(n, h, e) ==
  peers' = [peers EXCEPT ![n] =
              [p \in DOMAIN @ \cup {h.id} |->
                 IF p = h.id THEN [height |-> h.height, end |-> e] ELSE @[p]]]

PeerEnds(n) == {peers[n][p].end : p \in DOMAIN peers[n]}

-----------------------------------------------------------------------------
(* Connecting. *)

\* ConnectWait reaches the seed, which accepts, and writes its hello.
Dial(c) ==
  LET d == <<c, "dialer">> l == <<c, "listener">>
  IN  /\ link[d] = "none"
      /\ link' = [link EXCEPT ![d] = "hello", ![l] = "open"]
      /\ inbox' = [inbox EXCEPT ![l] = <<Hello(c[1])>>]
      /\ UNCHANGED <<chain, pool, peers, todo, reply, syncing, announce>>

\* The seed does not answer in time.  It is not dialled again.
DialFails(c) ==
  /\ link[<<c, "dialer">>] = "none"
  /\ link' = [link EXCEPT ![<<c, "dialer">>] = "closed", ![<<c, "listener">>] = "closed"]
  /\ UNCHANGED <<chain, pool, peers, inbox, todo, reply, syncing, announce>>

\* The dialer's handshake reads its one message and wants it to be a hello of
\* its own chain.  The listener checks no chain id.
Handshake(e) ==
  /\ link[e] = "hello" /\ inbox[e] # <<>>
  /\ \E q \in Unread(inbox[e]) : inbox' = [inbox EXCEPT ![e] = q]
  /\ LET m == Head(inbox[e]) IN
       IF m.type = "hello" /\ ChainID[m.id] = ChainID[Owner(e)]
       THEN /\ Register(Owner(e), m, e)
            /\ link' = [link EXCEPT ![e] = "open"]
            /\ syncing' = syncing \cup {<<e, 0>>}
       ELSE /\ link' = [link EXCEPT ![e] = "closed"]
            /\ UNCHANGED <<peers, syncing>>
  /\ UNCHANGED <<chain, pool, todo, reply, announce>>

\* syncFromPeers reads the height before it takes the lock on the peers.
ReadHeight(e) ==
  /\ <<e, 0>> \in syncing
  /\ syncing' = (syncing \ {<<e, 0>>}) \cup {<<e, Tip(Owner(e)) + 1>>}
  /\ UNCHANGED <<chain, pool, peers, link, inbox, todo, reply, announce>>

\* Every peer that said it is higher is asked for what is above that height.
SyncFromPeers(e) ==
  \E call \in syncing :
    LET from == call[2]
        table == peers[Owner(e)]
    IN  /\ call[1] = e /\ from > 0
        /\ syncing' = syncing \ {call}
        /\ inbox' = Written({table[p].end : p \in {p \in DOMAIN table : table[p].height >= from}},
                            GetBlocks(from))
        /\ UNCHANGED <<chain, pool, peers, link, todo, reply, announce>>

\* The other side has closed the connection and there is nothing left to read.
\* The entry in the table of peers stays.
ReadEOF(e) ==
  /\ link[e] \in {"hello", "open"} /\ link[Other(e)] = "closed"
  /\ inbox[e] = <<>> /\ todo[e] = <<>> /\ reply[e] = <<>>
  /\ link' = [link EXCEPT ![e] = "closed"]
  /\ UNCHANGED <<chain, pool, peers, inbox, todo, reply, syncing, announce>>

-----------------------------------------------------------------------------
(* handleConn. *)

\* The next message of an end whose reader has done with the one before.
Reading(e, type) ==
  /\ link[e] = "open" /\ inbox[e] # <<>> /\ Head(inbox[e]).type = type
  /\ todo[e] = <<>> /\ reply[e] = <<>>

Take(e) == \E q \in Unread(inbox[e]) : inbox' = [inbox EXCEPT ![e] = q]

\* Mutant: every node answers.
HandleHello_answered(e) ==
  /\ Reading(e, "hello")
  /\ \E q \in Unread(inbox[e]) :
       inbox' = [Written({e}, Hello(Owner(e))) EXCEPT ![e] = q]
  /\ Register(Owner(e), Head(inbox[e]), e)
  /\ UNCHANGED <<chain, pool, link, todo, reply, syncing, announce>>

\* A peer of other software also answers; a node does not.
HandleHello(e) ==
  /\ Reading(e, "hello")
  /\ IF Owner(e) \in Answering /\ e[2] = "listener"
     THEN \E q \in Unread(inbox[e]) :
            inbox' = [Written({e}, Hello(Owner(e))) EXCEPT ![e] = q]
     ELSE Take(e)
  /\ Register(Owner(e), Head(inbox[e]), e)
  /\ UNCHANGED <<chain, pool, link, todo, reply, syncing, announce>>

HandleTx(e) ==
  /\ Reading(e, "tx")
  /\ Take(e)
  /\ pool' = [pool EXCEPT ![Owner(e)] = @ \cup {Head(inbox[e]).tx}]
  /\ UNCHANGED <<chain, peers, link, todo, reply, syncing, announce>>

\* Mutant: the loop stops before the tip.
HandleGetBlocks_noTip(e) ==
  LET n == Owner(e) from == Head(inbox[e]).from
  IN  /\ Reading(e, "getblocks")
      /\ Take(e)
      /\ reply' = [reply EXCEPT ![e] =
           <<Blocks([i \in 1 .. Tip(n) - from |-> BlockOf(n, from + i - 1)])>>]
      /\ UNCHANGED <<chain, pool, peers, link, todo, syncing, announce>>

\* The blocks are collected first and written afterwards.
HandleGetBlocks(e) ==
  LET n == Owner(e) from == Head(inbox[e]).from
  IN  /\ Reading(e, "getblocks")
      /\ Take(e)
      /\ reply' = [reply EXCEPT ![e] =
           <<Blocks([i \in 1 .. Tip(n) - from + 1 |-> BlockOf(n, from + i - 1)])>>]
      /\ UNCHANGED <<chain, pool, peers, link, todo, syncing, announce>>

WriteReply(e) ==
  /\ reply[e] # <<>>
  /\ inbox' = Written({e}, reply[e][1])
  /\ reply' = [reply EXCEPT ![e] = <<>>]
  /\ UNCHANGED <<chain, pool, peers, link, todo, syncing, announce>>

HandleBlocks(e) ==
  /\ Reading(e, "blocks") \/ Reading(e, "newblock")
  /\ Take(e)
  /\ todo' = [todo EXCEPT ![e] = IF Head(inbox[e]).type = "blocks" THEN Head(inbox[e]).blocks
                                 ELSE <<Head(inbox[e]).block>>]
  /\ UNCHANGED <<chain, pool, peers, link, reply, syncing, announce>>

\* A line that is the rest of a message does not parse: the reader returns and
\* closes the connection.
HandleGarbled(e) ==
  /\ Reading(e, "garbled")
  /\ Take(e)
  /\ link' = [link EXCEPT ![e] = "closed"]
  /\ UNCHANGED <<chain, pool, peers, todo, reply, syncing, announce>>

Extends(b, ch) == Len(b) = Len(ch) + 1 /\ SubSeq(b, 1, Len(ch)) = ch

\* Mutant: a block above the tip is appended whatever its parent.
ApplyNext_anyParent(e) ==
  LET n == Owner(e) b == Head(todo[e])
  IN  /\ todo[e] # <<>>
      /\ IF Len(b) > Len(chain[n])
         THEN /\ chain' = [chain EXCEPT ![n] = Append(@, b[Len(b)])]
              /\ todo' = [todo EXCEPT ![e] = Tail(@)]
         ELSE todo' = [todo EXCEPT ![e] = <<>>] /\ UNCHANGED chain
      /\ UNCHANGED <<pool, peers, link, inbox, reply, syncing, announce>>

\* One turn of applyBlocksSequential.  ApplyBlock appends a child of the tip and
\* takes the tip itself for known; at anything else the rest is given up.
ApplyNext(e) ==
  LET n == Owner(e) b == Head(todo[e])
  IN  /\ todo[e] # <<>>
      /\ \/ /\ Extends(b, chain[n])
            /\ chain' = [chain EXCEPT ![n] = b]
            /\ todo' = [todo EXCEPT ![e] = Tail(@)]
         \/ /\ b = chain[n]
            /\ todo' = [todo EXCEPT ![e] = Tail(@)]
            /\ UNCHANGED chain
         \/ /\ ~Extends(b, chain[n]) /\ b # chain[n]
            /\ todo' = [todo EXCEPT ![e] = <<>>]
            /\ UNCHANGED chain
      /\ UNCHANGED <<pool, peers, link, inbox, reply, syncing, announce>>

-----------------------------------------------------------------------------
(* What the rest of a node asks of its network. *)

\* The mining loop has mined a block; it broadcasts it afterwards.
Mine(n) ==
  /\ n \in Miners /\ announce[n] = <<>> /\ Tip(n) < MaxHeight
  /\ chain' = [chain EXCEPT ![n] = Append(@, n)]
  /\ announce' = [announce EXCEPT ![n] = chain'[n]]
  /\ UNCHANGED <<pool, peers, endVars>>

BroadcastBlock(n) ==
  /\ announce[n] # <<>>
  /\ inbox' = Written(PeerEnds(n), NewBlock(announce[n]))
  /\ announce' = [announce EXCEPT ![n] = <<>>]
  /\ UNCHANGED <<chain, pool, peers, link, todo, reply, syncing>>

\* A wallet submits its transaction to n, which adds it and broadcasts it.
BroadcastTx(n) ==
  /\ n \in Clients \ pool[n]
  /\ pool' = [pool EXCEPT ![n] = @ \cup {n}]
  /\ inbox' = Written(PeerEnds(n), Tx(n))
  /\ UNCHANGED <<chain, peers, link, todo, reply, syncing, announce>>

-----------------------------------------------------------------------------
Connect == \E c \in Dials : Dial(c) \/ DialFails(c)

HandleConn(e) == \/ HandleHello(e) \/ HandleTx(e) \/ HandleGetBlocks(e)
                 \/ HandleBlocks(e) \/ HandleGarbled(e)
                 \/ WriteReply(e) \/ ApplyNext(e) \/ ReadEOF(e)

Next == \/ Connect
        \/ \E e \in Ends : Handshake(e) \/ ReadHeight(e) \/ SyncFromPeers(e) \/ HandleConn(e)
        \/ \E n \in Nodes : Mine(n) \/ BroadcastBlock(n) \/ BroadcastTx(n)

Spec == Init /\ [][Next]_vars

\* Every goroutine that can run does; wallets submit when they like.
Fairness ==
  /\ WF_vars(Connect)
  /\ \A e \in Ends : /\ WF_vars(Handshake(e))
                     /\ WF_vars(ReadHeight(e))
                     /\ WF_vars(SyncFromPeers(e))
                     /\ WF_vars(HandleConn(e))
  /\ \A n \in Nodes : WF_vars(Mine(n)) /\ WF_vars(BroadcastBlock(n))

FairSpec == Spec /\ Fairness

-----------------------------------------------------------------------------
(* Properties. *)

Block   == {b \in Seq(Nodes \cup Stamps) : Len(b) <= MaxHeight + 1}
Message ==
  [type : {"hello"}, id : Nodes, height : Nat] \cup [type : {"getblocks"}, from : Nat] \cup
  [type : {"blocks"}, blocks : Seq(Block)] \cup [type : {"newblock"}, block : Block] \cup
  [type : {"tx"}, tx : Nodes] \cup [type : {"garbled"}]

\* Type invariant.  A chain and a received block stay within the bound, and an
\* entry in the table of peers is an end of this node's.
NetTypeOK ==
  /\ chain \in [Nodes -> Block \ {<<>>}]
  /\ pool \in [Nodes -> SUBSET Nodes]
  /\ DOMAIN peers = Nodes
  /\ \A n \in Nodes : \A p \in DOMAIN peers[n] :
       /\ p \in Nodes /\ peers[n][p].height \in Nat
       /\ peers[n][p].end \in Ends /\ Owner(peers[n][p].end) = n
  /\ link \in [Ends -> {"none", "hello", "open", "closed"}]
  /\ inbox \in [Ends -> Seq(Message)]
  /\ todo \in [Ends -> Seq(Block)]
  /\ reply \in [Ends -> {s \in Seq(Message) : Len(s) <= 1}]
  /\ syncing \subseteq Ends \X Nat
  /\ announce \in [Nodes -> Block]

\* Among nodes of this software alone nothing is ever exchanged: the dialer
\* waits for a hello, the only messages a seed writes to it are blocks and
\* transactions, and the first of them ends the handshake (handshake, the
\* MsgHello case of handleConn, broadcast).
NothingExchanged ==
  Answering = {} =>
    \A n \in Nodes : /\ pool[n] \subseteq {n}
                     /\ \A i \in 2 .. Len(chain[n]) : chain[n][i] = n

\* Wherever it came from and in whatever order, a block in some node's chain is
\* at the same place, after the same blocks, in the chain of its miner: what is
\* lost, late or out of order is refused, and never leaves a gap
\* (applyBlocksSequential, ApplyBlock).
MinersBlocks ==
  \A n \in Nodes : \A i \in 2 .. Len(chain[n]) :
    LET m == chain[n][i]
    IN  m \in Miners /\ i <= Len(chain[m])
        /\ SubSeq(chain[n], 1, i) = SubSeq(chain[m], 1, i)

\* A node that does not mine, and has learnt in a handshake the height at which
\* its seed stops, reaches it: the request it sends is answered in full, and the
\* broadcasts that cross the answer do no harm (syncFromPeers, handleConn).
CatchesUp ==
  \A n \in Nodes \ Miners :
    (\E p \in DOMAIN peers[n] : /\ peers[n][p].height = MaxHeight
                                /\ peers[n][p].end[2] = "dialer") ~> Tip(n) = MaxHeight
=============================================================================
