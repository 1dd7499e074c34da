--------------------------- MODULE NetworkProofs ---------------------------
(***************************************************************************)
(* Proofs about Network for every set of nodes and of seed lists: its type *)
(* invariant, that nodes of this software never exchange anything, and     *)
(* that the chains hold the blocks of their miners, in their places.       *)
(***************************************************************************)
EXTENDS Network, SequenceTheorems, TLAPS

(***************************************************************************)
(* Lemmas about ends and queues.                                           *)
(***************************************************************************)

\* The two ends of a connection.
LEMMA EndFacts ==
  ASSUME NEW e \in Ends
  PROVE  /\ Other(e) \in Ends /\ Other(Other(e)) = e /\ Other(e) # e
         /\ Owner(e) \in Nodes
         /\ e = <<e[1], e[2]>> /\ e[1] \in Dials /\ e[2] \in {"dialer", "listener"}
<1>1. PICK c \in Dials, s \in {"dialer", "listener"} : e = <<c, s>>
  BY DEF Ends
<1>2. c[1] \in Nodes /\ c[2] \in Nodes
  BY NetworkAssumption
<1>3. QED  BY <1>1, <1>2 DEF Ends, Other, Owner

\* What reading a queue may leave of it is a queue of the same messages, but for
\* a garbled one.
LEMMA UnreadType ==
  ASSUME NEW M, Garbled \in M, NEW q \in Seq(M), q # <<>>, NEW r \in Unread(q)
  PROVE  r \in Seq(M)
<1>0. Len(q) \in Nat /\ \A i \in 1 .. Len(q) : q[i] \in M
  BY ElementOfSeq, LenProperties
<1>1. CASE r = Tail(q)
  BY <1>1, HeadTailProperties
<1>2. ASSUME NEW k \in 2 .. Len(q) + 1, r = SubSeq(q, k, Len(q))
      PROVE  r \in Seq(M)
  <2>1. \A i \in k .. Len(q) : q[i] \in M
    BY <1>0
  <2>2. QED  BY <1>0, <1>2, <2>1, SubSeqProperties
<1>3. ASSUME NEW k \in 2 .. Len(q), r = <<Garbled>> \o SubSeq(q, k + 1, Len(q))
      PROVE  r \in Seq(M)
  <2>1. \A i \in k + 1 .. Len(q) : q[i] \in M
    BY <1>0
  <2>2. SubSeq(q, k + 1, Len(q)) \in Seq(M)
    BY <1>0, <2>1, SubSeqProperties
  <2>3. <<Garbled>> \in Seq(M)
    OBVIOUS
  <2>4. QED  BY <1>3, <2>2, <2>3, ConcatProperties
<1>4. QED  BY <1>1, <1>2, <1>3 DEF Unread

\* A write adds its message to the queues on the other side, and only there.
LEMMA WrittenFacts ==
  ASSUME NEW es, NEW m, NEW e \in Ends
  PROVE  /\ \A M : m \in M /\ inbox[e] \in Seq(M) => Written(es, m)[e] \in Seq(M)
         /\ Other(e) \notin es => Written(es, m)[e] = inbox[e]
         /\ DOMAIN Written(es, m) = Ends
BY DEF Written

\* The first message of a queue is one of its messages.
LEMMA HeadType ==
  ASSUME NEW M, NEW q \in Seq(M), q # <<>>
  PROVE  Head(q) \in M
BY HeadTailProperties

\* Each kind of message that is written is a message.
LEMMA MessageTypes ==
  /\ Garbled \in Message
  /\ \A n \in Nodes : Tx(n) \in Message
  /\ \A n \in Nodes : Tip(n) \in Nat => Hello(n) \in Message
  /\ \A i \in Nat : GetBlocks(i) \in Message
  /\ \A bs \in Seq(Block) : Blocks(bs) \in Message
  /\ \A b \in Block : NewBlock(b) \in Message
BY DEF Message, Garbled, Tx, Hello, GetBlocks, Blocks, NewBlock

(***************************************************************************)
(* Type correctness.                                                       *)
(***************************************************************************)

\* A chain has a genesis block and respects the bound.
LEMMA ChainFacts ==
  ASSUME NetTypeOK, NEW n \in Nodes
  PROVE  /\ chain[n] \in Seq(Nodes \cup Stamps)
         /\ Len(chain[n]) \in 1 .. MaxHeight + 1
         /\ Tip(n) \in Nat
<1>1. chain[n] \in Block /\ chain[n] # <<>>
  BY DEF NetTypeOK
<1>2. chain[n] \in Seq(Nodes \cup Stamps) /\ Len(chain[n]) <= MaxHeight + 1
  BY <1>1 DEF Block
<1>3. Len(chain[n]) \in Nat \ {0}
  BY <1>1, <1>2, EmptySeq
<1>4. QED  BY <1>2, <1>3, NetworkAssumption DEF Tip

\* Init establishes the type invariant.
LEMMA InitTyped == Init => NetTypeOK
<1> SUFFICES ASSUME Init PROVE NetTypeOK  OBVIOUS
<1>1. chain \in [Nodes -> Block \ {<<>>}]
  <2>1. \A s \in Stamps : <<s>> \in Seq(Nodes \cup Stamps) /\ Len(<<s>>) = 1 /\ <<s>> # <<>>
    OBVIOUS
  <2>2. \A s \in Stamps : <<s>> \in Block \ {<<>>}
    BY <2>1, NetworkAssumption DEF Block
  <2>3. QED  BY <2>2 DEF Init
<1>2. <<>> \in Block
  <2>1. <<>> \in Seq(Nodes \cup Stamps) /\ Len(<<>>) = 0  BY EmptySeq
  <2>2. QED  BY <2>1, NetworkAssumption DEF Block
<1>3. <<>> \in Seq(Message) /\ <<>> \in Seq(Block) /\ Len(<<>>) = 0
  BY EmptySeq
<1>4. peers = [n \in Nodes |-> <<>>] /\ DOMAIN peers = Nodes
  BY DEF Init
<1>5. \A n \in Nodes : DOMAIN peers[n] = {}
  <2>1. <<>> \in Seq({}) /\ Len(<<>>) = 0  BY EmptySeq
  <2>2. DOMAIN <<>> = 1 .. Len(<<>>)  BY <2>1, LenProperties
  <2>3. DOMAIN <<>> = {}  BY <2>1, <2>2
  <2>4. QED  BY <1>4, <2>3
<1>6. QED  BY <1>1, <1>2, <1>3, <1>4, <1>5 DEF Init, NetTypeOK

\* Reading one end's queue keeps the queues typed.
LEMMA TakeTyped ==
  ASSUME NetTypeOK, NEW e \in Ends, inbox[e] # <<>>, Take(e)
  PROVE  inbox' \in [Ends -> Seq(Message)]
<1>1. PICK q \in Unread(inbox[e]) : inbox' = [inbox EXCEPT ![e] = q]
  BY DEF Take
<1>2. inbox \in [Ends -> Seq(Message)]
  BY DEF NetTypeOK
<1>3. q \in Seq(Message)
  BY <1>1, <1>2, UnreadType, MessageTypes
<1>4. QED  BY <1>1, <1>2, <1>3

\* So does a write.
LEMMA WrittenTyped ==
  ASSUME NetTypeOK, NEW es, NEW m \in Message
  PROVE  Written(es, m) \in [Ends -> Seq(Message)]
<1>1. \A e \in Ends : inbox[e] \in Seq(Message)
  BY DEF NetTypeOK
<1>2. \A e \in Ends : Written(es, m)[e] \in Seq(Message)
  BY <1>1, WrittenFacts
<1>3. QED  BY <1>2 DEF Written

\* Registering a peer from its hello keeps the tables typed.
LEMMA RegisterTyped ==
  ASSUME NetTypeOK, NEW e \in Ends, NEW h \in Message, h.type = "hello",
         Register(Owner(e), h, e)
  PROVE  /\ DOMAIN peers' = Nodes
         /\ \A n \in Nodes : \A p \in DOMAIN peers'[n] :
              /\ p \in Nodes /\ peers'[n][p].height \in Nat
              /\ peers'[n][p].end \in Ends /\ Owner(peers'[n][p].end) = n
<1>1. h.id \in Nodes /\ h.height \in Nat
  BY DEF Message
<1> DEFINE n == Owner(e)
           t == [p \in DOMAIN peers[n] \cup {h.id} |->
                   IF p = h.id THEN [height |-> h.height, end |-> e] ELSE peers[n][p]]
<1>2. n \in Nodes
  BY EndFacts
<1>3. peers' = [peers EXCEPT ![n] = t] /\ DOMAIN peers = Nodes
  BY DEF Register, NetTypeOK
<1>4. \A p \in DOMAIN t : /\ p \in Nodes /\ t[p].height \in Nat
                          /\ t[p].end \in Ends /\ Owner(t[p].end) = n
  BY <1>1, <1>2 DEF NetTypeOK
<1> HIDE DEF t
<1>5. peers'[n] = t /\ \A k \in Nodes \ {n} : peers'[k] = peers[k]
  BY <1>2, <1>3
<1>6. ASSUME NEW k \in Nodes, NEW p \in DOMAIN peers'[k]
      PROVE  /\ p \in Nodes /\ peers'[k][p].height \in Nat
             /\ peers'[k][p].end \in Ends /\ Owner(peers'[k][p].end) = k
  <2>1. CASE k = n  BY <1>4, <1>5, <1>6, <2>1
  <2>2. CASE k # n  BY <1>5, <1>6, <2>2 DEF NetTypeOK
  <2>3. QED  BY <2>1, <2>2
<1>7. QED  BY <1>3, <1>6

\* Each action keeps the state typed.
LEMMA ConnectTyped ==
  ASSUME NetTypeOK, NEW c \in Dials, Dial(c) \/ DialFails(c)
  PROVE  NetTypeOK'
<1> DEFINE d == <<c, "dialer">>
           l == <<c, "listener">>
<1>1. d \in Ends /\ l \in Ends
  BY DEF Ends
<1>2. CASE Dial(c)
  <2>1. c[1] \in Nodes
    BY NetworkAssumption
  <2>2. Hello(c[1]) \in Message
    BY <2>1, ChainFacts, MessageTypes
  <2>3. <<Hello(c[1])>> \in Seq(Message)
    BY <2>2
  <2>4. inbox' \in [Ends -> Seq(Message)] /\ link' \in [Ends -> {"none", "hello", "open", "closed"}]
    BY <1>1, <1>2, <2>3 DEF Dial, NetTypeOK
  <2>5. QED  BY <1>2, <2>4 DEF Dial, NetTypeOK
<1>3. CASE DialFails(c)
  <2>1. link' \in [Ends -> {"none", "hello", "open", "closed"}]
    BY <1>1, <1>3 DEF DialFails, NetTypeOK
  <2>2. QED  BY <1>3, <2>1 DEF DialFails, NetTypeOK
<1>4. QED  BY <1>2, <1>3

LEMMA HandshakeTyped ==
  ASSUME NetTypeOK, NEW e \in Ends, Handshake(e)
  PROVE  NetTypeOK'
<1> DEFINE m == Head(inbox[e])
<1>1. inbox[e] \in Seq(Message) /\ inbox[e] # <<>>
  BY DEF Handshake, NetTypeOK
<1>2. m \in Message
  BY <1>1, HeadType
<1>3. inbox' \in [Ends -> Seq(Message)]
  BY <1>1, TakeTyped DEF Handshake, Take
<1>4. CASE m.type = "hello" /\ ChainID[m.id] = ChainID[Owner(e)]
  <2>1. Register(Owner(e), m, e)
    BY <1>4 DEF Handshake
  <2>2. /\ DOMAIN peers' = Nodes
        /\ \A n \in Nodes : \A p \in DOMAIN peers'[n] :
             /\ p \in Nodes /\ peers'[n][p].height \in Nat
             /\ peers'[n][p].end \in Ends /\ Owner(peers'[n][p].end) = n
    BY <1>2, <1>4, <2>1, RegisterTyped
  <2>3. link' = [link EXCEPT ![e] = "open"] /\ syncing' = syncing \cup {<<e, 0>>}
    BY <1>4 DEF Handshake
  <2>4. link' \in [Ends -> {"none", "hello", "open", "closed"}]
    BY <2>3 DEF NetTypeOK
  <2>5. syncing' \subseteq Ends \X Nat
    BY <2>3 DEF NetTypeOK
  <2>6. QED  BY <1>3, <2>2, <2>4, <2>5 DEF Handshake, NetTypeOK
<1>5. CASE ~(m.type = "hello" /\ ChainID[m.id] = ChainID[Owner(e)])
  <2>1. /\ link' = [link EXCEPT ![e] = "closed"]
        /\ UNCHANGED <<chain, pool, peers, todo, reply, syncing, announce>>
    BY <1>5 DEF Handshake
  <2>2. link' \in [Ends -> {"none", "hello", "open", "closed"}]
    BY <2>1 DEF NetTypeOK
  <2>3. QED  BY <1>3, <2>1, <2>2 DEF NetTypeOK
<1>6. QED  BY <1>4, <1>5

LEMMA SyncTyped ==
  ASSUME NetTypeOK, NEW e \in Ends, ReadHeight(e) \/ SyncFromPeers(e)
  PROVE  NetTypeOK'
<1>1. CASE ReadHeight(e)
  <2>1. Tip(Owner(e)) + 1 \in Nat
    BY EndFacts, ChainFacts
  <2>2. syncing' \subseteq Ends \X Nat
    BY <1>1, <2>1 DEF ReadHeight, NetTypeOK
  <2>3. QED  BY <1>1, <2>2 DEF ReadHeight, NetTypeOK
<1>2. CASE SyncFromPeers(e)
  <2> DEFINE table == peers[Owner(e)]
             asked(from) == {table[p].end : p \in {p \in DOMAIN table : table[p].height >= from}}
  <2>1. PICK call \in syncing :
          /\ syncing' = syncing \ {call}
          /\ inbox' = Written(asked(call[2]), GetBlocks(call[2]))
          /\ UNCHANGED <<chain, pool, peers, link, todo, reply, announce>>
    BY <1>2 DEF SyncFromPeers
  <2>2. call[2] \in Nat
    BY DEF NetTypeOK
  <2>3. GetBlocks(call[2]) \in Message
    BY <2>2, MessageTypes
  <2> HIDE DEF asked
  <2>4. inbox' \in [Ends -> Seq(Message)]
    BY <2>1, <2>3, WrittenTyped
  <2>5. QED  BY <2>1, <2>4 DEF NetTypeOK
<1>3. QED  BY <1>1, <1>2

LEMMA HandleHelloTyped ==
  ASSUME NetTypeOK, NEW e \in Ends, HandleHello(e)
  PROVE  NetTypeOK'
<1> DEFINE m == Head(inbox[e])
<1>1. inbox[e] \in Seq(Message) /\ inbox[e] # <<>> /\ m.type = "hello"
  BY DEF HandleHello, Reading, NetTypeOK
<1>2. m \in Message
  BY <1>1, HeadType
<1>3. inbox' \in [Ends -> Seq(Message)]
  <2>1. CASE Take(e)
    BY <1>1, <2>1, TakeTyped
  <2>2. CASE \E q \in Unread(inbox[e]) :
               inbox' = [Written({e}, Hello(Owner(e))) EXCEPT ![e] = q]
    <3>1. PICK q \in Unread(inbox[e]) :
            inbox' = [Written({e}, Hello(Owner(e))) EXCEPT ![e] = q]
      BY <2>2
    <3>2. q \in Seq(Message)
      BY <1>1, UnreadType, MessageTypes
    <3>3. Hello(Owner(e)) \in Message
      BY EndFacts, ChainFacts, MessageTypes
    <3>4. Written({e}, Hello(Owner(e))) \in [Ends -> Seq(Message)]
      BY <3>3, WrittenTyped
    <3>5. QED  BY <3>1, <3>2, <3>4
  <2>3. QED  BY <2>1, <2>2 DEF HandleHello
<1>4. Register(Owner(e), m, e)
  BY DEF HandleHello
<1>5. /\ DOMAIN peers' = Nodes
      /\ \A n \in Nodes : \A p \in DOMAIN peers'[n] :
           /\ p \in Nodes /\ peers'[n][p].height \in Nat
           /\ peers'[n][p].end \in Ends /\ Owner(peers'[n][p].end) = n
  BY <1>1, <1>2, <1>4, RegisterTyped
<1>6. QED  BY <1>3, <1>5 DEF HandleHello, NetTypeOK

LEMMA HandleGetBlocksTyped ==
  ASSUME NetTypeOK, NEW e \in Ends, HandleGetBlocks(e)
  PROVE  NetTypeOK'
<1> DEFINE m == Head(inbox[e])
           n == Owner(e)
           len == Tip(n) - m.from + 1
           bs == [i \in 1 .. len |-> BlockOf(n, m.from + i - 1)]
<1>1. inbox[e] \in Seq(Message) /\ inbox[e] # <<>> /\ m.type = "getblocks"
  BY DEF HandleGetBlocks, Reading, NetTypeOK
<1>2. m.from \in Nat
  <2>1. m \in Message  BY <1>1, HeadType
  <2>2. QED  BY <1>1, <2>1 DEF Message
<1>3. /\ n \in Nodes /\ chain[n] \in Seq(Nodes \cup Stamps)
      /\ Len(chain[n]) \in 1 .. MaxHeight + 1 /\ Tip(n) = Len(chain[n]) - 1
  BY EndFacts, ChainFacts DEF Tip
<1>4. \A i \in 1 .. len : BlockOf(n, m.from + i - 1) \in Block
  <2> SUFFICES ASSUME NEW i \in 1 .. len PROVE BlockOf(n, m.from + i - 1) \in Block
    OBVIOUS
  <2>1. m.from + i \in 1 .. Len(chain[n])
    BY <1>2, <1>3, NetworkAssumption
  <2>2. \A j \in 1 .. m.from + i : chain[n][j] \in Nodes \cup Stamps
    BY <1>3, <2>1, ElementOfSeq
  <2>3. /\ SubSeq(chain[n], 1, m.from + i) \in Seq(Nodes \cup Stamps)
        /\ Len(SubSeq(chain[n], 1, m.from + i)) = m.from + i
    BY <1>2, <2>1, <2>2, SubSeqProperties
  <2>4. BlockOf(n, m.from + i - 1) = SubSeq(chain[n], 1, m.from + i)
    BY <1>2 DEF BlockOf
  <2>5. m.from + i <= MaxHeight + 1
    BY <1>2, <1>3, <2>1, NetworkAssumption
  <2>6. QED  BY <2>3, <2>4, <2>5 DEF Block
<1>5. bs \in Seq(Block)
  <2>1. len \in Int
    BY <1>2, <1>3, NetworkAssumption
  <2>2. CASE len >= 0
    <3>1. bs \in [1 .. len -> Block] /\ len \in Nat
      BY <1>4, <2>1, <2>2
    <3> HIDE DEF bs
    <3>2. QED  BY <3>1, SeqDef
  <2>3. CASE len < 0
    <3>1. 1 .. len = 1 .. 0 /\ bs \in [1 .. len -> Block]
      BY <1>4, <2>1, <2>3
    <3> HIDE DEF bs
    <3>2. bs \in [1 .. 0 -> Block]  BY <3>1
    <3>3. QED  BY <3>2, SeqDef
  <2>4. QED  BY <2>1, <2>2, <2>3
<1>6. Blocks(bs) \in Message
  BY <1>5, MessageTypes
<1>7. reply' = [reply EXCEPT ![e] = <<Blocks(bs)>>]
  BY DEF HandleGetBlocks
<1> HIDE DEF bs
<1>8. reply' \in [Ends -> {s \in Seq(Message) : Len(s) <= 1}]
  <2>1. <<Blocks(bs)>> \in Seq(Message) /\ Len(<<Blocks(bs)>>) = 1
    BY <1>6
  <2>2. QED  BY <1>7, <2>1 DEF NetTypeOK
<1>9. inbox' \in [Ends -> Seq(Message)]
  BY <1>1, TakeTyped DEF HandleGetBlocks
<1>10. QED  BY <1>8, <1>9 DEF HandleGetBlocks, NetTypeOK

LEMMA HandleBlocksTyped ==
  ASSUME NetTypeOK, NEW e \in Ends, HandleBlocks(e)
  PROVE  NetTypeOK'
<1> DEFINE m == Head(inbox[e])
<1>1. inbox[e] \in Seq(Message) /\ inbox[e] # <<>>
  BY DEF HandleBlocks, Reading, NetTypeOK
<1>2. m \in Message /\ m.type \in {"blocks", "newblock"}
  BY <1>1, HeadType DEF HandleBlocks, Reading
<1>3. CASE m.type = "blocks"
  <2>1. m.blocks \in Seq(Block)
    BY <1>2, <1>3 DEF Message
  <2>2. todo' \in [Ends -> Seq(Block)]
    BY <1>3, <2>1 DEF HandleBlocks, NetTypeOK
  <2>3. QED  BY <1>1, <2>2, TakeTyped DEF HandleBlocks, NetTypeOK
<1>4. CASE m.type = "newblock"
  <2>1. m.block \in Block
    BY <1>2, <1>4 DEF Message
  <2>2. <<m.block>> \in Seq(Block)
    BY <2>1
  <2>3. todo' \in [Ends -> Seq(Block)]
    BY <1>4, <2>2 DEF HandleBlocks, NetTypeOK
  <2>4. QED  BY <1>1, <2>3, TakeTyped DEF HandleBlocks, NetTypeOK
<1>5. QED  BY <1>2, <1>3, <1>4

LEMMA ApplyNextTyped ==
  ASSUME NetTypeOK, NEW e \in Ends, ApplyNext(e)
  PROVE  NetTypeOK'
<1> DEFINE n == Owner(e)
           b == Head(todo[e])
<1>1. todo[e] \in Seq(Block) /\ todo[e] # <<>> /\ n \in Nodes
  BY EndFacts DEF ApplyNext, NetTypeOK
<1>2. b \in Block /\ Tail(todo[e]) \in Seq(Block) /\ <<>> \in Seq(Block)
  BY <1>1, HeadTailProperties, EmptySeq
<1>3. todo' \in [Ends -> Seq(Block)]
  <2>1. \/ todo' = [todo EXCEPT ![e] = Tail(todo[e])]
        \/ todo' = [todo EXCEPT ![e] = <<>>]
    BY DEF ApplyNext
  <2>2. todo \in [Ends -> Seq(Block)]
    BY DEF NetTypeOK
  <2>3. QED  BY <1>2, <2>1, <2>2
<1>4. CASE Extends(b, chain[n]) /\ chain' = [chain EXCEPT ![n] = b]
  <2>1. b # <<>>
    <3>1. Len(b) = Len(chain[n]) + 1 /\ Len(chain[n]) >= 1
      BY <1>1, <1>4, ChainFacts, NetworkAssumption DEF Extends
    <3>2. Len(<<>>) = 0  BY EmptySeq
    <3>3. QED  BY <3>1, <3>2, <1>1, ChainFacts, NetworkAssumption
  <2>2. chain' \in [Nodes -> Block \ {<<>>}]
    BY <1>1, <1>2, <1>4, <2>1 DEF NetTypeOK
  <2>3. QED  BY <1>3, <2>2 DEF ApplyNext, NetTypeOK
<1>5. CASE UNCHANGED chain
  BY <1>3, <1>5 DEF ApplyNext, NetTypeOK
<1>6. QED  BY <1>4, <1>5 DEF ApplyNext

LEMMA MineTyped ==
  ASSUME NetTypeOK, NEW n \in Nodes, Mine(n)
  PROVE  NetTypeOK'
<1>1. /\ chain[n] \in Seq(Nodes \cup Stamps) /\ Len(chain[n]) \in 1 .. MaxHeight + 1
      /\ Len(chain[n]) - 1 < MaxHeight
  BY ChainFacts DEF Mine, Tip
<1>2. /\ Append(chain[n], n) \in Seq(Nodes \cup Stamps)
      /\ Len(Append(chain[n], n)) = Len(chain[n]) + 1
      /\ Append(chain[n], n) # <<>>
  BY <1>1
<1>3. Append(chain[n], n) \in Block \ {<<>>}
  BY <1>1, <1>2, NetworkAssumption DEF Block
<1>4. chain' \in [Nodes -> Block \ {<<>>}]
  BY <1>3 DEF Mine, NetTypeOK
<1>5. announce' \in [Nodes -> Block]
  BY <1>4 DEF Mine, NetTypeOK
<1>6. QED  BY <1>4, <1>5 DEF Mine, NetTypeOK, endVars

LEMMA BroadcastTyped ==
  ASSUME NetTypeOK, NEW n \in Nodes, BroadcastBlock(n) \/ BroadcastTx(n)
  PROVE  NetTypeOK'
<1>1. CASE BroadcastBlock(n)
  <2>1. NewBlock(announce[n]) \in Message
    BY MessageTypes DEF NetTypeOK
  <2>2. inbox' \in [Ends -> Seq(Message)]
    BY <1>1, <2>1, WrittenTyped DEF BroadcastBlock
  <2>3. <<>> \in Block
    <3>1. <<>> \in Seq(Nodes \cup Stamps) /\ Len(<<>>) = 0  BY EmptySeq
    <3>2. QED  BY <3>1, NetworkAssumption DEF Block
  <2>4. announce' \in [Nodes -> Block]
    BY <1>1, <2>3 DEF BroadcastBlock, NetTypeOK
  <2>5. QED  BY <1>1, <2>2, <2>4 DEF BroadcastBlock, NetTypeOK
<1>2. CASE BroadcastTx(n)
  <2>1. inbox' \in [Ends -> Seq(Message)]
    BY <1>2, MessageTypes, WrittenTyped DEF BroadcastTx
  <2>2. pool' \in [Nodes -> SUBSET Nodes]
    BY <1>2 DEF BroadcastTx, NetTypeOK
  <2>3. QED  BY <1>2, <2>1, <2>2 DEF BroadcastTx, NetTypeOK
<1>3. QED  BY <1>1, <1>2

LEMMA HandleConnTyped ==
  ASSUME NetTypeOK, NEW e \in Ends, HandleConn(e)
  PROVE  NetTypeOK'
<1>1. CASE HandleHello(e)  BY <1>1, HandleHelloTyped
<1>2. CASE HandleTx(e)
  <2>1. inbox[e] \in Seq(Message) /\ inbox[e] # <<>> /\ Head(inbox[e]).type = "tx"
    BY <1>2 DEF HandleTx, Reading, NetTypeOK
  <2>2. Head(inbox[e]).tx \in Nodes
    <3>1. Head(inbox[e]) \in Message  BY <2>1, HeadType
    <3>2. QED  BY <2>1, <3>1 DEF Message
  <2>3. inbox' \in [Ends -> Seq(Message)]
    BY <1>2, <2>1, TakeTyped DEF HandleTx
  <2>4. pool' \in [Nodes -> SUBSET Nodes]
    BY <1>2, <2>2 DEF HandleTx, NetTypeOK
  <2>5. QED  BY <1>2, <2>3, <2>4 DEF HandleTx, NetTypeOK
<1>3. CASE HandleGetBlocks(e)  BY <1>3, HandleGetBlocksTyped
<1>4. CASE HandleBlocks(e)  BY <1>4, HandleBlocksTyped
<1>5. CASE HandleGarbled(e)
  <2>1. inbox[e] # <<>>
    BY <1>5 DEF HandleGarbled, Reading
  <2>2. inbox' \in [Ends -> Seq(Message)]
    BY <1>5, <2>1, TakeTyped DEF HandleGarbled
  <2>3. link' \in [Ends -> {"none", "hello", "open", "closed"}]
    BY <1>5 DEF HandleGarbled, NetTypeOK
  <2>4. QED  BY <1>5, <2>2, <2>3 DEF HandleGarbled, NetTypeOK
<1>6. CASE WriteReply(e)
  <2>1. reply[e][1] \in Message
    <3>1. reply[e] \in Seq(Message) /\ reply[e] # <<>>
      BY <1>6 DEF WriteReply, NetTypeOK
    <3>2. QED  BY <3>1, HeadType
  <2>2. inbox' \in [Ends -> Seq(Message)]
    BY <1>6, <2>1, WrittenTyped DEF WriteReply
  <2>3. reply' \in [Ends -> {s \in Seq(Message) : Len(s) <= 1}]
    <3>1. <<>> \in Seq(Message) /\ Len(<<>>) = 0  BY EmptySeq
    <3>2. QED  BY <1>6, <3>1 DEF WriteReply, NetTypeOK
  <2>4. QED  BY <1>6, <2>2, <2>3 DEF WriteReply, NetTypeOK
<1>7. CASE ApplyNext(e)  BY <1>7, ApplyNextTyped
<1>8. CASE ReadEOF(e)
  <2>1. link' \in [Ends -> {"none", "hello", "open", "closed"}]
    BY <1>8 DEF ReadEOF, NetTypeOK
  <2>2. QED  BY <1>8, <2>1 DEF ReadEOF, NetTypeOK
<1>9. QED  BY <1>1, <1>2, <1>3, <1>4, <1>5, <1>6, <1>7, <1>8 DEF HandleConn

\* The type invariant is inductive.
LEMMA NextTyped == NetTypeOK /\ [Next]_vars => NetTypeOK'
<1> SUFFICES ASSUME NetTypeOK, [Next]_vars PROVE NetTypeOK'  OBVIOUS
<1>1. CASE Connect  BY <1>1, ConnectTyped DEF Connect
<1>2. ASSUME NEW e \in Ends, Handshake(e) PROVE NetTypeOK'  BY <1>2, HandshakeTyped
<1>3. ASSUME NEW e \in Ends, ReadHeight(e) \/ SyncFromPeers(e) PROVE NetTypeOK'
  BY <1>3, SyncTyped
<1>4. ASSUME NEW e \in Ends, HandleConn(e) PROVE NetTypeOK'  BY <1>4, HandleConnTyped
<1>5. ASSUME NEW n \in Nodes, Mine(n) PROVE NetTypeOK'  BY <1>5, MineTyped
<1>6. ASSUME NEW n \in Nodes, BroadcastBlock(n) \/ BroadcastTx(n) PROVE NetTypeOK'
  BY <1>6, BroadcastTyped
<1>7. CASE UNCHANGED vars  BY <1>7 DEF vars, endVars, NetTypeOK
<1>8. QED  BY <1>1, <1>2, <1>3, <1>4, <1>5, <1>6, <1>7 DEF Next

\* Type correctness of the network: chains, tables, queues and replies keep
\* their types whatever is lost or garbled.
THEOREM NetTypeCorrect == Spec => []NetTypeOK
<1>1. Init => NetTypeOK  BY InitTyped
<1>2. NetTypeOK /\ [Next]_vars => NetTypeOK'  BY NextTyped
<1>3. QED  BY <1>1, <1>2, PTL DEF Spec

(***************************************************************************)
(* Nodes of this software exchange nothing.                                *)
(***************************************************************************)

Pushed  == {m \in Message : m.type # "hello"}
Greeting == {m \in Message : m.type \in {"hello", "garbled"}}

\* The inductive invariant.  A seed never writes a hello, so that no handshake
\* succeeds and no dialling end is opened; then only listening ends are in the
\* tables of peers, what is broadcast goes to dialling ends alone, and all a
\* seed ever reads is the dialer's hello.
DialersWait ==
  /\ \A e \in Ends : e[2] = "dialer" => link[e] # "open" /\ inbox[e] \in Seq(Pushed)
  /\ syncing = {}
SeedsGreeted ==
  /\ \A e \in Ends : e[2] = "listener" => link[e] # "hello" /\ inbox[e] \in Seq(Greeting)
  /\ \A e \in Ends : todo[e] = <<>> /\ reply[e] = <<>>
ListenersListed ==
  \A n \in Nodes : \A p \in DOMAIN peers[n] : peers[n][p].end[2] = "listener"
OwnOnly ==
  \A n \in Nodes : pool[n] \subseteq {n} /\ \A i \in 2 .. Len(chain[n]) : chain[n][i] = n
Isolated == NetTypeOK /\ DialersWait /\ SeedsGreeted /\ ListenersListed /\ OwnOnly

\* Init establishes it.
LEMMA InitIsolated == Init => Isolated
<1> SUFFICES ASSUME Init PROVE Isolated  OBVIOUS
<1>1. NetTypeOK
  BY InitTyped
<1>2. <<>> \in Seq(Pushed) /\ <<>> \in Seq(Greeting)
  BY EmptySeq
<1>3. DialersWait /\ SeedsGreeted
  BY <1>2 DEF Init, DialersWait, SeedsGreeted
<1>4. ListenersListed
  <2>1. <<>> \in Seq({}) /\ Len(<<>>) = 0  BY EmptySeq
  <2>2. DOMAIN <<>> = 1 .. Len(<<>>)  BY <2>1, LenProperties
  <2>3. DOMAIN <<>> = {}  BY <2>1, <2>2
  <2>4. QED  BY <2>3 DEF Init, ListenersListed
<1>5. ASSUME NEW n \in Nodes
      PROVE  pool[n] \subseteq {n} /\ \A i \in 2 .. Len(chain[n]) : chain[n][i] = n
  <2>1. pool[n] = {}  BY DEF Init
  <2>2. PICK s \in Stamps : chain[n] = <<s>>  BY DEF Init
  <2>3. Len(chain[n]) = 1  BY <2>2
  <2>4. 2 .. Len(chain[n]) = {}  BY <2>3
  <2>5. QED  BY <2>1, <2>4
<1>6. QED  BY <1>1, <1>3, <1>4, <1>5 DEF Isolated, OwnOnly

\* Reading a queue keeps both kinds of queue as they are.
LEMMA TakeIsolated ==
  ASSUME Isolated, NEW e \in Ends, inbox[e] # <<>>, Take(e)
  PROVE  /\ \A f \in Ends : f[2] = "dialer" => inbox'[f] \in Seq(Pushed)
         /\ \A f \in Ends : f[2] = "listener" => inbox'[f] \in Seq(Greeting)
<1>1. PICK q \in Unread(inbox[e]) : inbox' = [inbox EXCEPT ![e] = q]
  BY DEF Take
<1>2. inbox \in [Ends -> Seq(Message)]
  BY DEF Isolated, NetTypeOK
<1>3. inbox'[e] = q /\ \A f \in Ends \ {e} : inbox'[f] = inbox[f]
  BY <1>1, <1>2
<1>4. Garbled \in Pushed /\ Garbled \in Greeting
  BY MessageTypes DEF Pushed, Greeting, Garbled
<1>5. e[2] = "dialer" => q \in Seq(Pushed)
  BY <1>4, UnreadType DEF Isolated, DialersWait
<1>6. e[2] = "listener" => q \in Seq(Greeting)
  BY <1>4, UnreadType DEF Isolated, SeedsGreeted
<1>7. QED  BY <1>3, <1>5, <1>6 DEF Isolated, DialersWait, SeedsGreeted

\* What a node writes to its peers is written to dialling ends.
LEMMA BroadcastIsolated ==
  ASSUME Isolated, NEW n \in Nodes, NEW m \in Pushed, inbox' = Written(PeerEnds(n), m)
  PROVE  /\ \A f \in Ends : f[2] = "dialer" => inbox'[f] \in Seq(Pushed)
         /\ \A f \in Ends : f[2] = "listener" => inbox'[f] \in Seq(Greeting)
<1>1. \A g \in PeerEnds(n) : g[2] = "listener"
  BY DEF PeerEnds, Isolated, ListenersListed
<1>2. ASSUME NEW f \in Ends, f[2] = "dialer"
      PROVE  inbox'[f] \in Seq(Pushed)
  BY <1>2, WrittenFacts DEF Isolated, DialersWait
<1>3. ASSUME NEW f \in Ends, f[2] = "listener"
      PROVE  inbox'[f] \in Seq(Greeting)
  <2>1. Other(f)[2] = "dialer"
    BY <1>3 DEF Other
  <2>2. Other(f) \notin PeerEnds(n)
    BY <1>1, <2>1
  <2>3. inbox'[f] = inbox[f]
    BY <2>2, WrittenFacts
  <2>4. QED  BY <1>3, <2>3 DEF Isolated, SeedsGreeted
<1>4. QED  BY <1>2, <1>3

\* The messages that are broadcast are not hellos.
LEMMA PushedMessages ==
  ASSUME NetTypeOK, NEW n \in Nodes
  PROVE  Tx(n) \in Pushed /\ NewBlock(announce[n]) \in Pushed
<1>1. Tx(n) \in Message /\ NewBlock(announce[n]) \in Message
  BY MessageTypes DEF NetTypeOK
<1>2. QED  BY <1>1 DEF Pushed, Tx, NewBlock

\* The first message a dialler finds is not a hello, and an open end is a
\* listener, which finds a hello or a garbled line and nothing else.
LEMMA HeadIsolated ==
  ASSUME Isolated, NEW e \in Ends, inbox[e] # <<>>
  PROVE  /\ e[2] = "dialer" => Head(inbox[e]).type # "hello"
         /\ link[e] = "open" => e[2] = "listener" /\ Head(inbox[e]).type \in {"hello", "garbled"}
<1>1. e[2] \in {"dialer", "listener"}
  BY EndFacts
<1>2. CASE e[2] = "dialer"
  <2>1. Head(inbox[e]) \in Pushed
    BY <1>2, HeadType DEF Isolated, DialersWait
  <2>2. QED  BY <1>2, <2>1 DEF Pushed, Isolated, DialersWait
<1>3. CASE e[2] = "listener"
  <2>1. Head(inbox[e]) \in Greeting
    BY <1>3, HeadType DEF Isolated, SeedsGreeted
  <2>2. QED  BY <1>3, <2>1 DEF Greeting
<1>4. QED  BY <1>1, <1>2, <1>3

\* Dialling writes a hello, to a listener.
LEMMA ConnectIsolated ==
  ASSUME Isolated, NetTypeOK', NEW c \in Dials, Dial(c) \/ DialFails(c)
  PROVE  Isolated'
<1> DEFINE d == <<c, "dialer">>
           l == <<c, "listener">>
<1>1. d \in Ends /\ l \in Ends
  BY DEF Ends
<1>2. UNCHANGED <<chain, pool, peers, todo, reply, syncing>>
  BY DEF Dial, DialFails
<1>3. link \in [Ends -> {"none", "hello", "open", "closed"}] /\ inbox \in [Ends -> Seq(Message)]
  BY DEF Isolated, NetTypeOK
<1>4. ASSUME NEW e \in Ends
      PROVE  /\ e[2] = "dialer" => link'[e] # "open"
             /\ e[2] = "listener" => link'[e] # "hello"
  <2>1. CASE e = d
    <3>1. link'[e] # "open"  BY <1>1, <1>3, <2>1 DEF Dial, DialFails
    <3>2. QED  BY <2>1, <3>1
  <2>2. CASE e = l
    <3>1. link'[e] # "hello"  BY <1>1, <1>3, <2>2 DEF Dial, DialFails
    <3>2. QED  BY <2>2, <3>1
  <2>3. CASE e # d /\ e # l
    <3>1. link'[e] = link[e]  BY <1>3, <2>3 DEF Dial, DialFails
    <3>2. QED  BY <3>1 DEF Isolated, DialersWait, SeedsGreeted
  <2>4. QED  BY <2>1, <2>2, <2>3
<1>5. \A e \in Ends : e # l => inbox'[e] = inbox[e]
  BY <1>3 DEF Dial, DialFails
<1>6. inbox'[l] \in Seq(Greeting)
  <2>1. CASE Dial(c)
    <3>1. c[1] \in Nodes  BY NetworkAssumption
    <3>2. Hello(c[1]) \in Message  BY <3>1, ChainFacts, MessageTypes DEF Isolated
    <3>3. <<Hello(c[1])>> \in Seq(Greeting)  BY <3>2 DEF Greeting, Hello
    <3>4. QED  BY <1>1, <1>3, <2>1, <3>3 DEF Dial
  <2>2. CASE DialFails(c)
    BY <1>1, <2>2 DEF DialFails, Isolated, SeedsGreeted
  <2>3. QED  BY <2>1, <2>2
<1>7. DialersWait'
  <2>1. \A e \in Ends : e[2] = "dialer" => e # l
    OBVIOUS
  <2>2. QED  BY <1>2, <1>4, <1>5, <2>1 DEF Isolated, DialersWait
<1>8. SeedsGreeted'
  BY <1>2, <1>4, <1>5, <1>6 DEF Isolated, SeedsGreeted
<1>9. ListenersListed' /\ OwnOnly'
  BY <1>2 DEF Isolated, ListenersListed, OwnOnly
<1>10. QED  BY <1>7, <1>8, <1>9 DEF Isolated

\* Only a dialler is in a handshake, and whatever it reads ends it.
LEMMA HandshakeIsolated ==
  ASSUME Isolated, NetTypeOK', NEW e \in Ends, Handshake(e)
  PROVE  Isolated'
<1>0. e[2] = "dialer"
  BY EndFacts DEF Handshake, Isolated, SeedsGreeted
<1>1. Head(inbox[e]).type # "hello"
  BY <1>0, HeadIsolated DEF Handshake
<1>2. Take(e) /\ inbox[e] # <<>>
  BY DEF Handshake, Take
<1>3. link' = [link EXCEPT ![e] = "closed"]
      /\ UNCHANGED <<chain, pool, peers, todo, reply, syncing>>
  BY <1>1 DEF Handshake
<1>4. \A f \in Ends : /\ f[2] = "dialer" => link'[f] # "open"
                      /\ f[2] = "listener" => link'[f] # "hello"
  BY <1>3 DEF Isolated, NetTypeOK, DialersWait, SeedsGreeted
<1>5. DialersWait'
  BY <1>2, <1>3, <1>4, TakeIsolated DEF Isolated, DialersWait
<1>6. SeedsGreeted'
  BY <1>2, <1>3, <1>4, TakeIsolated DEF Isolated, SeedsGreeted
<1>7. ListenersListed' /\ OwnOnly'
  BY <1>3 DEF Isolated, ListenersListed, OwnOnly
<1>8. QED  BY <1>5, <1>6, <1>7 DEF Isolated

\* A seed's reader finds a hello, and lists the dialer, or a garbled line, and
\* closes; a dialler's reader is not running.
LEMMA HandleConnIsolated ==
  ASSUME Isolated, NetTypeOK', Answering = {}, NEW e \in Ends, HandleConn(e)
  PROVE  Isolated'
<1>1. \A type : Reading(e, type) =>
        inbox[e] # <<>> /\ e[2] = "listener" /\ type \in {"hello", "garbled"}
  BY HeadIsolated DEF Reading
<1>2. todo[e] = <<>> /\ reply[e] = <<>>
  BY DEF Isolated, SeedsGreeted
<1>3. CASE HandleHello(e)
  <2>1. /\ Take(e) /\ inbox[e] # <<>> /\ e[2] = "listener"
        /\ Register(Owner(e), Head(inbox[e]), e)
        /\ UNCHANGED <<chain, pool, link, todo, reply, syncing>>
    BY <1>1, <1>3 DEF HandleHello
  <2>2. DialersWait' /\ SeedsGreeted'
    BY <2>1, TakeIsolated DEF Isolated, DialersWait, SeedsGreeted
  <2>3. OwnOnly'
    BY <2>1 DEF Isolated, OwnOnly
  <2>4. ListenersListed'
    <3> DEFINE m == Head(inbox[e])
               t == [p \in DOMAIN peers[Owner(e)] \cup {m.id} |->
                       IF p = m.id THEN [height |-> m.height, end |-> e]
                       ELSE peers[Owner(e)][p]]
    <3>1. peers' = [peers EXCEPT ![Owner(e)] = t] /\ DOMAIN peers = Nodes
      BY <2>1 DEF Register, Isolated, NetTypeOK
    <3>2. \A p \in DOMAIN t : t[p].end[2] = "listener"
      BY <2>1, EndFacts DEF Isolated, ListenersListed
    <3> HIDE DEF t
    <3>3. \A n \in Nodes : peers'[n] = t \/ peers'[n] = peers[n]
      BY <3>1
    <3>4. QED  BY <3>2, <3>3 DEF Isolated, ListenersListed
  <2>5. QED  BY <2>2, <2>3, <2>4 DEF Isolated
<1>4. CASE HandleGarbled(e)
  <2>1. /\ Take(e) /\ inbox[e] # <<>>
        /\ link' = [link EXCEPT ![e] = "closed"]
        /\ UNCHANGED <<chain, pool, peers, todo, reply, syncing>>
    BY <1>1, <1>4 DEF HandleGarbled
  <2>2. \A f \in Ends : link'[f] = link[f] \/ link'[f] = "closed"
    BY <2>1 DEF Isolated, NetTypeOK
  <2>3. DialersWait' /\ SeedsGreeted'
    BY <2>1, <2>2, TakeIsolated DEF Isolated, DialersWait, SeedsGreeted
  <2>4. QED  BY <2>1, <2>3 DEF Isolated, ListenersListed, OwnOnly
<1>5. CASE ReadEOF(e)
  <2>1. /\ link' = [link EXCEPT ![e] = "closed"]
        /\ UNCHANGED <<chain, pool, peers, inbox, todo, reply, syncing>>
    BY <1>5 DEF ReadEOF
  <2>2. \A f \in Ends : link'[f] = link[f] \/ link'[f] = "closed"
    BY <2>1 DEF Isolated, NetTypeOK
  <2>3. DialersWait' /\ SeedsGreeted'
    BY <2>1, <2>2 DEF Isolated, DialersWait, SeedsGreeted
  <2>4. QED  BY <2>1, <2>3 DEF Isolated, ListenersListed, OwnOnly
<1>6. ~HandleTx(e) /\ ~HandleGetBlocks(e) /\ ~HandleBlocks(e)
  BY <1>1 DEF HandleTx, HandleGetBlocks, HandleBlocks
<1>7. ~WriteReply(e) /\ ~ApplyNext(e)
  BY <1>2 DEF WriteReply, ApplyNext
<1>8. QED  BY <1>3, <1>4, <1>5, <1>6, <1>7 DEF HandleConn

\* What a miner adds to its own chain is its own block.
LEMMA MineIsolated ==
  ASSUME Isolated, NetTypeOK', NEW n \in Nodes, Mine(n)
  PROVE  Isolated'
<1>1. chain' = [chain EXCEPT ![n] = Append(chain[n], n)]
      /\ UNCHANGED <<pool, peers, link, inbox, todo, reply, syncing>>
  BY DEF Mine, endVars
<1>2. chain \in [Nodes -> Block \ {<<>>}] /\ chain[n] \in Seq(Nodes \cup Stamps)
  BY ChainFacts DEF Isolated, NetTypeOK
<1>3. \A i \in 2 .. Len(Append(chain[n], n)) : Append(chain[n], n)[i] = n
  <2>1. Len(Append(chain[n], n)) = Len(chain[n]) + 1 /\ Len(chain[n]) \in Nat
    BY <1>2, LenProperties
  <2>2. \A i \in 2 .. Len(chain[n]) : Append(chain[n], n)[i] = n
    BY <1>2, <2>1 DEF Isolated, OwnOnly
  <2>3. Append(chain[n], n)[Len(chain[n]) + 1] = n
    BY <1>2, <2>1
  <2>4. QED  BY <2>1, <2>2, <2>3
<1>4. \A k \in Nodes : chain'[k] = IF k = n THEN Append(chain[n], n) ELSE chain[k]
  BY <1>1, <1>2
<1>5. OwnOnly'
  BY <1>1, <1>3, <1>4 DEF Isolated, OwnOnly
<1>6. QED
  BY <1>1, <1>5 DEF Isolated, DialersWait, SeedsGreeted, ListenersListed

\* What a node broadcasts reaches diallers, which never read it.
LEMMA BroadcastKeepsIsolated ==
  ASSUME Isolated, NetTypeOK', NEW n \in Nodes, BroadcastBlock(n) \/ BroadcastTx(n)
  PROVE  Isolated'
<1>1. Tx(n) \in Pushed /\ NewBlock(announce[n]) \in Pushed
  BY PushedMessages DEF Isolated
<1>2. inbox' = Written(PeerEnds(n), Tx(n)) \/ inbox' = Written(PeerEnds(n), NewBlock(announce[n]))
  BY DEF BroadcastBlock, BroadcastTx
<1>3. /\ \A f \in Ends : f[2] = "dialer" => inbox'[f] \in Seq(Pushed)
      /\ \A f \in Ends : f[2] = "listener" => inbox'[f] \in Seq(Greeting)
  BY <1>1, <1>2, BroadcastIsolated
<1>4. UNCHANGED <<chain, peers, link, todo, reply, syncing>>
  BY DEF BroadcastBlock, BroadcastTx
<1>5. \A k \in Nodes : pool'[k] \subseteq {k}
  <2>1. \A k \in Nodes : pool[k] \subseteq {k}
    BY DEF Isolated, OwnOnly
  <2>2. pool' = pool \/ pool' = [pool EXCEPT ![n] = pool[n] \cup {n}]
    BY DEF BroadcastBlock, BroadcastTx
  <2>3. DOMAIN pool = Nodes
    BY DEF Isolated, NetTypeOK
  <2>4. QED  BY <2>1, <2>2, <2>3
<1>6. QED
  BY <1>3, <1>4, <1>5 DEF Isolated, DialersWait, SeedsGreeted, ListenersListed, OwnOnly

\* Isolation is inductive where nobody answers a hello.
LEMMA NextIsolated == Answering = {} /\ Isolated /\ [Next]_vars => Isolated'
<1> SUFFICES ASSUME Answering = {}, Isolated, [Next]_vars PROVE Isolated'  OBVIOUS
<1>1. NetTypeOK'
  BY NextTyped DEF Isolated
<1>2. CASE Connect  BY <1>1, <1>2, ConnectIsolated DEF Connect
<1>3. ASSUME NEW e \in Ends, Handshake(e) PROVE Isolated'  BY <1>1, <1>3, HandshakeIsolated
<1>4. ASSUME NEW e \in Ends PROVE ~ReadHeight(e) /\ ~SyncFromPeers(e)
  BY DEF ReadHeight, SyncFromPeers, Isolated, DialersWait
<1>5. ASSUME NEW e \in Ends, HandleConn(e) PROVE Isolated'  BY <1>1, <1>5, HandleConnIsolated
<1>6. ASSUME NEW n \in Nodes, Mine(n) PROVE Isolated'  BY <1>1, <1>6, MineIsolated
<1>7. ASSUME NEW n \in Nodes, BroadcastBlock(n) \/ BroadcastTx(n) PROVE Isolated'
  BY <1>1, <1>7, BroadcastKeepsIsolated
<1>8. CASE UNCHANGED vars
  BY <1>1, <1>8 DEF vars, endVars, Isolated, DialersWait, SeedsGreeted, ListenersListed, OwnOnly
<1>9. QED  BY <1>2, <1>3, <1>4, <1>5, <1>6, <1>7, <1>8 DEF Next

\* However many nodes of this software there are and whichever seeds they dial,
\* no block and no transaction of one ever reaches another (handshake, the
\* MsgHello case of handleConn, broadcast).
THEOREM NodesStayIsolated == Spec => []NothingExchanged
<1>1. CASE Answering = {}
  <2>1. Init => Isolated  BY InitIsolated
  <2>2. Isolated /\ [Next]_vars => Isolated'  BY <1>1, NextIsolated
  <2>3. Isolated => NothingExchanged  BY DEF Isolated, OwnOnly, NothingExchanged
  <2>4. QED  BY <2>1, <2>2, <2>3, PTL DEF Spec
<1>2. CASE Answering # {}
  <2>1. NothingExchanged  BY <1>2 DEF NothingExchanged
  <2>2. QED  BY <2>1, PTL
<1>3. QED  BY <1>1, <1>2

(***************************************************************************)
(* A chain holds the blocks of its miners.                                 *)
(***************************************************************************)

\* The blocks that stand, up to each of their mined ones, in its miner's chain.
Genuine ==
  {b \in Block : \A i \in 2 .. Len(b) :
     /\ b[i] \in Miners /\ i <= Len(chain[b[i]])
     /\ \A j \in 1 .. i : b[j] = chain[b[i]][j]}
GenuineMessage ==
  {m \in Message : /\ m.type = "blocks" => m.blocks \in Seq(Genuine)
                   /\ m.type = "newblock" => m.block \in Genuine}

\* The inductive invariant.  Not only the chains but every block on its way, in
\* a queue, with a reader or about to be written, is genuine.
Truthful ==
  /\ NetTypeOK
  /\ chain \in [Nodes -> Genuine] /\ announce \in [Nodes -> Genuine]
  /\ inbox \in [Ends -> Seq(GenuineMessage)] /\ reply \in [Ends -> Seq(GenuineMessage)]
  /\ todo \in [Ends -> Seq(Genuine)]

\* A step that only lengthens chains keeps genuine what was.
Lengthened ==
  \A n \in Nodes : /\ Len(chain[n]) <= Len(chain'[n])
                   /\ \A j \in 1 .. Len(chain[n]) : chain'[n][j] = chain[n][j]

LEMMA GenuineKept ==
  ASSUME NetTypeOK, NetTypeOK', Lengthened
  PROVE  /\ Genuine \subseteq Genuine' /\ GenuineMessage \subseteq GenuineMessage'
         /\ Seq(Genuine) \subseteq Seq(Genuine') /\ Seq(GenuineMessage) \subseteq Seq(GenuineMessage')
<1>1. ASSUME NEW b \in Genuine, NEW i \in 2 .. Len(b)
      PROVE  /\ b[i] \in Miners /\ i <= Len(chain'[b[i]])
             /\ \A j \in 1 .. i : b[j] = chain'[b[i]][j]
  <2>1. /\ b[i] \in Miners /\ i <= Len(chain[b[i]])
        /\ \A j \in 1 .. i : b[j] = chain[b[i]][j]
    BY DEF Genuine
  <2>2. b[i] \in Nodes
    BY <2>1, NetworkAssumption
  <2>3. /\ Len(chain[b[i]]) <= Len(chain'[b[i]])
        /\ \A j \in 1 .. Len(chain[b[i]]) : chain'[b[i]][j] = chain[b[i]][j]
    BY <2>2 DEF Lengthened
  <2>4. Len(chain[b[i]]) \in Int /\ Len(chain'[b[i]]) \in Int
    <3>1. chain[b[i]] \in Seq(Nodes \cup Stamps)  BY <2>2, ChainFacts
    <3>2. chain'[b[i]] \in Block  BY <2>2 DEF NetTypeOK
    <3>3. QED  BY <3>1, <3>2 DEF Block
  <2>5. \A j \in 1 .. i : j \in 1 .. Len(chain[b[i]])
    BY <2>1, <2>4
  <2> HIDE DEF Genuine
  <2>6. QED  BY <2>1, <2>3, <2>4, <2>5
<1>2. Genuine \subseteq Genuine'
  BY <1>1 DEF Genuine
<1>3. Seq(Genuine) \subseteq Seq(Genuine')
  BY <1>2, SeqMonotonic
<1>4. GenuineMessage \subseteq GenuineMessage'
  BY <1>2, <1>3 DEF GenuineMessage
<1>5. QED  BY <1>2, <1>3, <1>4, SeqMonotonic

\* Init establishes it: there are genesis blocks only.
LEMMA InitTruthful == Init => Truthful
<1> SUFFICES ASSUME Init PROVE Truthful  OBVIOUS
<1>1. NetTypeOK
  BY InitTyped
<1>2. \A b \in Block : Len(b) \in {0, 1} => b \in Genuine
  <2> SUFFICES ASSUME NEW b \in Block, Len(b) \in {0, 1} PROVE b \in Genuine  OBVIOUS
  <2>1. ASSUME NEW i \in 2 .. Len(b) PROVE FALSE
    <3>1. CASE Len(b) = 0  BY <3>1
    <3>2. CASE Len(b) = 1  BY <3>2
    <3>3. QED  BY <3>1, <3>2
  <2>2. QED  BY <2>1 DEF Genuine
<1>3. \A n \in Nodes : Len(chain[n]) = 1
  <2> SUFFICES ASSUME NEW n \in Nodes PROVE Len(chain[n]) = 1  OBVIOUS
  <2>1. PICK s \in Stamps : chain[n] = <<s>>  BY DEF Init
  <2>2. QED  BY <2>1
<1>4. chain \in [Nodes -> Genuine]
  BY <1>1, <1>2, <1>3 DEF NetTypeOK
<1>5. Len(<<>>) = 0 /\ <<>> \in Seq(Genuine) /\ <<>> \in Seq(GenuineMessage)
  BY EmptySeq
<1>6. announce \in [Nodes -> Genuine]
  BY <1>1, <1>2, <1>5 DEF Init, NetTypeOK
<1>7. QED  BY <1>1, <1>4, <1>5, <1>6 DEF Init, Truthful

\* A message that carries no block is genuine, and so is one whose blocks are.
LEMMA GenuineMessages ==
  /\ \A m \in Message : m.type \notin {"blocks", "newblock"} => m \in GenuineMessage
  /\ Garbled \in GenuineMessage
  /\ \A b \in Genuine : NewBlock(b) \in GenuineMessage
  /\ \A bs \in Seq(Genuine) : Blocks(bs) \in GenuineMessage
<1>1. \A m \in Message : m.type \notin {"blocks", "newblock"} => m \in GenuineMessage
  BY DEF GenuineMessage
<1>2. Garbled \in GenuineMessage
  BY <1>1, MessageTypes DEF Garbled
<1>3. Genuine \subseteq Block
  BY DEF Genuine
<1>4. \A b \in Genuine : NewBlock(b) \in GenuineMessage
  BY <1>3, MessageTypes DEF GenuineMessage, NewBlock
<1>5. \A bs \in Seq(Genuine) : bs \in Seq(Block)
  BY <1>3, SeqMonotonic
<1>6. \A bs \in Seq(Genuine) : Blocks(bs) \in GenuineMessage
  BY <1>5, MessageTypes DEF GenuineMessage, Blocks
<1>7. QED  BY <1>1, <1>2, <1>4, <1>6

\* Reading and writing queues.
LEMMA TakeTruthful ==
  ASSUME Truthful, NEW e \in Ends, inbox[e] # <<>>, Take(e)
  PROVE  inbox' \in [Ends -> Seq(GenuineMessage)]
<1>1. PICK q \in Unread(inbox[e]) : inbox' = [inbox EXCEPT ![e] = q]
  BY DEF Take
<1>2. q \in Seq(GenuineMessage)
  BY UnreadType, GenuineMessages DEF Truthful
<1>3. QED  BY <1>1, <1>2 DEF Truthful

LEMMA WrittenTruthful ==
  ASSUME Truthful, NEW es, NEW m \in GenuineMessage
  PROVE  Written(es, m) \in [Ends -> Seq(GenuineMessage)]
<1>1. \A e \in Ends : inbox[e] \in Seq(GenuineMessage)
  BY DEF Truthful
<1>2. \A e \in Ends : Written(es, m)[e] \in Seq(GenuineMessage)
  BY <1>1, WrittenFacts
<1>3. QED  BY <1>2 DEF Written

\* Where no chain changes, what is genuine stays the same.
LEMMA GenuineSame ==
  ASSUME UNCHANGED chain
  PROVE  Genuine' = Genuine /\ GenuineMessage' = GenuineMessage
<1>1. Genuine' = Genuine
  BY DEF Genuine
<1>2. QED  BY <1>1 DEF GenuineMessage

\* The steps that carry no block: connecting, hellos, requests, transactions and
\* the end of a connection.
LEMMA NoBlockTruthful ==
  ASSUME Truthful, NetTypeOK', UNCHANGED <<chain, todo, reply, announce>>,
         inbox' \in [Ends -> Seq(GenuineMessage)]
  PROVE  Truthful'
BY GenuineSame DEF Truthful

LEMMA ConnectTruthful ==
  ASSUME Truthful, NetTypeOK', NEW c \in Dials, Dial(c) \/ DialFails(c)
  PROVE  Truthful'
<1>1. Hello(c[1]) \in GenuineMessage
  <2>1. Hello(c[1]) \in Message
    BY NetworkAssumption, ChainFacts, MessageTypes DEF Truthful
  <2>2. QED  BY <2>1, GenuineMessages DEF Hello
<1>2. <<Hello(c[1])>> \in Seq(GenuineMessage) /\ <<c, "listener">> \in Ends
  BY <1>1 DEF Ends
<1>3. inbox' \in [Ends -> Seq(GenuineMessage)]
  BY <1>2 DEF Dial, DialFails, Truthful
<1>4. QED  BY <1>3, NoBlockTruthful DEF Dial, DialFails

LEMMA HelloTruthful ==
  ASSUME Truthful, NetTypeOK', NEW e \in Ends, Handshake(e) \/ HandleHello(e)
  PROVE  Truthful'
<1>1. inbox[e] # <<>> /\ UNCHANGED <<chain, todo, reply, announce>>
  BY DEF Handshake, HandleHello, Reading
<1>2. CASE Take(e)
  BY <1>1, <1>2, TakeTruthful, NoBlockTruthful
<1>3. CASE \E q \in Unread(inbox[e]) :
             inbox' = [Written({e}, Hello(Owner(e))) EXCEPT ![e] = q]
  <2>1. PICK q \in Unread(inbox[e]) :
          inbox' = [Written({e}, Hello(Owner(e))) EXCEPT ![e] = q]
    BY <1>3
  <2>2. q \in Seq(GenuineMessage)
    BY <1>1, UnreadType, GenuineMessages DEF Truthful
  <2>3. Hello(Owner(e)) \in GenuineMessage
    <3>1. Hello(Owner(e)) \in Message
      BY EndFacts, ChainFacts, MessageTypes DEF Truthful
    <3>2. QED  BY <3>1, GenuineMessages DEF Hello
  <2>4. Written({e}, Hello(Owner(e))) \in [Ends -> Seq(GenuineMessage)]
    BY <2>3, WrittenTruthful
  <2>5. QED  BY <1>1, <2>1, <2>2, <2>4, NoBlockTruthful
<1>4. QED  BY <1>2, <1>3 DEF Handshake, HandleHello, Take

LEMMA SyncTruthful ==
  ASSUME Truthful, NetTypeOK', NEW e \in Ends, ReadHeight(e) \/ SyncFromPeers(e)
  PROVE  Truthful'
<1>1. CASE ReadHeight(e)
  BY <1>1, NoBlockTruthful DEF ReadHeight, Truthful
<1>2. CASE SyncFromPeers(e)
  <2> DEFINE table == peers[Owner(e)]
             asked(from) == {table[p].end : p \in {p \in DOMAIN table : table[p].height >= from}}
  <2>1. PICK call \in syncing :
          /\ inbox' = Written(asked(call[2]), GetBlocks(call[2]))
          /\ UNCHANGED <<chain, todo, reply, announce>>
    BY <1>2 DEF SyncFromPeers
  <2>2. GetBlocks(call[2]) \in GenuineMessage
    <3>1. GetBlocks(call[2]) \in Message
      BY MessageTypes DEF Truthful, NetTypeOK
    <3>2. QED  BY <3>1, GenuineMessages DEF GetBlocks
  <2> HIDE DEF asked
  <2>3. inbox' \in [Ends -> Seq(GenuineMessage)]
    BY <2>1, <2>2, WrittenTruthful
  <2>4. QED  BY <2>1, <2>3, NoBlockTruthful
<1>3. QED  BY <1>1, <1>2

\* The blocks below the tip of a genuine chain are genuine.
LEMMA PrefixGenuine ==
  ASSUME Truthful, NEW n \in Nodes, NEW k \in 1 .. Len(chain[n])
  PROVE  SubSeq(chain[n], 1, k) \in Genuine
<1> DEFINE b == SubSeq(chain[n], 1, k)
<1>1. /\ chain[n] \in Seq(Nodes \cup Stamps) /\ Len(chain[n]) \in 1 .. MaxHeight + 1
      /\ chain[n] \in Genuine
  BY ChainFacts DEF Truthful
<1>2. k \in Nat /\ \A i \in 1 .. k : chain[n][i] \in Nodes \cup Stamps
  BY <1>1, ElementOfSeq
<1>3. b \in Seq(Nodes \cup Stamps) /\ Len(b) = k /\ \A i \in 1 .. k : b[i] = chain[n][i]
  BY <1>2, SubSeqProperties
<1> HIDE DEF b
<1>4. b \in Block
  BY <1>1, <1>3, NetworkAssumption DEF Block
<1>5. \A i \in 2 .. k : /\ chain[n][i] \in Miners /\ i <= Len(chain[chain[n][i]])
                        /\ \A j \in 1 .. i : chain[n][j] = chain[chain[n][i]][j]
  BY <1>1 DEF Genuine
<1>6. \A i \in 2 .. Len(b) : /\ b[i] \in Miners /\ i <= Len(chain[b[i]])
                             /\ \A j \in 1 .. i : b[j] = chain[b[i]][j]
  BY <1>3, <1>5
<1>7. b \in Genuine
  BY <1>4, <1>6 DEF Genuine
<1>8. QED  BY <1>7 DEF b

\* The answer to a request is made of such blocks.
LEMMA HandleGetBlocksTruthful ==
  ASSUME Truthful, NetTypeOK', NEW e \in Ends, HandleGetBlocks(e)
  PROVE  Truthful'
<1> DEFINE m == Head(inbox[e])
           n == Owner(e)
           len == Tip(n) - m.from + 1
           bs == [i \in 1 .. len |-> BlockOf(n, m.from + i - 1)]
<1>1. inbox[e] # <<>> /\ m.from \in Nat
  <2>1. inbox[e] \in Seq(Message) /\ inbox[e] # <<>> /\ m.type = "getblocks"
    BY DEF HandleGetBlocks, Reading, Truthful, NetTypeOK
  <2>2. m \in Message
    BY <2>1, HeadType
  <2>3. QED  BY <2>1, <2>2 DEF Message
<1>2. n \in Nodes /\ Len(chain[n]) \in 1 .. MaxHeight + 1 /\ Tip(n) = Len(chain[n]) - 1
  BY EndFacts, ChainFacts DEF Tip, Truthful
<1>3. ASSUME NEW i \in 1 .. len PROVE BlockOf(n, m.from + i - 1) \in Genuine
  <2>1. m.from + i \in 1 .. Len(chain[n])
    BY <1>1, <1>2, NetworkAssumption
  <2>2. BlockOf(n, m.from + i - 1) = SubSeq(chain[n], 1, m.from + i)
    BY <1>1 DEF BlockOf
  <2>3. QED  BY <1>2, <2>1, <2>2, PrefixGenuine
<1>4. bs \in Seq(Genuine)
  <2>1. len \in Int /\ bs \in [1 .. len -> Genuine]
    BY <1>1, <1>2, <1>3, NetworkAssumption
  <2> HIDE DEF bs
  <2>2. CASE len >= 0
    <3>1. len \in Nat  BY <2>1, <2>2
    <3>2. QED  BY <2>1, <3>1, SeqDef
  <2>3. CASE len < 0
    <3>1. 1 .. len = 1 .. 0  BY <2>1, <2>3
    <3>2. bs \in [1 .. 0 -> Genuine]  BY <2>1, <3>1
    <3>3. QED  BY <3>2, SeqDef
  <2>4. QED  BY <2>1, <2>2, <2>3
<1>5. reply' = [reply EXCEPT ![e] = <<Blocks(bs)>>]
  BY DEF HandleGetBlocks
<1> HIDE DEF bs
<1>6. <<Blocks(bs)>> \in Seq(GenuineMessage)
  BY <1>4, GenuineMessages
<1>7. reply' \in [Ends -> Seq(GenuineMessage)]
  BY <1>5, <1>6 DEF Truthful
<1>8. inbox' \in [Ends -> Seq(GenuineMessage)]
  BY <1>1, TakeTruthful DEF HandleGetBlocks
<1>9. QED  BY <1>7, <1>8, GenuineSame DEF HandleGetBlocks, Truthful

LEMMA HandleBlocksTruthful ==
  ASSUME Truthful, NetTypeOK', NEW e \in Ends, HandleBlocks(e)
  PROVE  Truthful'
<1> DEFINE m == Head(inbox[e])
<1>1. inbox[e] # <<>> /\ m \in GenuineMessage /\ m.type \in {"blocks", "newblock"}
  BY HeadType DEF HandleBlocks, Reading, Truthful
<1>2. inbox' \in [Ends -> Seq(GenuineMessage)]
  BY <1>1, TakeTruthful DEF HandleBlocks
<1>3. m.type = "blocks" => m.blocks \in Seq(Genuine)
  BY <1>1 DEF GenuineMessage
<1>4. m.type # "blocks" => <<m.block>> \in Seq(Genuine)
  BY <1>1 DEF GenuineMessage
<1>5. todo' \in [Ends -> Seq(Genuine)]
  BY <1>3, <1>4 DEF HandleBlocks, Truthful
<1>6. QED  BY <1>2, <1>5, GenuineSame DEF HandleBlocks, Truthful

\* What changes a chain lengthens it, and all that was genuine stays so.
LEMMA LongerTruthful ==
  ASSUME Truthful, NetTypeOK', NEW n \in Nodes, NEW b \in Block,
         chain' = [chain EXCEPT ![n] = b], Len(b) = Len(chain[n]) + 1,
         \A j \in 1 .. Len(chain[n]) : b[j] = chain[n][j]
  PROVE  /\ \A c \in Nodes \ {n} : chain'[c] \in Genuine'
         /\ Genuine \subseteq Genuine'
         /\ Seq(Genuine) \subseteq Seq(Genuine')
         /\ Seq(GenuineMessage) \subseteq Seq(GenuineMessage')
<1>1. Len(chain[n]) \in Nat /\ DOMAIN chain = Nodes
  BY ChainFacts, NetworkAssumption DEF Truthful, NetTypeOK
<1>2. \A c \in Nodes : chain'[c] = IF c = n THEN b ELSE chain[c]
  BY <1>1
<1>3. \A c \in Nodes : Len(chain[c]) \in Nat
  BY ChainFacts, NetworkAssumption DEF Truthful
<1>4. Lengthened
  BY <1>1, <1>2, <1>3 DEF Lengthened
<1>5. NetTypeOK
  BY DEF Truthful
<1>6. \A c \in Nodes \ {n} : chain'[c] \in Genuine
  BY <1>2 DEF Truthful
<1>7. QED  BY <1>4, <1>5, <1>6, GenuineKept

LEMMA ApplyNextTruthful ==
  ASSUME Truthful, NetTypeOK', NEW e \in Ends, ApplyNext(e)
  PROVE  Truthful'
<1> DEFINE n == Owner(e)
           b == Head(todo[e])
<1>1. todo[e] \in Seq(Genuine) /\ todo[e] # <<>> /\ n \in Nodes
  BY EndFacts DEF ApplyNext, Truthful
<1>2. b \in Genuine /\ Tail(todo[e]) \in Seq(Genuine) /\ <<>> \in Seq(Genuine)
  BY <1>1, HeadTailProperties, EmptySeq
<1>3. todo' \in [Ends -> Seq(Genuine)]
  <2>1. \/ todo' = [todo EXCEPT ![e] = Tail(todo[e])]
        \/ todo' = [todo EXCEPT ![e] = <<>>]
    BY DEF ApplyNext
  <2>2. todo \in [Ends -> Seq(Genuine)]
    BY DEF Truthful
  <2>3. QED  BY <1>2, <2>1, <2>2
<1>4. UNCHANGED <<inbox, reply, announce>>
  BY DEF ApplyNext
<1>5. CASE Extends(b, chain[n]) /\ chain' = [chain EXCEPT ![n] = b]
  <2>1. Len(b) = Len(chain[n]) + 1 /\ SubSeq(b, 1, Len(chain[n])) = chain[n] /\ b \in Block
    BY <1>2, <1>5 DEF Extends, Genuine
  <2>2. \A j \in 1 .. Len(chain[n]) : b[j] = chain[n][j]
    <3>1. /\ Len(chain[n]) \in Nat /\ b \in Seq(Nodes \cup Stamps)
          /\ \A j \in 1 .. Len(chain[n]) : b[j] \in Nodes \cup Stamps
      BY <1>1, <2>1, ChainFacts, ElementOfSeq, NetworkAssumption DEF Truthful, Block
    <3>2. \A j \in 1 .. Len(chain[n]) : SubSeq(b, 1, Len(chain[n]))[j] = b[j]
      BY <3>1, SubSeqProperties
    <3>3. QED  BY <2>1, <3>2
  <2> HIDE DEF b
  <2>3. /\ \A c \in Nodes \ {n} : chain'[c] \in Genuine'
        /\ Genuine \subseteq Genuine'
        /\ Seq(Genuine) \subseteq Seq(Genuine')
        /\ Seq(GenuineMessage) \subseteq Seq(GenuineMessage')
    BY <1>1, <1>5, <2>1, <2>2, LongerTruthful
  <2>4. chain'[n] = b /\ DOMAIN chain' = Nodes /\ chain' = [c \in Nodes |-> chain'[c]]
    BY <1>1, <1>5 DEF Truthful
  <2>5. chain' \in [Nodes -> Genuine']
    BY <1>2, <2>3, <2>4
  <2>6. QED  BY <1>3, <1>4, <2>3, <2>5 DEF Truthful
<1>6. CASE UNCHANGED chain
  BY <1>3, <1>4, <1>6, GenuineSame DEF Truthful
<1>7. QED  BY <1>5, <1>6 DEF ApplyNext

LEMMA MineTruthful ==
  ASSUME Truthful, NetTypeOK', NEW n \in Nodes, Mine(n)
  PROVE  Truthful'
<1> DEFINE b == Append(chain[n], n)
<1>1. /\ chain' = [chain EXCEPT ![n] = b] /\ n \in Miners
      /\ announce' = [announce EXCEPT ![n] = chain'[n]]
      /\ UNCHANGED <<inbox, todo, reply>>
  BY DEF Mine, endVars
<1>2. chain[n] \in Seq(Nodes \cup Stamps) /\ Len(chain[n]) \in Nat /\ chain[n] \in Genuine
  BY ChainFacts, NetworkAssumption DEF Truthful
<1>3. /\ Len(b) = Len(chain[n]) + 1 /\ b[Len(chain[n]) + 1] = n
      /\ \A j \in 1 .. Len(chain[n]) : b[j] = chain[n][j]
  BY <1>2, AppendProperties
<1>4. chain'[n] = b /\ chain' = [c \in Nodes |-> chain'[c]]
  BY <1>1 DEF Truthful
<1> HIDE DEF b
<1>5. b \in Block
  <2>1. chain'[n] \in Block  BY DEF NetTypeOK
  <2>2. QED  BY <1>4, <2>1
<1>6. /\ \A c \in Nodes \ {n} : chain'[c] \in Genuine'
      /\ Genuine \subseteq Genuine'
      /\ Seq(Genuine) \subseteq Seq(Genuine')
      /\ Seq(GenuineMessage) \subseteq Seq(GenuineMessage')
  BY <1>1, <1>3, <1>5, LongerTruthful
<1>7. b \in Genuine'
  <2>1. ASSUME NEW i \in 2 .. Len(b)
        PROVE  /\ b[i] \in Miners /\ i <= Len(chain'[b[i]])
               /\ \A j \in 1 .. i : b[j] = chain'[b[i]][j]
    <3>1. CASE i = Len(chain[n]) + 1
      <4>1. b[i] = n  BY <1>3, <3>1
      <4>2. QED  BY <1>1, <1>4, <4>1
    <3>2. CASE i <= Len(chain[n])
      <4>1. chain[n] \in Genuine' /\ chain[n][i] = b[i] /\ i \in 2 .. Len(chain[n])
        BY <1>2, <1>3, <1>6, <3>2
      <4>2. /\ chain[n][i] \in Miners /\ i <= Len(chain'[chain[n][i]])
            /\ \A j \in 1 .. i : chain[n][j] = chain'[chain[n][i]][j]
        BY <4>1 DEF Genuine
      <4>3. QED  BY <1>2, <1>3, <3>2, <4>1, <4>2
    <3>3. QED  BY <1>2, <1>3, <3>1, <3>2
  <2>2. QED  BY <1>5, <2>1 DEF Genuine
<1>8. chain' \in [Nodes -> Genuine']
  BY <1>4, <1>6, <1>7
<1>9. announce' \in [Nodes -> Genuine']
  BY <1>1, <1>4, <1>6, <1>7 DEF Truthful
<1>10. QED  BY <1>1, <1>6, <1>8, <1>9 DEF Truthful

LEMMA BroadcastTruthful ==
  ASSUME Truthful, NetTypeOK', NEW n \in Nodes, BroadcastBlock(n) \/ BroadcastTx(n)
  PROVE  Truthful'
<1>1. UNCHANGED <<chain, todo, reply>>
  BY DEF BroadcastBlock, BroadcastTx
<1>2. CASE BroadcastBlock(n)
  <2>1. NewBlock(announce[n]) \in GenuineMessage
    BY GenuineMessages DEF Truthful
  <2>2. inbox' \in [Ends -> Seq(GenuineMessage)]
    BY <1>2, <2>1, WrittenTruthful DEF BroadcastBlock
  <2>3. <<>> \in Genuine
    <3>1. Len(<<>>) = 0 /\ 2 .. 0 = {}  BY EmptySeq
    <3>2. <<>> \in Block
      <4>1. announce'[n] \in Block  BY DEF NetTypeOK
      <4>2. QED  BY <1>2, <4>1 DEF BroadcastBlock, Truthful
    <3>3. QED  BY <3>1, <3>2 DEF Genuine
  <2>4. announce' \in [Nodes -> Genuine]
    BY <1>2, <2>3 DEF BroadcastBlock, Truthful
  <2>5. QED  BY <1>1, <2>2, <2>4, GenuineSame DEF Truthful
<1>3. CASE BroadcastTx(n)
  <2>1. Tx(n) \in GenuineMessage
    BY MessageTypes, GenuineMessages DEF Tx
  <2>2. inbox' \in [Ends -> Seq(GenuineMessage)]
    BY <1>3, <2>1, WrittenTruthful DEF BroadcastTx
  <2>3. QED  BY <1>1, <1>3, <2>2, NoBlockTruthful DEF BroadcastTx
<1>4. QED  BY <1>2, <1>3

LEMMA HandleConnTruthful ==
  ASSUME Truthful, NetTypeOK', NEW e \in Ends, HandleConn(e)
  PROVE  Truthful'
<1>1. CASE HandleHello(e)  BY <1>1, HelloTruthful
<1>2. CASE HandleTx(e) \/ HandleGarbled(e)
  <2>1. Take(e) /\ inbox[e] # <<>> /\ UNCHANGED <<chain, todo, reply, announce>>
    BY <1>2 DEF HandleTx, HandleGarbled, Reading
  <2>2. QED  BY <2>1, TakeTruthful, NoBlockTruthful
<1>3. CASE HandleGetBlocks(e)  BY <1>3, HandleGetBlocksTruthful
<1>4. CASE HandleBlocks(e)  BY <1>4, HandleBlocksTruthful
<1>5. CASE WriteReply(e)
  <2>1. reply[e][1] \in GenuineMessage
    <3>1. reply[e] \in Seq(GenuineMessage) /\ reply[e] # <<>>
      BY <1>5 DEF WriteReply, Truthful
    <3>2. QED  BY <3>1, HeadType
  <2>2. inbox' \in [Ends -> Seq(GenuineMessage)]
    BY <1>5, <2>1, WrittenTruthful DEF WriteReply
  <2>3. reply' \in [Ends -> Seq(GenuineMessage)]
    <3>1. <<>> \in Seq(GenuineMessage)  BY EmptySeq
    <3>2. QED  BY <1>5, <3>1 DEF WriteReply, Truthful
  <2>4. QED  BY <1>5, <2>2, <2>3, GenuineSame DEF WriteReply, Truthful
<1>6. CASE ApplyNext(e)  BY <1>6, ApplyNextTruthful
<1>7. CASE ReadEOF(e)
  BY <1>7, NoBlockTruthful DEF ReadEOF, Truthful
<1>8. QED  BY <1>1, <1>2, <1>3, <1>4, <1>5, <1>6, <1>7 DEF HandleConn

\* The invariant is inductive.
LEMMA NextTruthful == Truthful /\ [Next]_vars => Truthful'
<1> SUFFICES ASSUME Truthful, [Next]_vars PROVE Truthful'  OBVIOUS
<1>1. NetTypeOK'
  BY NextTyped DEF Truthful
<1>2. CASE Connect  BY <1>1, <1>2, ConnectTruthful DEF Connect
<1>3. ASSUME NEW e \in Ends, Handshake(e) PROVE Truthful'  BY <1>1, <1>3, HelloTruthful
<1>4. ASSUME NEW e \in Ends, ReadHeight(e) \/ SyncFromPeers(e) PROVE Truthful'
  BY <1>1, <1>4, SyncTruthful
<1>5. ASSUME NEW e \in Ends, HandleConn(e) PROVE Truthful'  BY <1>1, <1>5, HandleConnTruthful
<1>6. ASSUME NEW n \in Nodes, Mine(n) PROVE Truthful'  BY <1>1, <1>6, MineTruthful
<1>7. ASSUME NEW n \in Nodes, BroadcastBlock(n) \/ BroadcastTx(n) PROVE Truthful'
  BY <1>1, <1>7, BroadcastTruthful
<1>8. CASE UNCHANGED vars
  BY <1>1, <1>8, GenuineSame DEF vars, endVars, Truthful
<1>9. QED  BY <1>2, <1>3, <1>4, <1>5, <1>6, <1>7, <1>8 DEF Next

\* A genuine chain is the chain of each of its miners up to that miner's block.
LEMMA TruthfulMiners == Truthful => MinersBlocks
<1> SUFFICES ASSUME Truthful, NEW n \in Nodes, NEW i \in 2 .. Len(chain[n])
             PROVE  LET m == chain[n][i]
                    IN  m \in Miners /\ i <= Len(chain[m])
                        /\ SubSeq(chain[n], 1, i) = SubSeq(chain[m], 1, i)
  BY DEF MinersBlocks
<1> DEFINE m == chain[n][i]
<1>1. m \in Miners /\ i <= Len(chain[m]) /\ \A j \in 1 .. i : chain[n][j] = chain[m][j]
  <2>1. chain[n] \in Genuine  BY DEF Truthful
  <2>2. QED  BY <2>1 DEF Genuine
<1>2. m \in Nodes /\ i \in Nat
  BY <1>1, NetworkAssumption
<1>3. /\ chain[n] \in Seq(Nodes \cup Stamps) /\ Len(chain[n]) \in Nat
      /\ chain[m] \in Seq(Nodes \cup Stamps) /\ Len(chain[m]) \in Nat
  BY <1>2, ChainFacts, NetworkAssumption DEF Truthful
<1> HIDE DEF m
<1>4. \A j \in 1 .. i : chain[n][j] \in Nodes \cup Stamps /\ chain[m][j] \in Nodes \cup Stamps
  BY <1>1, <1>2, <1>3, ElementOfSeq
<1>5. /\ SubSeq(chain[n], 1, i) \in Seq(Nodes \cup Stamps) /\ Len(SubSeq(chain[n], 1, i)) = i
      /\ \A j \in 1 .. i : SubSeq(chain[n], 1, i)[j] = chain[n][j]
  BY <1>2, <1>4, SubSeqProperties
<1>6. /\ SubSeq(chain[m], 1, i) \in Seq(Nodes \cup Stamps) /\ Len(SubSeq(chain[m], 1, i)) = i
      /\ \A j \in 1 .. i : SubSeq(chain[m], 1, i)[j] = chain[m][j]
  BY <1>2, <1>4, SubSeqProperties
<1>7. SubSeq(chain[n], 1, i) = SubSeq(chain[m], 1, i)
  BY <1>1, <1>5, <1>6, SeqEqual
<1>8. QED  BY <1>1, <1>7 DEF m

\* However messages are lost, garbled or delayed, a block in some node's chain
\* stands at the same place, after the same blocks, in the chain of its miner
\* (applyBlocksSequential, ApplyBlock).
THEOREM MinersBlocksHold == Spec => []MinersBlocks
<1>1. Init => Truthful  BY InitTruthful
<1>2. Truthful /\ [Next]_vars => Truthful'  BY NextTruthful
<1>3. Truthful => MinersBlocks  BY TruthfulMiners
<1>4. QED  BY <1>1, <1>2, <1>3, PTL DEF Spec
=============================================================================
