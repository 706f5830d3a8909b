------------------------- MODULE BlockchainNodeProofs -------------------------
(***************************************************************************)
(* What holds of BlockchainNode for every set of nodes, every topology,    *)
(* every number of blocks and all cultures: the chains are valid where they*)
(* are kept and sent, and a chain gets shorter, or a pending transaction   *)
(* lost, only in an assignment that races.                                 *)
(***************************************************************************)
EXTENDS BlockchainNode, TLAPS

(* IsValid is that each block names the one before it, and that the hashes*)
(* are calculated again at the node.                                       *)
LinksHold(c) == \A i \in 2 .. Len(c.chain) : c.chain[i].previous = c.chain[i - 1].hash
Readable(c, n) == \A i \in 2 .. Len(c.chain) : Recalculated(c.chain[i], n)

(* A well-formed blockchain: there is a first block, and the links hold.   *)
Sound(c) == c \in Blockchain /\ c.chain # <<>> /\ LinksHold(c)
SoundChain == {c \in Blockchain : Sound(c)}

(* What OnMessage took is longer than what it was compared with.           *)
SoundTaking ==
  {h \in [pc: {"merge", "assign"}, next: SoundChain, basis: SoundChain, late: BOOLEAN] :
     Len(h.next.chain) > Len(h.basis.chain)}

Control ==
  /\ setup \in Setups
  /\ main \in [Node -> MainPc]
  /\ current \in [Node -> BOOLEAN]
  /\ mined \in [Node -> Nat]
  /\ \A n \in Node : mined[n] <= setup.blocks[n]
  /\ \A n \in Node : main[n] \in {"adding", "created", "mining"} => mined[n] < setup.blocks[n]
  /\ connected \subseteq Link
  /\ synched \in [Link -> BOOLEAN]
  /\ raced \subseteq Node

Data ==
  /\ chainCoin \in [Node -> SoundChain]
  /\ inbox \in [End -> Seq(SoundChain)]
  /\ handler \in [End -> {Resting, Replying} \cup SoundTaking]

(* A client's end never answers: it has no session to synchronize.         *)
OnlyServersReply == \A e \in End : handler[e] = Replying => e[2] = "server"

(* What is about to be assigned has the pending transactions of what it was*)
(* compared with, unless that was replaced before the merge.               *)
HasPending(e) ==
  handler[e].pc = "assign" /\ ~ handler[e].late =>
    Range(handler[e].basis.pending) \subseteq Range(handler[e].next.pending)

(* The transactions that are in a block of a chain.                        *)
InBlocks(c) == UNION {Range(b.transactions) : b \in Range(c.chain)}

(* What is pending when the pending transactions start again is in a block.*)
HasMined(n) ==
  main[n] = "added" /\ current[n] => Range(chainCoin[n].pending) \subseteq InBlocks(chainCoin[n])

(* The chains of a node, sent by it or about to be assigned at it, can be  *)
(* read there.                                                             *)
AllReadable ==
  /\ \A n \in Node : Readable(chainCoin[n], n)
  /\ \A e \in End : \A c \in Range(inbox[e]) : Readable(c, SenderTo(e))
  /\ \A e \in End : handler[e].pc \in {"merge", "assign"} => Readable(handler[e].next, NodeOf(e))

IInv ==
  /\ Control
  /\ Data
  /\ OnlyServersReply
  /\ \A e \in End : HasPending(e)
  /\ \A n \in Node : HasMined(n)
  /\ AllReadable

(* A transaction is added to the pending ones, and the chain stays.        *)
LEMMA CreateAdds ==
  ASSUME NEW c, Sound(c), NEW t \in Transaction
  PROVE  LET d == CreateTransaction(c, t) IN
         /\ Sound(d)
         /\ d.chain = c.chain
         /\ Range(c.pending) \subseteq Range(d.pending)
<1> DEFINE d == CreateTransaction(c, t)
<1>1. /\ c.chain \in Seq(Block)
      /\ c.pending \in Seq(Transaction)
  BY DEF Sound, Blockchain
<1>2. d = [chain |-> c.chain, pending |-> Append(c.pending, t)]
  BY DEF CreateTransaction
<1>3. Append(c.pending, t) \in Seq(Transaction)
  BY <1>1
<1>4. Range(c.pending) \subseteq Range(Append(c.pending, t))
  BY <1>1 DEF Range
<1>5. LinksHold(d)
  BY <1>2 DEF LinksHold, Sound
<1> QED
  BY <1>1, <1>2, <1>3, <1>4, <1>5 DEF Sound, Blockchain

(* A mined block makes the chain one longer and holds what was pending.    *)
LEMMA MiningAppends ==
  ASSUME NEW c, Sound(c), NEW n \in Node, mined[n] \in Nat
  PROVE  LET d == AddBlock(c, n) IN
         /\ Sound(d)
         /\ Len(d.chain) = Len(c.chain) + 1
         /\ d.pending = c.pending
         /\ Range(c.pending) \subseteq InBlocks(d)
<1> DEFINE d == AddBlock(c, n)
           block == [hash |-> <<n, mined[n] + 1>>, previous |-> c.chain[Len(c.chain)].hash,
                     transactions |-> c.pending]
<1>1. /\ c.chain \in Seq(Block) /\ c.chain # <<>>
      /\ c.pending \in Seq(Transaction)
  BY DEF Sound, Blockchain
<1>2. d = [chain |-> Append(c.chain, block), pending |-> c.pending]
  BY DEF AddBlock
<1>3. block \in Block
  <2>1. c.chain[Len(c.chain)] \in Block
    BY <1>1
  <2> QED
    BY <1>1, <2>1 DEF Block, Hash
<1> HIDE DEF block, d
<1>5. Append(c.chain, block) \in Seq(Block) /\ Append(c.chain, block) # <<>>
  BY <1>1, <1>3
<1>6. LinksHold(d)
  <2> SUFFICES ASSUME NEW i \in 2 .. Len(Append(c.chain, block))
               PROVE  Append(c.chain, block)[i].previous = Append(c.chain, block)[i - 1].hash
    BY <1>2 DEF LinksHold
  <2>1. CASE i <= Len(c.chain)
    <3>1. c.chain[i].previous = c.chain[i - 1].hash
      BY <1>1, <2>1 DEF Sound, LinksHold
    <3> QED
      BY <1>1, <2>1, <3>1
  <2>2. CASE i = Len(c.chain) + 1
    BY <1>1, <2>2 DEF block
  <2> QED
    BY <1>1, <2>1, <2>2
<1>7. Range(c.pending) \subseteq InBlocks(d)
  <2>1. d.chain \in Seq(Block) /\ Len(d.chain) = Len(c.chain) + 1 /\ d.chain[Len(c.chain) + 1] = block
    BY <1>1, <1>2, <1>3, <1>5
  <2>2. block \in Range(d.chain)
    BY <1>1, <2>1 DEF Range
  <2>3. block.transactions = c.pending
    BY DEF block
  <2> QED
    BY <2>2, <2>3, Zenon DEF InBlocks
<1>8. d \in Blockchain /\ d.chain # <<>> /\ Len(d.chain) = Len(c.chain) + 1 /\ d.pending = c.pending
  BY <1>1, <1>2, <1>3, <1>5 DEF Blockchain
<1> QED
  BY <1>6, <1>7, <1>8, Zenon DEF Sound, d

(* When the pending transactions start again the chain stays.              *)
LEMMA ClearKeeps ==
  ASSUME NEW c, Sound(c)
  PROVE  LET d == ClearPending(c) IN
         /\ Sound(d)
         /\ d.chain = c.chain
         /\ InBlocks(d) = InBlocks(c)
<1> DEFINE d == ClearPending(c)
<1>1. d.chain = c.chain /\ d \in Blockchain
  BY DEF ClearPending, Sound, Blockchain
<1>2. LinksHold(d)
  BY <1>1 DEF LinksHold, Sound
<1> HIDE DEF d
<1> QED
  BY <1>1, <1>2 DEF Sound, InBlocks, d

(* IsValid of a well-formed chain is that the node can read it.            *)
LEMMA ValidIffReadable ==
  ASSUME NEW c, Sound(c), NEW n
  PROVE  IsValid(c, n) <=> Readable(c, n)
BY DEF IsValid, Readable, Sound, LinksHold

(* Whether a chain can be read depends on its blocks only.                 *)
LEMMA ReadableByChain ==
  ASSUME NEW c, NEW d, c.chain = d.chain, NEW n
  PROVE  Readable(c, n) <=> Readable(d, n)
BY DEF Readable

(* A concatenation has the elements of its second part.                    *)
LEMMA ConcatRange ==
  ASSUME NEW S, NEW u \in Seq(S), NEW v \in Seq(S)
  PROVE  Range(v) \subseteq Range(u \o v)
<1> SUFFICES ASSUME NEW i \in DOMAIN v PROVE v[i] \in Range(u \o v)
  BY Zenon DEF Range
<1> DEFINE w == u \o v
           j == Len(u) + i
<1>1. w \in Seq(S) /\ Len(w) = Len(u) + Len(v)
  OBVIOUS
<1>2. i \in Nat /\ i >= 1 /\ i <= Len(v) /\ Len(u) \in Nat
  OBVIOUS
<1>3. j \in DOMAIN w
  BY <1>1, <1>2
<1>4. w[j] = v[i]
  BY <1>1, <1>2
<1> QED
  BY <1>3, <1>4, Zenon DEF Range

(* What is kept of a longer chain has the pending transactions of both.    *)
LEMMA MergeKeeps ==
  ASSUME NEW c \in SoundChain, NEW own \in SoundChain
  PROVE  /\ Merged(c, own) \in SoundChain
         /\ Merged(c, own).chain = c.chain
         /\ Range(own.pending) \subseteq Range(Merged(c, own).pending)
<1>1. /\ c.chain \in Seq(Block)
      /\ c.pending \in Seq(Transaction)
      /\ own.pending \in Seq(Transaction)
  BY DEF SoundChain, Sound, Blockchain
<1>2. Merged(c, own) = [chain |-> c.chain, pending |-> c.pending \o own.pending]
  BY DEF Merged
<1>3. c.pending \o own.pending \in Seq(Transaction)
  BY <1>1
<1>4. Range(own.pending) \subseteq Range(c.pending \o own.pending)
  BY <1>1, ConcatRange
<1>5. LinksHold(Merged(c, own))
  BY <1>2 DEF LinksHold, SoundChain, Sound
<1>6. Merged(c, own) \in Blockchain
  BY <1>1, <1>2, <1>3 DEF Blockchain
<1> QED
  BY <1>2, <1>4, <1>5, <1>6 DEF SoundChain, Sound

(* What a queue of messages holds after a message is added or taken.       *)
LEMMA QueueRange ==
  ASSUME NEW S, NEW u \in Seq(S), NEW x \in S
  PROVE  /\ Range(Append(u, x)) \subseteq Range(u) \cup {x}
         /\ u # <<>> => Head(u) \in Range(u) /\ Range(Tail(u)) \subseteq Range(u)
<1>1. ASSUME NEW i \in DOMAIN Append(u, x) PROVE Append(u, x)[i] \in Range(u) \cup {x}
  <2>1. CASE i \in DOMAIN u
    <3>1. Append(u, x)[i] = u[i]
      BY <2>1
    <3> QED
      BY <2>1, <3>1, Zenon DEF Range
  <2>2. CASE i \notin DOMAIN u
    <3>1. Append(u, x)[i] = x
      BY <2>2
    <3> QED
      BY <3>1
  <2> QED
    BY <2>1, <2>2
<1>2. ASSUME u # <<>> PROVE Head(u) \in Range(u)
  <2>1. 1 \in DOMAIN u /\ Head(u) = u[1]
    BY <1>2
  <2> QED
    BY <2>1, Zenon DEF Range
<1>3. ASSUME u # <<>>, NEW i \in DOMAIN Tail(u) PROVE Tail(u)[i] \in Range(u)
  <2>1. i + 1 \in DOMAIN u /\ Tail(u)[i] = u[i + 1]
    BY <1>3
  <2> QED
    BY <2>1, Zenon DEF Range
<1> QED
  BY <1>1, <1>2, <1>3 DEF Range

(* The node of an end, and the other end of a link.                        *)
LEMMA Ends ==
  ASSUME NEW e \in End
  PROVE  /\ NodeOf(e) \in Node
         /\ <<e[1], "client">> \in End
         /\ e[1] \in Link
         /\ SenderTo(<<e[1], "client">>) = e[1][2]
         /\ e[2] = "server" => NodeOf(e) = e[1][2]
BY BlockchainAssumption DEF NodeOf, SenderTo, End

(* The control part of the invariant is kept by every step.                *)
LEMMA ControlStep == IInv /\ [Next]_vars => Control'
<1> SUFFICES ASSUME Control, [Next]_vars PROVE Control'
  BY DEF IInv
<1> USE DEF Control
<1>1. ASSUME NEW l \in Link, Connect(l) PROVE Control'
  BY <1>1 DEF Connect, user
<1>2. ASSUME NEW n \in Node, Choose(n) PROVE Control'
  <2>1. current' \in [Node -> BOOLEAN]
    BY <1>2, Zenon DEF Choose
  <2> QED
    BY <1>2, <2>1, BlockchainAssumption DEF Choose, Go, MainPc, net
<1>11. ASSUME NEW n \in Node, Create(n) PROVE Control'
  BY <1>11, BlockchainAssumption DEF Create, Go, MainPc, net
<1>12. ASSUME NEW n \in Node, Clear(n) \/ Reward(n) PROVE Control'
  BY <1>12, BlockchainAssumption DEF Clear, Reward, Go, MainPc, net
<1>3. ASSUME NEW n \in Node, StartMining(n) PROVE Control'
  <2>1. current' \in [Node -> BOOLEAN]
    BY <1>3, Zenon DEF StartMining
  <2> QED
    BY <1>3, <2>1, BlockchainAssumption DEF StartMining, Go, MainPc, net
<1>4. ASSUME NEW n \in Node, FinishMining(n) PROVE Control'
  <2>1. /\ main[n] = "mining"
        /\ main' = [main EXCEPT ![n] = "added"]
        /\ mined' = [mined EXCEPT ![n] = @ + 1]
    BY <1>4 DEF FinishMining, Go
  <2>2. UNCHANGED <<setup, current, connected, synched, raced>>
    BY <1>4 DEF FinishMining, net
  <2>3. main' \in [Node -> MainPc]
    BY <2>1 DEF MainPc
  <2>4. mined' \in [Node -> Nat]
    BY <2>1
  <2>5. \A m \in Node : mined'[m] <= setup.blocks[m]
    <3>1. mined[n] \in Nat /\ setup.blocks[n] \in Nat /\ mined[n] < setup.blocks[n]
      BY <2>1, BlockchainAssumption
    <3>2. mined[n] + 1 <= setup.blocks[n]
      BY <3>1
    <3>3. mined'[n] = mined[n] + 1
      BY <2>1
    <3>4. \A m \in Node : m # n => mined'[m] = mined[m]
      BY <2>1
    <3> QED
      BY <3>2, <3>3, <3>4
  <2>6. \A m \in Node : main'[m] \in {"adding", "created", "mining"} => mined'[m] < setup.blocks[m]
    BY <2>1, BlockchainAssumption
  <2> QED
    BY <2>2, <2>3, <2>4, <2>5, <2>6
<1>5. ASSUME NEW n \in Node, Broadcast(n) PROVE Control'
  BY <1>5 DEF Broadcast, Go, MainPc
<1>6. ASSUME NEW e \in End, Compare(e) PROVE Control'
  BY <1>6 DEF Compare, user
<1>7. ASSUME NEW e \in End, Merge(e) PROVE Control'
  BY <1>7 DEF Merge, user, net
<1>8. ASSUME NEW e \in End, Assign(e) PROVE Control'
  <2>1. current' \in [Node -> BOOLEAN]
    BY <1>8, Zenon DEF Assign
  <2>2. raced' \subseteq Node
    BY <1>8, Ends DEF Assign
  <2> QED
    BY <1>8, <2>1, <2>2 DEF Assign, net
<1>9. ASSUME NEW e \in End, Reply(e) PROVE Control'
  <2>1. synched' \in [Link -> BOOLEAN]
    BY <1>9, Zenon DEF Reply
  <2> QED
    BY <1>9, <2>1 DEF Reply, user
<1>10. ASSUME UNCHANGED vars PROVE Control'
  BY <1>10 DEF vars, user, net
<1> QED
  BY <1>1, <1>2, <1>3, <1>4, <1>5, <1>6, <1>8, <1>9, <1>10, <1>7, <1>11, <1>12 DEF Next, Mine, OnMessage

(* So is the data part: nodes create, send and keep sound chains only.     *)
LEMMA DataStep == IInv /\ [Next]_vars => Data'
<1> SUFFICES ASSUME IInv, [Next]_vars PROVE Data'
  OBVIOUS
<1> USE DEF Data
<1>0. Control /\ Data
  BY DEF IInv
<1>1. ASSUME NEW l \in Link, Connect(l) PROVE Data'
  <2>1. l[1] \in Node /\ <<l, "server">> \in End
    BY BlockchainAssumption DEF End
  <2> QED
    BY <1>0, <1>1, <2>1 DEF Connect
<1>2. ASSUME NEW n \in Node, NEW d \in SoundChain, Change(n, d), UNCHANGED <<inbox, handler>>
      PROVE  Data'
  BY <1>0, <1>2 DEF Change
<1>3. ASSUME NEW n \in Node, Create(n) \/ Reward(n) PROVE Data'
  <2>1. \A k \in {"transfer", "reward"} : <<n, mined[n], k>> \in Transaction
    BY <1>0 DEF Control, Transaction
  <2>2. Sound(chainCoin[n]) /\ Sound(ClearPending(chainCoin[n]))
    BY <1>0, ClearKeeps DEF SoundChain
  <2>3. \A k \in {"transfer", "reward"} :
          CreateTransaction(chainCoin[n], <<n, mined[n], k>>) \in SoundChain
    BY <2>1, <2>2, CreateAdds DEF SoundChain, Sound
  <2> QED
    BY <1>2, <1>3, <2>3 DEF Create, Reward, net
<1>11. ASSUME NEW n \in Node, Clear(n) PROVE Data'
  <2>1. ClearPending(chainCoin[n]) \in SoundChain
    BY <1>0, ClearKeeps DEF SoundChain, Sound
  <2> QED
    BY <1>2, <1>11, <2>1 DEF Clear, net
<1>4. ASSUME NEW n \in Node, FinishMining(n) PROVE Data'
  <2>1. AddBlock(chainCoin[n], n) \in SoundChain
    BY <1>0, MiningAppends DEF SoundChain, Sound, Control
  <2> QED
    BY <1>2, <1>4, <2>1 DEF FinishMining, net
<1>12. ASSUME NEW n \in Node, Choose(n) \/ StartMining(n) PROVE Data'
  BY <1>0, <1>12 DEF Choose, StartMining, net
<1>5. ASSUME NEW n \in Node, Broadcast(n) PROVE Data'
  <2>1. inbox' \in [End -> Seq(SoundChain)]
    BY <1>0, <1>5 DEF Broadcast
  <2> QED
    BY <1>0, <1>5, <2>1 DEF Broadcast
<1>6. ASSUME NEW e \in End, Compare(e) PROVE Data'
  <2> DEFINE c == Head(inbox[e])
             own == chainCoin[NodeOf(e)]
             h == IF Longer(c, own, NodeOf(e))
                  THEN [pc |-> "merge", next |-> c, basis |-> own, late |-> FALSE]
                  ELSE AfterMessage(e)
  <2>1. c \in SoundChain /\ own \in SoundChain
    <3>1. inbox[e] \in Seq(SoundChain) /\ inbox[e] # <<>>
      BY <1>0, <1>6 DEF Compare
    <3>2. own \in SoundChain
      BY <1>0, Ends
    <3> QED
      BY <3>1, <3>2
  <2>2. h \in {Resting, Replying} \cup SoundTaking
    <3>1. CASE Longer(c, own, NodeOf(e))
      BY <2>1, <3>1 DEF SoundTaking, Longer
    <3>2. CASE ~ Longer(c, own, NodeOf(e))
      BY <3>2 DEF AfterMessage
    <3> QED
      BY <3>1, <3>2
  <2>3. handler' = [handler EXCEPT ![e] = h] /\ inbox' = [inbox EXCEPT ![e] = Tail(@)]
    BY <1>6 DEF Compare
  <2> HIDE DEF h
  <2>4. handler' \in [End -> {Resting, Replying} \cup SoundTaking]
    BY <1>0, <2>2, <2>3
  <2>5. inbox' \in [End -> Seq(SoundChain)]
    BY <1>0, <1>6, <2>3 DEF Compare
  <2> QED
    BY <1>0, <1>6, <2>4, <2>5 DEF Compare
<1>7. ASSUME NEW e \in End, Merge(e) PROVE Data'
  <2> DEFINE d == Merged(handler[e].next, chainCoin[NodeOf(e)])
             h == [pc |-> "assign", next |-> d, basis |-> handler[e].basis, late |-> Races(e)]
  <2>1. handler[e] \in SoundTaking
    BY <1>0, <1>7 DEF Merge, Resting, Replying
  <2>2. chainCoin[NodeOf(e)] \in SoundChain
    BY <1>0, Ends
  <2>3. d \in SoundChain /\ d.chain = handler[e].next.chain
    BY <2>1, <2>2, MergeKeeps DEF SoundTaking
  <2>4. handler' = [handler EXCEPT ![e] = h]
    BY <1>7 DEF Merge
  <2> HIDE DEF d
  <2>5. h \in SoundTaking
    <3>1. Races(e) \in BOOLEAN
      BY <2>1 DEF Races, SoundTaking
    <3> QED
      BY <2>1, <2>3, <3>1 DEF SoundTaking
  <2> HIDE DEF h
  <2>6. handler' \in [End -> {Resting, Replying} \cup SoundTaking]
    BY <1>0, <2>4, <2>5
  <2> QED
    BY <1>0, <1>7, <2>6 DEF Merge, net
<1>8. ASSUME NEW e \in End, Assign(e) PROVE Data'
  <2>1. handler[e].next \in SoundChain
    BY <1>0, <1>8 DEF Assign, Resting, Replying, SoundTaking
  <2>2. chainCoin' \in [Node -> SoundChain]
    BY <1>0, <1>8, <2>1 DEF Assign
  <2>3. handler' \in [End -> {Resting, Replying} \cup SoundTaking]
    BY <1>0, <1>8 DEF Assign, AfterMessage
  <2> QED
    BY <1>0, <1>8, <2>2, <2>3 DEF Assign, net
<1>9. ASSUME NEW e \in End, Reply(e) PROVE Data'
  <2>1. inbox' \in [End -> Seq(SoundChain)]
    <3>1. <<e[1], "client">> \in End /\ chainCoin[NodeOf(e)] \in SoundChain
      BY <1>0, Ends
    <3>2. Append(inbox[<<e[1], "client">>], chainCoin[NodeOf(e)]) \in Seq(SoundChain)
      BY <1>0, <3>1
    <3>3. inbox' = [inbox EXCEPT ![<<e[1], "client">>] = Append(@, chainCoin[NodeOf(e)])]
      BY <1>9 DEF Reply
    <3> QED
      BY <1>0, <3>1, <3>2, <3>3
  <2> QED
    BY <1>0, <1>9, <2>1 DEF Reply
<1>10. ASSUME UNCHANGED vars PROVE Data'
  BY <1>0, <1>10 DEF vars, net
<1> QED
  BY <1>1, <1>3, <1>4, <1>5, <1>6, <1>7, <1>8, <1>9, <1>10, <1>11, <1>12 DEF Next, Mine, OnMessage

(* A merge adds the pending transactions of the ChainCoin that was compared*)
(* with, or finds another one and notes that it is late.                   *)
LEMMA PendingStep == IInv /\ [Next]_vars => \A e \in End : HasPending(e)'
<1> SUFFICES ASSUME IInv, [Next]_vars, NEW f \in End PROVE HasPending(f)'
  OBVIOUS
<1>0. /\ Data
      /\ HasPending(f)
      /\ handler \in [End -> {Resting, Replying} \cup SoundTaking]
  BY DEF IInv, Data
<1>1. ASSUME handler'[f] = handler[f] PROVE HasPending(f)'
  BY <1>0, <1>1 DEF HasPending
<1>2. ASSUME handler'[f].pc # "assign" PROVE HasPending(f)'
  BY <1>2 DEF HasPending
<1>3. ASSUME NEW e \in End, Compare(e) \/ Assign(e) \/ Reply(e) PROVE HasPending(f)'
  <2>1. CASE e # f
    BY <1>0, <1>1, <1>3, <2>1 DEF Compare, Assign, Reply
  <2>2. CASE e = f
    BY <1>0, <1>2, <1>3, <2>2 DEF Compare, Assign, Reply, AfterMessage, Resting, Replying
  <2> QED
    BY <2>1, <2>2
<1>4. ASSUME NEW e \in End, Merge(e) PROVE HasPending(f)'
  <2>1. CASE e # f
    BY <1>0, <1>1, <1>4, <2>1 DEF Merge
  <2>2. CASE e = f
    <3>1. /\ handler'[f].next = Merged(handler[f].next, chainCoin[NodeOf(f)])
          /\ handler'[f].basis = handler[f].basis
          /\ handler'[f].late = Races(f)
      BY <1>0, <1>4, <2>2 DEF Merge
    <3>2. CASE Races(f)
      BY <3>1, <3>2 DEF HasPending
    <3>3. CASE ~ Races(f)
      <4>1. handler[f].next \in SoundChain /\ handler[f].basis \in SoundChain
        BY <1>0, <1>4, <2>2 DEF Merge, Resting, Replying, SoundTaking
      <4>2. chainCoin[NodeOf(f)] = handler[f].basis
        BY <3>3 DEF Races
      <4>3. Range(handler[f].basis.pending) \subseteq
              Range(Merged(handler[f].next, handler[f].basis).pending)
        BY <4>1, MergeKeeps
      <4> QED
        BY <3>1, <4>2, <4>3, Zenon DEF HasPending
    <3> QED
      BY <3>2, <3>3
  <2> QED
    BY <2>1, <2>2
<1>5. ASSUME handler' = handler PROVE HasPending(f)'
  BY <1>1, <1>5
<1> QED
  BY <1>3, <1>4, <1>5
  DEF Next, Mine, OnMessage, Connect, Choose, Create, StartMining, FinishMining, Clear,
      Reward, Broadcast, vars

(* Between adding a block and starting the pending transactions again, Main*)
(* alone changes the object it works on.                                   *)
LEMMA MinedStep == IInv /\ [Next]_vars => \A n \in Node : HasMined(n)'
<1> SUFFICES ASSUME IInv, [Next]_vars, NEW n \in Node PROVE HasMined(n)'
  OBVIOUS
<1>0. /\ HasMined(n) /\ Sound(chainCoin[n]) /\ mined[n] \in Nat
      /\ chainCoin \in [Node -> SoundChain]
      /\ main \in [Node -> MainPc] /\ current \in [Node -> BOOLEAN]
  BY DEF IInv, Control, Data, SoundChain
<1>1. ASSUME main'[n] = main[n], current'[n] = current[n], chainCoin'[n] = chainCoin[n]
      PROVE  HasMined(n)'
  BY <1>0, <1>1 DEF HasMined, InBlocks
<1>2. ASSUME main'[n] # "added" \/ ~ current'[n] PROVE HasMined(n)'
  BY <1>2 DEF HasMined
<1>3. ASSUME NEW m \in Node, Choose(m) \/ Create(m) \/ StartMining(m) \/ Clear(m) \/ Reward(m)
                              \/ Broadcast(m)
      PROVE  HasMined(n)'
  <2>1. CASE m # n
    BY <1>0, <1>1, <1>3, <2>1
       DEF Choose, Create, StartMining, Clear, Reward, Broadcast, Go, Change
  <2>2. CASE m = n
    BY <1>0, <1>2, <1>3, <2>2
       DEF Choose, Create, StartMining, Clear, Reward, Broadcast, Go
  <2> QED
    BY <2>1, <2>2
<1>4. ASSUME NEW m \in Node, FinishMining(m) PROVE HasMined(n)'
  <2>1. CASE m # n
    BY <1>0, <1>1, <1>4, <2>1 DEF FinishMining, Go, Change
  <2>2. CASE m = n /\ current[n]
    <3> DEFINE d == AddBlock(chainCoin[n], n)
    <3>1. Range(d.pending) \subseteq InBlocks(d)
      BY <1>0, MiningAppends
    <3>2. chainCoin'[n] = d
      BY <1>0, <1>4, <2>2 DEF FinishMining, Change
    <3> HIDE DEF d
    <3> QED
      BY <3>1, <3>2 DEF HasMined, InBlocks
  <2>3. CASE m = n /\ ~ current[n]
    BY <1>0, <1>2, <1>4, <2>3 DEF FinishMining
  <2> QED
    BY <2>1, <2>2, <2>3
<1>5. ASSUME NEW e \in End, Assign(e) PROVE HasMined(n)'
  <2>1. CASE NodeOf(e) # n
    BY <1>0, <1>1, <1>5, <2>1, Zenon DEF Assign
  <2>2. CASE NodeOf(e) = n
    <3>1. ~ current'[n]
      BY <1>0, <1>5, <2>2, Zenon DEF Assign
    <3> QED
      BY <1>2, <3>1
  <2> QED
    BY <2>1, <2>2
<1>6. ASSUME UNCHANGED <<chainCoin, main, current>> PROVE HasMined(n)'
  BY <1>1, <1>6
<1> QED
  BY <1>3, <1>4, <1>5, <1>6
  DEF Next, Mine, OnMessage, Connect, Compare, Merge, Reply, vars, user

(* Only sessions of servers owe an answer.                                 *)
LEMMA RepliesStep == IInv /\ [Next]_vars => OnlyServersReply'
<1> SUFFICES ASSUME IInv, [Next]_vars PROVE OnlyServersReply'
  OBVIOUS
<1>1. handler \in [End -> {Resting, Replying} \cup SoundTaking] /\ OnlyServersReply
  BY DEF IInv, Data
<1>2. ASSUME handler' = handler PROVE OnlyServersReply'
  BY <1>1, <1>2 DEF OnlyServersReply
<1>3. ASSUME NEW f \in End, OnMessage(f) PROVE OnlyServersReply'
  <2>1. \A e \in End \ {f} : handler'[e] = handler[e]
    BY <1>1, <1>3 DEF OnMessage, Compare, Merge, Assign, Reply
  <2>2. handler'[f] = Replying => f[2] = "server"
    BY <1>1, <1>3 DEF OnMessage, Compare, Merge, Assign, Reply, AfterMessage,
                      Resting, Replying
  <2> QED
    BY <1>1, <2>1, <2>2 DEF OnlyServersReply
<1> QED
  BY <1>2, <1>3
  DEF Next, Mine, Connect, Choose, Create, StartMining, FinishMining, Clear, Reward,
      Broadcast, vars

(* The nodes stay as they were set up.                                     *)
LEMMA SetupStays == [Next]_vars => UNCHANGED setup
BY DEF Next, Mine, OnMessage, Connect, Choose, Create, StartMining, FinishMining, Clear,
       Reward, Broadcast, Compare, Merge, Assign, Reply, vars

(* A step keeps chains readable if what is new in each place is a chain the*)
(* node of that place could read before.                                   *)
LEMMA ReadableNext ==
  ASSUME IInv, UNCHANGED setup,
         \A n \in Node : Readable(chainCoin'[n], n),
         \A e \in End : \A c \in Range(inbox'[e]) :
            c \in Range(inbox[e]) \/ \E n \in Node : n = SenderTo(e) /\ c = chainCoin[n],
         \A e \in End : handler'[e].pc \in {"merge", "assign"} =>
            Readable(handler'[e].next, NodeOf(e))
  PROVE  AllReadable'
<1>1. ASSUME NEW e \in End, NEW c \in Range(inbox'[e]) PROVE Readable(c, SenderTo(e))
  BY <1>1 DEF IInv, AllReadable
<1> QED
  BY <1>1 DEF AllReadable, Readable, Recalculated, NodeOf, SenderTo

(* The node of each place can read what gets there.                        *)
LEMMA ReadableStep == IInv /\ [Next]_vars => AllReadable'
<1> SUFFICES ASSUME IInv, [Next]_vars PROVE AllReadable'
  OBVIOUS
<1>0. /\ chainCoin \in [Node -> SoundChain]
      /\ inbox \in [End -> Seq(SoundChain)]
      /\ handler \in [End -> {Resting, Replying} \cup SoundTaking]
      /\ UNCHANGED setup
      /\ \A n \in Node : Readable(chainCoin[n], n)
      /\ \A e \in End : handler[e].pc \in {"merge", "assign"} =>
           Readable(handler[e].next, NodeOf(e))
  BY SetupStays DEF IInv, Data, AllReadable
<1>1. ASSUME NEW e \in End, NEW n \in Node, SenderTo(e) = n, UNCHANGED <<chainCoin, handler>>,
             inbox' = [inbox EXCEPT ![e] = Append(@, chainCoin[n])]
      PROVE  AllReadable'
  <2>1. Range(Append(inbox[e], chainCoin[n])) \subseteq Range(inbox[e]) \cup {chainCoin[n]}
    BY <1>0, QueueRange
  <2> QED
    BY <1>0, <1>1, <2>1, ReadableNext
<1>2. ASSUME NEW n \in Node, NEW d, Readable(d, n), Change(n, d), UNCHANGED <<inbox, handler>>
      PROVE  AllReadable'
  <2>1. \A m \in Node : chainCoin'[m] = chainCoin[m] \/ (m = n /\ chainCoin'[m] = d)
    BY <1>0, <1>2 DEF Change
  <2>2. \A m \in Node : Readable(chainCoin'[m], m)
    BY <1>0, <1>2, <2>1
  <2> QED
    BY <1>0, <1>2, <2>2, ReadableNext
<1>3. ASSUME NEW l \in Link, Connect(l) PROVE AllReadable'
  <2>1. <<l, "server">> \in End /\ l[1] \in Node /\ SenderTo(<<l, "server">>) = l[1]
    BY BlockchainAssumption DEF End, SenderTo
  <2> QED
    BY <1>1, <1>3, <2>1 DEF Connect
<1>4. ASSUME NEW n \in Node, Create(n) \/ Reward(n) \/ Clear(n) PROVE AllReadable'
  <2>1. \A t : Readable(CreateTransaction(chainCoin[n], t), n)
    BY <1>0, ReadableByChain DEF CreateTransaction
  <2>2. Readable(ClearPending(chainCoin[n]), n)
    BY <1>0, ReadableByChain DEF ClearPending
  <2> QED
    BY <1>2, <1>4, <2>1, <2>2 DEF Create, Reward, Clear, net
<1>5. ASSUME NEW n \in Node, FinishMining(n) PROVE AllReadable'
  <2> DEFINE c == chainCoin[n].chain
             block == [hash |-> <<n, mined[n] + 1>>, previous |-> c[Len(c)].hash,
                       transactions |-> chainCoin[n].pending]
             d == AddBlock(chainCoin[n], n)
  <2>1. c \in Seq(Block)
    BY <1>0 DEF SoundChain, Blockchain
  <2>2. d.chain = Append(c, block)
    BY DEF AddBlock
  <2>3. Recalculated(block, n)
    BY DEF Recalculated
  <2> HIDE DEF block, d, c
  <2>4. \A i \in 2 .. Len(Append(c, block)) :
          Append(c, block)[i] = block \/ (i \in 2 .. Len(c) /\ Append(c, block)[i] = c[i])
    BY <2>1
  <2>5. \A i \in 2 .. Len(c) : Recalculated(c[i], n)
    BY <1>0 DEF Readable, c
  <2>6. Readable(d, n)
    BY <2>2, <2>3, <2>4, <2>5 DEF Readable
  <2> QED
    BY <1>2, <1>5, <2>6 DEF FinishMining, net, d
<1>6. ASSUME NEW n \in Node, Broadcast(n) PROVE AllReadable'
  <2>1. \A e \in End :
          Range(Append(inbox[e], chainCoin[n])) \subseteq Range(inbox[e]) \cup {chainCoin[n]}
    BY <1>0, QueueRange
  <2>2. \A e \in End : inbox'[e] = inbox[e]
                      \/ (SenderTo(e) = n /\ inbox'[e] = Append(inbox[e], chainCoin[n]))
    BY <1>0, <1>6 DEF Broadcast, SenderTo
  <2>3. UNCHANGED <<chainCoin, handler>>
    BY <1>6 DEF Broadcast
  <2> QED
    BY <1>0, <2>1, <2>2, <2>3, ReadableNext
<1>7. ASSUME NEW e \in End, Compare(e) PROVE AllReadable'
  <2> DEFINE c == Head(inbox[e])
             n == NodeOf(e)
  <2>1. inbox[e] \in Seq(SoundChain) /\ inbox[e] # <<>> /\ c \in SoundChain
    BY <1>0, <1>7 DEF Compare
  <2>2. \A f \in End : Range(inbox'[f]) \subseteq Range(inbox[f])
    BY <1>0, <1>7, <2>1, QueueRange DEF Compare
  <2>3. Longer(c, chainCoin[n], n) => Readable(c, n)
    BY <2>1, ValidIffReadable DEF Longer, SoundChain
  <2>4. handler'[e].pc \in {"merge", "assign"} => handler'[e].next = c /\ Readable(c, n)
    BY <1>0, <1>7, <2>3 DEF Compare, AfterMessage, Resting, Replying
  <2>5. \A f \in End \ {e} : handler'[f] = handler[f]
    BY <1>0, <1>7 DEF Compare
  <2>6. \A f \in End : handler'[f].pc \in {"merge", "assign"} =>
          Readable(handler'[f].next, NodeOf(f))
    BY <1>0, <2>4, <2>5
  <2>7. chainCoin' = chainCoin
    BY <1>7 DEF Compare
  <2> QED
    BY <1>0, <2>2, <2>6, <2>7, ReadableNext
<1>8. ASSUME NEW e \in End, Merge(e) PROVE AllReadable'
  <2>1. handler'[e].next.chain = handler[e].next.chain /\ handler[e].pc = "merge"
    BY <1>0, <1>8 DEF Merge, Merged
  <2>2. Readable(handler'[e].next, NodeOf(e))
    BY <1>0, <2>1, ReadableByChain
  <2>3. \A f \in End \ {e} : handler'[f] = handler[f]
    BY <1>0, <1>8 DEF Merge
  <2>4. UNCHANGED <<chainCoin, inbox>>
    BY <1>8 DEF Merge, net
  <2> QED
    BY <1>0, <2>2, <2>3, <2>4, ReadableNext
<1>9. ASSUME NEW e \in End, Assign(e) PROVE AllReadable'
  <2>1. \A m \in Node : chainCoin'[m] = chainCoin[m]
                        \/ (m = NodeOf(e) /\ chainCoin'[m] = handler[e].next)
    BY <1>0, <1>9 DEF Assign
  <2>2. Readable(handler[e].next, NodeOf(e))
    BY <1>0, <1>9 DEF Assign
  <2>3. \A m \in Node : Readable(chainCoin'[m], m)
    BY <1>0, <2>1, <2>2
  <2>4. \A f \in End : handler'[f].pc \in {"merge", "assign"} => handler'[f] = handler[f]
    BY <1>0, <1>9 DEF Assign, AfterMessage, Resting, Replying
  <2>5. inbox' = inbox
    BY <1>9 DEF Assign, net
  <2> QED
    BY <1>0, <2>3, <2>4, <2>5, ReadableNext
<1>10. ASSUME NEW e \in End, Reply(e) PROVE AllReadable'
  <2> DEFINE f == <<e[1], "client">>
             n == NodeOf(e)
  <2>1. f \in End /\ n \in Node /\ SenderTo(f) = n
    BY <1>10, Ends DEF Reply, IInv, OnlyServersReply
  <2>2. Range(Append(inbox[f], chainCoin[n])) \subseteq Range(inbox[f]) \cup {chainCoin[n]}
    BY <1>0, <2>1, QueueRange
  <2>3. inbox' = [inbox EXCEPT ![f] = Append(@, chainCoin[n])] /\ chainCoin' = chainCoin
    BY <1>10 DEF Reply
  <2>4. \A g \in End : handler'[g].pc \in {"merge", "assign"} => handler'[g] = handler[g]
    BY <1>0, <1>10 DEF Reply, Resting
  <2> HIDE DEF f, n
  <2> QED
    BY <1>0, <2>1, <2>2, <2>3, <2>4, ReadableNext
<1>11. ASSUME UNCHANGED <<chainCoin, inbox, handler>> PROVE AllReadable'
  BY <1>0, <1>11, ReadableNext
<1> QED
  BY <1>3, <1>4, <1>5, <1>6, <1>7, <1>8, <1>9, <1>10, <1>11
  DEF Next, Mine, OnMessage, Choose, StartMining, vars, net

(* The chains are sound at the start, and so always.                       *)
THEOREM BlockchainInvariant == FairSpec => []IInv
<1>1. Init => IInv
  <2> SUFFICES ASSUME Init PROVE IInv
    OBVIOUS
  <2>1. Control
    <3>1. setup \in Setups /\ setup.blocks \in [Node -> Nat]
      BY BlockchainAssumption DEF Init
    <3>2. \A n \in Node : 0 <= setup.blocks[n]
      BY <3>1
    <3> QED
      BY <3>1, <3>2 DEF Init, Control, MainPc
  <2>2. ASSUME NEW n \in Node PROVE chainCoin[n] \in SoundChain
    <3>1. Genesis(n) \in Block
      BY DEF Genesis, Block, Hash, NoHash
    <3>2. chainCoin[n] = [chain |-> <<Genesis(n)>>, pending |-> <<>>]
      BY DEF Init
    <3> HIDE DEF Genesis
    <3>3. chainCoin[n] \in Blockchain /\ chainCoin[n].chain # <<>>
      BY <3>1, <3>2 DEF Blockchain
    <3>4. LinksHold(chainCoin[n])
      BY <3>1, <3>2 DEF LinksHold
    <3> QED
      BY <3>3, <3>4 DEF SoundChain, Sound
  <2>3. chainCoin \in [Node -> SoundChain]
    BY <2>2 DEF Init
  <2>4. Data
    BY <2>3 DEF Init, Data
  <2>5. ASSUME NEW e \in End PROVE HasPending(e)
    BY DEF Init, HasPending, Resting
  <2>6. OnlyServersReply
    BY DEF Init, OnlyServersReply, Resting, Replying
  <2>7. \A n \in Node : HasMined(n)
    BY DEF Init, HasMined
  <2>8. AllReadable
    <3>1. ASSUME NEW n \in Node PROVE Readable(chainCoin[n], n)
      <4>1. chainCoin[n].chain = <<Genesis(n)>>
        BY DEF Init
      <4> HIDE DEF Genesis
      <4> QED
        BY <4>1 DEF Readable
    <3>2. \A e \in End : Range(inbox[e]) = {} /\ handler[e].pc = "ready"
      BY DEF Init, Range, Resting
    <3> QED
      BY <3>1, <3>2 DEF AllReadable
  <2> QED
    BY <2>1, <2>4, <2>5, <2>6, <2>7, <2>8 DEF IInv
<1>2. IInv /\ [Next]_vars => IInv'
  BY ControlStep, DataStep, PendingStep, MinedStep, RepliesStep, ReadableStep DEF IInv
<1> QED
  BY <1>1, <1>2, PTL DEF FairSpec

(* TypeOK is an invariant.                                                 *)
THEOREM BlockchainTypeCorrect == FairSpec => []TypeOK
<1>1. IInv => TypeOK
  <2> SUFFICES ASSUME IInv PROVE TypeOK
    OBVIOUS
  <2>1. SoundChain \subseteq Blockchain
    BY DEF SoundChain
  <2>2. SoundTaking \subseteq Taking
    BY <2>1 DEF SoundTaking, Taking
  <2>3. ASSUME NEW e \in End PROVE inbox[e] \in Seq(Blockchain)
    BY <2>1 DEF IInv, Data
  <2> QED
    BY <2>1, <2>2, <2>3 DEF IInv, Control, Data, TypeOK
<1> QED
  BY <1>1, BlockchainInvariant, PTL

(* ChainsAreValid: IsValid holds of every chain kept or about to be, and at*)
(* the sender of every chain sent, so a node never refuses as invalid what *)
(* another of its culture and time zone sent.                              *)
THEOREM ChainsStayValid == FairSpec => []ChainsAreValid
<1>1. IInv => ChainsAreValid
  <2> SUFFICES ASSUME IInv PROVE ChainsAreValid
    OBVIOUS
  <2>1. ASSUME NEW n \in Node PROVE chainCoin[n].chain # <<>> /\ IsValid(chainCoin[n], n)
    <3>1. Sound(chainCoin[n]) /\ Readable(chainCoin[n], n)
      BY DEF IInv, Data, SoundChain, AllReadable
    <3> QED
      BY <3>1, ValidIffReadable DEF Sound
  <2>2. ASSUME NEW e \in End, NEW c \in Range(inbox[e]) PROVE IsValid(c, SenderTo(e))
    <3>1. inbox[e] \in Seq(SoundChain)
      BY DEF IInv, Data
    <3>2. PICK i \in DOMAIN inbox[e] : c = inbox[e][i]
      BY Zenon DEF Range
    <3>3. c \in SoundChain
      BY <3>1, <3>2
    <3>4. Sound(c) /\ Readable(c, SenderTo(e))
      BY <3>3 DEF SoundChain, IInv, AllReadable
    <3> QED
      BY <3>4, ValidIffReadable
  <2>3. ASSUME NEW e \in End, handler[e].pc \in {"merge", "assign"}
        PROVE  IsValid(handler[e].next, NodeOf(e))
    <3>1. handler[e].next \in SoundChain
      BY <2>3 DEF IInv, Data, SoundTaking, Resting, Replying
    <3>2. Sound(handler[e].next) /\ Readable(handler[e].next, NodeOf(e))
      BY <2>3, <3>1 DEF SoundChain, IInv, AllReadable
    <3> QED
      BY <3>2, ValidIffReadable
  <2> QED
    BY <2>1, <2>2, <2>3 DEF ChainsAreValid
<1> QED
  BY <1>1, BlockchainInvariant, PTL

(* The chains there are come from the three places.                        *)
LEMMA ChainsAre ==
  /\ \A n \in Node : chainCoin[n].chain \in Chains
  /\ \A e \in End : \A c \in Range(inbox[e]) : c.chain \in Chains
  /\ \A e \in End : handler[e].pc \in {"merge", "assign"} => handler[e].next.chain \in Chains
<1>1. \A n \in Node : chainCoin[n].chain \in Chains
  BY Zenon DEF Chains
<1>2. ASSUME NEW e \in End, NEW c \in Range(inbox[e]) PROVE c.chain \in Chains
  <2>1. c.chain \in {d.chain : d \in Range(inbox[e])}
    OBVIOUS
  <2>2. c.chain \in UNION {{d.chain : d \in Range(inbox[f])} : f \in End}
    BY <2>1, Zenon
  <2> QED
    BY <2>2, Zenon DEF Chains
<1>3. ASSUME NEW e \in End, handler[e].pc \in {"merge", "assign"}
      PROVE  handler[e].next.chain \in Chains
  <2>1. e \in {f \in End : handler[f].pc \in {"merge", "assign"}}
    BY <1>3
  <2> QED
    BY <2>1, Zenon DEF Chains
<1> QED
  BY <1>1, <1>2, <1>3

(* So they do after a step.                                                *)
LEMMA ChainsAreNext ==
  ASSUME NEW X,
         \A n \in Node : chainCoin'[n].chain \in X,
         \A e \in End : \A c \in Range(inbox'[e]) : c.chain \in X,
         \A e \in End : handler'[e].pc \in {"merge", "assign"} => handler'[e].next.chain \in X
  PROVE  Chains' \subseteq X
<1>1. {chainCoin'[n].chain : n \in Node} \subseteq X
  OBVIOUS
<1>2. UNION {{c.chain : c \in Range(inbox'[e])} : e \in End} \subseteq X
  <2>1. ASSUME NEW e \in End PROVE {c.chain : c \in Range(inbox'[e])} \subseteq X
    OBVIOUS
  <2> QED
    BY <2>1
<1>3. {handler'[e].next.chain : e \in {f \in End : handler'[f].pc \in {"merge", "assign"}}}
        \subseteq X
  OBVIOUS
<1> QED
  BY <1>1, <1>2, <1>3, Zenon DEF Chains

(* What a node mines next on its chain.                                    *)
NewBlock(n) ==
  [hash |-> <<n, mined[n] + 1>>, previous |-> chainCoin[n].chain[Len(chainCoin[n].chain)].hash,
   transactions |-> chainCoin[n].pending]

MinedBy(n) ==
  /\ mined' = [mined EXCEPT ![n] = @ + 1]
  /\ Chains' \subseteq Chains \cup {Append(chainCoin[n].chain, NewBlock(n))}

(* Chains are copied whole; only mining makes a new one.                   *)
LEMMA ChainsStep ==
  ASSUME IInv, [Next]_vars
  PROVE  (mined' = mined /\ Chains' \subseteq Chains) \/ \E n \in Node : MinedBy(n)
<1> DEFINE Copied == mined' = mined /\ Chains' \subseteq Chains
<1>0. /\ chainCoin \in [Node -> SoundChain]
      /\ inbox \in [End -> Seq(SoundChain)]
      /\ handler \in [End -> {Resting, Replying} \cup SoundTaking]
  BY DEF IInv, Data
<1>1. ASSUME NEW l \in Link, Connect(l) PROVE Copied
  <2> DEFINE e == <<l, "server">>
  <2>1. l[1] \in Node /\ e \in End /\ inbox[e] \in Seq(SoundChain)
    BY <1>0, BlockchainAssumption DEF End
  <2>2. \A f \in End : Range(inbox'[f]) \subseteq Range(inbox[f]) \cup {chainCoin[l[1]]}
    <3>1. inbox' = [inbox EXCEPT ![e] = Append(inbox[e], chainCoin[l[1]])]
      BY <1>1 DEF Connect
    <3>2. Range(Append(inbox[e], chainCoin[l[1]])) \subseteq Range(inbox[e]) \cup {chainCoin[l[1]]}
      BY <1>0, <2>1, QueueRange
    <3> QED
      BY <1>0, <2>1, <3>1, <3>2
  <2> QED
    BY <1>0, <1>1, <2>1, <2>2, ChainsAre, ChainsAreNext DEF Connect, user
<1>2. ASSUME NEW n \in Node, Create(n) \/ Clear(n) \/ Reward(n) PROVE Copied
  <2>1. \A m \in Node : chainCoin'[m].chain = chainCoin[m].chain
    BY <1>0, <1>2 DEF Create, Clear, Reward, Change, CreateTransaction, ClearPending
  <2>2. UNCHANGED <<inbox, handler, mined>>
    BY <1>2 DEF Create, Clear, Reward, net
  <2> QED
    BY <1>0, <2>1, <2>2, ChainsAre, ChainsAreNext
<1>3. ASSUME NEW n \in Node, Choose(n) \/ StartMining(n) PROVE Copied
  BY <1>3 DEF Choose, StartMining, net, Chains
<1>4. ASSUME NEW n \in Node, FinishMining(n) PROVE MinedBy(n)
  <2>1. \A m \in Node : chainCoin'[m].chain \in
          {chainCoin[m].chain, Append(chainCoin[n].chain, NewBlock(n))}
    BY <1>0, <1>4 DEF FinishMining, Change, AddBlock, NewBlock
  <2> QED
    <3> DEFINE X == Chains \cup {Append(chainCoin[n].chain, NewBlock(n))}
    <3>1. UNCHANGED <<inbox, handler>> /\ mined' = [mined EXCEPT ![n] = @ + 1]
      BY <1>4 DEF FinishMining, net
    <3>2. /\ \A m \in Node : chainCoin'[m].chain \in X
          /\ \A e \in End : \A c \in Range(inbox'[e]) : c.chain \in X
          /\ \A e \in End : handler'[e].pc \in {"merge", "assign"} => handler'[e].next.chain \in X
      BY <2>1, <3>1, ChainsAre
    <3> HIDE DEF X
    <3>3. Chains' \subseteq X
      BY <3>2, ChainsAreNext
    <3> QED
      BY <3>1, <3>3 DEF MinedBy, X
<1>5. ASSUME NEW n \in Node, Broadcast(n) PROVE Copied
  <2>1. \A e \in End : Range(inbox'[e]) \subseteq Range(inbox[e]) \cup {chainCoin[n]}
    BY <1>0, <1>5, QueueRange DEF Broadcast
  <2> QED
    BY <1>0, <1>5, <2>1, ChainsAre, ChainsAreNext DEF Broadcast
<1>6. ASSUME NEW e \in End, Compare(e) PROVE Copied
  <2>1. inbox[e] \in Seq(SoundChain) /\ inbox[e] # <<>> /\ Head(inbox[e]) \in SoundChain
    BY <1>0, <1>6 DEF Compare
  <2>2. Head(inbox[e]).chain \in Chains
    BY <2>1, QueueRange, ChainsAre
  <2>3. \A f \in End : Range(inbox'[f]) \subseteq Range(inbox[f])
    BY <1>0, <1>6, <2>1, QueueRange DEF Compare
  <2>4. \A f \in End : handler'[f].pc \in {"merge", "assign"} =>
          \/ handler'[f].next = Head(inbox[e])
          \/ handler'[f] = handler[f]
    BY <1>0, <1>6 DEF Compare, AfterMessage, Resting, Replying
  <2> QED
    BY <1>0, <1>6, <2>2, <2>3, <2>4, ChainsAre, ChainsAreNext DEF Compare, user
<1>7. ASSUME NEW e \in End, Merge(e) PROVE Copied
  <2>1. handler'[e].next.chain = handler[e].next.chain /\ handler[e].pc = "merge"
    BY <1>0, <1>7 DEF Merge, Merged
  <2>2. \A f \in End \ {e} : handler'[f] = handler[f]
    BY <1>0, <1>7 DEF Merge
  <2> QED
    BY <1>0, <1>7, <2>1, <2>2, ChainsAre, ChainsAreNext DEF Merge, user, net
<1>8. ASSUME NEW e \in End, Assign(e) PROVE Copied
  <2>1. \A m \in Node : chainCoin'[m] \in {chainCoin[m], handler[e].next}
    BY <1>0, <1>8 DEF Assign
  <2>2. \A f \in End : handler'[f].pc \in {"merge", "assign"} => handler'[f] = handler[f]
    BY <1>0, <1>8 DEF Assign, AfterMessage, Resting, Replying
  <2>3. handler[e].pc = "assign"
    BY <1>8 DEF Assign
  <2> QED
    BY <1>0, <1>8, <2>1, <2>2, <2>3, ChainsAre, ChainsAreNext DEF Assign, net
<1>9. ASSUME NEW e \in End, Reply(e) PROVE Copied
  <2>1. \A f \in End : Range(inbox'[f]) \subseteq Range(inbox[f]) \cup {chainCoin[NodeOf(e)]}
    BY <1>0, <1>9, Ends, QueueRange DEF Reply
  <2>2. \A f \in End : handler'[f].pc \in {"merge", "assign"} => handler'[f] = handler[f]
    BY <1>0, <1>9 DEF Reply, Resting
  <2> QED
    BY <1>0, <1>9, <2>1, <2>2, Ends, ChainsAre, ChainsAreNext DEF Reply, user
<1>10. ASSUME UNCHANGED vars PROVE Copied
  BY <1>10 DEF vars, user, net, Chains
<1> QED
  BY <1>1, <1>2, <1>3, <1>4, <1>5, <1>6, <1>7, <1>8, <1>9, <1>10 DEF Next, Mine, OnMessage

(* No chain has a block that its miner did not mine yet.                   *)
HashesMined == \A c \in Chains : \A i \in DOMAIN c : c[i].hash[2] <= mined[c[i].hash[1]]

(* A fresh block added to one of two chains with the same past.            *)
LEMMA FreshBlock ==
  ASSUME NEW c \in Seq(Block), NEW d \in Seq(Block), NEW b \in Block,
         SamePast(c, c), SamePast(c, d), SamePast(d, c),
         \A i \in DOMAIN c : c[i].hash # b.hash,
         \A j \in DOMAIN d : d[j].hash # b.hash
  PROVE  /\ SamePast(Append(c, b), d)
         /\ SamePast(d, Append(c, b))
         /\ SamePast(Append(c, b), Append(c, b))
<1> DEFINE w == Append(c, b)
<1>1. /\ w \in Seq(Block) /\ Len(w) = Len(c) + 1
      /\ w[Len(c) + 1] = b
      /\ \A i \in DOMAIN c : i \in DOMAIN w /\ w[i] = c[i] /\ 1 .. i \subseteq DOMAIN c
      /\ \A i \in DOMAIN w : i \in DOMAIN c \/ i = Len(c) + 1
  OBVIOUS
<1> HIDE DEF w
<1>2. SamePast(w, d)
  BY <1>1 DEF SamePast
<1>3. SamePast(d, w)
  <2>1. ASSUME NEW j \in DOMAIN d, NEW i \in DOMAIN w, d[j].hash = w[i].hash
        PROVE  i \in DOMAIN c /\ j = i /\ \A k \in 1 .. j : d[k] = w[k]
    <3>1. i \in DOMAIN c
      BY <1>1, <2>1
    <3> QED
      BY <1>1, <2>1, <3>1 DEF SamePast
  <2> QED
    BY <2>1 DEF SamePast
<1>4. SamePast(w, w)
  BY <1>1 DEF SamePast
<1> QED
  BY <1>2, <1>3, <1>4 DEF w

(* Every step keeps both: a mined block is fresh.                          *)
LEMMA PastStep ==
  ASSUME IInv, HashesMined, BlocksNameTheirPast, [Next]_vars
  PROVE  HashesMined' /\ BlocksNameTheirPast'
<1>0. /\ chainCoin \in [Node -> SoundChain]
      /\ mined \in [Node -> Nat]
      /\ \A n \in Node : chainCoin[n].chain \in Seq(Block) /\ chainCoin[n].chain # <<>>
  BY DEF IInv, Data, Control, SoundChain, Sound, Blockchain
<1>1. ASSUME NEW c \in Chains PROVE c \in Seq(Block)
  <2>1. \A n \in Node : chainCoin[n].chain \in Seq(Block)
    BY <1>0
  <2>2. ASSUME NEW e \in End, NEW d \in Range(inbox[e]) PROVE d.chain \in Seq(Block)
    <3>1. inbox[e] \in Seq(SoundChain)
      BY DEF IInv, Data
    <3>2. PICK i \in DOMAIN inbox[e] : d = inbox[e][i]
      BY Zenon DEF Range
    <3> QED
      BY <3>1, <3>2 DEF SoundChain, Blockchain
  <2>3. ASSUME NEW e \in End, handler[e].pc \in {"merge", "assign"}
        PROVE  handler[e].next.chain \in Seq(Block)
    BY <2>3 DEF IInv, Data, SoundTaking, SoundChain, Blockchain, Resting, Replying
  <2> QED
    BY <1>1, <2>1, <2>2, <2>3 DEF Chains
<1>2. CASE mined' = mined /\ Chains' \subseteq Chains
  BY <1>2 DEF HashesMined, BlocksNameTheirPast
<1>3. ASSUME NEW n \in Node, MinedBy(n) PROVE HashesMined' /\ BlocksNameTheirPast'
  <2> DEFINE c == chainCoin[n].chain
             b == NewBlock(n)
             w == Append(c, b)
  <2>1. /\ c \in Chains /\ c \in Seq(Block) /\ c # <<>>
        /\ chainCoin[n].pending \in Seq(Transaction)
    BY <1>0, ChainsAre DEF SoundChain, Sound, Blockchain
  <2>2. b \in Block /\ b.hash = <<n, mined[n] + 1>>
    <3>1. c[Len(c)] \in Block
      BY <2>1
    <3> QED
      BY <1>0, <2>1, <3>1 DEF NewBlock, Block, Hash
  <2>3. mined' \in [Node -> Nat] /\ mined'[n] = mined[n] + 1 /\ \A m \in Node : mined'[m] >= mined[m]
    BY <1>0, <1>3 DEF MinedBy
  <2>4. Chains' \subseteq Chains \cup {w}
    BY <1>3 DEF MinedBy
  <2> HIDE DEF b
  <2>5. \A d \in Chains : \A i \in DOMAIN d : d[i].hash \in Hash /\ d[i].hash # b.hash
    <3> SUFFICES ASSUME NEW d \in Chains, NEW i \in DOMAIN d
                 PROVE  d[i].hash \in Hash /\ d[i].hash # b.hash
      OBVIOUS
    <3>1. d[i] \in Block
      BY <1>1
    <3>2. d[i].hash \in Hash /\ d[i].hash[2] <= mined[d[i].hash[1]]
      BY <3>1 DEF HashesMined, Block
    <3> QED
      BY <1>0, <2>2, <3>2 DEF Hash
  <2>6. HashesMined'
    <3> SUFFICES ASSUME NEW d \in Chains', NEW i \in DOMAIN d
                 PROVE  d[i].hash[2] <= mined'[d[i].hash[1]]
      BY DEF HashesMined
    <3>1. CASE d \in Chains
      <4>1. d[i].hash \in Hash /\ d[i].hash[2] <= mined[d[i].hash[1]]
        BY <2>5, <3>1 DEF HashesMined
      <4> QED
        BY <1>0, <2>3, <4>1 DEF Hash
    <3>2. CASE d = w
      <4>1. d[i] = b \/ (i \in DOMAIN c /\ d[i] = c[i])
        BY <2>1, <2>2, <3>2
      <4>2. CASE d[i] = b
        BY <2>2, <2>3, <4>2, <1>0
      <4>3. CASE i \in DOMAIN c /\ d[i] = c[i]
        <5>1. d[i].hash \in Hash /\ d[i].hash[2] <= mined[d[i].hash[1]]
          BY <2>1, <2>5, <4>3 DEF HashesMined
        <5> QED
          BY <1>0, <2>3, <5>1 DEF Hash
      <4> QED
        BY <4>1, <4>2, <4>3
    <3> QED
      BY <2>4, <3>1, <3>2
  <2>7. ASSUME NEW d \in Chains PROVE SamePast(w, d) /\ SamePast(d, w) /\ SamePast(w, w)
    <3>1. d \in Seq(Block) /\ SamePast(c, c) /\ SamePast(c, d) /\ SamePast(d, c)
      BY <1>1, <2>1 DEF BlocksNameTheirPast
    <3> QED
      BY <2>1, <2>2, <2>5, <3>1, FreshBlock
  <2>8. BlocksNameTheirPast'
    <3> SUFFICES ASSUME NEW d \in Chains', NEW f \in Chains' PROVE SamePast(d, f)
      BY DEF BlocksNameTheirPast, SamePast
    <3> HIDE DEF w
    <3>1. (d \in Chains \/ d = w) /\ (f \in Chains \/ f = w)
      BY <2>4
    <3> QED
      BY <2>1, <2>7, <3>1 DEF BlocksNameTheirPast
  <2> QED
    BY <2>6, <2>8
<1> QED
  BY <1>2, <1>3, ChainsStep

(* BlocksNameTheirPast: two chains with a block in common agree up to it,  *)
(* so that forks never join again and a block is never moved.              *)
THEOREM HistoriesNeverRejoin == FairSpec => []BlocksNameTheirPast
<1>1. Init => HashesMined /\ BlocksNameTheirPast
  <2> SUFFICES ASSUME Init PROVE HashesMined /\ BlocksNameTheirPast
    OBVIOUS
  <2>1. Chains \subseteq {<<Genesis(n)>> : n \in Node}
    BY DEF Init, Chains, Range, Resting
  <2>2. \A n \in Node : Genesis(n).hash = <<n, 0>> /\ mined[n] = 0
    BY DEF Genesis, Init
  <2> QED
    BY <2>1, <2>2 DEF HashesMined, BlocksNameTheirPast, SamePast
<1>2. IInv /\ HashesMined /\ BlocksNameTheirPast /\ [Next]_vars
        => HashesMined' /\ BlocksNameTheirPast'
  BY PastStep
<1> QED
  BY <1>1, <1>2, BlockchainInvariant, PTL DEF FairSpec

(* What a step does to the ChainCoin of a node: it stays, gets another     *)
(* transaction or block, or is replaced by one that extends what it was    *)
(* compared with.                                                          *)
LEMMA CoinStep ==
  ASSUME IInv, [Next]_vars, NEW n \in Node
  PROVE  \/ RacesAt(n)
         \/ /\ Len(chainCoin'[n].chain) >= Len(chainCoin[n].chain)
            /\ Range(chainCoin[n].pending) \subseteq Transactions(chainCoin'[n])
<1> DEFINE Kept == /\ Len(chainCoin'[n].chain) >= Len(chainCoin[n].chain)
                   /\ Range(chainCoin[n].pending) \subseteq Transactions(chainCoin'[n])
<1>0. /\ chainCoin \in [Node -> SoundChain]
      /\ mined[n] \in Nat
      /\ Sound(chainCoin[n])
      /\ Len(chainCoin[n].chain) \in Nat
  BY DEF IInv, Data, Control, SoundChain, Sound, Blockchain
<1>1. ASSUME chainCoin'[n] = chainCoin[n] PROVE Kept
  BY <1>0, <1>1 DEF Transactions
<1>2. ASSUME NEW m \in Node, NEW d, Change(m, d),
             m = n => /\ Len(d.chain) >= Len(chainCoin[n].chain)
                      /\ Range(chainCoin[n].pending) \subseteq Transactions(d)
      PROVE  Kept
  BY <1>0, <1>1, <1>2 DEF Change
<1>3. ASSUME NEW m \in Node, FinishMining(m) PROVE Kept
  <2>1. m = n => /\ Len(AddBlock(chainCoin[m], m).chain) = Len(chainCoin[n].chain) + 1
                 /\ Range(chainCoin[n].pending) \subseteq InBlocks(AddBlock(chainCoin[m], m))
    BY <1>0, MiningAppends
  <2>2. m = n => /\ Len(AddBlock(chainCoin[m], m).chain) >= Len(chainCoin[n].chain)
                 /\ Range(chainCoin[n].pending) \subseteq Transactions(AddBlock(chainCoin[m], m))
    BY <1>0, <2>1 DEF Transactions, InBlocks
  <2> QED
    BY <1>2, <1>3, <2>2 DEF FinishMining
<1>6. ASSUME NEW m \in Node, NEW k \in {"transfer", "reward"},
             Change(m, CreateTransaction(chainCoin[m], <<m, mined[m], k>>))
      PROVE  Kept
  <2> DEFINE t == <<m, mined[m], k>>
             d == CreateTransaction(chainCoin[m], t)
  <2>1. m = n => /\ d.chain = chainCoin[n].chain
                 /\ Range(chainCoin[n].pending) \subseteq Range(d.pending)
    <3>1. m = n => t \in Transaction
      BY <1>0 DEF Transaction
    <3> QED
      BY <1>0, <3>1, CreateAdds
  <2> HIDE DEF d
  <2>2. m = n => /\ Len(d.chain) >= Len(chainCoin[n].chain)
                 /\ Range(chainCoin[n].pending) \subseteq Transactions(d)
    BY <1>0, <2>1 DEF Transactions
  <2> QED
    BY <1>2, <1>6, <2>2 DEF d
<1>7. ASSUME NEW m \in Node, Clear(m) PROVE Kept
  <2> DEFINE d == ClearPending(chainCoin[m])
  <2>1. CASE current[m]
    <3>1. m = n => Range(chainCoin[n].pending) \subseteq InBlocks(chainCoin[n])
      BY <1>7, <2>1 DEF IInv, HasMined, Clear, Go
    <3>2. m = n => d.chain = chainCoin[n].chain /\ InBlocks(d) = InBlocks(chainCoin[n])
      BY <1>0, ClearKeeps
    <3>3. m = n => /\ Len(d.chain) >= Len(chainCoin[n].chain)
                   /\ Range(chainCoin[n].pending) \subseteq Transactions(d)
      BY <1>0, <3>1, <3>2 DEF Transactions, InBlocks
    <3> QED
      BY <1>2, <1>7, <3>3 DEF Clear
  <2>2. CASE ~ current[m]
    BY <1>1, <1>7, <2>2 DEF Clear, Change
  <2> QED
    BY <2>1, <2>2
<1>4. ASSUME NEW e \in End, Assign(e) PROVE RacesAt(n) \/ Kept
  <2>1. CASE NodeOf(e) # n
    BY <1>0, <1>1, <1>4, <2>1 DEF Assign
  <2>2. CASE NodeOf(e) = n /\ Races(e)
    <3>1. handler[e].pc = "assign" /\ handler'[e].pc # "assign"
      BY <1>4 DEF Assign, AfterMessage, Resting, Replying, IInv, Data
    <3> QED
      BY <2>2, <3>1 DEF RacesAt
  <2>3. CASE NodeOf(e) = n /\ ~ Races(e)
    <3>0. chainCoin[n] = handler[e].basis /\ ~ handler[e].late
      BY <2>3 DEF Races
    <3>1. handler[e] \in SoundTaking
      BY <1>4 DEF IInv, Data, Assign, Resting, Replying
    <3>2. /\ handler[e].next \in SoundChain
          /\ Len(handler[e].next.chain) > Len(chainCoin[n].chain)
          /\ Range(chainCoin[n].pending) \subseteq Range(handler[e].next.pending)
      <4>1. HasPending(e) /\ handler[e].pc = "assign"
        BY <1>4 DEF IInv, Assign
      <4> QED
        BY <3>0, <3>1, <4>1 DEF SoundTaking, HasPending
    <3>3. chainCoin'[n] = handler[e].next
      BY <1>0, <1>4, <2>3 DEF Assign
    <3>4. Len(handler[e].next.chain) \in Nat
      BY <3>2 DEF SoundChain, Sound, Blockchain
    <3> QED
      BY <1>0, <3>2, <3>3, <3>4 DEF Transactions
  <2> QED
    BY <2>1, <2>2, <2>3
<1>8. ASSUME NEW m \in Node, Create(m) \/ Reward(m) PROVE Kept
  BY <1>6, <1>8 DEF Create, Reward
<1>5. ASSUME UNCHANGED chainCoin PROVE Kept
  BY <1>1, <1>5
<1> QED
  BY <1>3, <1>4, <1>5, <1>7, <1>8
  DEF Next, Mine, OnMessage, Connect, Choose, StartMining, Broadcast, Compare, Merge, Reply, vars

(* A race at a node is noted.                                              *)
LEMMA RaceIsNoted ==
  ASSUME IInv, [Next]_vars, NEW n \in Node
  PROVE  /\ raced \subseteq raced'
         /\ RacesAt(n) => n \in raced'
<1>1. raced \subseteq raced'
  BY DEF Next, Mine, OnMessage, Connect, Choose, Create, StartMining, FinishMining, Clear,
         Reward, Broadcast, Compare, Merge, Assign, Reply, vars
<1>2. ASSUME NEW e \in End, NodeOf(e) = n, handler[e].pc = "assign", handler'[e].pc # "assign",
             Races(e)
      PROVE  n \in raced'
  <2>0. handler \in [End -> {Resting, Replying} \cup SoundTaking]
    BY DEF IInv, Data
  <2>1. ASSUME handler'[e] = handler[e] PROVE FALSE
    BY <1>2, <2>1
  <2>2. ASSUME NEW f \in End, f # e, OnMessage(f) PROVE FALSE
    BY <2>0, <2>1, <2>2 DEF OnMessage, Compare, Merge, Assign, Reply
  <2>3. ASSUME OnMessage(e) PROVE Assign(e)
    BY <1>2, <2>0, <2>3 DEF OnMessage, Compare, Merge, Reply, Resting, Replying
  <2>4. Assign(e)
    BY <2>1, <2>2, <2>3
       DEF Next, Mine, Connect, Choose, Create, StartMining, FinishMining, Clear, Reward,
           Broadcast, vars
  <2> QED
    BY <1>2, <2>4 DEF Assign
<1> QED
  BY <1>1, <1>2 DEF RacesAt

(* ShrinksOnlyByRace: without racing assignments a chain only grows.       *)
THEOREM ShrinkingNeedsRace == FairSpec => ShrinksOnlyByRace
<1>1. IInv /\ [Next]_vars =>
        [\A n \in Node : Len(chainCoin'[n].chain) >= Len(chainCoin[n].chain) \/ RacesAt(n)]_vars
  BY CoinStep
<1> QED
  BY <1>1, BlockchainInvariant, PTL DEF FairSpec, ShrinksOnlyByRace

(* PendingLostOnlyByRace: nor is a transaction lost that waits to be mined.*)
THEOREM LosingNeedsRace == FairSpec => PendingLostOnlyByRace
<1>1. IInv /\ [Next]_vars =>
        [\A n \in Node :
           Range(chainCoin[n].pending) \subseteq Transactions(chainCoin'[n]) \/ RacesAt(n)]_vars
  BY CoinStep
<1> QED
  BY <1>1, BlockchainInvariant, PTL DEF FairSpec, PendingLostOnlyByRace

(* What is on its way from the client of a link to its server: a chain of  *)
(* at least k blocks.                                                      *)
OnItsWay(l, k) ==
  \/ \E c \in Range(inbox[<<l, "server">>]) : Len(c.chain) >= k
  \/ /\ handler[<<l, "server">>].pc \in {"merge", "assign"}
     /\ Len(handler[<<l, "server">>].next.chain) >= k

(* What a server answered is no longer than its chain is now.              *)
Answered(l) ==
  /\ \A c \in Range(inbox[<<l, "client">>]) : Len(c.chain) <= Len(chainCoin[l[2]].chain)
  /\ handler[<<l, "client">>].pc \in {"merge", "assign"} =>
       Len(handler[<<l, "client">>].next.chain) <= Len(chainCoin[l[2]].chain)

(* A client's chain is at its server, on its way, or about to be sent.     *)
Informed(l) ==
  l \in connected /\ setup.culture[l[1]] = setup.culture[l[2]] =>
    \/ ToSend(l[1])
    \/ Len(chainCoin[l[1]].chain) <= Len(chainCoin[l[2]].chain)
    \/ OnItsWay(l, Len(chainCoin[l[1]].chain))

Linked == \A l \in Link : l[2] \in raced \/ (Answered(l) /\ Informed(l))

(* The lengths are numbers, and the ends of a link its nodes'.             *)
LEMMA LinkTypes ==
  ASSUME IInv, NEW l \in Link
  PROVE  /\ l[1] \in Node /\ l[2] \in Node
         /\ <<l, "server">> \in End /\ <<l, "client">> \in End
         /\ NodeOf(<<l, "server">>) = l[2] /\ NodeOf(<<l, "client">>) = l[1]
         /\ \A n \in Node : Len(chainCoin[n].chain) \in Nat
         /\ \A e \in End : inbox[e] \in Seq(SoundChain)
         /\ \A e \in End : \A c \in Range(inbox[e]) : c \in SoundChain /\ Len(c.chain) \in Nat
         /\ \A e \in End : handler[e].pc \in {"merge", "assign"} =>
              handler[e].next \in SoundChain /\ Len(handler[e].next.chain) \in Nat
<1>1. l[1] \in Node /\ l[2] \in Node
  BY BlockchainAssumption
<1>2. <<l, "server">> \in End /\ <<l, "client">> \in End
  BY DEF End
<1>3. NodeOf(<<l, "server">>) = l[2] /\ NodeOf(<<l, "client">>) = l[1]
  BY DEF NodeOf
<1>4. ASSUME NEW c \in SoundChain PROVE Len(c.chain) \in Nat
  BY DEF SoundChain, Blockchain
<1>5. \A n \in Node : Len(chainCoin[n].chain) \in Nat
  BY <1>4 DEF IInv, Data
<1>6. ASSUME NEW e \in End PROVE inbox[e] \in Seq(SoundChain)
  BY DEF IInv, Data
<1>7. ASSUME NEW e \in End, NEW c \in Range(inbox[e])
      PROVE  c \in SoundChain /\ Len(c.chain) \in Nat
  <2>1. PICK i \in DOMAIN inbox[e] : c = inbox[e][i]
    BY Zenon DEF Range
  <2>2. c \in SoundChain
    BY <1>6, <2>1
  <2> QED
    BY <1>4, <2>2
<1>8. ASSUME NEW e \in End, handler[e].pc \in {"merge", "assign"}
      PROVE  handler[e].next \in SoundChain /\ Len(handler[e].next.chain) \in Nat
  <2>1. handler[e].next \in SoundChain
    BY <1>8 DEF IInv, Data, SoundTaking, Resting, Replying
  <2> QED
    BY <1>4, <2>1
<1> QED
  BY <1>1, <1>2, <1>3, <1>5, <1>6, <1>7, <1>8

(* A message of k blocks arrives, is taken, and is assigned; or the server *)
(* had as many.                                                            *)
LEMMA DeliveryStep ==
  ASSUME IInv, [Next]_vars, NEW l \in Link, NEW k \in Nat, OnItsWay(l, k),
         setup.culture[l[1]] = setup.culture[l[2]]
  PROVE  OnItsWay(l, k)' \/ Len(chainCoin'[l[2]].chain) >= k \/ l[2] \in raced'
<1> DEFINE e == <<l, "server">>
           n == l[2]
<1>0. /\ e \in End /\ n \in Node /\ NodeOf(e) = n
      /\ Len(chainCoin[n].chain) \in Nat
      /\ inbox[e] \in Seq(SoundChain)
      /\ inbox \in [End -> Seq(SoundChain)]
      /\ handler \in [End -> {Resting, Replying} \cup SoundTaking]
      /\ chainCoin \in [Node -> SoundChain]
  BY LinkTypes DEF IInv, Data
<1> HIDE DEF e, n
<1>1. ASSUME Range(inbox[e]) \subseteq Range(inbox'[e]),
             handler[e].pc \in {"merge", "assign"} =>
               /\ handler'[e].pc \in {"merge", "assign"}
               /\ handler'[e].next.chain = handler[e].next.chain
      PROVE  OnItsWay(l, k)'
  BY <1>1 DEF OnItsWay, e
<1>2. ASSUME NEW f \in End, Compare(f)
      PROVE  OnItsWay(l, k)' \/ Len(chainCoin'[n].chain) >= k
  <2>1. CASE f # e
    BY <1>0, <1>1, <1>2, <2>1 DEF Compare
  <2>2. CASE f = e
    <3>1. PICK c \in Range(inbox[e]) : Len(c.chain) >= k
      BY <1>2, <2>2 DEF OnItsWay, Compare, Resting, e
    <3>2. PICK i \in DOMAIN inbox[e] : c = inbox[e][i]
      BY Zenon DEF Range
    <3>3. CASE i # 1
      <4>1. i - 1 \in DOMAIN Tail(inbox[e]) /\ Tail(inbox[e])[i - 1] = c
        BY <1>0, <3>2, <3>3
      <4>2. c \in Range(Tail(inbox[e]))
        BY <4>1, Zenon DEF Range
      <4>3. inbox'[e] = Tail(inbox[e])
        BY <1>0, <1>2, <2>2 DEF Compare
      <4> QED
        BY <3>1, <4>2, <4>3 DEF OnItsWay, e
    <3>4. CASE i = 1
      <4>1. c = Head(inbox[e]) /\ c \in SoundChain
        BY <1>0, <3>2, <3>4
      <4>2. Len(c.chain) \in Nat /\ IsValid(c, n)
        <5>1. Readable(c, SenderTo(e))
          BY <1>0, <3>1 DEF IInv, AllReadable
        <5>3. SenderTo(e) = l[1]
          BY DEF SenderTo, e
        <5>2. Readable(c, n)
          BY <5>1, <5>3 DEF Readable, Recalculated, n
        <5> QED
          BY <4>1, <5>2, ValidIffReadable DEF SoundChain, Sound, Blockchain
      <4>3. CASE Longer(c, chainCoin[n], n)
        <5>1. handler'[e] = [pc |-> "merge", next |-> c, basis |-> chainCoin[n],
                             late |-> FALSE]
          BY <1>0, <1>2, <2>2, <4>1, <4>3 DEF Compare
        <5> QED
          BY <3>1, <5>1 DEF OnItsWay, e
      <4>4. CASE ~ Longer(c, chainCoin[n], n)
        <5>1. chainCoin' = chainCoin
          BY <1>2 DEF Compare
        <5> QED
          BY <1>0, <3>1, <4>2, <4>4, <5>1 DEF Longer
      <4> QED
        BY <4>3, <4>4
    <3> QED
      BY <3>3, <3>4
  <2> QED
    BY <2>1, <2>2
<1>3. ASSUME NEW f \in End, Merge(f) PROVE OnItsWay(l, k)'
  BY <1>0, <1>1, <1>3 DEF Merge, Merged, user, net
<1>4. ASSUME NEW f \in End, Assign(f)
      PROVE  OnItsWay(l, k)' \/ Len(chainCoin'[n].chain) >= k
  <2>1. CASE f # e
    BY <1>0, <1>1, <1>4, <2>1 DEF Assign, net
  <2>2. CASE f = e /\ Len(handler[e].next.chain) >= k
    BY <1>0, <1>4, <2>2 DEF Assign
  <2>3. CASE f = e /\ ~ (Len(handler[e].next.chain) >= k)
    BY <1>4, <2>3 DEF Assign, net, OnItsWay, e
  <2> QED
    BY <2>1, <2>2, <2>3
<1>5. ASSUME NEW f \in End, Reply(f) PROVE OnItsWay(l, k)'
  <2>1. <<f[1], "client">> # e
    BY DEF e
  <2> QED
    BY <1>0, <1>1, <1>5, <2>1 DEF Reply, Replying
<1>6. ASSUME NEW m \in Link, Connect(m) PROVE OnItsWay(l, k)'
  <2>1. Range(inbox[e]) \subseteq Range(inbox'[e])
    <3>1. m[1] \in Node /\ <<m, "server">> \in End
      BY BlockchainAssumption DEF End
    <3>2. inbox'[e] = inbox[e] \/ inbox'[e] = Append(inbox[e], chainCoin[m[1]])
      BY <1>0, <1>6, <3>1 DEF Connect
    <3>3. chainCoin[m[1]] \in SoundChain
      BY <1>0, <3>1
    <3> QED
      BY <1>0, <3>2, <3>3 DEF Range
  <2> QED
    BY <1>1, <1>6, <2>1 DEF Connect
<1>7. ASSUME NEW m \in Node, Broadcast(m) PROVE OnItsWay(l, k)'
  <2>1. Range(inbox[e]) \subseteq Range(inbox'[e])
    <3>1. inbox'[e] = inbox[e] \/ inbox'[e] = Append(inbox[e], chainCoin[m])
      BY <1>0, <1>7 DEF Broadcast
    <3> QED
      BY <1>0, <3>1 DEF Range
  <2> QED
    BY <1>1, <1>7, <2>1 DEF Broadcast
<1>8. ASSUME inbox' = inbox, handler' = handler PROVE OnItsWay(l, k)'
  BY <1>1, <1>8
<1> QED
  BY <1>2, <1>3, <1>4, <1>5, <1>6, <1>7, <1>8
  DEF Next, Mine, OnMessage, Choose, Create, StartMining, FinishMining, Clear, Reward, vars, net, n

(* What the server answers with is its chain, and that does not shrink.    *)
LEMMA AnsweredStep ==
  ASSUME IInv, [Next]_vars, NEW l \in Link, Answered(l)
  PROVE  l[2] \in raced' \/ Answered(l)'
<1> DEFINE e == <<l, "client">>
           n == l[2]
           S == Len(chainCoin[n].chain)
           T == Len(chainCoin'[n].chain)
<1>0. /\ e \in End /\ n \in Node /\ S \in Nat
      /\ inbox \in [End -> Seq(SoundChain)]
      /\ handler \in [End -> {Resting, Replying} \cup SoundTaking]
      /\ chainCoin \in [Node -> SoundChain]
      /\ \A c \in Range(inbox[e]) : c \in SoundChain /\ Len(c.chain) \in Nat
      /\ handler[e].pc \in {"merge", "assign"} => Len(handler[e].next.chain) \in Nat
  BY LinkTypes DEF IInv, Data
<1>1. SUFFICES ASSUME n \notin raced' PROVE Answered(l)'
  OBVIOUS
<1>2. T >= S
  BY <1>0, <1>1, CoinStep, RaceIsNoted
<1>3. T \in Nat
  BY <1>0, DataStep DEF Data, SoundChain, Blockchain
<1>4. /\ \A c \in Range(inbox[e]) : Len(c.chain) <= S
      /\ handler[e].pc \in {"merge", "assign"} => Len(handler[e].next.chain) <= S
  BY DEF Answered
<1>13. ASSUME \A c \in Range(inbox'[e]) : Len(c.chain) <= T,
              handler'[e].pc \in {"merge", "assign"} => Len(handler'[e].next.chain) <= T
       PROVE  Answered(l)'
  BY <1>13 DEF Answered
<1> HIDE DEF e, n, S, T
<1>5. ASSUME \A c \in Range(inbox'[e]) : c \in Range(inbox[e]) \/ Len(c.chain) <= T,
             handler'[e].pc \in {"merge", "assign"} =>
               \/ /\ handler[e].pc \in {"merge", "assign"}
                  /\ handler'[e].next.chain = handler[e].next.chain
               \/ \E c \in Range(inbox[e]) : handler'[e].next.chain = c.chain
      PROVE  Answered(l)'
  <2>1. \A c \in Range(inbox'[e]) : Len(c.chain) <= T
    <3> SUFFICES ASSUME NEW c \in Range(inbox'[e]) PROVE Len(c.chain) <= T
      OBVIOUS
    <3>1. CASE c \in Range(inbox[e])
      <4>1. Len(c.chain) \in Nat /\ Len(c.chain) <= S
        BY <1>0, <1>4, <3>1
      <4> QED
        BY <1>0, <1>2, <1>3, <4>1
    <3> QED
      BY <1>5, <3>1
  <2>2. handler'[e].pc \in {"merge", "assign"} => Len(handler'[e].next.chain) <= T
    <3> SUFFICES ASSUME handler'[e].pc \in {"merge", "assign"}
                 PROVE  Len(handler'[e].next.chain) <= T
      OBVIOUS
    <3>1. CASE /\ handler[e].pc \in {"merge", "assign"}
               /\ handler'[e].next.chain = handler[e].next.chain
      <4>1. Len(handler[e].next.chain) \in Nat /\ Len(handler[e].next.chain) <= S
        BY <1>0, <1>4, <3>1
      <4> QED
        BY <1>0, <1>2, <1>3, <3>1, <4>1
    <3>2. ASSUME NEW c \in Range(inbox[e]), handler'[e].next.chain = c.chain
          PROVE  Len(handler'[e].next.chain) <= T
      <4>1. Len(c.chain) \in Nat /\ Len(c.chain) <= S
        BY <1>0, <1>4
      <4> QED
        BY <1>0, <1>2, <1>3, <3>2, <4>1
    <3> QED
      BY <1>5, <3>1, <3>2
  <2> QED
    BY <1>13, <2>1, <2>2
<1>6. ASSUME NEW f \in End, Compare(f) PROVE Answered(l)'
  <2>1. CASE f # e
    BY <1>0, <1>5, <1>6, <2>1 DEF Compare
  <2>2. CASE f = e
    <3>1. /\ Head(inbox[e]) \in Range(inbox[e])
          /\ Range(Tail(inbox[e])) \subseteq Range(inbox[e])
      <4>1. inbox[e] \in Seq(SoundChain) /\ inbox[e] # <<>> /\ Head(inbox[e]) \in SoundChain
        BY <1>0, <1>6, <2>2 DEF Compare
      <4> QED
        BY <4>1, QueueRange
    <3>2. inbox'[e] = Tail(inbox[e])
      BY <1>0, <1>6, <2>2 DEF Compare
    <3>3. handler'[e].pc \in {"merge", "assign"} => handler'[e].next = Head(inbox[e])
      BY <1>0, <1>6, <2>2 DEF Compare, AfterMessage, Resting, Replying
    <3> QED
      BY <1>5, <3>1, <3>2, <3>3
  <2> QED
    BY <2>1, <2>2
<1>7. ASSUME NEW f \in End, Merge(f) PROVE Answered(l)'
  BY <1>0, <1>5, <1>7 DEF Merge, Merged, user, net
<1>8. ASSUME NEW f \in End, Assign(f) PROVE Answered(l)'
  <2>1. CASE f # e
    BY <1>0, <1>5, <1>8, <2>1 DEF Assign, net
  <2>2. CASE f = e
    BY <1>0, <1>5, <1>8, <2>2 DEF Assign, net, AfterMessage, Resting, Replying
  <2> QED
    BY <2>1, <2>2
<1>9. ASSUME NEW f \in End, Reply(f) PROVE Answered(l)'
  <2>1. handler'[e] = handler[e] \/ handler'[e].pc = "ready"
    BY <1>0, <1>9 DEF Reply, Resting
  <2>2. chainCoin' = chainCoin
    BY <1>9 DEF Reply
  <2>3. CASE <<f[1], "client">> # e
    BY <1>0, <1>5, <1>9, <2>1, <2>3 DEF Reply
  <2>4. CASE <<f[1], "client">> = e
    <3>1. NodeOf(f) = n
      <4>1. f[2] = "server"
        BY <1>9 DEF Reply, IInv, OnlyServersReply
      <4> QED
        BY <2>4, <4>1 DEF NodeOf, e, n
    <3>2. inbox'[e] = Append(inbox[e], chainCoin[n])
      BY <1>0, <1>9, <2>4, <3>1 DEF Reply
    <3>3. Range(inbox'[e]) \subseteq Range(inbox[e]) \cup {chainCoin[n]}
      <4>1. inbox[e] \in Seq(SoundChain) /\ chainCoin[n] \in SoundChain
        BY <1>0
      <4> QED
        BY <3>2, <4>1, QueueRange
    <3>4. Len(chainCoin[n].chain) <= T
      BY <1>0, <2>2, <1>2, <1>3 DEF S, T
    <3> QED
      BY <1>5, <2>1, <3>3, <3>4
  <2> QED
    BY <2>3, <2>4
<1>10. ASSUME NEW m \in Link, Connect(m) PROVE Answered(l)'
  <2>1. <<m, "server">> # e
    BY DEF e
  <2> QED
    BY <1>0, <1>5, <1>10, <2>1 DEF Connect
<1>11. ASSUME NEW m \in Node, Broadcast(m) PROVE Answered(l)'
  BY <1>0, <1>5, <1>11 DEF Broadcast, e
<1>12. ASSUME inbox' = inbox, handler' = handler PROVE Answered(l)'
  BY <1>5, <1>12
<1> QED
  BY <1>6, <1>7, <1>8, <1>9, <1>10, <1>11, <1>12
  DEF Next, Mine, OnMessage, Choose, Create, StartMining, FinishMining, Clear, Reward, vars, net

(* A client's chain changes where it mines, which it will broadcast, and   *)
(* where it takes an answer of its one server.                             *)
LEMMA InformedStep ==
  ASSUME IInv, [Next]_vars, OneServerEach, NEW l \in Link, Answered(l), Informed(l)
  PROVE  l[2] \in raced' \/ Informed(l)'
<1> DEFINE e == <<l, "server">>
           n == l[1]
           s == l[2]
           T == Len(chainCoin'[s].chain)
<1>0. /\ n \in Node /\ s \in Node /\ n # s /\ e \in End
      /\ Len(chainCoin[n].chain) \in Nat /\ Len(chainCoin[s].chain) \in Nat
      /\ main \in [Node -> MainPc]
      /\ inbox \in [End -> Seq(SoundChain)]
      /\ chainCoin \in [Node -> SoundChain]
  BY LinkTypes DEF IInv, Control, Data, OneServerEach
<1> PICK K \in Nat : K = Len(chainCoin[n].chain)
  BY <1>0
<1>1. SUFFICES ASSUME s \notin raced', l \in connected',
                      setup.culture[l[1]] = setup.culture[l[2]]
               PROVE  Informed(l)'
  BY SetupStays DEF Informed
<1>2. T >= Len(chainCoin[s].chain) /\ T \in Nat
  <2>1. T >= Len(chainCoin[s].chain)
    BY <1>0, <1>1, CoinStep, RaceIsNoted
  <2>2. T \in Nat
    BY <1>0, DataStep DEF Data, SoundChain, Blockchain
  <2> QED
    BY <2>1, <2>2
<1>3. ASSUME K <= T \/ OnItsWay(l, K)', Len(chainCoin'[n].chain) = K PROVE Informed(l)'
  BY <1>3 DEF Informed, OnItsWay
<1>4. ASSUME l \in connected, ~ ToSend(n) PROVE K <= T \/ OnItsWay(l, K)'
  <2>1. CASE K <= Len(chainCoin[s].chain)
    BY <1>0, <1>2, <2>1
  <2>2. CASE OnItsWay(l, K)
    <3>1. OnItsWay(l, K)' \/ T >= K
      BY <1>1, <2>2, DeliveryStep
    <3> QED
      BY <1>2, <3>1
  <2> QED
    BY <1>1, <1>4, <2>1, <2>2 DEF Informed
<1>5. ASSUME l \in connected, chainCoin'[n].chain = chainCoin[n].chain,
             ToSend(n) => ToSend(n)'
      PROVE  Informed(l)'
  <2>1. CASE ToSend(n)
    BY <1>5, <2>1 DEF Informed
  <2>2. CASE ~ ToSend(n)
    BY <1>3, <1>4, <1>5, <2>2
  <2> QED
    BY <2>1, <2>2
<1>6. ASSUME inbox'[e] = Append(inbox[e], chainCoin[n]), chainCoin' = chainCoin
      PROVE  Informed(l)'
  <2>1. chainCoin[n] \in Range(inbox'[e])
    <3>1. inbox[e] \in Seq(SoundChain) /\ chainCoin[n] \in SoundChain
      BY <1>0
    <3>2. Len(inbox[e]) + 1 \in DOMAIN inbox'[e] /\ inbox'[e][Len(inbox[e]) + 1] = chainCoin[n]
      BY <1>6, <3>1
    <3> QED
      BY <3>2, Zenon DEF Range
  <2>2. OnItsWay(l, K)'
    BY <1>0, <2>1 DEF OnItsWay
  <2> QED
    BY <1>3, <1>6, <2>2
<1>7. ASSUME NEW m \in Link, Connect(m) PROVE Informed(l)'
  <2>1. CASE m = l
    BY <1>0, <1>6, <1>7, <2>1 DEF Connect
  <2>2. CASE m # l
    <3>1. l \in connected /\ UNCHANGED <<chainCoin, main>>
      BY <1>1, <1>7, <2>2 DEF Connect, user
    <3> QED
      BY <1>5, <3>1 DEF ToSend
  <2> QED
    BY <2>1, <2>2
<1>8. ASSUME NEW m \in Node, NEW d, Change(m, d), d.chain = chainCoin[m].chain
      PROVE  chainCoin'[n].chain = chainCoin[n].chain
  BY <1>0, <1>8 DEF Change
<1>9. ASSUME NEW m \in Node, NEW p \in MainPc, NEW q \in MainPc, Go(m, p, q),
             p \in {"added", "cleared", "mined"} => q \in {"added", "cleared", "mined"}
      PROVE  ToSend(n) => ToSend(n)'
  BY <1>0, <1>9 DEF Go, ToSend
<1>10. ASSUME NEW m \in Node, Choose(m) \/ StartMining(m) PROVE Informed(l)'
  <2>1. chainCoin' = chainCoin /\ l \in connected
    BY <1>1, <1>10 DEF Choose, StartMining, net
  <2>2. ToSend(n) => ToSend(n)'
    BY <1>9, <1>10 DEF Choose, StartMining, MainPc
  <2> QED
    BY <1>5, <2>1, <2>2
<1>11. ASSUME NEW m \in Node, Create(m) PROVE Informed(l)'
  <2>1. chainCoin'[n].chain = chainCoin[n].chain /\ l \in connected
    BY <1>1, <1>8, <1>11 DEF Create, CreateTransaction, net
  <2>2. ToSend(n) => ToSend(n)'
    BY <1>9, <1>11 DEF Create, MainPc
  <2> QED
    BY <1>5, <2>1, <2>2
<1>12. ASSUME NEW m \in Node, Clear(m) PROVE Informed(l)'
  <2>1. chainCoin'[n].chain = chainCoin[n].chain /\ l \in connected
    BY <1>1, <1>8, <1>12 DEF Clear, ClearPending, net
  <2>2. ToSend(n) => ToSend(n)'
    BY <1>9, <1>12 DEF Clear, MainPc
  <2> QED
    BY <1>5, <2>1, <2>2
<1>13. ASSUME NEW m \in Node, Reward(m) PROVE Informed(l)'
  <2>1. chainCoin'[n].chain = chainCoin[n].chain /\ l \in connected
    BY <1>1, <1>8, <1>13 DEF Reward, CreateTransaction, net
  <2>2. ToSend(n) => ToSend(n)'
    BY <1>9, <1>13 DEF Reward, MainPc
  <2> QED
    BY <1>5, <2>1, <2>2
<1>14. ASSUME NEW m \in Node, FinishMining(m) PROVE Informed(l)'
  <2>1. CASE m = n
    BY <1>0, <1>14, <2>1 DEF FinishMining, Go, Informed, ToSend
  <2>2. CASE m # n
    <3>1. l \in connected /\ chainCoin'[n] = chainCoin[n]
      BY <1>0, <1>1, <1>14, <2>2 DEF FinishMining, Change, net
    <3>2. ToSend(n) => ToSend(n)'
      BY <1>9, <1>14 DEF FinishMining, MainPc
    <3> QED
      BY <1>5, <3>1, <3>2
  <2> QED
    BY <2>1, <2>2
<1>15. ASSUME NEW m \in Node, Broadcast(m) PROVE Informed(l)'
  <2>0. l \in connected /\ chainCoin' = chainCoin
    BY <1>1, <1>15 DEF Broadcast
  <2>1. CASE m = n
    <3>1. inbox'[e] = Append(inbox[e], chainCoin[n])
      BY <1>0, <1>15, <2>0, <2>1 DEF Broadcast
    <3> QED
      BY <1>6, <2>0, <3>1
  <2>2. CASE m # n
    <3>1. main'[n] = main[n]
      BY <1>0, <1>15, <2>2 DEF Broadcast, Go
    <3> QED
      BY <1>5, <2>0, <3>1 DEF ToSend
  <2> QED
    BY <2>1, <2>2
<1>16. ASSUME NEW f \in End, Assign(f) PROVE Informed(l)'
  <2>0. l \in connected /\ main' = main
    BY <1>1, <1>16 DEF Assign, net
  <2>1. CASE NodeOf(f) # n
    <3>1. chainCoin'[n] = chainCoin[n]
      BY <1>0, <1>16, <2>1 DEF Assign
    <3> QED
      BY <1>5, <2>0, <3>1 DEF ToSend
  <2>2. CASE NodeOf(f) = n
    <3>1. f = <<l, "client">>
      BY <2>2 DEF NodeOf, End, OneServerEach
    <3>2. Len(handler[f].next.chain) <= Len(chainCoin[s].chain)
      BY <1>16, <3>1 DEF Answered, Assign
    <3>3. chainCoin'[n] = handler[f].next /\ chainCoin'[s] = chainCoin[s]
      BY <1>0, <1>16, <2>2 DEF Assign
    <3> QED
      BY <3>2, <3>3 DEF Informed
  <2> QED
    BY <2>1, <2>2
<1>17. ASSUME UNCHANGED <<chainCoin, main, connected>> PROVE Informed(l)'
  BY <1>1, <1>5, <1>17 DEF ToSend
<1> QED
  BY <1>7, <1>10, <1>11, <1>12, <1>13, <1>14, <1>15, <1>16, <1>17
  DEF Next, Mine, OnMessage, Compare, Merge, Reply, vars, user, net

(* CaughtUpAtRest: with clients of one server each, in any number, what a  *)
(* client has and its server has not is on its way or about to be sent.    *)
THEOREM ServersCatchUpOnArrival ==
  ASSUME OneServerEach
  PROVE  FairSpec => []CaughtUpAtRest
<1>1. Init => Linked
  <2> SUFFICES ASSUME Init, NEW l \in Link PROVE Answered(l) /\ Informed(l)
    BY DEF Linked
  <2>1. <<l, "client">> \in End
    BY DEF End
  <2> QED
    BY <2>1 DEF Init, Answered, Informed, Resting, Range
<1>2. IInv /\ Linked /\ [Next]_vars => Linked'
  <2> SUFFICES ASSUME IInv, Linked, [Next]_vars, NEW l \in Link
               PROVE  (l[2] \in raced \/ (Answered(l) /\ Informed(l)))'
    BY DEF Linked
  <2>1. raced \subseteq raced'
    <3>1. l[2] \in Node
      BY LinkTypes
    <3> QED
      BY <3>1, RaceIsNoted
  <2>2. CASE l[2] \in raced
    BY <2>1, <2>2
  <2>3. CASE Answered(l) /\ Informed(l)
    BY <2>3, AnsweredStep, InformedStep
  <2> QED
    BY <2>2, <2>3 DEF Linked
<1>3. IInv /\ Linked => CaughtUpAtRest
  <2> SUFFICES ASSUME IInv, Linked, NEW l \in connected, l[2] \notin raced, Behind(l),
                      ~ ToSend(l[1]), inbox[<<l, "server">>] = <<>>,
                      handler[<<l, "server">>].pc \notin {"merge", "assign"}
               PROVE  FALSE
    BY DEF CaughtUpAtRest
  <2>1. l \in Link
    BY DEF IInv, Control
  <2>2. Informed(l)
    BY <2>1 DEF Linked
  <2>3. ~ OnItsWay(l, Len(chainCoin[l[1]].chain))
    BY DEF OnItsWay, Range
  <2>4. Len(chainCoin[l[1]].chain) \in Nat /\ Len(chainCoin[l[2]].chain) \in Nat
    BY <2>1, LinkTypes
  <2>5. ~ (Len(chainCoin[l[1]].chain) <= Len(chainCoin[l[2]].chain))
    BY <2>4 DEF Behind
  <2>6. setup.culture[l[1]] = setup.culture[l[2]]
    BY DEF Behind
  <2> QED
    BY <2>2, <2>3, <2>5, <2>6, Zenon DEF Informed
<1> QED
  BY <1>1, <1>2, <1>3, BlockchainInvariant, PTL DEF FairSpec

=============================================================================
