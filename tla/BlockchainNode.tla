---------------------------- MODULE BlockchainNode ----------------------------
(***************************************************************************)
(* Estudos.Blockchain.Console: programs that each keep a chain of blocks   *)
(* in a static variable, ChainCoin, and send it to each other whole.  On a *)
(* node the menu of Main runs in one thread, and each end of a web socket  *)
(* calls OnMessage in a thread of its own, one message at a time; nothing  *)
(* is locked.                                                              *)
(*                                                                         *)
(* A block is named by its miner and by how many it mined before: the name *)
(* stands for its hash.  The hash covers the block's time as the miner's   *)
(* culture and time zone write it, and a reader calculates it again with   *)
(* its own.  A transaction is named by who created it, by when and by      *)
(* whether it is a reward; amounts and balances are left out.              *)
(***************************************************************************)
EXTENDS Naturals, Sequences, Functions

CONSTANTS
  Node,
  Link,      \* the pairs of a client and a server that may connect
  Setups     \* how the nodes may be set up: the culture and time zone of
             \* each, and as a bound the blocks its user mines

ASSUME BlockchainAssumption ==
  /\ Link \subseteq Node \X Node
  /\ \A x \in Setups : DOMAIN x.culture = Node /\ x.blocks \in [Node -> Nat]

(* The two ends of a link, each with the messages on their way to it.      *)
End == Link \X {"client", "server"}
NodeOf(e) == IF e[2] = "client" THEN e[1][1] ELSE e[1][2]
SenderTo(e) == IF e[2] = "client" THEN e[1][2] ELSE e[1][1]

Hash == Node \X Nat
Transaction == Node \X Nat \X {"transfer", "reward"}
NoHash == "null"
Block == [hash: Hash, previous: Hash \cup {NoHash}, transactions: Seq(Transaction)]
Blockchain == [chain: Seq(Block), pending: Seq(Transaction)]

VARIABLES
  setup,      \* how the nodes are set up, which stays
  chainCoin,  \* Program.ChainCoin of each node
  main,       \* where Main is in option 2 of the menu
  current,    \* the object Main works on is still the node's ChainCoin
  mined,      \* how many blocks the node mined
  connected,  \* the links that are connected
  inbox,      \* the messages on their way to each end
  handler,    \* OnMessage at each end
  synched,    \* chainSynched of the sessions of the servers
  raced       \* history: the nodes where an assignment overwrote a ChainCoin
              \* other than the one it was compared and merged with

user == <<main, current, mined>>
net == <<connected, inbox, synched>>
vars == <<setup, chainCoin, user, net, handler, raced>>

(* OnMessage rests, is about to add its pending transactions to a chain it *)
(* compared with basis, is about to assign it, or is about to answer.      *)
(* late: ChainCoin was no longer basis when they were added.               *)
Resting == [pc |-> "ready"]
Replying == [pc |-> "reply"]
Taking ==
  [pc: {"merge", "assign"}, next: Blockchain, basis: Blockchain, late: BOOLEAN]

MainPc == {"menu", "adding", "created", "mining", "added", "cleared", "mined"}

TypeOK ==
  /\ setup \in Setups
  /\ chainCoin \in [Node -> Blockchain]
  /\ main \in [Node -> MainPc]
  /\ current \in [Node -> BOOLEAN]
  /\ mined \in [Node -> Nat]
  /\ \A n \in Node : mined[n] <= setup.blocks[n]
  /\ connected \subseteq Link
  /\ inbox \in [End -> Seq(Blockchain)]
  /\ handler \in [End -> {Resting, Replying} \cup Taking]
  /\ synched \in [Link -> BOOLEAN]
  /\ raced \subseteq Node

Genesis(n) == [hash |-> <<n, 0>>, previous |-> NoHash, transactions |-> <<>>]

Init ==
  /\ setup \in Setups
  /\ chainCoin = [n \in Node |-> [chain |-> <<Genesis(n)>>, pending |-> <<>>]]
  /\ main = [n \in Node |-> "menu"]
  /\ current = [n \in Node |-> FALSE]
  /\ mined = [n \in Node |-> 0]
  /\ connected = {}
  /\ inbox = [e \in End |-> <<>>]
  /\ handler = [e \in End |-> Resting]
  /\ synched = [l \in Link |-> FALSE]
  /\ raced = {}

-----------------------------------------------------------------------------
(* Blockchain                                                              *)

(* CalculateHash at a node gives the hash of the miner again where their   *)
(* cultures and time zones write the time of the block alike.              *)
Recalculated(block, n) == setup.culture[block.hash[1]] = setup.culture[n]

(* IsValid, called at a node; it skips the first block.                    *)
IsValid(c, n) ==
  \A i \in 2 .. Len(c.chain) :
    /\ Recalculated(c.chain[i], n)
    /\ c.chain[i].previous = c.chain[i - 1].hash

CreateTransaction(c, t) == [chain |-> c.chain, pending |-> Append(c.pending, t)]

(* A mutant of AddBlock: the hash covers what is before the block, not what*)
(* is in it.                                                               *)
AddUnhashed(c, n) ==
  LET block == [hash |-> <<c.chain[1].hash[1], Len(c.chain)>>,
                previous |-> c.chain[Len(c.chain)].hash, transactions |-> c.pending]
  IN  [chain |-> Append(c.chain, block), pending |-> c.pending]

(* ProcessPendingTransactions: AddBlock adds a block with the pending      *)
(* transactions, which then start again with the miner's reward.           *)
AddBlock(c, n) ==
  LET block == [hash |-> <<n, mined[n] + 1>>, previous |-> c.chain[Len(c.chain)].hash,
                transactions |-> c.pending]
  IN  [chain |-> Append(c.chain, block), pending |-> c.pending]

ClearPending(c) == [chain |-> c.chain, pending |-> <<>>]

-----------------------------------------------------------------------------
(* Main                                                                    *)

(* A mutant of Connect: only later broadcasts send the chain.              *)
ConnectSilently(l) ==
  /\ main[l[1]] = "menu"
  /\ l \notin connected
  /\ connected' = connected \cup {l}
  /\ UNCHANGED <<setup, chainCoin, user, inbox, synched, handler, raced>>

(* Option 1: P2PClient.Connect sends the chain to the server.              *)
Connect(l) ==
  /\ main[l[1]] = "menu"
  /\ l \notin connected
  /\ connected' = connected \cup {l}
  /\ inbox' = [inbox EXCEPT ![<<l, "server">>] = Append(@, chainCoin[l[1]])]
  /\ UNCHANGED <<setup, chainCoin, user, synched, handler, raced>>

(* Main changes the object it read, which is lost if it is no longer       *)
(* ChainCoin.                                                              *)
Change(n, c) ==
  chainCoin' = IF current[n] THEN [chainCoin EXCEPT ![n] = c] ELSE chainCoin

Go(n, from, to) == main[n] = from /\ main' = [main EXCEPT ![n] = to]

(* Option 2 reads ChainCoin three times: to add the transaction to it, to  *)
(* mine its pending transactions, and to send it.                          *)
Choose(n) ==
  /\ Go(n, "menu", "adding")
  /\ mined[n] < setup.blocks[n]
  /\ current' = [current EXCEPT ![n] = TRUE]
  /\ UNCHANGED <<setup, chainCoin, mined, net, handler, raced>>

Create(n) ==
  /\ Go(n, "adding", "created")
  /\ Change(n, CreateTransaction(chainCoin[n], <<n, mined[n], "transfer">>))
  /\ UNCHANGED <<setup, current, mined, net, handler, raced>>

StartMining(n) ==
  /\ Go(n, "created", "mining")
  /\ current' = [current EXCEPT ![n] = TRUE]
  /\ UNCHANGED <<setup, chainCoin, mined, net, handler, raced>>

(* A mutant of FinishMining: a block that was overtaken is mined again.    *)
MineAgain(n) ==
  /\ Go(n, "mining", IF current[n] THEN "added" ELSE "mining")
  /\ mined' = [mined EXCEPT ![n] = @ + 1]
  /\ Change(n, AddBlock(chainCoin[n], n))
  /\ current' = [current EXCEPT ![n] = TRUE]
  /\ UNCHANGED <<setup, net, handler, raced>>

(* The block is found and added; the sessions may read the chain with it   *)
(* before the pending transactions start again.                            *)
FinishMining(n) ==
  /\ Go(n, "mining", "added")
  /\ mined' = [mined EXCEPT ![n] = @ + 1]
  /\ Change(n, AddBlock(chainCoin[n], n))
  /\ UNCHANGED <<setup, current, net, handler, raced>>

Clear(n) ==
  /\ Go(n, "added", "cleared")
  /\ Change(n, ClearPending(chainCoin[n]))
  /\ UNCHANGED <<setup, current, mined, net, handler, raced>>

Reward(n) ==
  /\ Go(n, "cleared", "mined")
  /\ Change(n, CreateTransaction(chainCoin[n], <<n, mined[n], "reward">>))
  /\ UNCHANGED <<setup, current, mined, net, handler, raced>>

(* P2PClient.Broadcast: to the servers the node is connected to.           *)
Broadcast(n) ==
  /\ Go(n, "mined", "menu")
  /\ inbox' = [e \in End |->
       IF e[2] = "server" /\ e[1][1] = n /\ e[1] \in connected
       THEN Append(inbox[e], chainCoin[n]) ELSE inbox[e]]
  /\ UNCHANGED <<setup, chainCoin, current, mined, connected, synched, handler, raced>>

-----------------------------------------------------------------------------
(* OnMessage, of P2PClient and of P2PServer                                *)

(* A server answers the first chain of a session.                          *)
AfterMessage(e) == IF e[2] = "server" /\ ~ synched[e[1]] THEN Replying ELSE Resting

(* Mutants of Longer: any valid chain is taken, and any longer one.        *)
AnyValid(c, own, n) == IsValid(c, n)

AnyLonger(c, own, n) == Len(c.chain) > Len(own.chain)

Longer(c, own, n) == IsValid(c, n) /\ Len(c.chain) > Len(own.chain)

(* A mutant of Merged: the pending transactions of the message only.       *)
MergedTheirs(c, own) == c

(* A longer chain is kept with the pending transactions of both.           *)
Merged(c, own) == [chain |-> c.chain, pending |-> c.pending \o own.pending]

(* ChainCoin is read for the comparison, and again for the merge.          *)
Compare(e) ==
  LET n == NodeOf(e)
      c == Head(inbox[e])
  IN  /\ handler[e] = Resting
      /\ inbox[e] # <<>>
      /\ inbox' = [inbox EXCEPT ![e] = Tail(@)]
      /\ handler' = [handler EXCEPT ![e] =
           IF Longer(c, chainCoin[n], n)
           THEN [pc |-> "merge", next |-> c, basis |-> chainCoin[n], late |-> FALSE]
           ELSE AfterMessage(e)]
      /\ UNCHANGED <<setup, chainCoin, user, connected, synched, raced>>

(* ChainCoin is, or when it was merged was, another than the chain was     *)
(* compared with.                                                          *)
Races(e) == handler[e].late \/ chainCoin[NodeOf(e)] # handler[e].basis

Merge(e) ==
  /\ handler[e].pc = "merge"
  /\ handler' = [handler EXCEPT ![e] =
       [pc |-> "assign", next |-> Merged(handler[e].next, chainCoin[NodeOf(e)]),
        basis |-> handler[e].basis, late |-> Races(e)]]
  /\ UNCHANGED <<setup, chainCoin, user, net, raced>>

Assign(e) ==
  LET n == NodeOf(e) IN
  /\ handler[e].pc = "assign"
  /\ chainCoin' = [chainCoin EXCEPT ![n] = handler[e].next]
  /\ current' = [current EXCEPT ![n] = FALSE]
  /\ raced' = IF Races(e) THEN raced \cup {n} ELSE raced
  /\ handler' = [handler EXCEPT ![e] = AfterMessage(e)]
  /\ UNCHANGED <<setup, main, mined, net>>

(* The answer is ChainCoin as it is by then.                               *)
Reply(e) ==
  /\ handler[e] = Replying
  /\ inbox' = [inbox EXCEPT ![<<e[1], "client">>] = Append(@, chainCoin[NodeOf(e)])]
  /\ synched' = [synched EXCEPT ![e[1]] = TRUE]
  /\ handler' = [handler EXCEPT ![e] = Resting]
  /\ UNCHANGED <<setup, chainCoin, user, connected, raced>>

Mine(n) ==
  \/ Create(n) \/ StartMining(n) \/ FinishMining(n)
  \/ Clear(n) \/ Reward(n) \/ Broadcast(n)

OnMessage(e) == Compare(e) \/ Merge(e) \/ Assign(e) \/ Reply(e)

Next ==
  \/ \E l \in Link : Connect(l)
  \/ \E n \in Node : Choose(n) \/ Mine(n)
  \/ \E e \in End : OnMessage(e)

(* The user may stop; what Main started it ends, and messages are handled. *)
Fairness ==
  /\ \A n \in Node : WF_vars(Mine(n))
  /\ \A e \in End : WF_vars(OnMessage(e))

FairSpec == Init /\ [][Next]_vars /\ Fairness

-----------------------------------------------------------------------------
(* Every chain a node keeps or is about to assign passes its IsValid, and  *)
(* every chain on its way that of its sender: a node never refuses as      *)
(* invalid what one with the same culture and time zone sent, and never    *)
(* keeps, or sends on, what its own kind would refuse.                     *)
ChainsAreValid ==
  /\ \A n \in Node : chainCoin[n].chain # <<>> /\ IsValid(chainCoin[n], n)
  /\ \A e \in End :
       /\ \A c \in Range(inbox[e]) : IsValid(c, SenderTo(e))
       /\ handler[e].pc \in {"merge", "assign"} => IsValid(handler[e].next, NodeOf(e))

(* The chains that nodes keep, send and are about to assign.               *)
Chains ==
  {chainCoin[n].chain : n \in Node}
    \cup (UNION {{c.chain : c \in Range(inbox[e])} : e \in End})
    \cup {handler[e].next.chain : e \in {f \in End : handler[f].pc \in {"merge", "assign"}}}

(* A block names its past: wherever it is in two chains, of whatever nodes,*)
(* it is at the same height and the chains are the same up to it, however  *)
(* they were forked, overtaken and overwritten (PreviousHash, which the    *)
(* hash of a block covers).                                                *)
SamePast(c, d) ==
  \A i \in DOMAIN c, j \in DOMAIN d :
    c[i].hash = d[j].hash => i = j /\ \A k \in 1 .. i : c[k] = d[k]

BlocksNameTheirPast == \A c, d \in Chains : SamePast(c, d)

(* A step that assigns to ChainCoin of a node a chain that was not compared*)
(* and merged with it.                                                     *)
RacesAt(n) ==
  \E e \in End : /\ NodeOf(e) = n
                /\ handler[e].pc = "assign" /\ handler'[e].pc # "assign"
                /\ Races(e)

(* A node's chain never gets shorter, but by such an assignment.           *)
ShrinksOnlyByRace ==
  [][\A n \in Node : Len(chainCoin'[n].chain) >= Len(chainCoin[n].chain) \/ RacesAt(n)]_vars

(* A transaction that waits to be mined is in a block or still waits after *)
(* every step: mining, taking over a longer chain, and being overtaken     *)
(* while mining lose none, but by such an assignment.                      *)
Transactions(c) ==
  Range(c.pending) \cup UNION {Range(b.transactions) : b \in Range(c.chain)}

PendingLostOnlyByRace ==
  [][\A n \in Node :
       Range(chainCoin[n].pending) \subseteq Transactions(chainCoin'[n]) \/ RacesAt(n)]_vars

(* A client of a server that is no client itself, and of no other server:  *)
(* what a node takes from elsewhere it sends on only when it mines.        *)
OneServerEach == \A l, m \in Link : l[2] # m[1] /\ (l[1] = m[1] => l = m)

(* It is behind such a client, which writes times as it does.              *)
Behind(l) ==
  /\ l \in connected
  /\ setup.culture[l[1]] = setup.culture[l[2]]
  /\ Len(chainCoin[l[2]].chain) < Len(chainCoin[l[1]].chain)

(* A client is adding a block or has one to broadcast.                     *)
ToSend(n) == main[n] \in {"added", "cleared", "mined"}

(* A server that no assignment raced at has a chain at least as long as    *)
(* that of each such client connected to it, whenever the client has       *)
(* nothing to broadcast and nothing of it is on its way or being handled:  *)
(* the chain sent when connecting and those broadcast later leave no gap.  *)
CaughtUpAtRest ==
  \A l \in connected :
    /\ ~ ToSend(l[1])
    /\ inbox[<<l, "server">>] = <<>>
    /\ handler[<<l, "server">>].pc \notin {"merge", "assign"}
    => ~ Behind(l) \/ l[2] \in raced

(* And it has one in the end, once its clients' users stop.                *)
ServersCatchUp == \A l \in Link : Behind(l) ~> ~ Behind(l) \/ l[2] \in raced

=============================================================================
