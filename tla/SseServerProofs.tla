--------------------------- MODULE SseServerProofs ---------------------------
(***************************************************************************)
(* For any number of servers, requests, ids and faults: an answered        *)
(* request is in no dictionary, a connected client whose id is not shared  *)
(* is in the dictionary of its server, and a request whose client was      *)
(* disconnected, by whom so ever, is aborted and so can end.               *)
(***************************************************************************)
EXTENDS SseServer, TLAPS

Early == {"idle", "isConnected", "contains", "refused"}
Listed == {"waiting", "remove", "tryRemove", "failed"}
Late == Listed \cup {"done"}

(* An entry of a dictionary is a client of that server and id, and Invoke  *)
(* is past TryAdd and not yet past TryRemove, unless it failed.            *)
EntriesAreListed ==
  \A s \in Server, i \in Id, r \in Request :
    clients[s][i] = r => server[r] = s /\ IdOf[r] = i /\ pc[r] \in Listed

(* The sweep works on clients that were in the dictionary, and the one it  *)
(* is removing is disconnected.                                            *)
SweptWereListed ==
  \A s \in Server :
    /\ \A r \in sweep[s].todo : pc[r] \in Late
    /\ sweep[s].pc \in {"disconnect", "remove", "tryRemove"} =>
         sweep[s].current \in Request /\ pc[sweep[s].current] \in Late
    /\ sweep[s].pc \in {"remove", "tryRemove"} => ~ connected[sweep[s].current]

(* A waiting request whose client is disconnected was aborted: whoever     *)
(* calls Disconnect, the wait of Invoke ends (SseClient.Disconnect, the    *)
(* sweep, RequestAborted).                                                 *)
DisconnectedIsAborted ==
  \A r \in Request : pc[r] = "waiting" /\ ~ connected[r] => aborted[r]

(* A client is connected when it is added to the dictionary, and requests  *)
(* fail only where something failed.                                       *)
StagesAreReal ==
  \A r \in Request :
    /\ pc[r] = "tryAdd" => connected[r]
    /\ pc[r] = "failed" => faults # 0

SseInv ==
  /\ TypeOK
  /\ EntriesAreListed
  /\ SweptWereListed
  /\ StagesAreReal
  /\ DisconnectedIsAborted
  /\ ConnectedIsReachable

-----------------------------------------------------------------------------
(* The invariant holds initially: nothing is connected yet.                *)
LEMMA InitHolds == Init => SseInv
<1> SUFFICES ASSUME Init PROVE SseInv
  OBVIOUS
<1> USE SseAssumption
<1>1. TypeOK
  BY DEF Init, TypeOK, Resting, Sweep
<1>2. EntriesAreListed
  BY DEF Init, EntriesAreListed
<1>3. SweptWereListed
  BY DEF Init, SweptWereListed, Resting
<1>4. ConnectedIsReachable
  BY DEF Init, ConnectedIsReachable
<1>5. StagesAreReal /\ DisconnectedIsAborted
  BY DEF Init, StagesAreReal, DisconnectedIsAborted
<1> QED
  BY <1>1, <1>2, <1>3, <1>4, <1>5 DEF SseInv

(* The type of one dictionary entry, and the places a request has.         *)
LEMMA EntryType ==
  ASSUME TypeOK
  PROVE  /\ \A s \in Server, i \in Id : clients[s][i] \in Request \cup {NoRequest}
         /\ \A r \in Request : server[r] \in Server /\ IdOf[r] \in Id
BY SseAssumption DEF TypeOK

(* The snapshot of the sweep holds requests.                               *)
LEMMA ValuesAreRequests ==
  ASSUME TypeOK, NEW s \in Server
  PROVE  /\ Values(s) \subseteq Request
         /\ \A r \in Values(s) : \E i \in Id : clients[s][i] = r
BY EntryType DEF Values

(* The steps of one request.                                               *)
LEMMA RequestKeepsType ==
  ASSUME TypeOK, NEW r \in Request, Arrive(r) \/ Step(r) \/ Leave(r) \/ RequestFails(r)
  PROVE  TypeOK'
<1> USE SseAssumption DEF TypeOK, Goto, InProgress, Ended
<1>1. CASE Arrive(r)  BY <1>1 DEF Arrive
<1>2. CASE CheckClients(r)  BY <1>2 DEF CheckClients
<1>3. CASE CheckStorage(r)  BY <1>3 DEF CheckStorage
<1>4. CASE Add(r)  BY <1>4 DEF Add
<1>5. CASE TryAdd(r)  BY <1>5 DEF TryAdd
<1>6. CASE Wake(r)  BY <1>6 DEF Wake, Disconnect
<1>7. CASE Remove(r)  BY <1>7 DEF Remove
<1>8. CASE TryRemove(r)  BY <1>8 DEF TryRemove, Forget
<1>9. CASE Leave(r)  BY <1>9 DEF Leave
<1>10. CASE RequestFails(r)  BY <1>10 DEF RequestFails
<1> QED
  BY <1>1, <1>2, <1>3, <1>4, <1>5, <1>6, <1>7, <1>8, <1>9, <1>10 DEF Step

(* The steps of the storage and of its updates.                            *)
LEMMA StorageKeepsType ==
  ASSUME TypeOK, NEW i \in Id, NEW s \in Server,
         Expire(i) \/ SendEvent(s, i) \/ UpdateLands(s, i) \/ UpdateFails(s, i)
  PROVE  TypeOK'
BY SseAssumption DEF TypeOK, client, Expire, SendEvent, UpdateLands, UpdateFails

(* The steps of one server.                                                *)
LEMMA ServerKeepsType ==
  ASSUME TypeOK, SweptWereListed, NEW s \in Server, SweepStep(s) \/ SweepFails(s) \/ Crash(s)
  PROVE  TypeOK'
<1> USE SseAssumption DEF TypeOK, client
<1>1. CASE SweepStart(s)
  BY <1>1, ValuesAreRequests DEF SweepStart, Sweep
<1>2. ASSUME NEW r \in Request, SweepContains(s, r) PROVE TypeOK'
  <2>1. sweep' \in [Server -> Sweep]
    <3> DEFINE kept == [sweep[s] EXCEPT !.todo = @ \ {r}]
               next == [pc |-> "disconnect", todo |-> sweep[s].todo \ {r}, current |-> r]
    <3>1. sweep[s] \in Sweep
      OBVIOUS
    <3>2. kept \in Sweep /\ next \in Sweep
      BY <3>1 DEF Sweep
    <3>3. sweep' \in {[sweep EXCEPT ![s] = kept], [sweep EXCEPT ![s] = next]}
      BY <1>2 DEF SweepContains
    <3> HIDE DEF kept, next
    <3> QED
      BY <3>2, <3>3
  <2> QED
    BY <1>2, <2>1 DEF SweepContains
<1>3. CASE SweepRemove(s)  BY <1>3 DEF SweepRemove, Sweep
<1>4. CASE SweepTryRemove(s)
  BY <1>4 DEF SweepTryRemove, Forget, SweptWereListed, Sweep
<1>5. CASE SweepDelay(s)  BY <1>5 DEF SweepDelay, Resting, Sweep
<1>6. CASE SweepFails(s)  BY <1>6 DEF SweepFails, Sweep
<1>7. CASE Crash(s)  BY <1>7 DEF Crash, Resting, Sweep, Ended, InProgress
<1>8. CASE SweepDisconnect(s)
  BY <1>8 DEF SweepDisconnect, Disconnect, SweptWereListed, Sweep
<1> QED
  BY <1>1, <1>2, <1>3, <1>4, <1>5, <1>6, <1>7, <1>8 DEF SweepStep

(* The type is preserved by every step.                                    *)
LEMMA NextKeepsType ==
  ASSUME TypeOK, SweptWereListed, Next
  PROVE  TypeOK'
<1>1. ASSUME NEW i \in Id, Expire(i) PROVE TypeOK'
  BY <1>1, SseAssumption DEF TypeOK, client, Expire
<1> QED
  BY <1>1, RequestKeepsType, StorageKeepsType, ServerKeepsType DEF Next

-----------------------------------------------------------------------------
(* Invoke goes forward: a request that has been in a dictionary stays past *)
(* that, one not yet past its checks was not before, and a client that was *)
(* disconnected stays so.                                                  *)
Forward ==
  /\ server' = server
  /\ \A r \in Request :
       /\ pc[r] \in Late => pc'[r] \in Late /\ (connected'[r] => connected[r])
       /\ pc'[r] \in Early => pc[r] \in Early
       /\ pc'[r] = "waiting" => pc[r] \in {"tryAdd", "waiting"}

(* Every step goes forward.                                                *)
LEMMA NextGoesForward ==
  ASSUME TypeOK, Next
  PROVE  Forward
<1> USE DEF Forward, Early, Listed, Late
<1>1. ASSUME NEW r \in Request, Arrive(r) \/ Step(r) \/ Leave(r) \/ RequestFails(r)
      PROVE  Forward
  <2> USE <1>1 DEF TypeOK, Goto
  <2>1. CASE Arrive(r)  BY <2>1 DEF Arrive
  <2>2. CASE CheckClients(r)  BY <2>2 DEF CheckClients
  <2>3. CASE CheckStorage(r)  BY <2>3 DEF CheckStorage
  <2>4. CASE Add(r)  BY <2>4 DEF Add
  <2>5. CASE TryAdd(r)  BY <2>5 DEF TryAdd
  <2>6. CASE Wake(r)  BY <2>6 DEF Wake, Disconnect
  <2>7. CASE Remove(r)  BY <2>7 DEF Remove
  <2>8. CASE TryRemove(r)  BY <2>8 DEF TryRemove
  <2>9. CASE Leave(r)  BY <2>9 DEF Leave
  <2>10. CASE RequestFails(r)  BY <2>10 DEF RequestFails
  <2> QED
    BY <2>1, <2>2, <2>3, <2>4, <2>5, <2>6, <2>7, <2>8, <2>9, <2>10 DEF Step
<1>2. ASSUME NEW i \in Id,
             Expire(i) \/ \E s \in Server : SendEvent(s, i) \/ UpdateLands(s, i) \/ UpdateFails(s, i)
      PROVE  Forward
  BY <1>2 DEF client, Expire, SendEvent, UpdateLands, UpdateFails
<1>3. ASSUME NEW s \in Server, SweepStep(s) \/ SweepFails(s) PROVE Forward
  BY <1>3 DEF client, SweepStep, SweepStart, SweepContains, SweepDisconnect, Disconnect,
     SweepRemove, SweepTryRemove, SweepDelay, SweepFails, TypeOK
<1>4. ASSUME NEW s \in Server, Crash(s) PROVE Forward
  BY <1>4 DEF Crash, InProgress, TypeOK
<1> QED
  BY <1>1, <1>2, <1>3, <1>4 DEF Next

(* How a step may change a dictionary entry: a client in TryAdd takes an   *)
(* empty one, its own TryRemove or a sweep of a disconnected client with   *)
(* the id empties it, or its server crashes.                               *)
Takes(s, i) ==
  \E r \in Request : /\ pc[r] = "tryAdd" /\ server[r] = s /\ IdOf[r] = i
                     /\ clients[s][i] = NoRequest
                     /\ clients'[s][i] = r /\ pc'[r] = "waiting"

Empties(s, i) ==
  /\ clients'[s][i] = NoRequest
  /\ \/ \E r \in Request : /\ pc[r] = "tryRemove" /\ server[r] = s /\ IdOf[r] = i
                           /\ pc'[r] = "done"
     \/ \E r \in Request : pc[r] \in Late /\ ~ connected[r] /\ IdOf[r] = i
     \/ \A r \in Request : server[r] = s => pc'[r] # "waiting"

EntryChanges ==
  \A s \in Server, i \in Id :
    clients'[s][i] = clients[s][i] \/ Takes(s, i) \/ Empties(s, i)

(* Entries change only in those ways.                                      *)
LEMMA NextChangesEntries ==
  ASSUME TypeOK, SweptWereListed, Next
  PROVE  EntryChanges
<1> USE DEF EntryChanges
<1>1. ASSUME NEW r \in Request, TryAdd(r) PROVE EntryChanges
  BY <1>1, SseAssumption DEF TryAdd, Goto, Takes, TypeOK
<1>2. ASSUME NEW r \in Request, TryRemove(r) PROVE EntryChanges
  BY <1>2, SseAssumption DEF TryRemove, Forget, Goto, Empties, TypeOK
<1>3. ASSUME NEW s \in Server, SweepTryRemove(s) PROVE EntryChanges
  BY <1>3, SseAssumption DEF SweepTryRemove, Forget, Empties, SweptWereListed, TypeOK
<1>4. ASSUME NEW s \in Server, Crash(s) PROVE EntryChanges
  BY <1>4 DEF Crash, Empties, InProgress, TypeOK
<1>5. CASE UNCHANGED clients
  BY <1>5
<1> QED
  BY <1>1, <1>2, <1>3, <1>4, <1>5 DEF Next, Arrive, Step, CheckClients, CheckStorage, Add, Leave,
     Wake, Remove, RequestFails, Expire, SendEvent, UpdateLands, UpdateFails, SweepStep, SweepStart,
     SweepContains, SweepDisconnect, SweepRemove, SweepDelay, SweepFails

-----------------------------------------------------------------------------
(* A listed request that is no longer listed has emptied its entry.        *)
LEMMA DoneEmpties ==
  ASSUME TypeOK, EntriesAreListed, Next, NEW r \in Request, pc[r] \in Listed, pc'[r] \notin Listed
  PROVE  clients'[server[r]][IdOf[r]] # r
<1>1. TryRemove(r)
  <2>1. \/ \E q \in Request : Arrive(q) \/ Step(q) \/ Leave(q) \/ RequestFails(q)
        \/ pc' = pc
        \/ \E s \in Server : Crash(s)
    BY DEF Next, client, Expire, SendEvent, UpdateLands, UpdateFails, SweepStep, SweepStart,
       SweepContains, SweepDisconnect, SweepRemove, SweepTryRemove, SweepDelay, SweepFails
  <2>2. ~ \E s \in Server : Crash(s)
    BY DEF Crash, Listed
  <2> QED
    BY <2>1, <2>2 DEF Step, Arrive, CheckClients, CheckStorage, Add, TryAdd, Leave, Wake, Remove,
       TryRemove, RequestFails, Goto, Listed, TypeOK
<1> QED
  BY <1>1, SseAssumption DEF TryRemove, Forget, TypeOK

(* EntriesAreListed is preserved.                                          *)
LEMMA KeepsListed ==
  ASSUME SseInv, Next
  PROVE  EntriesAreListed'
<1> USE DEF SseInv
<1>1. EntryChanges /\ Forward /\ TypeOK'
  BY NextChangesEntries, NextGoesForward, NextKeepsType
<1> SUFFICES ASSUME NEW s \in Server, NEW i \in Id, NEW r \in Request, clients'[s][i] = r
             PROVE  server'[r] = s /\ IdOf[r] = i /\ pc'[r] \in Listed
  BY DEF EntriesAreListed
<1>2. CASE clients'[s][i] = clients[s][i]
  BY <1>1, <1>2, DoneEmpties DEF EntriesAreListed, Forward
<1>3. CASE Takes(s, i)
  BY <1>1, <1>3 DEF Takes, Forward, Listed
<1>4. ~ Empties(s, i)
  BY SseAssumption DEF Empties
<1> QED
  BY <1>1, <1>2, <1>3, <1>4 DEF EntryChanges

(* SweptWereListed is preserved: a client enters the snapshot from the     *)
(* dictionary, and is disconnected before it is removed.                   *)
LEMMA KeepsSwept ==
  ASSUME SseInv, Next
  PROVE  SweptWereListed'
<1> USE DEF SseInv
<1>1. Forward /\ TypeOK'
  BY NextGoesForward, NextKeepsType
<1>2. CASE sweep' = sweep
  BY <1>1, <1>2 DEF SweptWereListed, Forward, TypeOK, Sweep
<1>3. ASSUME NEW s \in Server, SweepStep(s) \/ SweepFails(s) \/ Crash(s)
      PROVE  SweptWereListed'
  <2> SUFFICES ASSUME NEW t \in Server
               PROVE  /\ \A r \in sweep'[t].todo : pc'[r] \in Late
                      /\ sweep'[t].pc \in {"disconnect", "remove", "tryRemove"} =>
                           sweep'[t].current \in Request /\ pc'[sweep'[t].current] \in Late
                      /\ sweep'[t].pc \in {"remove", "tryRemove"} =>
                           ~ connected'[sweep'[t].current]
    BY DEF SweptWereListed
  <2>1. CASE t # s
    <3>1. sweep'[t] = sweep[t]
      BY <1>3, <2>1 DEF SweepStep, SweepStart, SweepContains, SweepDisconnect, SweepRemove,
         SweepTryRemove, SweepDelay, SweepFails, Crash, TypeOK, Sweep
    <3> QED
      BY <1>1, <3>1 DEF SweptWereListed, Forward, TypeOK, Sweep
  <2>2. CASE t = s /\ SweepStart(s)
    <3>1. \A r \in Values(s) : r \in Request /\ pc[r] \in Late
      BY ValuesAreRequests DEF EntriesAreListed, Late
    <3>2. sweep'[s].pc = "contains" /\ sweep'[s].todo = Values(s) /\ pc' = pc
      BY <2>2 DEF SweepStart, client, TypeOK, Sweep
    <3> QED
      BY <2>2, <3>1, <3>2
  <2>3. ASSUME t = s, NEW r \in Request, SweepContains(s, r)
        PROVE  /\ \A q \in sweep'[t].todo : pc'[q] \in Late
               /\ sweep'[t].pc \in {"disconnect", "remove", "tryRemove"} =>
                    sweep'[t].current \in Request /\ pc'[sweep'[t].current] \in Late
               /\ sweep'[t].pc \in {"remove", "tryRemove"} =>
                    ~ connected'[sweep'[t].current]
    <3>1. r \in sweep[s].todo /\ sweep[s].pc = "contains" /\ pc' = pc /\ connected' = connected
      BY <2>3 DEF SweepContains, client
    <3>2. \/ sweep'[s] = [sweep[s] EXCEPT !.todo = @ \ {r}]
          \/ sweep'[s] = [pc |-> "disconnect", todo |-> sweep[s].todo \ {r}, current |-> r]
      BY <2>3 DEF SweepContains, TypeOK
    <3>3. CASE sweep'[s] = [sweep[s] EXCEPT !.todo = @ \ {r}]
      <4>1. sweep[s] \in Sweep
        BY DEF TypeOK
      <4>2. sweep'[s].todo \subseteq sweep[s].todo /\ sweep'[s].pc = "contains"
        BY <3>1, <3>3, <4>1 DEF Sweep
      <4> QED
        BY <2>3, <3>1, <4>2 DEF SweptWereListed
    <3>4. CASE sweep'[s] = [pc |-> "disconnect", todo |-> sweep[s].todo \ {r}, current |-> r]
      BY <2>3, <3>1, <3>4 DEF SweptWereListed
    <3> QED
      BY <3>2, <3>3, <3>4
  <2>4. CASE t = s /\ (SweepRemove(s) \/ SweepTryRemove(s))
    <3>1. /\ sweep'[s].todo = sweep[s].todo /\ pc' = pc /\ connected' = connected
          /\ \/ sweep'[s].pc = "contains"
             \/ sweep[s].pc = "remove" /\ sweep'[s].current = sweep[s].current
      BY <2>4 DEF SweepRemove, SweepTryRemove, client, TypeOK, Sweep
    <3> QED
      BY <2>4, <3>1 DEF SweptWereListed
  <2>5. CASE t = s /\ SweepDisconnect(s)
    <3>1. /\ sweep'[s].todo = sweep[s].todo /\ pc' = pc
          /\ sweep'[s].current = sweep[s].current
      BY <2>5 DEF SweepDisconnect, TypeOK, Sweep
    <3>2. sweep[s].current \in Request => ~ connected'[sweep[s].current]
      BY <2>5 DEF SweepDisconnect, Disconnect, TypeOK
    <3>3. sweep[s].pc = "disconnect"
      BY <2>5 DEF SweepDisconnect
    <3> QED
      BY <2>5, <3>1, <3>2, <3>3 DEF SweptWereListed
  <2>6. CASE t = s /\ (SweepDelay(s) \/ SweepFails(s) \/ Crash(s))
    BY <2>6 DEF SweepDelay, SweepFails, Crash, Resting, TypeOK, Sweep
  <2> QED
    BY <1>3, <2>1, <2>2, <2>3, <2>4, <2>5, <2>6 DEF SweepStep
<1> QED
  BY <1>2, <1>3 DEF Next, Arrive, Step, CheckClients, CheckStorage, Add, TryAdd, Leave, Wake,
     Remove, TryRemove, RequestFails, Expire, SendEvent, UpdateLands, UpdateFails

(* What TryAdd leaves in the dictionary of an unshared id.                 *)
LEMMA UnsharedTakes ==
  ASSUME SseInv, NEW r \in Request, Unshared(r), pc[r] = "tryAdd", TryAdd(r)
  PROVE  clients'[server[r]][IdOf[r]] = r
<1> USE SseAssumption DEF SseInv
<1>1. clients[server[r]][IdOf[r]] = NoRequest
  <2>1. server[r] \in Server /\ IdOf[r] \in Id
    BY EntryType
  <2>2. ASSUME NEW q \in Request, clients[server[r]][IdOf[r]] = q PROVE FALSE
    BY <2>1, <2>2 DEF EntriesAreListed, Unshared, Listed
  <2> QED
    BY <2>1, <2>2, EntryType
<1> QED
  BY <1>1 DEF TryAdd, TypeOK

(* ConnectedIsReachable is preserved: who removes an entry by its id is    *)
(* either the client itself or shares the id.                              *)
LEMMA KeepsReachable ==
  ASSUME SseInv, Next
  PROVE  ConnectedIsReachable'
<1> USE SseAssumption DEF SseInv
<1>1. EntryChanges /\ Forward /\ TypeOK'
  BY NextChangesEntries, NextGoesForward, NextKeepsType
<1> SUFFICES ASSUME NEW r \in Request, pc'[r] = "waiting", connected'[r], Unshared(r)'
             PROVE  clients'[server'[r]][IdOf[r]] = r
  BY DEF ConnectedIsReachable
<1> DEFINE s == server[r]
           i == IdOf[r]
<1>2. s \in Server /\ i \in Id /\ server' = server
  BY <1>1 DEF TypeOK, Forward
<1>3. Unshared(r)
  BY <1>1 DEF Forward, Unshared, Early
<1>4. CASE pc[r] = "waiting"
  <2>1. clients[s][i] = r
    BY <1>1, <1>3, <1>4 DEF ConnectedIsReachable, Forward, Late, Listed
  <2>2. ~ Takes(s, i)
    BY <2>1 DEF Takes
  <2>3. ~ Empties(s, i)
    BY <1>1, <1>3, <1>4 DEF Empties, Unshared, Forward, Late, Listed
  <2> QED
    BY <1>1, <1>2, <2>1, <2>2, <2>3 DEF EntryChanges
<1>5. CASE pc[r] = "tryAdd"
  <2>1. TryAdd(r)
    <3>1. \/ \E q \in Request : Arrive(q) \/ Step(q) \/ Leave(q) \/ RequestFails(q)
          \/ pc' = pc
          \/ \E t \in Server : Crash(t)
      BY DEF Next, client, Expire, SendEvent, UpdateLands, UpdateFails, SweepStep, SweepStart,
         SweepContains, SweepDisconnect, SweepRemove, SweepTryRemove, SweepDelay, SweepFails
    <3>2. ASSUME NEW t \in Server, Crash(t) PROVE FALSE
      <4>1. pc'[r] \in {pc[r], "failed"}
        BY <3>2 DEF Crash
      <4> QED
        BY <1>5, <4>1
    <3> QED
      BY <1>5, <3>1, <3>2 DEF Step, Arrive, CheckClients, CheckStorage, Add, TryAdd, Leave, Wake,
         Remove, TryRemove, RequestFails, Goto, TypeOK
  <2> QED
    BY <1>2, <1>3, <1>5, <2>1, UnsharedTakes
<1> QED
  BY <1>1, <1>4, <1>5 DEF Forward

(* StagesAreReal and DisconnectedIsAborted are preserved: only clients     *)
(* past TryAdd are disconnected, and Disconnect aborts a client that was   *)
(* still connected.                                                        *)
LEMMA KeepsStages ==
  ASSUME SseInv, Next
  PROVE  StagesAreReal' /\ DisconnectedIsAborted'
<1> USE DEF SseInv, StagesAreReal, DisconnectedIsAborted
<1>1. ASSUME NEW r \in Request, Arrive(r) \/ Step(r) \/ Leave(r) \/ RequestFails(r)
      PROVE  StagesAreReal' /\ DisconnectedIsAborted'
  <2> USE <1>1 DEF TypeOK, Goto
  <2>1. CASE Arrive(r)  BY <2>1 DEF Arrive
  <2>2. CASE CheckClients(r)  BY <2>2 DEF CheckClients
  <2>3. CASE CheckStorage(r)  BY <2>3 DEF CheckStorage
  <2>4. CASE Add(r)  BY <2>4 DEF Add
  <2>5. CASE TryAdd(r)  BY <2>5 DEF TryAdd
  <2>6. CASE Wake(r)  BY <2>6 DEF Wake, Disconnect
  <2>7. CASE Remove(r)  BY <2>7 DEF Remove
  <2>8. CASE TryRemove(r)  BY <2>8 DEF TryRemove
  <2>9. CASE Leave(r)  BY <2>9 DEF Leave
  <2>10. CASE RequestFails(r)  BY <2>10 DEF RequestFails
  <2> QED
    BY <2>1, <2>2, <2>3, <2>4, <2>5, <2>6, <2>7, <2>8, <2>9, <2>10 DEF Step
<1>2. ASSUME NEW s \in Server, SweepDisconnect(s)
      PROVE  StagesAreReal' /\ DisconnectedIsAborted'
  <2>1. PICK r \in Request : r = sweep[s].current /\ pc[r] \in Late
    BY <1>2 DEF SweepDisconnect, SweptWereListed
  <2>2. Disconnect(r)
    BY <1>2, <2>1 DEF SweepDisconnect
  <2>3. pc' = pc /\ faults' = faults /\ pc[r] # "tryAdd"
    BY <1>2, <2>1 DEF SweepDisconnect, Late, Listed
  <2>4. \A q \in Request : q # r => connected'[q] = connected[q] /\ aborted'[q] = aborted[q]
    BY <2>2 DEF Disconnect, TypeOK
  <2>5. aborted'[r] = (aborted[r] \/ connected[r])
    BY <2>2 DEF Disconnect, TypeOK
  <2> QED
    BY <2>3, <2>4, <2>5
<1>3. ASSUME NEW s \in Server, Crash(s) PROVE StagesAreReal' /\ DisconnectedIsAborted'
  <2>1. \A r \in Request : pc'[r] \in {pc[r], "failed"}
    BY <1>3 DEF Crash
  <2>2. faults' # 0 /\ connected' = connected /\ aborted' = aborted
    BY <1>3, SseAssumption DEF Crash, TypeOK
  <2> QED
    BY <2>1, <2>2
<1>4. CASE UNCHANGED client /\ faults' \in {faults, faults + 1}
  BY <1>4, SseAssumption DEF client, TypeOK
<1> QED
  BY <1>1, <1>2, <1>3, <1>4 DEF Next, Expire, SendEvent, UpdateLands, UpdateFails, SweepStep,
     SweepStart, SweepContains, SweepRemove, SweepTryRemove, SweepDelay, SweepFails

-----------------------------------------------------------------------------
(* The inductive invariant of the servers.                                 *)
THEOREM ServerInvariant == Spec => []SseInv
<1>1. SseInv /\ [Next]_vars => SseInv'
  <2> SUFFICES ASSUME SseInv, [Next]_vars PROVE SseInv'
    OBVIOUS
  <2>1. CASE Next
    BY <2>1, NextKeepsType, KeepsListed, KeepsSwept, KeepsStages, KeepsReachable
       DEF SseInv
  <2>2. CASE UNCHANGED vars
    BY <2>2 DEF vars, client, SseInv, TypeOK, EntriesAreListed, SweptWereListed,
       StagesAreReal, DisconnectedIsAborted, ConnectedIsReachable, Unshared
  <2> QED
    BY <2>1, <2>2
<1> QED
  BY <1>1, InitHolds, PTL DEF Spec

(* The servers' state stays within its type.                               *)
THEOREM ServerTypeCorrect == Spec => []TypeOK
<1>1. SseInv => TypeOK
  BY DEF SseInv
<1> QED
  BY <1>1, ServerInvariant, PTL

(* A request that Invoke has answered is in no dictionary, however the     *)
(* sweep, other requests, expirations, failures and crashes interleave, and*)
(* without failures only requests in progress are.                         *)
THEOREM AnsweredRequestIsForgotten == Spec => []DoneIsForgotten
<1>1. SseInv => DoneIsForgotten
  <2> SUFFICES ASSUME SseInv PROVE DoneIsForgotten
    OBVIOUS
  <2>1. ASSUME NEW r \in Request, pc[r] = "done", clients[server[r]][IdOf[r]] = r PROVE FALSE
    <3>1. server[r] \in Server /\ IdOf[r] \in Id
      BY EntryType DEF SseInv
    <3> QED
      BY <2>1, <3>1 DEF SseInv, EntriesAreListed, Listed
  <2>2. ASSUME faults = 0, NEW s \in Server, NEW i \in Id, clients[s][i] # NoRequest
        PROVE  /\ pc[clients[s][i]] \in InProgress
               /\ server[clients[s][i]] = s
               /\ IdOf[clients[s][i]] = i
    <3>1. clients[s][i] \in Request
      BY <2>2, EntryType DEF SseInv
    <3> QED
      BY <2>2, <3>1 DEF SseInv, EntriesAreListed, StagesAreReal, Listed, InProgress
  <2> QED
    BY <2>1, <2>2 DEF DoneIsForgotten
<1> QED
  BY <1>1, ServerInvariant, PTL

(* DisconnectedIsAborted: a request never waits for a client that somebody *)
(* disconnected, whichever of the sweep, the client and the server did.    *)
THEOREM DisconnectedRequestCanEnd == Spec => []DisconnectedIsAborted
<1>1. SseInv => DisconnectedIsAborted
  BY DEF SseInv
<1> QED
  BY <1>1, ServerInvariant, PTL

(* A connected client with an id of its own is always found by its id.     *)
THEOREM UnsharedClientIsReachable == Spec => []ConnectedIsReachable
<1>1. SseInv => ConnectedIsReachable
  BY DEF SseInv
<1> QED
  BY <1>1, ServerInvariant, PTL

=============================================================================
