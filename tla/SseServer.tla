------------------------------ MODULE SseServer ------------------------------
(***************************************************************************)
(* Estudos.SSE: servers that keep clients connected by server-sent events. *)
(* A request runs SseMiddleware.Invoke on the server that received it; on  *)
(* each server SseService keeps a dictionary from client ids to clients,   *)
(* and CloseExpiresConnectionSseBackgroundService (here "the sweep") closes *)
(* the clients whose entry in the storage shared by the servers expired.   *)
(* Every await is a step boundary.  There is one SseClient for each        *)
(* request, so a client is named by its request.                           *)
(*                                                                         *)
(* Time is abstracted: an entry of the storage may expire at any moment.   *)
(* Sends are those of the application and of the keep-alive loop, which    *)
(* differ only in who calls SendEventAsync; what they do to the state is   *)
(* to start an UpdateAsync, which reaches the storage later.               *)
(***************************************************************************)
EXTENDS Naturals

CONSTANTS
  Request,    \* requests for the event stream
  Id,         \* client ids
  IdOf,       \* the id that IClientIdProvider acquires for each request
  Server,
  NoRequest,
  MaxFaults   \* bound: crashes and failing storage commands in a behaviour

ASSUME SseAssumption ==
  /\ IdOf \in [Request -> Id]
  /\ NoRequest \notin Request
  /\ MaxFaults \in Nat

VARIABLES
  pc,         \* where Invoke is for each request
  server,     \* the server that received it
  connected,  \* SseClient.IsConnected
  aborted,    \* HttpContext.RequestAborted
  clients,    \* SseService._clients of each server
  storage,    \* the ids in IClientSseStorage
  updates,    \* the UpdateAsync calls of each server still on their way
  sweep,      \* the ExecuteAsync loop of each server's sweep
  faults      \* how many crashes and storage failures there were

client == <<pc, connected, aborted>>
vars == <<client, server, clients, storage, updates, sweep, faults>>

Ended == {"refused", "done", "failed"}
InProgress == {"isConnected", "contains", "add", "tryAdd", "waiting", "remove", "tryRemove"}

Sweep == [pc: {"delay", "contains", "disconnect", "remove", "tryRemove", "dead"},
          todo: SUBSET Request, current: Request \cup {NoRequest}]

TypeOK ==
  /\ pc \in [Request -> {"idle"} \cup InProgress \cup Ended]
  /\ server \in [Request -> Server]
  /\ connected \in [Request -> BOOLEAN]
  /\ aborted \in [Request -> BOOLEAN]
  /\ clients \in [Server -> [Id -> Request \cup {NoRequest}]]
  /\ storage \subseteq Id
  /\ updates \in [Server -> SUBSET Id]
  /\ sweep \in [Server -> Sweep]
  /\ faults \in 0 .. MaxFaults

Resting == [pc |-> "delay", todo |-> {}, current |-> NoRequest]

Init ==
  /\ pc = [r \in Request |-> "idle"]
  /\ server \in [Request -> Server]
  /\ connected = [r \in Request |-> FALSE]
  /\ aborted = [r \in Request |-> FALSE]
  /\ clients = [s \in Server |-> [i \in Id |-> NoRequest]]
  /\ storage = {}
  /\ updates = [s \in Server |-> {}]
  /\ sweep = [s \in Server |-> Resting]
  /\ faults = 0

-----------------------------------------------------------------------------
(* SseMiddleware.Invoke                                                    *)

Goto(r, p) == pc' = [pc EXCEPT ![r] = p]

(* The request is authorized and has its id, or is refused with 401.       *)
Arrive(r) ==
  /\ pc[r] = "idle"
  /\ \/ Goto(r, "isConnected")
     \/ Goto(r, "refused")
  /\ UNCHANGED <<server, connected, aborted, clients, storage, updates, sweep, faults>>

(* IsClientConnectedAsync: first the dictionary, then the storage; an id   *)
(* known to either is refused with 409.                                    *)
CheckClients(r) ==
  /\ pc[r] = "isConnected"
  /\ Goto(r, IF clients[server[r]][IdOf[r]] # NoRequest THEN "refused" ELSE "contains")
  /\ UNCHANGED <<server, connected, aborted, clients, storage, updates, sweep, faults>>

CheckStorage(r) ==
  /\ pc[r] = "contains"
  /\ Goto(r, IF IdOf[r] \in storage THEN "refused" ELSE "add")
  /\ UNCHANGED <<server, connected, aborted, clients, storage, updates, sweep, faults>>

(* ConnectClientAsync of a new SseClient.  The result of TryAdd is not     *)
(* looked at: an entry of another client with the id stays.                *)
Add(r) ==
  /\ pc[r] = "add"
  /\ Goto(r, "tryAdd")
  /\ connected' = [connected EXCEPT ![r] = TRUE]
  /\ storage' = storage \cup {IdOf[r]}
  /\ UNCHANGED <<server, aborted, clients, updates, sweep, faults>>

TryAdd(r) ==
  LET s == server[r] IN
  /\ pc[r] = "tryAdd"
  /\ Goto(r, "waiting")
  /\ clients' = IF clients[s][IdOf[r]] = NoRequest
                THEN [clients EXCEPT ![s][IdOf[r]] = r] ELSE clients
  /\ UNCHANGED <<server, connected, aborted, storage, updates, sweep, faults>>

(* The client goes away.                                                   *)
Leave(r) ==
  /\ pc[r] \in InProgress
  /\ ~ aborted[r]
  /\ aborted' = [aborted EXCEPT ![r] = TRUE]
  /\ UNCHANGED <<pc, connected, server, clients, storage, updates, sweep, faults>>

(* A mutant of Disconnect: the client still counts as connected.           *)
DisconnectKeepsFlag(r) ==
  /\ aborted' = [aborted EXCEPT ![r] = TRUE]
  /\ UNCHANGED connected

(* A mutant of Disconnect: the request is not aborted.                     *)
DisconnectWithoutAbort(r) ==
  /\ connected' = [connected EXCEPT ![r] = FALSE]
  /\ UNCHANGED aborted

(* SseClient.Disconnect                                                    *)
Disconnect(r) ==
  /\ connected' = [connected EXCEPT ![r] = FALSE]
  /\ aborted' = [aborted EXCEPT ![r] = @ \/ connected[r]]

(* A mutant of Wake: a client that somebody disconnected already is left   *)
(* to them.                                                                *)
WakeOnlyFirst(r) ==
  /\ pc[r] = "waiting"
  /\ aborted[r]
  /\ Goto(r, IF connected[r] THEN "remove" ELSE "done")
  /\ Disconnect(r)
  /\ UNCHANGED <<server, clients, storage, updates, sweep, faults>>

(* RequestAborted is signalled and DisconnectClientAsync begins.           *)
Wake(r) ==
  /\ pc[r] = "waiting"
  /\ aborted[r]
  /\ Goto(r, "remove")
  /\ Disconnect(r)
  /\ UNCHANGED <<server, clients, storage, updates, sweep, faults>>

Remove(r) ==
  /\ pc[r] = "remove"
  /\ Goto(r, "tryRemove")
  /\ storage' = storage \ {IdOf[r]}
  /\ UNCHANGED <<server, connected, aborted, clients, updates, sweep, faults>>

(* The entry is removed by id, whichever client it holds.                  *)
Forget(s, i) == clients' = [clients EXCEPT ![s][i] = NoRequest]

TryRemove(r) ==
  /\ pc[r] = "tryRemove"
  /\ Goto(r, "done")
  /\ Forget(server[r], IdOf[r])
  /\ UNCHANGED <<server, connected, aborted, storage, updates, sweep, faults>>

-----------------------------------------------------------------------------
(* SseService.SendEventAsync and the storage                               *)

(* UpdateAsync is started for the client of an id, if it is there and      *)
(* connected.                                                              *)
SendEvent(s, i) ==
  /\ clients[s][i] # NoRequest
  /\ connected[clients[s][i]]
  /\ updates' = [updates EXCEPT ![s] = @ \cup {i}]
  /\ UNCHANGED <<client, server, clients, storage, sweep, faults>>

UpdateLands(s, i) ==
  /\ i \in updates[s]
  /\ updates' = [updates EXCEPT ![s] = @ \ {i}]
  /\ storage' = storage \cup {i}
  /\ UNCHANGED <<client, server, clients, sweep, faults>>

(* The storage drops an entry whose AbsoluteExpiration has passed.         *)
Expire(i) ==
  /\ i \in storage
  /\ storage' = storage \ {i}
  /\ UNCHANGED <<client, server, clients, updates, sweep, faults>>

-----------------------------------------------------------------------------
(* CloseExpiresConnectionSseBackgroundService.ExecuteAsync                 *)

(* A mutant of Values: removal leaves a null behind in the dictionary.     *)
ValuesWithNulls(s) == {clients[s][i] : i \in Id}

(* GetClients                                                              *)
Values(s) == {clients[s][i] : i \in Id} \ {NoRequest}

(* A mutant of SweepStart: clients already disconnected are skipped.       *)
SweepOnlyConnected(s) ==
  /\ sweep[s].pc = "delay"
  /\ sweep' = [sweep EXCEPT ![s] = [pc |-> "contains", current |-> NoRequest,
                                    todo |-> {r \in Values(s) : connected[r]}]]
  /\ UNCHANGED <<client, server, clients, storage, updates, faults>>

SweepStart(s) ==
  /\ sweep[s].pc = "delay"
  /\ sweep' = [sweep EXCEPT ![s] = [pc |-> "contains", todo |-> Values(s), current |-> NoRequest]]
  /\ UNCHANGED <<client, server, clients, storage, updates, faults>>

(* A mutant of SweepContains: the test of ContainsAsync is inverted.       *)
SweepContainsInverted(s, r) ==
  /\ sweep[s].pc = "contains"
  /\ r \in sweep[s].todo
  /\ IF IdOf[r] \notin storage
     THEN sweep' = [sweep EXCEPT ![s].todo = @ \ {r}]
     ELSE sweep' = [sweep EXCEPT ![s] =
                      [pc |-> "disconnect", todo |-> @.todo \ {r}, current |-> r]]
  /\ UNCHANGED <<client, server, clients, storage, updates, faults>>

(* ContainsAsync answers for one client of the snapshot.                   *)
SweepContains(s, r) ==
  /\ sweep[s].pc = "contains"
  /\ r \in sweep[s].todo
  /\ IF IdOf[r] \in storage
     THEN sweep' = [sweep EXCEPT ![s].todo = @ \ {r}]
     ELSE sweep' = [sweep EXCEPT ![s] =
                      [pc |-> "disconnect", todo |-> @.todo \ {r}, current |-> r]]
  /\ UNCHANGED <<client, server, clients, storage, updates, faults>>

(* DisconnectClientAsync begins: the storage may hold the id again by now. *)
SweepDisconnect(s) ==
  /\ sweep[s].pc = "disconnect"
  /\ sweep' = [sweep EXCEPT ![s].pc = "remove"]
  /\ Disconnect(sweep[s].current)
  /\ UNCHANGED <<pc, server, clients, storage, updates, faults>>

SweepRemove(s) ==
  /\ sweep[s].pc = "remove"
  /\ sweep' = [sweep EXCEPT ![s].pc = "tryRemove"]
  /\ storage' = storage \ {IdOf[sweep[s].current]}
  /\ UNCHANGED <<client, server, clients, updates, faults>>

SweepTryRemove(s) ==
  /\ sweep[s].pc = "tryRemove"
  /\ Forget(s, IdOf[sweep[s].current])
  /\ sweep' = [sweep EXCEPT ![s].pc = "contains", ![s].current = NoRequest]
  /\ UNCHANGED <<client, server, storage, updates, faults>>

SweepDelay(s) ==
  /\ sweep[s].pc = "contains"
  /\ sweep[s].todo = {}
  /\ sweep' = [sweep EXCEPT ![s] = Resting]
  /\ UNCHANGED <<client, server, clients, storage, updates, faults>>

-----------------------------------------------------------------------------
(* Faults                                                                  *)

(* A storage command of a request throws: Invoke ends there.  The storage  *)
(* may have executed the command or not.                                   *)
RequestFails(r) ==
  /\ faults < MaxFaults
  /\ pc[r] \in {"contains", "add", "remove"}
  /\ storage' \in {storage} \cup
       CASE pc[r] = "contains" -> {}
         [] pc[r] = "add"      -> {storage \cup {IdOf[r]}}
         [] pc[r] = "remove"   -> {storage \ {IdOf[r]}}
  /\ Goto(r, "failed")
  /\ faults' = faults + 1
  /\ UNCHANGED <<server, connected, aborted, clients, updates, sweep>>

(* One of the sweep throws: ExecuteAsync has no handler, the loop is over. *)
SweepFails(s) ==
  /\ faults < MaxFaults
  /\ \/ sweep[s].pc = "contains" /\ sweep[s].todo # {} /\ UNCHANGED storage
     \/ sweep[s].pc = "remove" /\ storage' \in {storage, storage \ {IdOf[sweep[s].current]}}
  /\ sweep' = [sweep EXCEPT ![s] = [pc |-> "dead", todo |-> {}, current |-> NoRequest]]
  /\ faults' = faults + 1
  /\ UNCHANGED <<client, server, clients, updates>>

UpdateFails(s, i) ==
  /\ faults < MaxFaults
  /\ i \in updates[s]
  /\ updates' = [updates EXCEPT ![s] = @ \ {i}]
  /\ faults' = faults + 1
  /\ UNCHANGED <<client, server, clients, storage, sweep>>

(* A server dies and is started again: only the storage survives it.       *)
Crash(s) ==
  LET Lost == {r \in Request : server[r] = s /\ pc[r] \in InProgress} IN
  /\ faults < MaxFaults
  /\ pc' = [r \in Request |-> IF r \in Lost THEN "failed" ELSE pc[r]]
  /\ clients' = [clients EXCEPT ![s] = [i \in Id |-> NoRequest]]
  /\ updates' = [updates EXCEPT ![s] = {}]
  /\ sweep' = [sweep EXCEPT ![s] = Resting]
  /\ faults' = faults + 1
  /\ UNCHANGED <<server, connected, aborted, storage>>

-----------------------------------------------------------------------------
Step(r) ==
  \/ CheckClients(r) \/ CheckStorage(r)
  \/ Add(r) \/ TryAdd(r)
  \/ Wake(r) \/ Remove(r) \/ TryRemove(r)

SweepStep(s) ==
  \/ SweepStart(s) \/ \E r \in Request : SweepContains(s, r)
  \/ SweepDisconnect(s) \/ SweepRemove(s) \/ SweepTryRemove(s) \/ SweepDelay(s)

Next ==
  \/ \E r \in Request : Arrive(r) \/ Step(r) \/ Leave(r) \/ RequestFails(r)
  \/ \E i \in Id : Expire(i) \/ \E s \in Server :
       SendEvent(s, i) \/ UpdateLands(s, i) \/ UpdateFails(s, i)
  \/ \E s \in Server : SweepStep(s) \/ SweepFails(s) \/ Crash(s)

Spec == Init /\ [][Next]_vars

(* Nobody sends to the id, so nobody refreshes its entry in the storage.   *)
Unrefreshed(i) ==
  \A s \in Server : clients[s][i] # NoRequest => ~ connected[clients[s][i]]

(* The thread pool runs every continuation, the timer of the sweep fires,  *)
(* and an entry of the storage that nobody refreshes expires.              *)
Fairness ==
  /\ \A r \in Request : WF_vars(Step(r))
  /\ \A s \in Server : WF_vars(SweepStep(s))
  /\ \A i \in Id : WF_vars(Unrefreshed(i) /\ Expire(i))

FairSpec == Spec /\ Fairness

-----------------------------------------------------------------------------
(* A request that Invoke has answered is in no dictionary: whoever else    *)
(* disconnects its client, and whatever happens to other requests with its *)
(* id, nothing is sent to it any more, and no dictionary keeps its id from *)
(* another (what the distributed storage holds is IdIsFreed's).  As long as*)
(* nothing failed, an id in a dictionary is that of a request still in     *)
(* progress there.                                                         *)
DoneIsForgotten ==
  /\ \A r \in Request : pc[r] = "done" => clients[server[r]][IdOf[r]] # r
  /\ faults = 0 =>
       \A s \in Server, i \in Id : clients[s][i] # NoRequest =>
         /\ pc[clients[s][i]] \in InProgress
         /\ server[clients[s][i]] = s
         /\ IdOf[clients[s][i]] = i

(* No other request came with the id, or none was accepted.                *)
Unshared(r) ==
  \A q \in Request : IdOf[q] = IdOf[r] /\ q # r =>
    pc[q] \in {"idle", "isConnected", "contains", "refused"}

(* A client that is connected and whose id no other request shares (the    *)
(* default provider makes a new Guid for each) is in the dictionary, where *)
(* events reach it and the sweep sees it, whatever the sweep, the          *)
(* expirations, the faults and the crashes of other servers do.            *)
ConnectedIsReachable ==
  \A r \in Request :
    pc[r] = "waiting" /\ connected[r] /\ Unshared(r) => clients[server[r]][IdOf[r]] = r

(* A request whose client went away, or whose client the sweep has         *)
(* disconnected, ends: Invoke does not wait for ever.                      *)
GoneIsReleased ==
  \A r \in Request :
    pc[r] = "waiting" /\ (aborted[r] \/ ~ connected[r]) ~> pc[r] \in Ended

SweepIsDead == \E s \in Server : sweep[s].pc = "dead"

Free(i) == i \notin storage /\ \A s \in Server : clients[s][i] = NoRequest

(* Once no request with an id is in progress, a new one with the id will   *)
(* be accepted on every server: neither a crash, nor a storage command     *)
(* that fails half-way, nor an update that lands after the removal blocks  *)
(* the id for ever, unless a failure has ended a sweep.                    *)
IdIsFreed ==
  \A i \in Id :
    (\A r \in Request : IdOf[r] = i => pc[r] \notin InProgress)
      ~> \/ Free(i) \/ SweepIsDead
         \/ \E r \in Request : IdOf[r] = i /\ pc[r] \in InProgress

(* A client whose entry in the storage expired is disconnected, unless its *)
(* entry is written again or a failure has ended a sweep.                  *)
ExpiredIsClosed ==
  \A r \in Request :
    /\ clients[server[r]][IdOf[r]] = r /\ connected[r]
    /\ IdOf[r] \notin storage
    ~> \/ clients[server[r]][IdOf[r]] # r \/ ~ connected[r]
       \/ IdOf[r] \in storage \/ SweepIsDead

(* Two clients are never connected with one id: the check that refuses     *)
(* the second with 409 says so.                                            *)
OneClientPerId ==
  \A r, q \in Request :
    /\ IdOf[r] = IdOf[q]
    /\ pc[r] = "waiting" /\ connected[r] /\ pc[q] = "waiting" /\ connected[q]
    => r = q

=============================================================================
