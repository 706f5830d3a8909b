# Verification of the .NET studies

The repository is a collection of independent .NET study projects. Most are
demonstrations of a library or a language feature; a few contain logic of their
own, with concurrency, failure and retries, and those are what this project
models. This file says what the parts are, which module models which, what the
model-checking runs and the proofs show, and what is left out.

## 1. The system's parts

| Part | State | Operations | What is hard | Modelled |
|---|---|---|---|---|
| Idempotent consumer (`Estudos-IdempotentConsumer`) | a table of keys with a state, shared by processes; an in-memory repository per process | `ProcessAsync`: look up, reserve, mark processing, run the caller's function, commit or roll back | check-then-act on two stores, rollbacks of one call under another, crashes, failing commands, redelivery | yes |
| Circular buffer (`EntryCircularBufferDt`) | an array of nullable entries and an index | add or update, remove under a lock; look up without | wrap-around with holes, lock-free scans | yes |
| In-memory repository (`InMemoryCircularBufferRepository`) | a dictionary of buffers | add, remove, set, look up | creating and dropping a buffer is not atomic with its use | yes |
| SSE server (`Estudos-SSE`) | connected clients per server, a storage shared by servers with expiration | connect, disconnect, send, keep alive, close expired | duplicate ids, late sends, two disconnections of one client, failing storage, crashes | yes, but for the keep-alive timing |
| Scheduled message service (`Projetos-Schedule-Message`) | stored parameters with a time to live, jobs | schedule, trigger, call the gateway | parameters that expire before the job, swallowed failures, repeated jobs, crashes | yes |
| Blockchain node (`Estudos-Blockchain`) | a chain and pending transactions per node | create, mine, broadcast, replace the chain | three threads that share a static variable without a lock, forks | yes, but for amounts |
| Pipelines (`Estudos-PipelinePattern`) | a queue before every step, a task per item | execute, take, hand on, finish, fail | back-pressure, order with several workers, workers that die with an exception | the casting pipelines |
| Reactive reload (`Estudos-AppConfiguration-ServiceBus`) | the processor of a subscription | create, reconnect, close | concurrent reconnections, reconnecting after close | no |
| Background queue (`Estudos-BackgroundServices`) | a bounded channel | enqueue, dequeue, stop | shutdown | no |
| Collections (`Estudos-Colecoes-ThreadSafe`) | queues, a bag | add, take | order | no |
| Synchronization context (`Estudos-Async-Await`) | a queue of callbacks | post, run, complete | posting after completion | no |

Everything else (broker, Redis, Hangfire, workflow and identity samples, layered
application samples, language exercises) is glue around libraries, sequential
I/O or a demonstration; `PROJECT.json` lists each with the reason. The logic of
the repository is in C#. Its JavaScript is vendored (copies of jQuery,
Bootstrap and jQuery Validation under `wwwroot`) but for four short scripts
without state of their own: two empty `site.js`, a redirect after signing out,
and database seeds for containers.

### How the modelled parts interact

`IdempotentConsumer.ProcessAsync` calls its membership strategy, which calls
`SqlServerRepository`, which asks the in-memory repository first and the SQL
table second when it looks a key up, and writes to both, memory first, when it
adds, updates or removes. The in-memory repository is a singleton of the
process and keeps a circular buffer for each instance id; the table is shared
by all processes. The caller is a message consumer: what `ProcessAsync` returns
or throws decides whether its broker delivers the message again.

The SSE server is a separate program. A request stays in `SseMiddleware.Invoke`
as long as its client is connected; `SseService` (a singleton) holds the
clients of the process, the storage (a distributed cache) the ids of all
processes. The background service that closes expired connections calls the
same `DisconnectClientAsync` as the middleware, so both may disconnect a client
at once; they meet only in the dictionary, the storage, `IsConnected` and the
request's abort token.

The remaining three are separate programs too. The scheduling service joins a
web request, which stores parameters and creates a job, with the worker that
runs the job later; they meet in the two databases only. A blockchain node is a
console program whose menu and whose socket handlers, each in its own thread,
share the static `ChainCoin`; nodes send each other whole chains. The pipelines
are a library: callers put items in, and workers, connected by blocking
collections, take them through the steps.

## 2. Modules

| Module | Models | Kind |
|---|---|---|
| `EntryCircularBuffer` | the operations of `EntryCircularBufferDt` on a value | operators |
| `EntryCircularBufferDt` | one buffer shared by writers and lock-free readers | state machine |
| `RecentWindow` | what a circular buffer promises: the window of the last insertions | abstract specification |
| `InMemoryCircularBufferRepository` | the dictionary, the buffers and the threads that use them | state machine |
| `LossyMemory` | what the in-memory repository promises: a set of keys that loses some and makes up none | abstract specification |
| `IdempotentConsumer` | `ProcessAsync` over memory and table, several nodes, a broker, faults | state machine |
| `SseServer` | requests, clients, sweep and shared storage of the SSE servers | state machine |
| `ScheduledMessage` | a message from its request to its post, with its parameters and its job | state machine |
| `BlockchainNode` | nodes, their menu and socket threads, the messages between them | state machine |
| `CastingPipeline` | callers, buffers and workers of the three casting pipelines | state machine |
| `EntryCircularBufferLemmas` | what the operators of the buffer do to a buffer | lemmas |
| `EntryCircularBufferProofs` | the invariant of the shared buffer, the refinement of `RecentWindow` | proofs |
| `InMemoryRepositoryProofs` | the invariant of the repository, the refinement of `LossyMemory` | proofs |
| `IdempotentConsumerProofs` | the invariant of the consumer and its consequences | proofs |
| `SseServerProofs` | the invariant of the SSE servers and its consequences | proofs |
| `ScheduledMessageProofs` | the invariant of a message and its consequences | proofs |
| `BlockchainNodeProofs` | sound chains on every node and wire, what a step keeps, what a server is told | proofs |
| `CastingPipelineProofs` | the invariant of the pipelines and its consequences | proofs |
| `MC...` | instances for TLC | |

### `EntryCircularBuffer` and `EntryCircularBufferDt`

A buffer is a record of `slots` (`_buffer`) and `index` (`_index`); an entry is
its key and its state, since a buffer belongs to one instance id and no
operation looks at the timestamp. The constructor takes any items that fit, a
key several times too, and `IsEmpty` passes over slots whose entry equals
`Entry.Empty` (the key `EmptyKey`, where there is one). `AddOrUpdate` and `Remove` are one step each:
they run under the static `LockObject`. `Contains` and `GetEntry` take no lock:
a reader is a record with the position of its scan, and each read of a slot by
`Array.FindIndex` is a step, as is the second read that `GetEntry` does to
return what it found. Two fields of a reader are history: whether its key was
absent, and whether it was present, at some moment of the call.

### `InMemoryCircularBufferRepository`

Instance ids share nothing, so the model follows one dictionary entry, `dict`,
and the heap of buffers that threads may still refer to after it was unlinked.
A step is one dictionary operation (`TryGetValue`, `TryAdd`, `TryRemove`), one
locked buffer operation, or one slot read by `IsEmpty`. `SetEntries` is given a
list, of which it takes what fits, none, several or one entry twice, and links a
buffer with all of it in one step. The readers are joined: `ContainsAsync` finds
the buffer and the key at one moment (`Visible`), although a lookup that found
a buffer goes on scanning it after it was unlinked. Buffers that nobody
refers to are reused: an object that is garbage cannot be told from a new one.
`erased` is history: the keys removed by a call that met no addition of the
same key and left no copy of it, and not added since. A copy is left where a
list had the key twice: `Remove` clears the first slot only.

`LossyMemory` is what callers may count on. An addition or a removal begins,
and takes effect at one moment before it ends: an addition brings its keys, all
of a list at once, or some of them are lost at once; a removal has a moment at
which its key is not there, or at which there were copies of it; and any key may
vanish at any time. `Memory` maps the model to it: the keys are those
`Contains` would find (`Visible`), the pending additions the calls that have not
written yet, and a removal is pending until it erases its key or the buffer it
found is unlinked. `IdempotentConsumer` takes each process's memory to be such
a set: its `AddMem` and `RemoveMem` are the moments at which an addition and a
removal take effect, its `Evict` the losses.

### `IdempotentConsumer`

`pc[d]` is the await a delivery's call is at, `at[d]` its process, `target[d]`
the state that the current `AddOrUpdateAsync` writes (`Reserved` from
`ExistsAsync`, `Processing` from `PreProcessAsync`, `Committed` from
`CommitAsync`). `mem` and `sql` are the two stores. `Throw` is the try block:
an exception of the reservation goes to the caller, one of the later steps to
`RollbackAsync`, one of the rollback to the caller. The broker (`Deliver`) and
the death of a process (`Crash`) are external and modelled from what the code
assumes of them. The in-memory repository appears as the set of keys it
contains, from which any key may vanish at any time (`Evict`): that covers the
overwriting in the circular buffer and the losses that
`InMemoryCircularBufferRepository` allows. A SQL command fails (`SqlFails`)
before or after the database has executed it.

The history variables say what the properties need: how often the function
completed (`runs`, where 2 stands for "more than once"), whether calls of a key
were ever in progress together (`overlap`), and which faults struck a call of
the key (`fault`).

### `SseServer`

`pc[r]` is the await a request is at: the two lookups of
`IsClientConnectedAsync`, the two parts of `ConnectClientAsync`, the wait for
`RequestAborted`, the two parts of `DisconnectClientAsync`. There is one
`SseClient` per request, named by the request; `connected` is its flag,
`aborted` the token of its request, which the client (`Leave`) or `Disconnect`
signals. `clients[s]` is the dictionary of a server and `storage` the shared
set of ids. `sweep[s]` is `CloseExpiresConnectionSseBackgroundService`: its
place in the loop, what is left of its snapshot, and the client it is
disconnecting, whose id the storage may hold again between the answer of
`ContainsAsync` and the removal. `SendEvent` is any call of `SendEventAsync`, of the application
or of the keep-alive loop: all it changes is that an `UpdateAsync` is on its
way (`updates`) which lands, or fails, later. A storage command that throws
ends the request or the sweep that issued it (neither has a handler), with the
command executed or not. `Crash` empties everything but the storage. A server
is given to a request in `Init`.

### `ScheduledMessage`

`pc[m]` is the await the request of a message is at, `job[m]` the state of its
Hangfire job; `job` also holds the worker's place in
`HangifireCallbackHandler.ExecuteAsync` (`fetched`, `recovered`, `posted`). Time
is three countdowns, moved by one `Tick`: until the instant that was asked for,
until the job is due, until the parameters expire, the last two from values
computed before the save is awaited. The conversions of the
payload are modelled by what they do: an absent `Value` becomes the empty
string, which does not parse later; a `When` with an offset is taken for local
time. What `UseCaseManager` does with an exception is part of the step that
throws: the request answers 500, the job goes on as after a success. Hangfire
and MongoDB are external. `Crash` takes the requests and jobs of a process with
it; `Refetch` is the invisibility timeout of their jobs.

### `BlockchainNode`

Each read of `ChainCoin` that code of one thread makes is a step, since another
thread may assign it in between, and so is each change that a session may read
half done. Option 2 of the menu reads it three times, to add its transaction
(`Choose`, `Create`), to mine (`StartMining`, then `FinishMining` adds the
block, `Clear` and `Reward` start the pending transactions again), and to send
it (`Broadcast`); `OnMessage` compares with it, merges with it, assigns it and
answers with it (`Compare`, `Merge`, `Assign`, `Reply`). `current[n]` says
whether the object `Main` works on is still the node's chain; what it changes on
one that is not is lost with it. A block is named by its miner and a number,
which stands for its hash, a transaction by its creator and a number.

`IsValid` calculates the hash of every block again, and a hash covers the time
of the block as text in the culture and time zone of the process. Through JSON
the time reaches a node as a value and is written anew. `setup.culture` gives
each node its settings, and `Recalculated` holds of a block where its miner's
are those of the node: a node refuses every chain with a block mined under
others. So `ChainsAreValid` speaks of the node that keeps a chain and of the
one that sent it, and no property says that a chain is accepted everywhere.

A race is an assignment to a `ChainCoin` that changed since the comparison or
the merge (`Races`). The two action properties except the very step that is one
(`RacesAt`); `raced`, the history of the nodes where one happened, only excuses
a server from catching up: what its assignment dropped nobody need send again.

### `CastingPipeline`

`class` is the pipeline class; it is chosen in `Init` and decides how many
workers a step has, whether buffers are bounded and what an exception does.
`buffers[k]` is the `BlockingCollection` before step `k`. The workers of a step
are alike, so `alive[k]` counts them and what they hold is told by the items:
`at` and `step` say whether an item is being worked on or being added to the
next buffer (its worker is blocked in `Add`), or is in `Execute` before the
first. `Throw` and `CastFails` differ: the awaitable pipeline catches what the
function throws, the cast of the last output stands outside its `try`.
`ticket` is history: the order in which items entered.

## 3. Runs

| Run | Instance | Shows |
|---|---|---|
| `buffer` | 3 keys, 2 states, 3 slots, 1 reader; 93 thousand states | `NoKeyCopied`, `LookupIsLinearizable`, and that the buffer implements `RecentWindow` |
| `buffer_get_entry` | 2 keys, 2 slots | violation: `GetEntry` can return null or another key's entry |
| `repository` | 2 threads, 3 buffers, 2 keys, 2 slots, lists of up to 2 entries; 187 thousand states | `ErasedStaysErased`, and that the repository implements `LossyMemory` (`IsLossyMemory`) |
| `repository_lost` | the same, without the key of `Entry.Empty` | violation: an added entry may never be found |
| `consumer` | 2 deliveries of one message, 2 processes, 2 faults; 305 thousand states | `EffectOnce`, `NoLostMessage`, `AllOrNothing`, `CommittedIsFinal`, `EventuallyProcessed` |
| `consumer_concurrent` | the same without faults | violation: two calls run the function at once |
| `sse` | 2 requests with one id, 2 servers, 1 fault; 131 thousand states | `DoneIsForgotten`, `ConnectedIsReachable`, `GoneIsReleased`, `IdIsFreed`, `ExpiredIsClosed` |
| `sse_duplicate` | the same with 1 server and no fault | violation: two clients are connected with one id |
| `schedule` | 1 message, 8 requests, 3 attempts, 2 crashes, 2 failing reads; 22 thousand states | `NeverEarly`, `OkMeansDurable`, `DuplicatedOnlyByCrash`, `SilentLossExplained`, `GivenUpOnlyExpired`, `AcceptedIsSettled` |
| `schedule_lost` | the same | violation: a message without a value or headers is accepted and never sent |
| `blockchain` | 2 clients of 1 server, 2 or 3 blocks, 1 or 2 cultures; 80 thousand states | `ChainsAreValid`, `BlocksNameTheirPast`, `CaughtUpAtRest`, `ShrinksOnlyByRace`, `PendingLostOnlyByRace`, `ServersCatchUp` |
| `pipeline` | 3 items, 3 steps, the middle one with 2 workers, room for 1 item each; 14 thousand states | `InOnePlace`, `StepIsBounded`, `NeverStuck`, `OvertakenOnlyInParallel`, `ExceptionsSpareWorkers`, `EveryItemIsSettled` |

Bounds. Three slots and three keys let the index wrap, an entry be overwritten,
and holes be made and filled in every order; what the buffer does with more is
proved. One reader suffices because readers do not affect anything. One of
the keys is that of `Entry.Empty`, here as in the repository: of the instances
that one is the hardest, since `IsEmpty` does not see its entry. Two threads
and one buffer more than threads cover every way a buffer can be linked,
unlinked and held on to; a list of two entries covers several keys that arrive
at once, one key twice, a full buffer, and with fewer none or one. The run's
`VIEW` leaves out of a state the contents of buffers nobody refers to, which no
step reads before it overwrites them. `IdempotentConsumer` is checked for one
key because keys share no state. Two requests with one id cover an id that is unshared (the
second never comes), shared, and used again after a disconnection, on one server
or on two; ids meet nowhere else. `MaxFaults` bounds the crashes and failing
commands together; two reach a fault during the recovery from a fault in the
consumer, and one is enough in the SSE servers, whose recovery from it is to
let the sweep and the expiration do their work.

One message is enough for the scheduling service, whose messages meet nowhere;
its requests wait for less and for longer than the parameters live (`Ttl` 2), on
a machine one unit west of UTC, and include each kind of unreadable or missing
part. Two crashes reach a worker that dies on a job another died on before.
Time zones east of UTC are left out: there the delay is longer than asked for,
and nothing is early. Two clients of one server is the smallest network in
which a chain reaches a node by way of another and in which two threads of one
node assign its chain. Either both clients mine, one of them twice, or a client
and the server do, so that chains of equal and of different length meet, and
all write times alike, or the second client does otherwise. Three items and two
workers in the middle step let an item overtake, a worker block on a full buffer while its sibling dies,
and a caller block behind both.

Deliveries, users of a blockchain node and callers of a pipeline may all stop,
and so deadlock is not checked in the runs `consumer`, `consumer_concurrent`,
`blockchain` and `pipeline`; the others never stop.

Fairness. `EventuallyProcessed` assumes that the thread pool runs every
continuation (`WF` of a call's steps), that the broker delivers again what was
not acknowledged (`WF` of `Deliver`), and that the caller's function does not
fail every time it is run (`SF` of `FuncSucceeds`). The liveness properties of
the SSE servers assume that requests and sweeps go on (`WF` of `Step` and of
`SweepStep`, whose `Task.Delay` always ends) and that an entry of the storage
that no send refreshes expires in the end (`WF` of `Expire` restricted to
`Unrefreshed` ids: entries have an absolute expiration). Nothing makes sends
happen, updates land, clients leave or requests arrive. `AcceptedIsSettled`
assumes that time passes (`WF` of `Tick`) and that Hangfire's poller and workers
run the jobs they hold (`WF` of `Execute`). `ServersCatchUp` assumes that what
`Main` started it ends and that the sockets' threads handle what arrives (`WF`
of `Mine` and of `OnMessage`), not that users do anything. `EveryItemIsSettled`
assumes that threads run and that the functions of the steps return or throw
(`WF` of `Put`, of `Work` and of `Take`). Faults, crashes, evictions, failing
reads and the expiration of parameters have no fairness.

What the violations mean. They are kept because a test or the code itself
asserts the opposite; `PROJECT.json` quotes it. None is repaired in the models:
the properties that hold state exactly under which condition they do.
`EffectOnce` excludes messages whose calls overlapped or met a failing SQL
command, and the run `consumer_concurrent` shows that the first exclusion is
necessary. `NoLostMessage` and `EventuallyProcessed` exclude messages struck by
a crash: a process that dies after reserving a key leaves a row that makes
every later delivery ignored.

In the SSE servers `ConnectedIsReachable` excludes ids that another accepted request
has used: `sse_duplicate` shows why for requests at the same time, and an id
that is used again can lose its entry to a sweep that is still disconnecting
its previous client. `ExpiredIsClosed` and `IdIsFreed` stop at a dead sweep: an
exception of the storage ends the loop, and nothing starts it again.

`schedule_lost` is about the conversions: the gateway's test says that a message
with only its required values is posted with an empty body, but what the
controller stores for an absent value cannot be read back, and the exception is
swallowed. `SilentLossExplained` says that this, and an error of the gateway,
are the only ways to lose a message in silence.

Several conditions of the passing runs name hazards that the code does have, and
the hazards in `PROJECT.json` that no property catches say which: overlapping
calls, crashes and failing commands in the consumer, shared ids and the dead
sweep in the SSE servers, a `When` with an offset, races in the blockchain (an
assignment may overwrite a longer chain that arrived meanwhile; without the
exception TLC finds the chain getting shorter) and dead workers in the pipelines (an exception ends the workers of two of the
three classes, and what waits behind a step without workers waits for ever).

## 4. Proofs

`EntryCircularBufferLemmas` assumes a natural capacity and a null that is no
entry, and says what each operator does to a buffer, whatever keys it holds
several times; the important lemmas are that a write gives no key that is there
another slot (`AddOrUpdateCopiesNone`, `RemoveCopiesNone`). Two modules use
them. In `EntryCircularBufferProofs` the inductive invariant `BufferInv` adds to
`TypeOK` that the key of a scanning reader was absent at some moment or is, in
all its slots, still ahead of the scan. It gives, for every capacity, set of
keys, initial items and number of readers:

- `BufferTypeCorrect`, `BufferCopiesNoKey`, `LockFreeLookupIsLinearizable`;
- `MadeWithoutCopiesStaysWithout`: a buffer made of items with distinct keys
  never holds a key in two slots. Of one made of others this is false, and a
  unit test makes such a buffer;
- `BufferImplementsWindow`: every step of the buffer is an insertion into, a
  replacement in, or a removal from the window, or leaves it alone.

`InMemoryRepositoryProofs` assumes besides that the capacity is not 0 (the
constructor of the repository replaces 0 by a default). Its `IInv` adds to
`TypeOK` and `ErasedStaysErased` what a thread may rely on at each place
(`ThreadInv`): while its key is being erased and nobody adds it, the key is out
of sight or in the linked buffer it holds; afterwards it is out of sight,
whatever the others link; and a thread about to link a buffer is the only one
that knows it, and it is as it was made, of the list that `SetEntries` was given
or of nothing. The last part is what makes linking harmless to removals, since
the keys of the list count as being added from the call on, and `Fits` says what any step may do to the
dictionary and the heap for the threads that do not take it. It gives, for any
number of threads, buffers and keys, and lists of any length and content:

- `RepositoryTypeCorrect`, `ErasedKeysStayErased`, and
  `UnlinkedBuffersStayUnlinked` (stated in the proof module, and checked by no
  run: what it means for a caller is in `RepositoryImplementsMemory`);
- `RepositoryImplementsMemory`: every step of a thread is a step of
  `LossyMemory` or none. The argument goes action by action, from what a call
  adds to or takes from the pending ones (`AdditionsStep`, `RemovalsStep`) and
  what it does to the visible keys and to the copies among them. Linking is
  the addition of a `SetEntries` and must add nothing for an `AddOrUpdate`,
  whose addition is the write that follows: hence the conjunct of `ThreadInv` on
  what the buffer holds. A removal takes effect although its key stays where
  copies of it were left, which only a list with the key twice makes
  (`Doubled`).

`IdempotentConsumerProofs` assumes only that every delivery has a key and that
`NoNode` is no node. Keys share nothing, so `ConsumerInv` is `TypeOK` and, key
by key: every known key is justified by a completed function, a fault or a call
that is still to commit or roll back (`MemJustified`, `RowJustified`: needed
because a duplicate is acknowledged on their strength); calls that do not
overlap come one after the other (`OneCall`); and what such calls find in the
table is what they left there (`UndisturbedCalls`, `UndisturbedKey`). It gives,
for any number of deliveries, keys, processes and faults:

- `ConsumerTypeCorrect`, `FunctionRunsOnce`, `NoMessageIsLost`,
  `CallsAreAllOrNothing`, `CommittedStays`;
- `AcknowledgedIsProcessedOnce`, which they give together: what a user of the
  library wants to hear, with the conditions under which it is true.

`SseServerProofs` assumes that every request has an id and that `NoRequest` is
no request. `SseInv` adds to `TypeOK` that dictionary entries belong to clients
between `TryAdd` and `TryRemove` (`EntriesAreListed`) and that the sweep's
clients were listed and the one being removed is disconnected
(`SweptWereListed`): without these an entry could be removed for a client that
is still connected. It also says that a client is connected when it is added and
that only faults make requests fail (`StagesAreReal`), and that a disconnected
client's request is aborted (`DisconnectedIsAborted`). Two lemmas on all steps
carry the argument: requests only go forward (`NextGoesForward`), and a
dictionary entry changes in three ways only (`NextChangesEntries`). It gives,
for any number of servers, requests, ids and faults:

- `ServerTypeCorrect`, `AnsweredRequestIsForgotten`, `UnsharedClientIsReachable`;
- `DisconnectedRequestCanEnd`: no request waits for a client that is disconnected
  without having been aborted, the safety half of `GoneIsReleased`.

`ScheduledMessageProofs` assumes that reads fail less often than a job is
attempted (`MaxReadFaults < Attempts`, the bound of the fault model, which
`GivenUpOnlyExpired` needs; a job that meets as many failing reads as it has
attempts ends failed, with no delivery). Messages share nothing, so `IInv` is `TypeOK` and a
conjunction of facts about each message: what is left of the wait never exceeds
what the job still waits for (`OnTime`), the job comes after its parameters
(`Durable`), a crash lies between two posts (`Counted`), and failures beyond
the failing reads mean that the parameters are gone (`Attempted`). It gives:

- `ScheduleTypeCorrect`, `DeliveryIsNeverEarly`, `OkIsDurable`,
  `DuplicateNeedsCrash`, `SilentLossNeedsCause`, `GivingUpNeedsExpiration`;
- `AcceptedIsDeliveredOnce`, which they give together: exactly one delivery, and
  not before its time, of a message that none of the named causes befell, though
  fewer reads may fail than the job has attempts.

`BlockchainNodeProofs` assumes nothing of the network, but for one theorem.
`IInv` says that what a node keeps, what is on the wire and what a handler took
is a `Sound` chain, that the last is longer than what it was compared with and
has, once merged, its pending transactions unless that was replaced before
(`HasPending`): so only an assignment to something else shortens or loses. What
is pending when `Main` is about to start it again is in a block (`HasMined`).
`AllReadable` says where the hashes of a chain come out right: at the node that
keeps it or is about to assign it, and at the sender of one on its way. It is
inductive because a node mines in its own culture and takes over only what its
`IsValid` accepts. It gives, for every topology, number of blocks and
assignment of cultures:

- `BlockchainTypeCorrect`, `ChainsStayValid`, `ShrinkingNeedsRace`,
  `LosingNeedsRace`;
- `HistoriesNeverRejoin`: a block has one past. `BlocksNameTheirPast` is
  inductive with the fact that the hashes in the chains are of blocks already
  mined (`HashesMined`): a new block is in no chain yet, and every other step
  only copies chains;
- `ServersCatchUpOnArrival`, under the assumption `OneServerEach`, which names a
  topology: each client has one server, and servers are nobody's clients. It is
  about clients of the server's culture, since it refuses the blocks of others. The
  invariant `Linked` says, link by link, that a client's chain is at its server,
  on the wire, in the hands of the server's handler or about to be broadcast
  (`Informed`), and that what a server answered is no longer than what it has
  now (`Answered`), so an answer never puts the client ahead again. The
  assumption is needed: on a line of three nodes the middle one takes a chain
  from its client and passes it on only when it mines, and `CaughtUpAtRest` (and
  `ServersCatchUp`) fail.

`CastingPipelineProofs` assumes finitely many items and buffers with room. `IInv`
adds that tickets are given once an item is in the first buffer (`Ticketed`),
that a step holds no more items than it has living workers and room for
(`Counted`), and that a buffer which items reached through steps of one worker
is sorted by ticket (`Sorted`): the order of results follows from the order in
every buffer on the way. It gives, for any number of items, steps and workers:

- `PipelineTypeCorrect`, `ItemsAreInOnePlace`, `StepsAreBounded`,
  `OneWorkerKeepsOrder`, `ExceptionCostsNoWorker`;
- `BackPressureNeverBlocksAll`: `NeverStuck` holds of the item that is furthest
  on, since whatever could hold it up, a full buffer or a busy worker, would be
  an item further on. That such an item exists is `GreatestExists`: induction
  on the number of items is out of the prover's reach (see below), but the
  library's theorem that strict inclusion is well-founded on finite sets needs
  none, and a smallest one of the sets of greater items is empty;
- `EachLossCostsAWorker`: in all three classes a step loses at most as many
  items as it was given workers.

Only model-checked: the liveness properties `EventuallyProcessed`,
`GoneIsReleased`, `IdIsFreed`, `ExpiredIsClosed`, `AcceptedIsSettled`,
`ServersCatchUp` and `EveryItemIsSettled`; liveness under fairness is beyond the
prover, and so is induction over data, whose theorems take an operator as a
parameter. The safety facts they rest on are proved where they could be
separated: `NoMessageIsLost` for the first, `DisconnectedRequestCanEnd` for the
second, `ServersCatchUpOnArrival` and `BackPressureNeverBlocksAll` for the last
two.

## 5. Not modelled

Left out of the modelled parts:

- in the circular buffer and the repository, a lookup's scan of a buffer that is
  unlinked meanwhile, timestamps and listings (`GetEntriesAsync`), which no decision reads; the
  negative-capacity and null-argument checks of constructors; the SQL text
  beyond what its commands do to the row of a key;
- in the SSE server, the keep-alive loop's interval and its end by an
  exception, graceful shutdown, the application's callbacks and the bytes of an
  event: the model shows what happens whenever an entry expires, not that a
  living client's entry does not, which depends on the lengths of the intervals;
- in the scheduling service, health checks, the binding of configuration, and a
  job that is fetched a second time while its first worker still lives (the
  storage renews the fetch as long as the worker does);
- in the blockchain, amounts and balances, a node that exits, the text of times
  beyond whether two nodes write them alike, and an answer that fails because the
  menu adds to the lists it is made from. That a transaction may get into two blocks of one chain is
  therefore listed as a hazard and has no property;
- in the pipelines, what callers do with their task (its continuation runs on
  the worker's thread). `GenericBCPipeline` moves items as
  `CastingPipelineBuilder` does and has no model of its own; the variant over
  TPL Dataflow is that library's.

Components without a model, and why:

- reactive configuration reload: its own state is one field, and every other
  step is a call of the Azure libraries; what follows from two concurrent
  reconnections, or from one after closing, depends on semantics that are not
  in the repository, which does not say what should hold;
- the background queue, the thread-safe collections and the synchronization
  context: one-line methods over a channel or a concurrent collection of the
  platform, each with a demonstration as its only caller;
- the rest of the tree: samples of libraries, sequential request handlers,
  language exercises and vendored scripts, as `PROJECT.json` says of each.
