# TLA+ models of the GTNH platform

Specifications, TLC configurations and TLAPS proofs for the concurrent and distributed core of the
GTNH platform. Paths below are relative to the repository; `src/src/...` is its `src/` directory.

## 1. Inventory

The platform is a set of daemons around a publish/subscribe router. Clients talk to the Gateway;
everything else talks through MessageRouter, except a few direct links (SimulationCore to
ChunkStore and EntityStateStore).

| Component | State it keeps | Operations | Interacts with | Hard behaviour | What makes it correct |
|---|---|---|---|---|---|
| ChunkStore, CLOCK cache (`chunk_store/Storage/cache/ClockCache.h`) | sets of 128-bit slots (key, pointer, reference bit), a hand per set | get, put, erase, clear | ChunkCache through `on_evict` | lock-free: loads and CASes of many threads interleave | a pointer is in one place, none is lost, hot entries survive |
| ChunkStore, object cache (`ChunkCache.h`) | pool, pin counts, deferred evictions | get/getPinned/releasePinned/put/erase/clear | ClockCache below, store above | eviction between lookup and pin | a pinned object is never reused; deferred evictions happen once |
| ChunkStore, store (`ChunkStore.cpp`, `CASHandler.cpp`, `FlushPipeline.cpp`, `EncodePipeline.cpp`) | cache, dirty set, pending palettes, encode queue, callbacks | setBlock, casBlock, AsyncGetChunk, GetBlockAt, flush, encode, close | LMDB, GenerationQueue, the network service | five kinds of threads share chunks; restart reads only LMDB | acknowledged changes are durable and visible, a CAS wins once |
| ChunkStore, packed sections (`cache/MutableSection.cpp`) | palette, packed indices, metadata | setBlock, setMeta, get, toWire, fromWire | the store | representations change under way | a section reads like the array it stands for |
| ChunkStore, LMDB store (`disk/LmdbStore.cpp`) | database, map size | writeBatch, writeRaw, growMapSize, reads | LMDB | any LMDB call fails half-way through a batch; map full | nothing dropped, success means written |
| ChunkStore, network service and its client | connections, request ids, callbacks | GetBlock, SetBlock, CAS | SimulationCore | two service threads, lost connection | an answer reaches the caller that asked |
| WorldGenerator (`world_generator/`) | task queue, dedup set, workers | requestChunk, workerLoop, generation | EncodePipeline | a key is requested again while it is generated; neighbours are generated apart | every request answered, one task per key, borders agree |
| PipeNetwork (`pipe_network/`) | pipe graphs, cable graph, port registry, pending consumes | block change, snapshot, consume, tick, port messages | SimulationCore over the router | lost messages, retries, TTL, epochs, stale ids | the graph is the world's; a tick conserves; a consume is answered once |
| SimulationCore, resource drain (`simcore/Network/ResourceDrainHandler.cpp`, `game/machines/Boiler*`) | port map, replay cache, steam | drain request, port register/remove, boiler tick | PipeNetwork | retries of served requests, port replaced in flight | at most one debit per id, taken from the right owner |
| SimulationCore, engine and multiblocks (`engine/sim`, `game/multiblock`) | entity per position, controllers, saved contents | place, break, echo, form, release, explode | ChunkStore, EntityStateStore | a change arrives twice, the second time late | controllers match the stored world |
| SimulationCore, block actions (`game/actions`) | pending compare-and-swaps, inventories | place, break, fill bucket | ChunkStore (CAS) | answers arrive after the world changed | no duplicated or lost item on a conflict |
| SimulationCore, machines, heat, reservations (`game/machines`, `simcore/Network/CraftReservationClient.cpp`) | crafts in progress, energy, heat, reservations | tick, request, answer, cancel | PipeNetwork | lost answers, retries, expiry | nothing crafted for free, nobody waits for ever |
| SimulationCore, tools (`game/actions/handTool`, `machines/MachineSlotHandler.cpp`) | side roles, 200 ms cooldowns, reads and writes under way | wrench a machine, hatch, pipe or cable; drill and charger queries; slot requests | ChunkStore, EntityStateStore, QuestManager | two blocks written from two reads, with no lock between; a configuration saved over contents | joined pipes agree; one answer per wrench; a slot keeps what was left in it |
| SimulationCore, containers (`game/storage`) | inventories, sessions, write-through caches | click, open, close, craft, sync | EntityStateStore, Gateway | answers of the store between two handlers, two players on one chest | conservation of items |
| SimulationCore, quests (`game/quests`) | progress, eras | craft, scan, manual completion, join | MetaDB | lost and repeated messages, restarts | prerequisites hold, rewards and trades happen once |
| MessageRouter (`apps/message_router`, Go) | connections, subscriptions, bounded queues per priority, health probes | register, subscribe, publish, cleanup | every daemon | drop-oldest queues, dead peers, closed channels | order per sender and class; no send to a closed queue |
| libgtnh-net (`engine/net`) | io_uring connection, write ring, parser | send, complete, read, close, reconnect | every C++ daemon | reconnect while writes are in the ring | every queued frame is written whole |
| Gateway (`apps/gateway`) | sessions, two sockets per client, player state | accept, login, forward, leave | clients, router | one of the two sockets dies, a new session replaces an old, late callbacks of the old one | a player whose session is open is not taken for gone |
| EntityStateStore | LMDB, cache | load, save | SimulationCore, router | failed transactions, restart | a load finds the last save |
| MetaDB | SQL tables | rewards, exchange, quest progress | SimulationCore | crash between statements | a reward or trade is whole |
| RecipeManager | recipe tables, block entity timers | load, look up, craft | SimulationCore, client | malformed documents, variants, tiers | recipes mean what their documents say |
| GameClient (`apps/game_client`, `game/client`) | chunks, requests, meshes, windows, two connections | load, evict, click, drag, query | Gateway | three threads; late, duplicate, lost answers | eventually shows the server's world |
| SpatialIndex (stub), Validation, registry, interfaces | none of interest | | | | |

`PROJECT.json` lists the same components with their status, and every hazard with its source line.

## 2. Plan

Ordered by how much depends on the behaviour; everything on the list but the last point is done.

1. The chunk store: `ClockCache`, `ChunkCache`, `ChunkStore`, `ChunkRequests`, `LmdbStore`,
   `ChunkLink`, `MutableSection`, `WorldGen`. Each layer is abstracted by the one above it:
   ChunkCache sees ClockCache as a set of entries that displaces one of its choice; ChunkStore sees
   ChunkCache as objects that are cached, pinned or free; ChunkRequests sees contents as
   cached/stored; ChunkLink sees the store as a map.
2. PipeNetwork: `FluidDrain` (with SimulationCore's half of the protocol), `PipeGraph`,
   `CableGraph`.
3. SimulationCore: `InventoryClick`, `Containers`, `BlockActions`, `Machines`, `Heat`,
   `Multiblocks`, `Tools`, `Quests` with MetaDB's handlers and tables, and `QuestBook`, the abstract
   specification that Quests implements.
4. Messaging: `Router`, `NetConnection`, `Gateway`, `RouterClient`, `EntityStore`, `Recipes`.
5. The game client: `ClientWorld`, `ClientMeshes`, `ClientLink`, `ClientWindows`,
   `ClientBuffers`.
6. Theorems (section 5), from the modules with the smallest state up.
7. Left: a linearizable block store that ChunkStore implements outside the named races, and proofs
   for `Gateway`, `Machines` and `PipeGraph`, whose invariants are model-checked only.

## 3. Modules and the code

Every mapped definition is in `PROJECT.json` with its lines. In all modules a step is what the code
does atomically: a critical section, an atomic memory access, a transaction, or one message handler
on a single-threaded service loop. Definitions marked `Mutant:` are deliberately wrong variants used
to confirm that a property depends on the code it is about. Where an implementation has races that
break an account, the module keeps a history variable (`hazard`, `damage`, `faults`) that names the
race that struck, and the property says that these are the *only* ways to break the account.

### Chunk store
**ClockCache** One set of the cache (sets share nothing). `slot`, `hand` are the shared memory; `pc`,
`v`, `i`, `h`, `k` each thread's locals. Every load, store and CAS is a step: `GetLoad`/`GetHit`,
`PutLoad` … `PutClearAdvance`, `EraseLoad`/`EraseCas`, `ClearLoad`/`ClearCas`/`ClearEvict`.
Ownership of pointers is a ghost: `free` (the callers) and `mine[t]` (the pointer thread t answers
for). `CtzIndex` is 0 because the code takes the trailing zeros of a union of all-ones masks.

**ChunkCache** The cache is an atomic set of entries; `displaced[t]` is the object between leaving
the cache and the callback; getPinned() is two steps under `pin_mutex_`. `Recycle` is push to the
pool or delete. A key cached twice (see ClockCache) is not looked up here.

**ChunkStore** Callers run `SetBlock`/`SetHit`/`SetRead`/`SetPut`, `CasBlock`/`CasHit` (the comparison)/
`CasSet` (the write)/`CasRead`/`CasPut` (under the CAS mutex, which setBlock() does not take), `AsyncGetChunk`/`GetTake`/`GetEncode`/`GetMark`/`GetRead`/`GetPut`/
`Callback`, `GetBlockAt`/`BlockRead`/`BlockPut`. The flush thread is `FlushSwap`/`FlushTake`/
`FlushWrite`; world generation `Generate`/`Encode`/`WriteBatch`; shutdown and restart `Close`/
`ClearCache`/`Reopen`. A chunk is the terrain it came from and the blocks changed since.
`hazard[key]` records that one of six races dropped a change (evicted before the flush, replaced by
an older copy, overwritten by generated terrain, written through an unpinned address, stale palette,
failed write); they are recorded where they strike, by comparing with `Held(key)`, what the next
lookup finds. The properties of the store speak of chunks that none of them has struck: they say that
there is no seventh, not that the six do no harm. That an evicted dirty chunk is skipped by the flush is the store's tested behaviour
(`chunk_dirty_test.cpp`).

**ChunkRequests** A request for an absent chunk from `AsyncGetChunk` through `Read`, `PushCallback`,
`RequestChunk` (GenerationQueue's dedup), the workers (`PopTask`, alternating ends, `Generated`,
`Output`) and the encode threads (`SwapQueue`, `Encode`, `TakeCallbacks`, `CallCallbacks`,
`FlushPalettes`). `Evict` makes a chunk absent again. `crashed` is `front()` of an empty vector.

**LmdbStore** writeBatch() as `Begin`, `Put` per entry, `PutError`, `Commit`, `Full` (grow and
rewrite, or give up growing), `Prefix` (entry by entry). `WriteRaw` is the other writer. LMDB is
external: bounded map, exclusive write transactions, atomic commit; `Faults` chooses what may fail.

**ChunkLink** The client's `Call`/`Send`/`onRead`/`on_closed` with its callbacks by request id, the
service's `onMessage` and the two SetBlock threads `AsyncSetBlock`. **MutableSection** is one section
as a value beside `plain`, the array it stands for: `Edit`, `Reload` (toWire then fromWire).
**WorldGen** is `Generate` of one chunk after the other from tables for heights, caves, trees and
veins; one horizontal axis.

### PipeNetwork
**FluidDrain** PipeNetwork: `handleFluidConsumeRequest`, `Tick` (retries, then expiry),
`handleResourcePort*`, `handleResourceDrainResponse`, `BoilerNodeGone`, `SinkNodeGone`;
`planShortfall` is what is recorded of a shortfall its source is asked for; `StaleEpoch`, `ForPort` and `ForNode` name the
transactions an epoch, a port or a node takes with it.
SimulationCore: `PlaceBoiler`, `BoilerTick`, `ReplacePort`, `RemoveBoiler`, `handlePortRegister`,
`handlePortRemove`, `handleDrainRequest` with its replay cache. The router is two bounded queues that
drop their oldest frame (`Send`) and, when `Lossy`, lose any head. Ghosts: `answers`, `credit`,
`debit`, `forgotten`.

**PipeGraph**: block changes that arrive (`BlockChanged`) or are missed and
reconciled by a snapshot (`ChunkLoaded`), `NodeUpdate`, ports, consumes, item transfers, `Tick`, and
restarts of either side. A fluid consume that comes before the update of its machine is led to the
node at its position (`ByPosition`). `tick` moves what one connected network holds, for any order of the
walk. **CableGraph** is the packet network of cables: rebuilds, packets, overheating.

### SimulationCore
**InventoryClick** is the click table; an item is an id with a meta (`ItemId` gives the id), clicks tell
metas apart, and grants merge by id alone, as the code does (`Grant`). **Containers** is the windows, caches and
messages around it, with the recipe a machine may have under way (`busy`), which a window opened
meanwhile leaves alone (`link`); **BlockActions** place, break and fill with their compare-and-swaps:
a placement names any item, held or not, and `Transform` says which block it becomes. Both keep a
`ledger` of what the players are owed, by item id, and the `damage` that broke it. **Machines** is one tick of all machine systems over
the request/answer protocol with PipeNetwork (`Serve`, `Deliver`, losses, link down): `PassRun` for
the machines of one block, which ask for energy or steam (`AskEnergy`, `AskSteam`), `EBFTick` and
`LCRTick` (`..Start`, `..Run`) for the multiblocks. **Multiblocks**
is the engine's picture of the blocks: `Place`/`Break` apply the change directly, and its echo
arrives later (`ReceiveBlockChanged`). **Heat** is the tick's heat passes in the order main.cpp
registers them. **Tools** is the tool handlers on a row of blocks, with the connection to ChunkStore as
two FIFOs (`toStore`, `toSim`): `WrenchMachine`, `WrenchBlock` and the callbacks `ReceiveHost`,
`ReceiveNeighbour`, `ReceiveCas`; `SetMachineSlot`, `SetUnknownSlot`; `excused` names the joints of two
pipes that a race struck, `wiped` the machines whose contents a wrench overwrote. **Quests** is QuestManager, the router's messages, MetaDB's handlers and the
statements they run on its tables (one operator each, so that a crash can come between two, and each
may return an error that is logged and passed over: `Failures`); loops
are `Walk`, one application of the body per round. Quests implements **QuestBook** with
`Book == INSTANCE QuestBook WITH ...`, a quest being done in the book when it is completed on either
side. **Recipes** is RecipeManager and its service.

### Messaging
**Router** has a handler and a writer per connection; `Publish` under the read lock, drop-oldest
queues, probes, `cleanupOnce`. A gateway that asks for a snapshot answers itself in two steps without
the lock of the probes (`SelfAnswer`, `SelfAnswered`), and an answer that falls between the two may end
the process (`MapTorn`). **NetConnection** is one client over one io_uring connection after
another, with the kernel's write ring of `RingEntries` slots and the peer's parser; sizes wrap modulo
`Word`. Taking a slot, preparing it and submitting are steps of their own, as only the first and the
last hold the ring's lock, and so is the resubmission of a short write (`resubmit`), which submits what
another thread has not prepared yet. `struck` records what the code does not recover from: the ring
was full, an unprepared slot was submitted, or the connection was freed while a thread was in it
(connect() and disconnect() do not wait for those that send). **Gateway** is
the accept handler step by step, with the connections' callbacks split at the check of
`session_gen_`, which moves without the lock they hold, and what passes between client and router. **RouterClient** is the
asio client of three services. **EntityStore** is entitystated with its cache and its two kinds of
requests.

### Game client
**ClientWorld** is chunk loading on three threads; **ClientMeshes** the claims and jobs of mesh
building; **ClientLink** the two connections and their poll threads; **ClientWindows** what mouse
and drop key send from overlapping windows, and the query cache behind them: a grid the server sets
(`OnGridUpdate`, which does not count the generation) and answers of another type than was asked
(`HandleRecipeResponse`) included. **ClientBuffers** is what
the client shows of machine buffers and pipe contents: SimulationCore numbers its snapshots per port
(`PublishBufferState`, from the boilers' tick and from fluid flows), PipeNetwork answers questions, a
`Frame` applies a batch of whatever arrived to the two stores (`ApplyState`, `ApplyContents`), and
evictions, reconnects and restarts of SimulationCore come in between. `sent` and `told` record the last
of each on the connection there is. Two limits of the code are limits of its invariant: nothing
publishes `removed`, so the buffers of a broken machine stay shown, and `PipeContentsStateStore.cpp`
keeps a snapshot that was found when a later answer says there is no pipe, although its header has
every answer replace the one before.

## 4. Runs

Several components are independent of each other. A run that checks more than one of them gives each
its own variables, and a variable `turn` chosen at the start says which one takes the steps of a
behaviour (the others stay in their initial states). Every behaviour of every part is thus a
behaviour of the run, and the run has as many states as its parts have together, not their product.

| Run | Parts | Shows |
|---|---|---|
| clock_cache | ClockCache: 2 threads, 2 keys, 4 pointers, 2 ways, 4 operations, fair | no pointer lost, doubled or recycled twice; as long as one thread is inside an operation, operations go on returning |
| chunk_cache | ChunkCache: 3 threads, 2 keys, 3 objects, capacity 1, pool 1, fair | pins protect, one owner, deferred evictions carried out |
| chunk_store | ChunkStore: 2 threads, 2 keys, 2 blocks, 3 objects, 3 operations, read and write failures; and 4 writes and reads of one chunk. ChunkLink: 2 callers | acknowledged changes are durable, a CAS wins once and reads see what was acknowledged, outside the named races; an answer reaches its own request |
| links | ChunkRequests: 3 requests, 2 keys, 2 workers. ClientWorld: 2 chunks. RouterClient: 2 topics | one answer each, nobody forgotten; near chunks get loaded; the last change is shown; the service comes back to its router |
| stores | LmdbStore: 4 entries, map 1..3, every call may fail. EntityStore, MutableSection, WorldGen | nothing dropped, saves are found, sections read as arrays, chunk borders agree |
| fluid_drain | 1 boiler, 1 transaction of 2 units, 2 epochs, lossy queues of 2, fair timer | answered once, credit backed by debit, no double debit while the replay cache remembers, eventually answered |
| pipes | PipeGraph: 3 positions, 4 events. CableGraph: 3 positions beside a machine. Tools: 3 pipes and cables; a machine and a hatch | pipes and machines joined as built, networks are the wires, ticks conserve, wrenched joints agree and machines keep their contents |
| factory | Machines: 2 machines in every layout. Multiblocks, Heat | a machine that waits is owed an answer (unless one was lost), crafts take their inputs and machines are credited what was granted, once, multiblocks settle to the world, heat is paid |
| anchor *(violation)* | the same instance | the echo of a change clears the anchor's controller id |
| player | Containers: 2 players, 1 chest, 1 bench, 1 machine, 2 items, one of them in two metas. BlockActions, ClientWindows, ClientMeshes, ClientLink, ClientBuffers | items and blocks accounted for outside the named races, the client is current but for a grid the server has set, a click of a grid acts once |
| progress | Quests: 4 quests in two eras, 2 slots, 1 fault. Recipes | quests implement the book, eras exact, rewards kept, trades whole, recipes as written |
| net | Router: 3 connections, two of them registered as the gateway. NetConnection: 2 senders, 3 frames, a ring of 2. Gateway: 2 sessions | order and delivery; frames flow whole, and none is stranded until the ring was full or a short write met an unprepared slot; a player whose newest session is open is not taken for gone |

Some properties are the conjunction of two that concern the same account: `ExactlyOnce` (OwnedOnce,
NoLeak), `ConsumesSettle` (AnsweredOnce, CreditIsBacked), `JoinedAsBuilt` (PipesJoinedAsBuilt,
MachinesJoined), `RewardsAreKept` (RewardBeforeDone, RewardsPerRestart); and in the MC modules of
packed runs `RouterDelivers`, `FramesFlow`, `ShowsLastChange`, `ClientIsCurrent`, `ItemsAccounted`,
`BlocksAccounted`, `GridActsOnce`, `MultiblocksSettle`, `HeatIsPaid`, `RecipesAsWritten`,
`TerrainReads` (SectionReads, BordersAgree), `TickConserves`, `ToolsAccounted` name the invariants of their parts.

**Bounds.** The smallest numbers at which the interesting cases happen. ClockCache: two ways make the
CLOCK scan, the fixed way index and the double insertion distinct, and four operations on two threads
fill the set, scan it, evict and clear. ChunkCache: three threads let two pin an object while a third
evicts it, and objects outnumber capacity plus pool so that deletion happens. ChunkStore: two keys
with capacity 1 force eviction on every other access; a read that answers from a palette made before
a change takes four operations, hence the second instance with one key. ChunkRequests: a third
request joins a generation that is ending while another is starting. LmdbStore: four entries exceed
the largest map, so growing, the cap and the fallback are all reached. FluidDrain: a queue of two
overflows, a replay cache of one entry evicts, a second epoch redefines the port in flight. PipeGraph:
three positions and four events build a line and break its middle, or miss an event and reconcile it
by a snapshot. CableGraph: four events, a packet and two ticks let a cable overheat, burn and its network
split. Tools: three events are two wrenches on one joint with a build between them, and one restart
finds what a wrench saved. Machines: an expiry of two ticks lets an answer come in time, late or never. Multiblocks: three
builds, one restart and up to three echoes under way form, save, restore and blow up a controller.
Containers: five events are open, click and close by one player with another's in between;
BlockActions: two swaps of two players on one cell, with a third event in between. Quests: one fault is a
lost or repeated message or a crash between any two statements. Router: two frames overflow neither
queue and the third does. NetConnection: the second life of the object meets completions of the first, and three frames of two
senders fill a ring of two. Gateway: a second session starts while the first ends, before or after its
callback has looked at `session_gen_`. ClientLink: two losses, two attempts each.
ClientBuffers: two positions, four messages under way and five events, so that a machine is placed,
reports, is broken and replaced, or its process or link dies between two reports.
MutableSection: MAX4 = 2 and MAX8 = 4 stand for 16 and 256, so that four cells promote twice.
The names
`MaxOps`, `MaxReq`, `MaxEpoch`, `MaxWant`, `MaxSteam`, `MaxEvents`, `MaxMoves`, `MaxQueue`,
`MaxFaults`, `MaxWire`, `MaxLoss`, `MaxRemove`, `MaxSessions`, `SimRestarts` are bounds of the models
only. Symmetry is used only where the permuted values occur in no liveness property. Deadlock
checking is off where all requests or events of the instance may be used up.

**Fairness.** ClockCache: every running thread takes its next step (weak fairness of the thread); the
operating system schedules it. put() is lock-free and not wait-free: one thread may lose every race,
so the property (`SomeReturn`) is that *some* operation returns as long as any is under way, and not
that each does. A behaviour that violates it is one in which no operation returns any more, hence with
at most one more operation per thread, however long it goes on: `MaxOps` bounds what the cache may
hold when the contention begins, not its length. ChunkCache: a pinned object is released and a displaced one handed to
the callback (straight-line code); both need the mutex, hence strong fairness: a waiter is not
overtaken for ever. ChunkRequests: the I/O pool, the workers and the encode threads keep running
(condition variables with predicates, no lost wake-up). FluidDrain: only the service's timer, which
re-arms itself; not even message delivery. ClientWorld: the three threads
run on, a link that was lost comes back and a server that was asked answers. RouterClient: the io loop
runs the handlers that are ready, and a router that died is started again. In a packed run the
fairness conditions are those of the part whose `turn` it is.

## 5. Proofs

TLAPS proves, for every value of the constants that satisfies the stated assumptions:

**ClockCacheProofs** (any threads, keys, pointers and ways; assumes at least one way and that the
sentinels are not keys or pointers): TypeOK, ExactlyOnce (OwnedOnce and NoLeak) and the action
property HotSurvivesScan. The inductive invariant adds to these `Accounted` (every pointer is with the
callers, in a way or in a thread's hands), `KeylessIsNull` (an empty way holds no pointer; otherwise
an overwritten "empty" way would leak one) and `LocalInv` (where a thread answers for nothing, and
that between the scan's CAS and its callback it answers for what it loaded). The CASes carry the
argument: a successful one displaces exactly what was loaded.

**ChunkdProofs**, the object cache (any finite set of threads, any keys, objects and capacities): CacheTypeOK, PinSafe,
DeferredIsPinned, PinsCounted and OneOwner, from their conjunction with `MutexPins`. None is
inductive alone: a release recycles an object because the count was 1, which is safe only if counts
are exact; a pin is safe only if the cached object it found is in no other container. Counting uses
the library's theorems on cardinalities, hence the assumption that threads are finitely many.

**StoresProofs**, LMDB (any entries, sizes, rounds and failing calls): TypeOK, NothingDropped and the
action property TrueMeansWritten. `LoopInv` says where the first i entries are: in the open
transaction, or committed in the fallback. Without it, erasing them would not be safe.

**ChunkStoreProofs** (any threads, chunks, blocks, objects, capacity and faults; assumes that the
sentinels are not objects, threads, terrains or contents): TypeOK, AckedIsDurable, CasWinsOnce and
ReadsSeeAcked, all from one invariant, and each for chunks that none of the six races has struck. `Held(key)` is what the next lookup of a chunk finds: the
cached object, else LMDB. While no race was recorded, `KeyClean(key)` says that what is acknowledged
or stored is held; that a palette lies between the two (it lacks nothing acknowledged or stored and
has nothing that is not held); the same of the chunk the flush thread is writing; and that an
acknowledged change is in LMDB, or its chunk is dirty or being flushed, or the change is in what is
being written. `Own(t)` says the same of the copy a thread carries between two of its steps (of a CAS between its
comparison and its write, that the block was not changed by another CAS), `Won`
that a CAS that won is acknowledged or about to be, and `InPlace`, `OneKey` that a pinned or cached
object belongs to one chunk. Every step either lets `Held` grow or records a race, and the lemmas
`OwnRests`, `KeyRests` and `OthersRest` carry the rest of the invariant over any step that does. The
attempt found the record of races incomplete: a palette emplaced when the chunk was no longer cached
was compared with nothing, and a write through a stale address was recorded for the writer's chunk but
not for a reader that had the same object pinned. TLC then showed AckedIsDurable violated with four
operations; with both recorded (`GetMark`, `WriteThrough`) it holds.

**ChunkdProofs**, requests (any requests, keys, workers and encode threads): TypeOK, AnsweredOnce,
NoOrphanCallback and DedupIsExact. `OneCopy` says that a registered callback is in one place and was
not called, `OnItsWay` that one that waits has its chunk in a queue or in a thread's hands, which is
where a request dropped as a duplicate could be stranded. `Dedup` ties the set to the queue: no key is
queued twice, none is both queued and generated.

**FluidDrainProofs** (any owners, transactions, epochs and queue bounds, lossy or not): ConsumesSettle
(a consume is answered at most once and never credited more than was drained for it) and
TwiceOnlyIfForgotten. `Backed` is what makes the first inductive: what a response in a queue or a
cached answer says was taken has been taken for that id, and debits only grow. `Planned` and
`Uncredited` say that a consume is credited when it stops being pending, not before, so that a late or
repeated response cannot credit it again. The second adds `Remembered`: an id that was debited is in
the replay cache or has been dropped from it.

**QuestsProofs** (any quests, prerequisites, slots, items and number of faults; assumes that quests
are numbered in the order of `AllQuests()` and that a reward or cost of no item is none of it):
TypeOK, ErasExact, RewardsAreKept, the action property ExchangesWhole, that Quests implements
QuestBook, and that until a first fault every done quest has its prerequisites done. A loop is
a function defined by recursion; that it exists and what it keeps is proved from the least element
of the set of rounds where it would fail (`LeastElement`, `UpTo`, `LoopRuns`), which does without the
library's induction rules. So `DetectedGrows` covers a detection over any number of quests: each quest
completed has its prerequisites completed, is reported once, and the eras stay exact. So too a grant
changes the count of its item by what it placed and no other (`GrantIs`, `CostLoop`, `CountChanges`).
The inductive invariant adds to the properties that an answer on its way to SimulationCore names
saved quests only (`SavedStays`: loading it then completes nothing new in the book) and
`OncePerRestart`: rewards and reports of a quest are at most the restarts, plus one while its
completion is known. RewardsPerRestart alone is not inductive, because it forgets that a completed
quest has been reported already.

**StoresProofs**, entity states (any keys, blobs, connections and cache sizes): LoadsFindSaves,
from `AllKept`, which covers the service that waits for itself for ever: its cache may then disagree
with the database, and a restart drops it.

**StoresProofs**, the client of the chunk store (any callers and number of calls): AnsweredByItsOwn.
What keeps two answers apart is that the id a thread registers is read back from the counter
(`RegisteredId`), which is its own only while one thread builds a request (`OneAtATime`); from there on
the id travels with the call (`OwnIds`) through pools, queues and the service's two threads.

**ClientWorld** (any chunks and any bounds): ShowsLastChange, also while a chunk is being loaded. A
change is saved beside the blocks and then set in them, two steps that the other threads come between;
the property says nothing of a chunk in that gap, and `KeptIsSet` does: what a thread has saved and not
yet set is the change that is kept, unless the chunk was evicted meanwhile.

**RouterProofs**, the router (any connections, frames and channel sizes): TypeOK and RouterDelivers, that is
order per sender and class and that no High frame a channel accepted is given up while its connection
is open. Order is stated by index (`InOrder`), since a sequence filtered by class would need
induction. It is inductive with `NoneNewer`: nothing queued or delivered is newer than the frame its
sender published last, so what is appended next is the newest of its sender wherever it lands; with
`ClassesKept`, that a channel carries its class only, because the writer takes from three channels;
and with `HandlersOK`, that a handler halfway through a publication still has its frame and is not of
the High class when it makes room. `SendKeeps` and `PopKeeps` carry this over one append and one
take, and each handler is one of the two or neither.

**RouterProofs**, a connection (any threads, frames, batches, rings, reads, faults and lives): FramesFlow.
Of a connection that was not freed under a sender, it says that frames arrive whole and in order
unless a write came short; of one on which nothing is recorded in `struck`, that no frame is stranded.
Where
the peer's unparsed bytes begin, there begins the first frame it was not given (`StreamInOrder`);
`Whole` says, without induction over the bytes, that each is followed by the rest of its frame and that
by the next frame; the ring goes on where the bytes end and the queue where the ring ends
(`RingInOrder`, `QueueInOrder`), also while a thread fills it, and a completion is of the frame in flight under its number
(`FlightMatches`). A kernel write, a read and a parsed frame each move one boundary (`FrameComes`,
`FrontMoves`, `FrameGoes`). That nothing is stranded needs `ClosingShuts`: the completion that empties the
table starts no write only while the connection is closing. Sizes are shorter than size_t counts
(`ConnAssumption`). The theorem has the hypothesis `TagsSuffice`: a completion's tag counts all the
frames of a connection. The code gives it 24 bits and decodes the number from it, so after 2^24 frames
on one connection completions are taken for nobody's and the queue stalls; with four tags and three
frames TLC finds that trace, and the run's instance has tags enough.

**Only model-checked.** All liveness properties (`SomeReturn`, `DeferredIsRecycled`, `Answered`,
`ConsumeAnswered`, `NearIsLoaded`, `ComesBack`): fairness is beyond the prover. FluidDrain's TypeOK
in the part that the retry delays are numbers. The properties of Machines, Heat, Multiblocks,
Containers, BlockActions, PipeGraph, CableGraph, Tools, Gateway, Recipes
and the rest of the client, because no one has proved them yet; those that are sums over pipes, machines or slots
(`TickConserves`, `HeatIsPaid`, `ItemsAccounted`, `BlocksAccounted`) need the induction QuestsProofs
uses for its counts.

## 6. Abstractions

- Terrain, wire formats and palettes are opaque contents; that bytes fail to decode is kept.
- Memory is sequentially consistent; ClockCache's CASes and loads use acquire/release on single
  16-byte words, and no property relates two words of one set read together.
- LMDB resizing while other transactions are active is undefined by LMDB and not modelled.
- FluidDrain keeps deadlines as ticks left; the part of a consume the pipes serve is decided first.
- ChunkStore's cache replaces the entry of a key on put(): exact for one way per set; with more ways
  a key may be cached twice.
- PipeGraph is a line of positions and one resource domain at a time; CableGraph has coordinates for
  which `packPos` is injective.
- A player's quests, a client's world and a section are modelled one at a time: the code keeps them
  apart and no step touches two.
- The router in FluidDrain, Machines and Quests is a lossy FIFO; Router is the model of what it
  really does.

## 7. Where the code and its own text disagree

One disagreement is a run (`anchor`; `findings` in `PROJECT.json` quotes the text). Others were met
while modelling: each is a property defined beside the model, with a comment, and TLC violates it on
an instance of the size of the run's.

| Module | Property | What the trace shows |
|---|---|---|
| ClockCache | `GetReturnsOneValue`, `SecondChance` | two concurrent puts cache a key twice and get() ORs the pointers; the way index is 0 whichever way matched |
| ChunkStore | `NoStalePalette`, `OwnTerrain`, `UndecodableIsKept`, `GeneratedIsNew` | a palette stored after the chunk changed; a recycled object cached under another key; setBlock() ignores the result of fromWire(); generated terrain over a stored change |
| ChunkRequests | `CallbacksNonEmpty` | `front()` of an empty callback list |
| LmdbStore | `LeftoverIsUnwritten` | a begin or commit that fails in the fallback leaves written entries in the vector |
| FluidDrain | `NeverDoubleDebit`, `DebitsTheOwner`, `RemovedIsUnregistered` | a retry debits twice after the port was lost and regained; two boilers share a port id; a removed boiler stays registered |
| ChunkLink | `AlwaysAnsweredByItsOwn`, `SetBlockLands` | two overlapping calls hear each other's answers; SetBlock ignores the position in its request |
| MutableSection, WorldGen | `SectionReadsAlways`, `TrunksAreWhole`, `VeinsAreWhole` | a section of many blocks after a reload; trees and veins cut at a chunk border |
| PipeGraph, CableGraph | `EdgesAreLocal`, `PlacedIsNetworked` | entity ids are reused after SimulationCore restarts; a cable on the position with key 0 |
| Containers, BlockActions, ClientWindows | `UnstoredClickIsNoop`, `WindowIsCurrent`, `FluidOnlyForBucket`, `ContentsPaidOnce`, `OneActionPerClick`, `EveryGridWaits`, `StaleRepliesAreDropped` | a click that changed the container but is not stored; a window that keeps its old copy; fluid taken although the player got no bucket; contents paid out for two breaks; one click seen by two grids; a right button held over a slot of a grid made anew each frame; a preview of the grid the server has replaced |
| Machines, Multiblocks, Heat | `BatteryIsOwed`, `AnchorKeepsId`, `AliveUntilRemoved`, `ControllersHaveAnchors`, `MirrorsAgree` | a battery request whose answer was lost stalls; see the finding; the two copies of a machine's heat drift apart |
| Tools | `NothingIsWiped`, `NoneExcused` | a wrench saves its configuration under the key of the machine's contents, which the next restart loses; two pipes whose masks disagree stay so however often they are wrenched, and closing the last open face opens all |
| Quests | `NoDoubleGrant` | a manual completion repeated around a restart grants twice |
| Router, NetConnection, Gateway | `SilentServiceStays`, `ClosedIsTold`, `NoStall` past the last tag, `LeftIsABlock` | the idle cleanup drops a silent service; a connection ends without on_closed; the tags of a connection run out; player.left carries something else than block coordinates |
| Recipes | `WrittenMatches` | a recipe as written does not match the items it names |
| EntityStore | `FullCacheMakesRoom` | put() on a full cache locks its mutex twice |
| ClientWorld, ClientMeshes, ClientWindows, ClientLink, ClientBuffers | `ActionsExpire`, `NoOrphanMesh`, `MeshShowsBlock`, `BorderIsRebuilt`, `TimeoutsAnswer`, `CtrlIsCurrent`, `LostIsRemade`, `ShownIsNewest` | a click that expires with the next; a mesh built for an evicted chunk; a border not rebuilt; a query given up silently; a connection lost during a reconnect; buffers that stay as they were after SimulationCore restarted, until its new numbers pass the old |

Steps that a comment or a convention of the code speaks against, which the models take and record:

- **Write ring.** `kWriteBatchLimit` bears the comment "TODO bug! ... need validate"
  (`io_uring_connection.cpp:18`). When `start_next_writes()` finds the ring full (618-620) it returns without
  `io_uring_submit()`: what it prepared stays unsubmitted until another write of the connection, and what
  is queued has nobody to start it if nothing is in flight. When `on_write_complete()` resubmits the rest
  of a short write (661-672), it submits a slot that another thread took and has not prepared, which goes
  to the kernel as it is. When that resubmission finds the ring full, it calls `close()` while it holds
  `sq_mutex_write_`; `close()` takes `write_mutex_`, which `start_next_writes()` holds when it takes
  `sq_mutex_write_`: two threads may wait for each other for ever. NetConnection reaches that state (`CloseOnFull`
  waits for `~Filling`, the filling thread for `RingLockFree`); its run does not look for deadlocks, since a
  connection may stop. Where `close()` gets through, the short write stays in flight, so the closing is never
  finished either.
- **Connections freed under their senders.** `RouterClient::connect()` replaces `conn_`
  (`router_client.cpp:30`) and `disconnect()` resets it (66-73) while other threads publish through it; the gateway does so
  from its main loop (`gateway/main.cpp:170-173`). `struck` then has "freed", and nothing is promised of that
  connection.
- **Router.** `healthSnapshot()` writes `probe.responses` without `healthMu` (`router.go:309`) after the
  probe was published, while `handleHealthResponse()` writes it under the lock (408): concurrent
  writes of a Go map, which end the process.
- **Gateway.** An accept whose `start_reading()` fails has already moved `session_gen_`, so the end of the session
  that is still open is later taken for stale and its player never leaves. The comment "old_conn
  destroyed here" (`gateway.cpp:96`) is not so: it is destroyed when the handler returns, after the
  new session was announced. A connection closed for bad input ends without `on_closed`. A stale
  `on_closed` saves no position.
- **Windows.** A GridUpdate (`ClientCraftingWindow.cpp:220-250`; sent when a workbench is opened, `WorkbenchOpenHandler.cpp:55`,
  and after a craft, `CraftRequestHandler.cpp:98`) sets the slots without counting the
  generation, so that the preview of the grid before it is still shown, although "stale replies are
  dropped" (`CraftingGrid.h:31`). "RMB held + hover new slot → place 1" (`SlotGrid.cpp:351`): a grid that is made anew each
  frame (`ChestWindow.cpp:83`, `PlayerInventoryGrid.h:30`) has forgotten the last slot and sends one
  DRAG_PLACE in every frame.
- **Metas.** Grants merge by item id, so an item may take over the meta of the stack it falls on
  (`PlayerInventoryStore.cpp:112`, `BreakBlockHandler.cpp:30`), while crafts tell metas apart
  (`CraftRequestHandler.cpp:101-109`).

## 8. Not modelled

Rendering, UI layout, terrain noise, content tables and command-line tools have no state machine
worth checking; SpatialIndex is a stub. Code without a caller in the daemons is left out:
`SaveChunk()`, `CASHandler::flush()`/`clear()`, `DeleteEntityState()`, `Unsubscribe()`, SaveChunkReq,
`distributeEnergy()`/`distributeFluid()`/`consumeFluidViaPort()`/`findNextItemHop()`,
`injectPacket()`/`collectPackets()` outside tests, RecipeCompletedHandler, WorldContainerInventory and
the older `apps/simcore/InventoryActionHandler`, SteamTurbineSystem, DrillSystem, TransformerSystem, ElectricDrillHandler and
PipeWrenchResponseHandler.
Left out for size: `drainFluidStorage()`, MetaDB's
JSON interface, positions and batch redemption, `validateResourceRequirements()`, the definitions
loader of quests, IoUringRouterClient.

## 9. Running

    tlc -workers 2 -config ChunkStore.cfg MCChunkStore
    tlapm ClockCacheProofs.tla
