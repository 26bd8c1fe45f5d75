------------------------------ MODULE ChunkStore ------------------------------
(***************************************************************************)
(* chunkd's chunk store (src/src/apps/chunk_store/Storage): the cache of   *)
(* chunks, the LMDB database below it, and the threads that move chunks    *)
(* between the two: the callers of setBlock(), casBlock(), AsyncGetChunk() *)
(* and GetBlockAt(), the flush thread, the encode threads, world           *)
(* generation, and close().                                                *)
(*                                                                         *)
(* What a chunk holds is the terrain it was made from (`base': its own     *)
(* key's, another key's when a recycled object was not cleared, or Air)    *)
(* and the set of blocks changed since (`set').  setBlock() and casBlock() *)
(* change a block from its terrain value to a new one; a CAS expects the   *)
(* terrain value, so it conflicts once the block has been changed.         *)
(*                                                                         *)
(* A chunk object is identified by its address.  ChunkCache.tla shows that *)
(* an object is in one place and is not reused while pinned, so here an    *)
(* object that is neither cached nor pinned is simply free for reuse.      *)
(* setBlock(), casBlock() and GetBlockAt() hold unpinned addresses.  A     *)
(* put() of a cached key replaces its entry: what ClockCache does when the *)
(* entry is in way 0, so exactly what a cache of one way (Capacity = 1)    *)
(* does.  With more ways the key may be cached twice (ClockCache.tla).     *)
(***************************************************************************)
EXTENDS Naturals, FiniteSets

CONSTANTS
    Thread,     \* threads that call the store
    Key,        \* chunk keys
    Block,      \* blocks of a chunk
    Obj,        \* chunk objects
    Null,       \* the null pointer
    Air,        \* the terrain of a default-constructed chunk
    None,       \* no stored chunk, no palette
    Undecodable,\* stored bytes fromWire() rejects (wire version below 2)
    Capacity,   \* entries the cache holds
    Calls,      \* the operations callers use
    Faults,     \* LMDB operations that may fail: "read", "write"
    Stored,     \* what LMDB may hold at start: "none", "chunk", "old"
    MaxOps      \* bound on the operations started

CallName == {"setBlock", "casBlock", "AsyncGetChunk", "GetBlockAt"}

ASSUME CallsAssumption == Calls \subseteq CallName
ASSUME FaultsAssumption == Faults \subseteq {"read", "write"}
ASSUME StoredAssumption == Stored \subseteq {"none", "chunk", "old"}
ASSUME BoundsAssumption == Capacity \in Nat \ {0} /\ MaxOps \in Nat

Content == [base : Key \cup {Air}, set : SUBSET Block]
ASSUME SentinelAssumption ==
    /\ Null \notin Obj \cup Thread
    /\ Air \notin Key
    /\ None # Undecodable /\ {None, Undecodable} \cap Content = {}
Terrain(key) == [base |-> key, set |-> {}]
Empty == [base |-> Air, set |-> {}]
Change(c, b) == [c EXCEPT !.set = @ \cup {b}]

VARIABLES
    cache,      \* ChunkCache: key -> object
    obj,        \* what each object holds
    disk,       \* LMDB
    palette,    \* EncodePipeline::pending_lmdb_: key -> encoded chunk
    dirty,      \* FlushPipeline::dirty_chunks_
    mutex,      \* CASHandler::mutex_, the thread that holds it
    th,         \* the callers' threads
    flush,      \* the flush thread
    dedup,      \* GenerationQueue::dedup_
    encodeQ,    \* generated chunks waiting for an encode thread, per key
    batch,      \* generated chunks encoded but not written, per key
    up,         \* "up", "closing" (threads stopping), "closed"
    ops,        \* operations started
    acked,      \* changes reported to the caller as done (history)
    wins,       \* successful CASes per block (history)
    hazard      \* per key, the races that have dropped a change (history)

vars == <<cache, obj, disk, palette, dirty, mutex, th, flush, dedup, encodeQ,
          batch, up, ops, acked, wins, hazard>>

HazardName == {"evicted", "replaced", "overwritten", "unpinned", "palette", "write"}

\* A caller between operations.
Idle == [pc |-> "idle", key |-> None, block |-> None, ptr |-> Null,
         loc |-> None, need |-> {}]
FlushIdle == [pc |-> "idle", keys |-> {}, key |-> None, snap |-> None]

Init ==
    /\ cache = [key \in Key |-> Null]
    /\ obj = [o \in Obj |-> Empty]
    /\ disk \in [Key -> {None, Undecodable} \cup {Terrain(key) : key \in Key}]
    /\ \A key \in Key :
          \/ disk[key] = None /\ "none" \in Stored
          \/ disk[key] = Terrain(key) /\ "chunk" \in Stored
          \/ disk[key] = Undecodable /\ "old" \in Stored
    /\ palette = [key \in Key |-> None]
    /\ dirty = {}
    /\ mutex = Null
    /\ th = [t \in Thread |-> Idle]
    /\ flush = FlushIdle
    /\ dedup = {}
    /\ encodeQ = [key \in Key |-> 0]
    /\ batch = [key \in Key |-> 0]
    /\ up = "up"
    /\ ops = 0
    /\ acked = {}
    /\ wins = [key \in Key |-> [b \in Block |-> 0]]
    /\ hazard = [key \in Key |-> {}]

------------------------------------------------------------------------------
(* The cache.                                                               *)

Cached == {key \in Key : cache[key] # Null}
PinPC == {"get_take", "get_encode"}
Pinned(t, o) == th[t].pc \in PinPC /\ th[t].ptr = o
Free == {o \in Obj : (\A key \in Key : cache[key] # o) /\ \A t \in Thread : ~Pinned(t, o)}

\* The changes of a stored chunk.
SetOf(c) == IF c \in {None, Undecodable} THEN {} ELSE c.set

\* The changes of key that the next lookup finds.
Held(key) == IF cache[key] # Null THEN obj[cache[key]].set ELSE SetOf(disk[key])
Acked(key) == {b \in Block : <<key, b>> \in acked}

\* cache_.put() of object o filled with c: the entry of key it replaces, or the
\* one CLOCK chooses in a full cache, goes.  Recorded as hazards: c lacks a
\* change that the replaced entry or the database has; the evicted chunk has a
\* change the database lacks.
PutObject(key, o, c) ==
    \E victim \in Key :
        /\ \/ victim = key /\ (cache[key] # Null \/ Cardinality(Cached) < Capacity)
           \/ victim \in Cached /\ cache[key] = Null /\ Cardinality(Cached) >= Capacity
        /\ cache' = [cache EXCEPT ![victim] = Null, ![key] = o]
        /\ obj' = [obj EXCEPT ![o] = c]
        /\ hazard' =
             [hazard EXCEPT
                ![key] = @ \cup
                    IF ~(Held(key) \cup SetOf(disk[key]) \subseteq c.set)
                    THEN {"replaced"} ELSE {},
                ![victim] = @ \cup
                    IF victim # key /\ ~(Held(victim) \subseteq SetOf(disk[victim]))
                    THEN {"evicted"} ELSE {}]

\* takeFromPool() or new, and fill with c.
CachePut(key, c) == \E o \in Free : PutObject(key, o, c)

------------------------------------------------------------------------------
(* The callers.                                                             *)

Become(t, r) == th' = [th EXCEPT ![t] = r]
Return(t) == Become(t, Idle)
At(t, p) == th[t].pc = p

\* A read that fails, for whatever reason LMDB gives.
ReadFails == "read" \in Faults

Begin(t, call) ==
    /\ At(t, "idle")
    /\ call \in Calls
    /\ up = "up"
    /\ ops < MaxOps
    /\ ops' = ops + 1

\* setBlock(): find the chunk in the cache, without pinning it.
SetBlock(t, key, b) ==
    /\ Begin(t, "setBlock")
    /\ Become(t, [Idle EXCEPT !.pc = IF cache[key] # Null THEN "set_hit" ELSE "set_read",
                              !.key = key, !.block = b, !.ptr = cache[key]])
    /\ UNCHANGED <<cache, obj, disk, palette, dirty, mutex, flush, dedup, encodeQ,
                   batch, up, acked, wins, hazard>>

\* The address is used after the lookup: by now the object may be another
\* key's, or nobody's, or an evicted one that a reader has pinned.
WriteThrough(t) ==
    LET o == th[t].ptr
        stray == {th[t].key} \cup {th[u].key : u \in {u \in Thread : Pinned(u, o)}}
    IN /\ obj' = [obj EXCEPT ![o] = Change(@, th[t].block)]
       /\ hazard' = [key \in Key |->
                        hazard[key] \cup IF key \in stray /\ cache[key] # o
                                        THEN {"unpinned"} ELSE {}]

SetHit(t) ==
    /\ At(t, "set_hit")
    /\ WriteThrough(t)
    /\ Become(t, [th[t] EXCEPT !.pc = "erase_palette"])
    /\ UNCHANGED <<cache, disk, palette, dirty, mutex, flush, dedup, encodeQ,
                   batch, up, ops, acked, wins>>

\* setBlock() on a miss: a failed read refuses the write; no chunk, or one
\* that fromWire() rejects (its result is not looked at), starts from air.
SetRead(t) ==
    /\ At(t, "set_read")
    /\ \/ ReadFails /\ Return(t)
       \/ LET wire == disk[th[t].key]
              local == IF wire \in {None, Undecodable} THEN Empty ELSE wire
          IN Become(t, [th[t] EXCEPT !.pc = "set_put", !.loc = Change(local, th[t].block)])
    /\ UNCHANGED <<cache, obj, disk, palette, dirty, mutex, flush, dedup, encodeQ,
                   batch, up, ops, acked, wins, hazard>>

SetPut(t) ==
    /\ At(t, "set_put")
    /\ CachePut(th[t].key, th[t].loc)
    /\ Become(t, [th[t] EXCEPT !.pc = "erase_palette"])
    /\ UNCHANGED <<disk, palette, dirty, mutex, flush, dedup, encodeQ, batch, up,
                   ops, acked, wins>>

\* Mutant: the pending palette survives the change.
ErasePaletteSkipped(t) ==
    /\ At(t, "erase_palette")
    /\ Become(t, [th[t] EXCEPT !.pc = "mark_dirty"])
    /\ UNCHANGED <<cache, obj, disk, palette, dirty, mutex, flush, dedup, encodeQ,
                   batch, up, ops, acked, wins, hazard>>

\* The end of setBlock() and of casBlock() (its notify_ callback): drop the
\* palette, mark the chunk dirty, answer.
ErasePalette(t) ==
    /\ At(t, "erase_palette")
    /\ palette' = [palette EXCEPT ![th[t].key] = None]
    /\ Become(t, [th[t] EXCEPT !.pc = "mark_dirty"])
    /\ UNCHANGED <<cache, obj, disk, dirty, mutex, flush, dedup, encodeQ, batch,
                   up, ops, acked, wins, hazard>>

MarkDirty(t) ==
    /\ At(t, "mark_dirty")
    /\ dirty' = dirty \cup {th[t].key}
    /\ acked' = acked \cup {<<th[t].key, th[t].block>>}
    /\ mutex' = IF mutex = t THEN Null ELSE mutex
    /\ Return(t)
    /\ UNCHANGED <<cache, obj, disk, palette, flush, dedup, encodeQ, batch, up,
                   ops, wins, hazard>>

\* Mutant: casBlock() does not wait for mutex_.
CasBlockUnlocked(t, key, b) ==
    /\ Begin(t, "casBlock")
    /\ mutex' = t
    /\ Become(t, [Idle EXCEPT !.pc = IF cache[key] # Null THEN "cas_hit" ELSE "cas_read",
                              !.key = key, !.block = b, !.ptr = cache[key]])
    /\ UNCHANGED <<cache, obj, disk, palette, dirty, flush, dedup, encodeQ, batch,
                   up, acked, wins, hazard>>

\* casBlock() runs under mutex_, which setBlock() does not take.
CasBlock(t, key, b) ==
    /\ Begin(t, "casBlock")
    /\ mutex = Null
    /\ mutex' = t
    /\ Become(t, [Idle EXCEPT !.pc = IF cache[key] # Null THEN "cas_hit" ELSE "cas_read",
                              !.key = key, !.block = b, !.ptr = cache[key]])
    /\ UNCHANGED <<cache, obj, disk, palette, dirty, flush, dedup, encodeQ, batch,
                   up, acked, wins, hazard>>

Conflict(t) == Return(t) /\ mutex' = Null
Win(t) == wins' = [wins EXCEPT ![th[t].key][th[t].block] = @ + 1]

\* The hit compares, then writes.  mutex_ keeps other CASes out in between, but
\* not setBlock(), the cache or the flush thread; and the comparison itself may
\* read an object that is no longer the chunk's.
CasHit(t) ==
    LET key == th[t].key
    IN /\ At(t, "cas_hit")
       /\ IF th[t].block \in obj[th[t].ptr].set
          THEN Conflict(t) /\ UNCHANGED hazard
          ELSE /\ Become(t, [th[t] EXCEPT !.pc = "cas_set"])
               /\ hazard' = [hazard EXCEPT ![key] =
                                @ \cup IF cache[key] # th[t].ptr THEN {"unpinned"} ELSE {}]
               /\ UNCHANGED mutex
       /\ UNCHANGED <<cache, obj, disk, palette, dirty, flush, dedup, encodeQ, batch,
                      up, ops, acked, wins>>

CasSet(t) ==
    /\ At(t, "cas_set")
    /\ WriteThrough(t)
    /\ Win(t)
    /\ Become(t, [th[t] EXCEPT !.pc = "erase_palette"])
    /\ UNCHANGED <<cache, disk, palette, dirty, mutex, flush, dedup, encodeQ, batch,
                   up, ops, acked>>

\* A failed read, an absent chunk and an undecodable one are all conflicts.
CasRead(t) ==
    /\ At(t, "cas_read")
    /\ LET wire == disk[th[t].key]
       IN \/ /\ ReadFails \/ wire \in {None, Undecodable} \/ th[t].block \in SetOf(wire)
             /\ Conflict(t)
          \/ /\ wire \notin {None, Undecodable}
             /\ th[t].block \notin wire.set
             /\ Become(t, [th[t] EXCEPT !.pc = "cas_put", !.loc = Change(wire, th[t].block)])
             /\ UNCHANGED mutex
    /\ UNCHANGED <<cache, obj, disk, palette, dirty, flush, dedup, encodeQ, batch,
                   up, ops, acked, wins, hazard>>

CasPut(t) ==
    /\ At(t, "cas_put")
    /\ CachePut(th[t].key, th[t].loc)
    /\ Win(t)
    /\ Become(t, [th[t] EXCEPT !.pc = "erase_palette"])
    /\ UNCHANGED <<disk, palette, dirty, mutex, flush, dedup, encodeQ, batch, up,
                   ops, acked>>

\* AsyncGetChunk(): a hit pins the object, a miss is posted to the I/O pool.
AsyncGetChunk(t, key) ==
    /\ Begin(t, "AsyncGetChunk")
    /\ Become(t, [Idle EXCEPT !.pc = IF cache[key] # Null THEN "get_take" ELSE "get_read",
                              !.key = key, !.ptr = cache[key],
                              !.need = Acked(key)])
    /\ UNCHANGED <<cache, obj, disk, palette, dirty, mutex, flush, dedup, encodeQ,
                   batch, up, acked, wins, hazard>>

\* takePendingPalette(): the palette, if there is one, is the answer.
GetTake(t) ==
    /\ At(t, "get_take")
    /\ LET p == palette[th[t].key]
       IN Become(t, IF p # None
                    THEN [th[t] EXCEPT !.pc = "callback", !.loc = p]
                    ELSE [th[t] EXCEPT !.pc = "get_encode"])
    /\ palette' = [palette EXCEPT ![th[t].key] = None]
    /\ UNCHANGED <<cache, obj, disk, dirty, mutex, flush, dedup, encodeQ, batch, up,
                   ops, acked, wins, hazard>>

\* Encode the pinned object and release it.
GetEncode(t) ==
    /\ At(t, "get_encode")
    /\ Become(t, [th[t] EXCEPT !.pc = "get_mark", !.loc = obj[th[t].ptr]])
    /\ UNCHANGED <<cache, obj, disk, palette, dirty, mutex, flush, dedup, encodeQ,
                   batch, up, ops, acked, wins, hazard>>

\* markAsPendingLmdb() emplaces: a palette that is there stays.  The chunk may
\* have changed since it was encoded; then what is stored is stale.
GetMark(t) ==
    LET key == th[t].key
        emplaced == palette[key] = None
        changed == Acked(key) \cup Held(key)
    IN /\ At(t, "get_mark")
       /\ palette' = [palette EXCEPT ![key] = IF emplaced THEN th[t].loc ELSE @]
       /\ hazard' = [hazard EXCEPT ![key] =
                        @ \cup IF emplaced /\ ~(changed \subseteq th[t].loc.set)
                               THEN {"palette"} ELSE {}]
       /\ Become(t, [th[t] EXCEPT !.pc = "callback"])
       /\ UNCHANGED <<cache, obj, disk, dirty, mutex, flush, dedup, encodeQ, batch,
                      up, ops, acked, wins>>

\* A miss: a failed read or a chunk that does not decode answers null; an
\* absent chunk is generated (the encode thread answers); otherwise the bytes
\* read are cached and answered.
GetRead(t) ==
    LET wire == disk[th[t].key]
    IN /\ At(t, "get_read")
       /\ \/ /\ ReadFails \/ wire = Undecodable
             /\ Return(t)
             /\ UNCHANGED dedup
          \/ /\ wire = None
             /\ dedup' = dedup \cup {th[t].key}
             /\ Return(t)
          \/ /\ wire \notin {None, Undecodable}
             /\ Become(t, [th[t] EXCEPT !.pc = "get_put", !.loc = wire])
             /\ UNCHANGED dedup
       /\ UNCHANGED <<cache, obj, disk, palette, dirty, mutex, flush, encodeQ, batch,
                      up, ops, acked, wins, hazard>>

GetPut(t) ==
    /\ At(t, "get_put")
    /\ CachePut(th[t].key, th[t].loc)
    /\ Become(t, [th[t] EXCEPT !.pc = "callback"])
    /\ UNCHANGED <<disk, palette, dirty, mutex, flush, dedup, encodeQ, batch, up,
                   ops, acked, wins>>

Callback(t) ==
    /\ At(t, "callback")
    /\ Return(t)
    /\ UNCHANGED <<cache, obj, disk, palette, dirty, mutex, flush, dedup, encodeQ,
                   batch, up, ops, acked, wins, hazard>>

\* GetBlockAt() on a miss (a hit changes nothing): GetChunk() caches the chunk
\* it reads and, for an absent chunk, an object as it comes from the pool.
GetBlockAt(t, key) ==
    /\ Begin(t, "GetBlockAt")
    /\ cache[key] = Null
    /\ Become(t, [Idle EXCEPT !.pc = "block_read", !.key = key])
    /\ UNCHANGED <<cache, obj, disk, palette, dirty, mutex, flush, dedup, encodeQ,
                   batch, up, acked, wins, hazard>>

BlockRead(t) ==
    LET wire == disk[th[t].key]
    IN /\ At(t, "block_read")
       /\ \/ (ReadFails \/ wire = Undecodable) /\ Return(t)
          \/ wire # Undecodable /\ Become(t, [th[t] EXCEPT !.pc = "block_put", !.loc = wire])
       /\ UNCHANGED <<cache, obj, disk, palette, dirty, mutex, flush, dedup, encodeQ,
                      batch, up, ops, acked, wins, hazard>>

BlockPut(t) ==
    /\ At(t, "block_put")
    /\ IF th[t].loc = None
       THEN \E o \in Free : PutObject(th[t].key, o, obj[o])
       ELSE CachePut(th[t].key, th[t].loc)
    /\ Return(t)
    /\ UNCHANGED <<disk, palette, dirty, mutex, flush, dedup, encodeQ, batch, up,
                   ops, acked, wins>>

------------------------------------------------------------------------------
(* The flush thread: flushDirtyChunks().                                    *)

FlushSwap ==
    /\ flush.pc = "idle"
    /\ up # "closed"
    /\ dirty # {}
    /\ flush' = [FlushIdle EXCEPT !.pc = "next", !.keys = dirty]
    /\ dirty' = {}
    /\ UNCHANGED <<cache, obj, disk, palette, mutex, th, dedup, encodeQ, batch, up,
                   ops, acked, wins, hazard>>

\* For one dirty chunk: the pending palette, else the cached chunk pinned and
\* encoded, else nothing.
FlushTake(key) ==
    /\ flush.pc = "next"
    /\ key \in flush.keys
    /\ LET snap == IF palette[key] # None THEN palette[key]
                   ELSE IF cache[key] # Null THEN obj[cache[key]]
                   ELSE None
           keys == flush.keys \ {key}
       IN flush' = IF snap # None
                   THEN [pc |-> "write", keys |-> keys, key |-> key, snap |-> snap]
                   ELSE [FlushIdle EXCEPT !.pc = IF keys = {} THEN "idle" ELSE "next",
                                          !.keys = keys]
    /\ palette' = [palette EXCEPT ![key] = None]
    /\ UNCHANGED <<cache, obj, disk, dirty, mutex, th, dedup, encodeQ, batch, up,
                   ops, acked, wins, hazard>>

\* writeRaw(); the chunk stays clean if it fails.
FlushWrite ==
    /\ flush.pc = "write"
    /\ \/ /\ disk' = [disk EXCEPT ![flush.key] = flush.snap]
          /\ UNCHANGED hazard
       \/ /\ "write" \in Faults
          /\ hazard' = [hazard EXCEPT ![flush.key] = @ \cup {"write"}]
          /\ UNCHANGED disk
    /\ flush' = [FlushIdle EXCEPT !.pc = IF flush.keys = {} THEN "idle" ELSE "next",
                                  !.keys = flush.keys]
    /\ UNCHANGED <<cache, obj, palette, dirty, mutex, th, dedup, encodeQ, batch, up,
                   ops, acked, wins>>

------------------------------------------------------------------------------
(* World generation and the encode threads.  ChunkRequests.tla follows the  *)
(* requests and their callbacks; here only the chunks matter.               *)

Generate(key) ==
    /\ key \in dedup
    /\ dedup' = dedup \ {key}
    /\ encodeQ' = [encodeQ EXCEPT ![key] = @ + 1]
    /\ UNCHANGED <<cache, obj, disk, palette, dirty, mutex, th, flush, batch, up,
                   ops, acked, wins, hazard>>

\* The chunk is encoded, then cached; the bytes join the batch.
Encode(key) ==
    /\ up # "closed"
    /\ encodeQ[key] > 0
    /\ encodeQ' = [encodeQ EXCEPT ![key] = @ - 1]
    /\ batch' = [batch EXCEPT ![key] = @ + 1]
    /\ CachePut(key, Terrain(key))
    /\ UNCHANGED <<disk, palette, dirty, mutex, th, flush, dedup, up, ops, acked, wins>>

\* Mutant: an empty batch is written too.
WriteBatchUnguarded(key) ==
    /\ batch' = [batch EXCEPT ![key] = @ - 1]
    /\ disk' = [disk EXCEPT ![key] = Terrain(key)]
    /\ UNCHANGED <<cache, obj, palette, dirty, mutex, th, flush, dedup, encodeQ, up,
                   ops, acked, wins, hazard>>

\* flushPalettes(): what fails to be written stays in the batch.
WriteBatch(key) ==
    /\ batch[key] > 0
    /\ batch' = [batch EXCEPT ![key] = @ - 1]
    /\ disk' = [disk EXCEPT ![key] = Terrain(key)]
    /\ hazard' = [hazard EXCEPT ![key] =
                     @ \cup IF SetOf(disk[key]) # {} THEN {"overwritten"} ELSE {}]
    /\ UNCHANGED <<cache, obj, palette, dirty, mutex, th, flush, dedup, encodeQ, up,
                   ops, acked, wins>>

------------------------------------------------------------------------------
(* close(): the I/O pool stops once its threads return, the encode threads  *)
(* write their batch, the flush thread flushes a last time, the cache is    *)
(* cleared.  An encode thread that is told to stop may still take the queue *)
(* once; chunks that none takes are dropped.                                *)

Close ==
    /\ up = "up"
    /\ \A t \in Thread : At(t, "idle")
    /\ up' = "closing"
    /\ UNCHANGED <<cache, obj, disk, palette, dirty, mutex, th, flush, dedup, encodeQ,
                   batch, ops, acked, wins, hazard>>

\* Mutant: the cache is cleared before the last flush.
ClearCacheEarly ==
    /\ up = "closing"
    /\ \A key \in Key : batch[key] = 0
    /\ up' = "closed"
    /\ cache' = [key \in Key |-> Null]
    /\ palette' = [key \in Key |-> None]
    /\ dedup' = {} /\ encodeQ' = [key \in Key |-> 0]
    /\ UNCHANGED <<obj, disk, dirty, mutex, th, flush, batch, ops, acked, wins, hazard>>

ClearCache ==
    /\ up = "closing"
    /\ \A key \in Key : batch[key] = 0
    /\ flush.pc = "idle" /\ dirty = {}
    /\ up' = "closed"
    /\ cache' = [key \in Key |-> Null]
    /\ palette' = [key \in Key |-> None]
    /\ dedup' = {} /\ encodeQ' = [key \in Key |-> 0]
    /\ UNCHANGED <<obj, disk, dirty, mutex, th, flush, batch, ops, acked, wins, hazard>>

\* The daemon starts again on the same database.
Reopen ==
    /\ up = "closed"
    /\ ops < MaxOps
    /\ up' = "up"
    /\ obj' = [o \in Obj |-> Empty]
    /\ UNCHANGED <<cache, disk, palette, dirty, mutex, th, flush, dedup, encodeQ,
                   batch, ops, acked, wins, hazard>>

------------------------------------------------------------------------------
Caller(t) ==
    \/ \E key \in Key, b \in Block : SetBlock(t, key, b) \/ CasBlock(t, key, b)
    \/ \E key \in Key : AsyncGetChunk(t, key) \/ GetBlockAt(t, key)
    \/ SetHit(t) \/ SetRead(t) \/ SetPut(t) \/ ErasePalette(t) \/ MarkDirty(t)
    \/ CasHit(t) \/ CasSet(t) \/ CasRead(t) \/ CasPut(t)
    \/ GetTake(t) \/ GetEncode(t) \/ GetMark(t) \/ GetRead(t) \/ GetPut(t) \/ Callback(t)
    \/ BlockRead(t) \/ BlockPut(t)

Flusher == FlushSwap \/ FlushWrite \/ \E key \in Key : FlushTake(key)
Worldgen == \E key \in Key : Generate(key) \/ Encode(key) \/ WriteBatch(key)

Next == (\E t \in Thread : Caller(t)) \/ Flusher \/ Worldgen \/ Close \/ ClearCache \/ Reopen

Spec == Init /\ [][Next]_vars

------------------------------------------------------------------------------
(* Properties.                                                              *)

\* Type invariant.
TypeOK ==
    /\ cache \in [Key -> Obj \cup {Null}]
    /\ obj \in [Obj -> Content]
    /\ disk \in [Key -> Content \cup {None, Undecodable}]
    /\ palette \in [Key -> Content \cup {None}]
    /\ dirty \subseteq Key
    /\ mutex \in Thread \cup {Null}
    /\ dedup \subseteq Key
    /\ encodeQ \in [Key -> Nat] /\ batch \in [Key -> Nat]
    /\ flush.keys \subseteq Key
    /\ flush.snap \in Content \cup {None}
    /\ \A t \in Thread : th[t].loc \in Content \cup {None} /\ th[t].need \subseteq Block
    /\ up \in {"up", "closing", "closed"}
    /\ acked \subseteq Key \X Block
    /\ hazard \in [Key -> SUBSET HazardName]

\* What the next flush of a key would write.
Pending(key) ==
    IF palette[key] # None THEN palette[key].set
    ELSE IF cache[key] # Null THEN obj[cache[key]].set
    ELSE {}

\* The flush thread will write change b of key, or is writing it.
Queued(key, b) ==
    \/ key \in dirty \cup flush.keys /\ b \in Pending(key)
    \/ flush.pc = "write" /\ flush.key = key /\ b \in flush.snap.set

\* No acknowledged change is forgotten: it is in the database or queued for the
\* flush thread, through flushes, reads that take palettes, close() and
\* restart.  The races named by `hazard' are the only ways to lose one.
AckedIsDurable ==
    \A key \in Key, b \in Block :
        <<key, b>> \in acked /\ hazard[key] = {} =>
            b \in SetOf(disk[key]) \/ Queued(key, b)

\* What AsyncGetChunk() answers holds every change acknowledged before it was
\* called, whether the answer is a palette, a fresh encoding or LMDB's bytes, for
\* a chunk none of whose changes a race named by `hazard' has dropped.
ReadsSeeAcked ==
    \A t \in Thread :
        At(t, "callback") /\ hazard[th[t].key] = {} => th[t].need \subseteq th[t].loc.set

\* Two CASes that expect the same value of a block do not both succeed, although
\* casBlock() compares and writes in two steps, unlocked with respect to
\* setBlock(), eviction, reload and flush.  Only for a chunk none of whose
\* changes a race named by `hazard' has dropped: after that the next CAS finds
\* the old value again and wins as well.
CasWinsOnce ==
    \A key \in Key, b \in Block : hazard[key] = {} => wins[key][b] <= 1

\* A palette pending for the flush thread holds every acknowledged change of
\* its chunk ("Invalidate any stale palette in the encode pipeline"), unless one
\* of the other races dropped the change before.
NoStalePalette ==
    \A key \in Key, b \in Block :
        palette[key] # None /\ <<key, b>> \in acked /\ hazard[key] \subseteq {"palette"} =>
            b \in palette[key].set

\* "a fresh chunk generated over the top of one that already exists on disk
\* would be written back and destroy it": a generated chunk is never written
\* where a chunk is stored.
GeneratedIsNew ==
    [][\A key \in Key :
          batch'[key] < batch[key] /\ disk[key] # None => disk'[key] = disk[key]]_vars

\* "Not in LMDB - return empty chunk": a cached chunk is made of its own
\* terrain, or of air, never of another chunk's.
OwnTerrain == \A key \in Cached : obj[cache[key]].base \in {key, Air}

\* "we do not know what is in that chunk, so we must not write to it": a stored
\* chunk that cannot be decoded is never overwritten.
UndecodableIsKept ==
    [][\A key \in Key : disk[key] = Undecodable => disk'[key] = Undecodable]_vars
==============================================================================
