------------------------------ MODULE ChunkCache ------------------------------
(***************************************************************************)
(* chunkd's cache of chunk objects                                         *)
(* (src/src/apps/chunk_store/Storage/cache/ChunkCache.h): a ClockCache of  *)
(* raw pointers, a pool of recycled objects, and pins that defer the       *)
(* recycling of an object somebody is encoding.                            *)
(*                                                                         *)
(* The ClockCache below it is taken as an atomic set of entries whose      *)
(* put() and erase() displace an entry of its choice: ClockCache.tla shows *)
(* that it need not be the entry of the key, so that a key may be cached   *)
(* twice.  What a lookup of such a key returns is the OR of two addresses, *)
(* no object at all, and is left out here.  The displaced object reaches   *)
(* on_evict() in a later step, so it spends time in no container at all:   *)
(* displaced[t].  getPinned() holds pin_mutex_ over two steps, reading the *)
(* cache and counting the pin.                                             *)
(***************************************************************************)
EXTENDS Naturals, Sequences, FiniteSets

CONSTANTS
    Thread,     \* threads of the store
    Keys,       \* chunk keys
    Obj,        \* chunk objects (addresses)
    Null,       \* the null pointer
    Capacity,   \* entries the cache holds
    PoolCap     \* POOL_CAP

ASSUME CapacityAssumption == Capacity \in Nat \ {0}
ASSUME PoolCapAssumption == PoolCap \in Nat
ASSUME NullAssumption == Null \notin Obj /\ Null \notin Thread
ASSUME ThreadsFinite == IsFiniteSet(Thread)

VARIABLES
    cache_,         \* the entries of the ClockCache, <<key, object>>
    pool_,          \* recycled objects, last in first out
    pinned_,        \* pin counts
    pending_evict_, \* objects displaced while pinned
    pin_mutex_,     \* the thread inside getPinned(), or Null
    heap,           \* addresses not allocated (or deleted)
    held,           \* the object a thread has built and not yet put
    displaced,      \* the object a thread's put()/erase() displaced
    pin             \* the object a thread has pinned (or is pinning)

cacheVars == <<cache_, pool_, pinned_, pending_evict_, pin_mutex_, heap, held,
               displaced, pin>>

Pooled == {pool_[n] : n \in 1 .. Len(pool_)}
Cached == {e[2] : e \in cache_}

CacheInit ==
    /\ cache_ = {}
    /\ pool_ = <<>>
    /\ pinned_ = [o \in Obj |-> 0]
    /\ pending_evict_ = {}
    /\ pin_mutex_ = Null
    /\ heap = Obj
    /\ held = [t \in Thread |-> Null]
    /\ displaced = [t \in Thread |-> Null]
    /\ pin = [t \in Thread |-> Null]

------------------------------------------------------------------------------
\* pool_.push_back or delete: where an object nobody uses goes.
Recycle(o) ==
    IF Len(pool_) < PoolCap
    THEN pool_' = Append(pool_, o) /\ UNCHANGED heap
    ELSE heap' = heap \cup {o} /\ UNCHANGED pool_

\* takeFromPool() that finds an object.
TakeFromPool(t) ==
    /\ held[t] = Null
    /\ pool_ # <<>>
    /\ held' = [held EXCEPT ![t] = pool_[Len(pool_)]]
    /\ pool_' = SubSeq(pool_, 1, Len(pool_) - 1)
    /\ UNCHANGED <<cache_, pinned_, pending_evict_, pin_mutex_, heap, displaced, pin>>

\* new MutableChunk(): after an empty pool, and always in casBlock() and worldgen.
NewChunk(t) ==
    /\ held[t] = Null
    /\ \E o \in heap : /\ held' = [held EXCEPT ![t] = o]
                       /\ heap' = heap \ {o}
    /\ UNCHANGED <<cache_, pool_, pinned_, pending_evict_, pin_mutex_, displaced, pin>>

\* put(): the object takes a free way, or the way of an entry that goes.
Put(t, key) ==
    /\ held[t] # Null
    /\ displaced[t] = Null
    /\ held' = [held EXCEPT ![t] = Null]
    /\ \/ /\ Cardinality(cache_) < Capacity
          /\ cache_' = cache_ \cup {<<key, held[t]>>}
          /\ UNCHANGED displaced
       \/ \E e \in cache_ :
             /\ cache_' = (cache_ \ {e}) \cup {<<key, held[t]>>}
             /\ displaced' = [displaced EXCEPT ![t] = e[2]]
    /\ UNCHANGED <<pool_, pinned_, pending_evict_, pin_mutex_, heap, pin>>

\* erase() of a cached key: an entry is displaced.
Erase(t, key) ==
    /\ displaced[t] = Null
    /\ \E e \in cache_ : e[1] = key
    /\ \E e \in cache_ : /\ cache_' = cache_ \ {e}
                         /\ displaced' = [displaced EXCEPT ![t] = e[2]]
    /\ UNCHANGED <<pool_, pinned_, pending_evict_, pin_mutex_, heap, held, pin>>

\* Mutant: the callback recycles a pinned object.
OnEvictIgnoringPins(t) ==
    /\ displaced[t] # Null
    /\ pin_mutex_ = Null
    /\ displaced' = [displaced EXCEPT ![t] = Null]
    /\ Recycle(displaced[t])
    /\ UNCHANGED <<cache_, pinned_, pending_evict_, pin_mutex_, held, pin>>

\* The on_evict callback, under pin_mutex_.
OnEvict(t) ==
    /\ displaced[t] # Null
    /\ pin_mutex_ = Null
    /\ displaced' = [displaced EXCEPT ![t] = Null]
    /\ IF pinned_[displaced[t]] > 0
       THEN /\ pending_evict_' = pending_evict_ \cup {displaced[t]}
            /\ UNCHANGED <<pool_, heap>>
       ELSE /\ Recycle(displaced[t])
            /\ UNCHANGED pending_evict_
    /\ UNCHANGED <<cache_, pinned_, pin_mutex_, held, pin>>

\* getPinned(), first half: take the lock and find the object (a miss returns
\* with nothing changed).
PinLookup(t, key) ==
    /\ pin[t] = Null
    /\ pin_mutex_ = Null
    /\ pin_mutex_' = t
    /\ \E o \in Obj : /\ {e \in cache_ : e[1] = key} = {<<key, o>>}
                     /\ pin' = [pin EXCEPT ![t] = o]
    /\ UNCHANGED <<cache_, pool_, pinned_, pending_evict_, heap, held, displaced>>

\* Mutant: the pin is not counted.
PinCountSkipped(t) ==
    /\ pin_mutex_ = t
    /\ pin_mutex_' = Null
    /\ UNCHANGED <<cache_, pool_, pinned_, pending_evict_, heap, held, displaced, pin>>

\* getPinned(), second half: count the pin and leave the lock.
PinCount(t) ==
    /\ pin_mutex_ = t
    /\ pin_mutex_' = Null
    /\ pinned_' = [pinned_ EXCEPT ![pin[t]] = @ + 1]
    /\ UNCHANGED <<cache_, pool_, pending_evict_, heap, held, displaced, pin>>

\* Mutant: the deferred object is recycled but stays recorded as deferred.
ReleaseKeepsDeferred(t) ==
    /\ pin[t] # Null
    /\ pin_mutex_ = Null
    /\ pin' = [pin EXCEPT ![t] = Null]
    /\ pinned_' = [pinned_ EXCEPT ![pin[t]] = @ - 1]
    /\ IF pinned_[pin[t]] = 1 /\ pin[t] \in pending_evict_
       THEN Recycle(pin[t])
       ELSE UNCHANGED <<pool_, heap>>
    /\ UNCHANGED <<cache_, pending_evict_, pin_mutex_, held, displaced>>

\* Mutant: the last release does not carry out the deferred eviction.
ReleaseWithoutRecycling(t) ==
    /\ pin[t] # Null
    /\ pin_mutex_ = Null
    /\ pin' = [pin EXCEPT ![t] = Null]
    /\ pinned_' = [pinned_ EXCEPT ![pin[t]] = @ - 1]
    /\ UNCHANGED <<cache_, pool_, pending_evict_, pin_mutex_, heap, held, displaced>>

\* releasePinned(): the last pin of a deferred object recycles it.
ReleasePinned(t) ==
    /\ pin[t] # Null
    /\ pin_mutex_ = Null
    /\ pin' = [pin EXCEPT ![t] = Null]
    /\ pinned_' = [pinned_ EXCEPT ![pin[t]] = @ - 1]
    /\ IF pinned_[pin[t]] = 1 /\ pin[t] \in pending_evict_
       THEN /\ pending_evict_' = pending_evict_ \ {pin[t]}
            /\ Recycle(pin[t])
       ELSE UNCHANGED <<pending_evict_, pool_, heap>>
    /\ UNCHANGED <<cache_, pin_mutex_, held, displaced>>

\* clear(), from ChunkStore::close() once the threads are gone: everything the
\* cache held is recycled and the pool is deleted.
ClearCache ==
    /\ pin_mutex_ = Null
    /\ \A t \in Thread : pin[t] = Null /\ held[t] = Null /\ displaced[t] = Null
    /\ heap' = heap \cup Pooled \cup Cached
    /\ cache_' = {}
    /\ pool_' = <<>>
    /\ UNCHANGED <<pinned_, pending_evict_, pin_mutex_, held, displaced, pin>>

Step(t) ==
    \/ TakeFromPool(t) \/ NewChunk(t)
    \/ \E key \in Keys : Put(t, key) \/ Erase(t, key) \/ PinLookup(t, key)
    \/ OnEvict(t) \/ PinCount(t) \/ ReleasePinned(t)

CacheNext == (\E t \in Thread : Step(t)) \/ ClearCache

CacheSpec == CacheInit /\ [][CacheNext]_cacheVars

\* A thread that pinned an object goes on to encode it and release it, and one
\* that displaced an object calls the callback: straight-line code.  The mutex
\* is handed over fairly enough that none of them waits for ever.
FairCacheSpec ==
    /\ CacheSpec
    /\ \A t \in Thread : /\ WF_cacheVars(PinCount(t))
                         /\ SF_cacheVars(ReleasePinned(t))
                         /\ SF_cacheVars(OnEvict(t))

------------------------------------------------------------------------------
(* Properties.                                                              *)

\* Type invariant.
CacheTypeOK ==
    /\ cache_ \subseteq Keys \X Obj
    /\ pool_ \in Seq(Obj)
    /\ pinned_ \in [Obj -> Nat]
    /\ pending_evict_ \in SUBSET Obj
    /\ pin_mutex_ \in Thread \cup {Null}
    /\ heap \in SUBSET Obj
    /\ held \in [Thread -> Obj \cup {Null}]
    /\ displaced \in [Thread -> Obj \cup {Null}]
    /\ pin \in [Thread -> Obj \cup {Null}]

\* The objects that may be handed out for another chunk: pooled, deleted, or
\* already being filled by some thread.
Reusable == Pooled \cup heap \cup {held[t] : t \in Thread}

\* An object some thread has pinned (it is encoding it, without a lock) is
\* never pooled, deleted or refilled, however often its entry is displaced.
PinSafe == \A t \in Thread : pin[t] # Null => pin[t] \notin Reusable

\* An object whose recycling was deferred is still pinned: the release that
\* will recycle it is yet to come, so it is never stranded outside both the
\* cache and the pool.
DeferredIsPinned ==
    \A o \in pending_evict_ : \E t \in Thread : pin[t] = o /\ pin_mutex_ # t

\* The pin count of an object is the number of threads that pinned it.
PinsCounted ==
    \A o \in Obj :
        pinned_[o] = Cardinality({t \in Thread : pin[t] = o /\ pin_mutex_ # t})

\* An object is in one place only: no two cache entries, pool positions or
\* threads hold it, and no two different containers do.
OneOwner ==
    /\ \A e, f \in cache_ : e[2] = f[2] => e = f
    /\ \A m, n \in 1 .. Len(pool_) : m # n => pool_[m] # pool_[n]
    /\ \A t, u \in Thread :
          /\ t # u /\ held[t] = held[u] => held[t] = Null
          /\ t # u /\ displaced[t] = displaced[u] => displaced[t] = Null
          /\ held[t] = displaced[u] => held[t] = Null
    /\ \A t \in Thread : {held[t], displaced[t]} \cap Cached = {}
    /\ Cached \cap (heap \cup pending_evict_ \cup Pooled) = {}
    /\ \A t \in Thread :
          {held[t], displaced[t]} \cap (heap \cup pending_evict_ \cup Pooled) = {}
    /\ heap \cap (pending_evict_ \cup Pooled) = {} /\ pending_evict_ \cap Pooled = {}

\* A deferred eviction is carried out: the object leaves pending_evict_.
DeferredIsRecycled == \A o \in Obj : o \in pending_evict_ ~> o \notin pending_evict_
==============================================================================
