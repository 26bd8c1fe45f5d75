---------------------------- MODULE ChunkdProofs ----------------------------
(***************************************************************************)
(* Proofs about two parts of chunkd.  ChunkCache, for any number of        *)
(* threads, keys and objects and any capacities: the pin counts are exact, *)
(* a pinned object is never reused, and an object is in one place.         *)
(* ChunkRequests, for any number of requests, keys, worker and encode      *)
(* threads: its account of callbacks and of requested keys is kept.  The   *)
(* two share no definition.                                                *)
(***************************************************************************)
EXTENDS ChunkCache, ChunkRequests, FiniteSetTheorems, SequenceTheorems, TLAPS

------------------------------------------------------------------------------
(* THE OBJECT CACHE.                                                        *)

\* The thread inside getPinned() has found an object.
MutexPins == pin_mutex_ # Null => pin[pin_mutex_] # Null

\* The inductive invariant.  PinSafe rests on the exact counts (a deferred
\* object is recycled by its last pin) and on objects being in one place (the
\* object a lookup finds is not reusable); the counts rest on nothing else.
CacheIInv == CacheTypeOK /\ OneOwner /\ PinsCounted /\ PinSafe /\ DeferredIsPinned /\ MutexPins

\* The threads whose pin of an object is counted.
Counted(o) == {t \in Thread : pin[t] = o /\ pin_mutex_ # t}

------------------------------------------------------------------------------
\* Any set of threads is finite.
LEMMA CountedFinite == \A o : IsFiniteSet(Counted(o)) /\ Cardinality(Counted(o)) \in Nat
<1> TAKE o
<1>1. Counted(o) \in SUBSET Thread
  BY DEF Counted
<1>2. IsFiniteSet(Counted(o))
  BY <1>1, ThreadsFinite, FS_Subset
<1> QED
  BY <1>2, FS_CardinalityType

\* The first conjuncts of OneOwner, about the pool, after a push of an object
\* that is not in it.
LEMMA PoolPush ==
  ASSUME pool_ \in Seq(Obj), NEW o \in Obj, pool_' = Append(pool_, o)
  PROVE  /\ pool_' \in Seq(Obj)
         /\ Pooled' = Pooled \cup {o}
         /\ (\A m, n \in 1 .. Len(pool_) : m # n => pool_[m] # pool_[n]) /\ o \notin Pooled
            => \A m, n \in 1 .. Len(pool_') : m # n => pool_'[m] # pool_'[n]
<1>1. /\ pool_' \in Seq(Obj) /\ Len(pool_') = Len(pool_) + 1 /\ Len(pool_) \in Nat
      /\ \A n \in 1 .. Len(pool_) : pool_'[n] = pool_[n]
      /\ pool_'[Len(pool_) + 1] = o
  OBVIOUS
<1>2. Pooled' = Pooled \cup {o}
  BY <1>1 DEF Pooled
<1>3. ASSUME \A m, n \in 1 .. Len(pool_) : m # n => pool_[m] # pool_[n], o \notin Pooled,
             NEW m \in 1 .. Len(pool_'), NEW n \in 1 .. Len(pool_'), m # n
      PROVE  pool_'[m] # pool_'[n]
  BY <1>1, <1>3 DEF Pooled
<1> QED
  BY <1>1, <1>2, <1>3

\* The same after a pop.
LEMMA PoolPop ==
  ASSUME pool_ \in Seq(Obj), pool_ # <<>>, pool_' = SubSeq(pool_, 1, Len(pool_) - 1),
         \A m, n \in 1 .. Len(pool_) : m # n => pool_[m] # pool_[n]
  PROVE  /\ pool_' \in Seq(Obj)
         /\ pool_[Len(pool_)] \in Pooled
         /\ Pooled' = Pooled \ {pool_[Len(pool_)]}
         /\ \A m, n \in 1 .. Len(pool_') : m # n => pool_'[m] # pool_'[n]
<1>0. Len(pool_) \in Nat \ {0}
  OBVIOUS
<1>1. /\ pool_' \in Seq(Obj) /\ Len(pool_') = Len(pool_) - 1 /\ Len(pool_) \in Nat \ {0}
      /\ \A n \in 1 .. Len(pool_') : pool_'[n] = pool_[n]
  <2> DEFINE N == Len(pool_) - 1
  <2>1. N \in Nat /\ Len(pool_) = N + 1 /\ \A n \in 1 .. N : pool_[n] \in Obj
    BY <1>0
  <2> HIDE DEF N
  <2>2. /\ SubSeq(pool_, 1, N) \in Seq(Obj)
        /\ Len(SubSeq(pool_, 1, N)) = IF 1 <= N THEN N - 1 + 1 ELSE 0
        /\ \A i \in 1 .. N - 1 + 1 : SubSeq(pool_, 1, N)[i] = pool_[1 + i - 1]
    BY <2>1, SubSeqProperties
  <2>3. pool_' = SubSeq(pool_, 1, N)
    BY DEF N
  <2> QED
    BY <1>0, <2>1, <2>2, <2>3
<1>2. pool_[Len(pool_)] \in Pooled
  BY <1>1 DEF Pooled
<1>3. Pooled' = Pooled \ {pool_[Len(pool_)]}
  BY <1>1 DEF Pooled
<1>4. \A m, n \in 1 .. Len(pool_') : m # n => pool_'[m] # pool_'[n]
  BY <1>1
<1> QED
  BY <1>1, <1>2, <1>3, <1>4

\* A step that moves no object keeps every object's place.
LEMMA SameOwners ==
  ASSUME OneOwner, UNCHANGED <<cache_, pool_, heap, held, displaced, pending_evict_>>
  PROVE  OneOwner' /\ Reusable' = Reusable
<1>1. Cached' = Cached /\ Pooled' = Pooled
  BY DEF Cached, Pooled
<1>2. OneOwner'
  BY <1>1 DEF OneOwner
<1>3. Reusable' = Reusable
  BY <1>1 DEF Reusable
<1> QED
  BY <1>2, <1>3

\* PinsCounted in terms of Counted, before and after a step.
LEMMA PinsCountedDef ==
  /\ PinsCounted <=> \A x \in Obj : pinned_[x] = Cardinality(Counted(x))
  /\ PinsCounted' <=> \A x \in Obj : pinned_'[x] = Cardinality(Counted(x)')
BY DEF PinsCounted, Counted

\* The objects in the pool are objects.
LEMMA PooledObj == pool_ \in Seq(Obj) => Pooled \subseteq Obj
BY DEF Pooled

------------------------------------------------------------------------------
\* takeFromPool(): the object goes from the pool to a thread's hands.
LEMMA TakeFromPoolStep ==
  ASSUME CacheIInv, NEW t \in Thread, TakeFromPool(t) PROVE CacheIInv'
<1> USE DEF CacheIInv, TakeFromPool
<1> DEFINE o == pool_[Len(pool_)]
<1>1. /\ pool_' \in Seq(Obj) /\ o \in Pooled /\ Pooled' = Pooled \ {o}
      /\ \A m, n \in 1 .. Len(pool_') : m # n => pool_'[m] # pool_'[n]
  BY PoolPop DEF CacheTypeOK, OneOwner
<1>2. Cached' = Cached /\ o \in Obj
  BY <1>1, PooledObj DEF Cached, CacheTypeOK
<1> HIDE DEF o
<1>3. held' = [held EXCEPT ![t] = o]
  BY DEF o
<1>4. CacheTypeOK'
  BY <1>1, <1>2, <1>3 DEF CacheTypeOK
<1>5. OneOwner'
  BY <1>1, <1>2, <1>3, NullAssumption DEF CacheTypeOK, OneOwner
<1>6. PinsCounted' /\ DeferredIsPinned' /\ MutexPins'
  BY DEF PinsCounted, DeferredIsPinned, MutexPins
<1>7. Reusable' \subseteq Reusable
  BY <1>1, <1>3 DEF Reusable, CacheTypeOK
<1>8. PinSafe'
  BY <1>7 DEF PinSafe
<1> QED
  BY <1>4, <1>5, <1>6, <1>8

\* new: the object goes from the heap to a thread's hands.
LEMMA NewChunkStep ==
  ASSUME CacheIInv, NEW t \in Thread, NewChunk(t) PROVE CacheIInv'
<1> USE DEF CacheIInv
<1>1. PICK o \in heap : held' = [held EXCEPT ![t] = o] /\ heap' = heap \ {o}
  BY DEF NewChunk
<1>2. Cached' = Cached /\ Pooled' = Pooled /\ o \in Obj
  BY <1>1 DEF NewChunk, Cached, Pooled, CacheTypeOK
<1>3. CacheTypeOK'
  BY <1>1, <1>2 DEF NewChunk, CacheTypeOK
<1>4. OneOwner'
  BY <1>1, <1>2, NullAssumption DEF NewChunk, CacheTypeOK, OneOwner
<1>5. PinsCounted' /\ DeferredIsPinned' /\ MutexPins'
  BY DEF NewChunk, PinsCounted, DeferredIsPinned, MutexPins
<1>6. Reusable' \subseteq Reusable
  BY <1>1, <1>2 DEF Reusable, CacheTypeOK
<1>7. PinSafe'
  BY <1>6 DEF PinSafe, NewChunk
<1> QED
  BY <1>3, <1>4, <1>5, <1>7

\* A recycled object is in the pool or on the heap.
LEMMA Recycled ==
  ASSUME CacheTypeOK, OneOwner, NEW o \in Obj, o \notin Pooled, Recycle(o)
  PROVE  /\ pool_' \in Seq(Obj) /\ heap' \subseteq Obj
         /\ \A m, n \in 1 .. Len(pool_') : m # n => pool_'[m] # pool_'[n]
         /\ \/ Pooled' = Pooled \cup {o} /\ heap' = heap
            \/ Pooled' = Pooled /\ heap' = heap \cup {o}
<1>1. CASE Len(pool_) < PoolCap
  BY <1>1, PoolPush DEF Recycle, CacheTypeOK, OneOwner
<1>2. CASE ~(Len(pool_) < PoolCap)
  BY <1>2 DEF Recycle, CacheTypeOK, OneOwner, Pooled
<1> QED
  BY <1>1, <1>2

\* put(): the object goes from the thread's hands to the cache, and the entry
\* it replaces, if any, to the thread's hands.
LEMMA PutStep ==
  ASSUME CacheIInv, NEW t \in Thread, NEW key \in Keys, Put(t, key) PROVE CacheIInv'
<1> USE DEF CacheIInv
<1> DEFINE o == held[t]
<1>0. o \in Obj /\ held' = [held EXCEPT ![t] = Null] /\ Pooled' = Pooled
  BY DEF Put, CacheTypeOK, Pooled
<1>1. ASSUME cache_' = cache_ \cup {<<key, o>>}, UNCHANGED displaced
      PROVE  CacheTypeOK' /\ OneOwner'
  <2>1. Cached' = Cached \cup {o}
    <3>1. <<key, o>>[2] = o
      OBVIOUS
    <3> HIDE DEF o
    <3> QED
      BY <1>1, <3>1 DEF Cached
  <2>2. CacheTypeOK'
    BY <1>0, <1>1 DEF Put, CacheTypeOK
  <2>3. \A e, f \in cache_' : e[2] = f[2] => e = f
    BY <1>0, <1>1 DEF Cached, OneOwner
  <2>4. OneOwner'
    BY <1>0, <1>1, <2>1, <2>3, NullAssumption DEF Put, CacheTypeOK, OneOwner
  <2> QED
    BY <2>2, <2>4
<1>2. ASSUME NEW e \in cache_, cache_' = (cache_ \ {e}) \cup {<<key, o>>},
             displaced' = [displaced EXCEPT ![t] = e[2]]
      PROVE  CacheTypeOK' /\ OneOwner'
  <2>1. Cached' = (Cached \ {e[2]}) \cup {o} /\ e[2] \in Cached /\ e[2] \in Obj
    <3>1. <<key, o>>[2] = o /\ o \notin Cached
      BY DEF OneOwner
    <3>2. \A f, g \in cache_ : f[2] = g[2] => f = g
      BY DEF OneOwner
    <3>3. e[2] \in Obj
      BY DEF CacheTypeOK
    <3> HIDE DEF o, CacheIInv
    <3> QED
      BY <1>2, <3>1, <3>2, <3>3 DEF Cached
  <2>2. CacheTypeOK'
    BY <1>0, <1>2, <2>1 DEF Put, CacheTypeOK
  <2>3. \A f, g \in cache_' : f[2] = g[2] => f = g
    BY <1>0, <1>2 DEF Cached, OneOwner
  <2>4. OneOwner'
    BY <1>0, <1>2, <2>1, <2>3, NullAssumption DEF Put, CacheTypeOK, OneOwner
  <2> QED
    BY <2>2, <2>4
<1>3. CacheTypeOK' /\ OneOwner'
  BY <1>1, <1>2 DEF Put
<1>4. PinsCounted' /\ DeferredIsPinned' /\ MutexPins'
  BY DEF Put, PinsCounted, DeferredIsPinned, MutexPins
<1>5. Reusable' \subseteq Reusable \cup {Null}
  BY <1>0 DEF Put, Reusable, CacheTypeOK
<1>6. PinSafe'
  BY <1>5 DEF PinSafe, Put
<1> QED
  BY <1>3, <1>4, <1>6

\* erase(): the entry goes to the thread's hands.
LEMMA EraseStep ==
  ASSUME CacheIInv, NEW t \in Thread, NEW key \in Keys, Erase(t, key) PROVE CacheIInv'
<1> USE DEF CacheIInv
<1>0. Pooled' = Pooled
  BY DEF Erase, Pooled
<1>1. PICK e \in cache_ : /\ cache_' = cache_ \ {e}
                          /\ displaced' = [displaced EXCEPT ![t] = e[2]]
  BY DEF Erase
<1>2. Cached' = Cached \ {e[2]} /\ e[2] \in Cached /\ e[2] \in Obj
  BY <1>1 DEF Cached, OneOwner, CacheTypeOK
<1>3. CacheTypeOK'
  BY <1>1, <1>2 DEF Erase, CacheTypeOK
<1>4. \A f, g \in cache_' : f[2] = g[2] => f = g
  BY <1>1 DEF OneOwner
<1>5. OneOwner'
  BY <1>0, <1>1, <1>2, <1>4, NullAssumption DEF Erase, CacheTypeOK, OneOwner
<1>6. PinsCounted' /\ DeferredIsPinned' /\ MutexPins'
  BY DEF Erase, PinsCounted, DeferredIsPinned, MutexPins
<1>7. PinSafe'
  BY <1>0 DEF PinSafe, Reusable, Erase
<1> QED
  BY <1>3, <1>5, <1>6, <1>7

\* on_evict(): a pinned object is deferred, any other recycled.
LEMMA OnEvictStep ==
  ASSUME CacheIInv, NEW t \in Thread, OnEvict(t) PROVE CacheIInv'
<1> USE DEF CacheIInv
<1> DEFINE o == displaced[t]
<1>0. /\ o \in Obj /\ displaced' = [displaced EXCEPT ![t] = Null] /\ Cached' = Cached
      /\ o \notin Pooled /\ o \notin heap /\ o \notin pending_evict_ /\ o \notin Cached
  BY DEF OnEvict, CacheTypeOK, Cached, OneOwner
<1>h. \A u \in Thread : held[u] # o /\ (u # t => displaced[u] # o)
  BY NullAssumption DEF OnEvict, OneOwner
<1>n. \A u \in Thread : displaced'[u] = IF u = t THEN Null ELSE displaced[u]
  BY <1>0 DEF CacheTypeOK
<1>p. /\ UNCHANGED <<cache_, held>> /\ Null \notin heap \cup pending_evict_ \cup Pooled \cup Cached
      /\ Null \notin Obj
  BY PooledObj, NullAssumption DEF OnEvict, CacheTypeOK, Cached
<1>c. \A x \in Obj : pinned_[x] = Cardinality(Counted(x)) /\ Counted(x)' = Counted(x)
  BY DEF PinsCounted, Counted, OnEvict
<1>m. PinsCounted' /\ MutexPins'
  BY DEF OnEvict, PinsCounted, MutexPins
<1>1. CASE pinned_[o] > 0
  <2>1. /\ pending_evict_' = pending_evict_ \cup {o} /\ Pooled' = Pooled
        /\ UNCHANGED <<pool_, heap>>
    BY <1>1 DEF OnEvict, Pooled
  <2>2. CacheTypeOK'
    BY <1>0, <2>1 DEF OnEvict, CacheTypeOK
  <2>3. OneOwner'
    <3> HIDE DEF o
    <3> QED
      BY <1>0, <1>h, <1>n, <1>p, <2>1 DEF OneOwner
  <2>4. PinSafe'
    BY <2>1 DEF PinSafe, Reusable, OnEvict
  <2>5. \E u \in Thread : pin[u] = o /\ pin_mutex_ # u
    <3>1. Counted(o) # {}
      BY <1>0, <1>1, <1>c, FS_EmptySet
    <3> QED
      BY <3>1 DEF Counted
  <2>6. DeferredIsPinned'
    BY <2>1, <2>5 DEF OnEvict, DeferredIsPinned
  <2> QED
    BY <1>m, <2>2, <2>3, <2>4, <2>6
<1>2. CASE ~(pinned_[o] > 0)
  <2>1. Recycle(o) /\ UNCHANGED pending_evict_
    BY <1>2 DEF OnEvict
  <2>2. /\ pool_' \in Seq(Obj) /\ heap' \subseteq Obj
        /\ \A m, n \in 1 .. Len(pool_') : m # n => pool_'[m] # pool_'[n]
        /\ \/ Pooled' = Pooled \cup {o} /\ heap' = heap
           \/ Pooled' = Pooled /\ heap' = heap \cup {o}
    BY <1>0, <2>1, Recycled
  <2>3. CacheTypeOK'
    BY <1>0, <2>1, <2>2 DEF OnEvict, CacheTypeOK
  <2>4. OneOwner'
    <3> HIDE DEF o
    <3> QED
      BY <1>0, <1>h, <1>n, <1>p, <2>1, <2>2 DEF OneOwner
  <2>5. \A u \in Thread : pin[u] # o
    <3>1. Counted(o) = {}
      BY <1>0, <1>2, <1>c, CountedFinite, FS_EmptySet
    <3> QED
      BY <3>1, NullAssumption DEF Counted, OnEvict
  <2>6. PinSafe'
    BY <2>2, <2>5 DEF PinSafe, Reusable, OnEvict
  <2>7. DeferredIsPinned'
    BY <2>1 DEF OnEvict, DeferredIsPinned
  <2> QED
    BY <1>m, <2>3, <2>4, <2>6, <2>7
<1> QED
  BY <1>1, <1>2

\* getPinned(), first half: the pin is not counted yet.
LEMMA PinLookupStep ==
  ASSUME CacheIInv, NEW t \in Thread, NEW key \in Keys, PinLookup(t, key) PROVE CacheIInv'
<1> USE DEF CacheIInv
<1>1. PICK o \in Obj : /\ {e \in cache_ : e[1] = key} = {<<key, o>>}
                       /\ pin' = [pin EXCEPT ![t] = o]
  BY DEF PinLookup
<1>2. o \in Cached
  <2>1. <<key, o>> \in cache_ /\ <<key, o>>[2] = o
    BY <1>1
  <2> QED
    BY <2>1 DEF Cached
<1>3. CacheTypeOK'
  BY <1>1 DEF PinLookup, CacheTypeOK
<1>4. OneOwner' /\ Reusable' = Reusable
  BY SameOwners DEF PinLookup
<1>5. \A x \in Obj : Counted(x)' = Counted(x)
  BY <1>1, NullAssumption DEF PinLookup, Counted, CacheTypeOK
<1>6. PinsCounted'
  BY <1>5 DEF PinsCounted, Counted, PinLookup
<1>7. o \notin Reusable
  BY <1>2 DEF Reusable, OneOwner
<1>8. PinSafe'
  BY <1>1, <1>4, <1>7 DEF PinSafe, CacheTypeOK
<1>9. DeferredIsPinned'
  BY <1>1, NullAssumption DEF DeferredIsPinned, PinLookup, CacheTypeOK
<1>10. MutexPins'
  BY <1>1, NullAssumption DEF MutexPins, PinLookup, CacheTypeOK
<1> QED
  BY <1>3, <1>4, <1>6, <1>8, <1>9, <1>10

\* getPinned(), second half: one more thread counts.
LEMMA PinCountStep ==
  ASSUME CacheIInv, NEW t \in Thread, PinCount(t) PROVE CacheIInv'
<1> USE DEF CacheIInv
<1>0. PICK o \in Obj : o = pin[t]
  BY NullAssumption DEF PinCount, MutexPins, CacheTypeOK
<1>1. pinned_' = [pinned_ EXCEPT ![o] = @ + 1]
  BY <1>0 DEF PinCount
<1>2. CacheTypeOK'
  BY <1>1 DEF PinCount, CacheTypeOK
<1>3. OneOwner' /\ PinSafe'
  BY SameOwners DEF PinCount, PinSafe
<1>4. DeferredIsPinned' /\ MutexPins'
  BY NullAssumption DEF DeferredIsPinned, MutexPins, PinCount
<1>5. /\ Counted(o)' = Counted(o) \cup {t} /\ t \notin Counted(o)
      /\ \A x \in Obj : x # o => Counted(x)' = Counted(x)
  BY <1>0, NullAssumption DEF Counted, PinCount
<1>6. Cardinality(Counted(o) \cup {t}) = Cardinality(Counted(o)) + 1
  BY <1>5, CountedFinite, FS_AddElement
<1>7. \A x \in Obj : pinned_[x] = Cardinality(Counted(x))
  BY PinsCountedDef
<1>8. \A x \in Obj : pinned_'[x] = IF x = o THEN pinned_[x] + 1 ELSE pinned_[x]
  BY <1>1 DEF CacheTypeOK
<1>9. PinsCounted'
  <2>1. ASSUME NEW x \in Obj PROVE pinned_'[x] = Cardinality(Counted(x)')
    <3>1. CASE x = o
      BY <1>5, <1>6, <1>7, <1>8, <3>1
    <3>2. CASE x # o
      BY <1>5, <1>7, <1>8, <3>2
    <3> QED
      BY <3>1, <3>2
  <2> QED
    BY <2>1, PinsCountedDef
<1> QED
  BY <1>2, <1>3, <1>4, <1>9

\* releasePinned(): one thread less counts; the last one recycles the object
\* if its eviction was deferred.
LEMMA ReleasePinnedStep ==
  ASSUME CacheIInv, NEW t \in Thread, ReleasePinned(t) PROVE CacheIInv'
<1> USE DEF CacheIInv
<1>0. PICK o \in Obj : o = pin[t]
  BY DEF ReleasePinned, CacheTypeOK
<1>1. /\ pinned_' = [pinned_ EXCEPT ![o] = @ - 1]
      /\ \A u \in Thread : pin'[u] = IF u = t THEN Null ELSE pin[u]
      /\ pin' = [pin EXCEPT ![t] = Null] /\ pin_mutex_ = Null /\ pin_mutex_' = Null
      /\ UNCHANGED <<cache_, held, displaced>> /\ Cached' = Cached
  BY <1>0 DEF ReleasePinned, CacheTypeOK, Cached
<1>2. /\ Counted(o)' = Counted(o) \ {t} /\ t \in Counted(o)
      /\ \A x \in Obj : x # o => Counted(x)' = Counted(x)
  BY <1>0, <1>1, NullAssumption DEF Counted
<1>3. Cardinality(Counted(o) \ {t}) = Cardinality(Counted(o)) - 1
  BY <1>2, CountedFinite, FS_RemoveElement
<1>4. \A x \in Obj : pinned_[x] = Cardinality(Counted(x))
  BY PinsCountedDef
<1>5. \A x \in Obj : pinned_'[x] = Cardinality(Counted(x)') /\ pinned_'[x] \in Nat
  <2>1. IsFiniteSet(Counted(o) \ {t}) /\ Cardinality(Counted(o) \ {t}) \in Nat
    BY CountedFinite, FS_RemoveElement, FS_CardinalityType
  <2>2. \A x \in Obj : pinned_'[x] = IF x = o THEN pinned_[x] - 1 ELSE pinned_[x]
    BY <1>1 DEF CacheTypeOK
  <2> TAKE x \in Obj
  <2>3. CASE x = o
    BY <1>2, <1>3, <1>4, <2>1, <2>2, <2>3
  <2>4. CASE x # o
    BY <1>2, <1>4, <2>2, <2>4, CountedFinite
  <2> QED
    BY <2>3, <2>4
<1>6. PinsCounted' /\ MutexPins'
  BY <1>1, <1>5, PinsCountedDef DEF MutexPins
<1>7. pinned_' \in [Obj -> Nat] /\ pin' \in [Thread -> Obj \cup {Null}]
  BY <1>1, <1>5 DEF CacheTypeOK
<1>8. CASE pinned_[o] = 1 /\ o \in pending_evict_
  <2>1. pending_evict_' = pending_evict_ \ {o} /\ Recycle(o)
    BY <1>0, <1>8 DEF ReleasePinned
  <2>2. /\ o \notin Pooled /\ o \notin heap /\ o \notin Cached
        /\ \A u \in Thread : held[u] # o /\ displaced[u] # o
    BY <1>8 DEF OneOwner
  <2>3. /\ pool_' \in Seq(Obj) /\ heap' \subseteq Obj
        /\ \A m, n \in 1 .. Len(pool_') : m # n => pool_'[m] # pool_'[n]
        /\ \/ Pooled' = Pooled \cup {o} /\ heap' = heap
           \/ Pooled' = Pooled /\ heap' = heap \cup {o}
    BY <1>1, <2>1, <2>2, Recycled
  <2>4. CacheTypeOK'
    BY <1>1, <1>7, <2>1, <2>3 DEF CacheTypeOK
  <2>5. OneOwner'
    BY <1>1, <2>1, <2>2, <2>3 DEF OneOwner
  <2>6. \A u \in Thread : pin'[u] # o
    <3>1. Counted(o)' = {}
      <4>1. Cardinality(Counted(o)') = 0
        BY <1>2, <1>3, <1>4, <1>8
      <4>2. IsFiniteSet(Counted(o)')
        BY <1>2, CountedFinite, FS_RemoveElement
      <4> QED
        BY <4>1, <4>2, FS_EmptySet
    <3> QED
      BY <1>1, <3>1, NullAssumption DEF Counted
  <2>7. PinSafe'
    BY <1>1, <2>3, <2>6 DEF PinSafe, Reusable, CacheTypeOK
  <2>8. DeferredIsPinned'
    <3> SUFFICES ASSUME NEW x \in pending_evict_ \ {o}
                 PROVE  \E u \in Thread : pin'[u] = x /\ pin_mutex_' # u
      BY <2>1 DEF DeferredIsPinned
    <3>1. PICK u \in Thread : pin[u] = x /\ pin_mutex_ # u
      BY DEF DeferredIsPinned
    <3> QED
      BY <1>0, <1>1, <3>1
  <2> QED
    BY <1>6, <2>4, <2>5, <2>7, <2>8
<1>9. CASE ~(pinned_[o] = 1 /\ o \in pending_evict_)
  <2>1. UNCHANGED <<pending_evict_, pool_, heap>> /\ Pooled' = Pooled
    BY <1>0, <1>9 DEF ReleasePinned, Pooled
  <2>2. CacheTypeOK'
    BY <1>1, <1>7, <2>1 DEF CacheTypeOK
  <2>3. OneOwner'
    BY <1>1, <2>1 DEF OneOwner
  <2>4. PinSafe'
    BY <1>1, <2>1 DEF PinSafe, Reusable, CacheTypeOK
  <2>5. o \in pending_evict_ => Counted(o)' # {}
    <3>1. Cardinality({}) = 0
      BY FS_EmptySet
    <3>2. o \in pending_evict_ => pinned_'[o] # 0
      BY <1>1, <1>9 DEF CacheTypeOK
    <3> QED
      BY <1>5, <3>1, <3>2
  <2>6. DeferredIsPinned'
    <3> SUFFICES ASSUME NEW x \in pending_evict_
                 PROVE  \E u \in Thread : pin'[u] = x /\ pin_mutex_' # u
      BY <2>1 DEF DeferredIsPinned
    <3>1. CASE x = o
      BY <2>5, <3>1 DEF Counted
    <3>2. CASE x # o
      <4>1. PICK u \in Thread : pin[u] = x /\ pin_mutex_ # u
        BY DEF DeferredIsPinned
      <4> QED
        BY <1>0, <1>1, <3>2, <4>1
    <3> QED
      BY <3>1, <3>2
  <2> QED
    BY <1>6, <2>2, <2>3, <2>4, <2>6
<1> QED
  BY <1>8, <1>9

\* clear(): no thread is in the middle of anything.
LEMMA ClearCacheStep ==
  ASSUME CacheIInv, ClearCache PROVE CacheIInv'
<1> USE DEF CacheIInv
<1>1. Cached' = {} /\ Pooled' = {} /\ pool_' = <<>>
  BY DEF ClearCache, Cached, Pooled
<1>2. Cached \subseteq Obj /\ Pooled \subseteq Obj
  BY PooledObj DEF Cached, CacheTypeOK
<1>3. CacheTypeOK'
  BY <1>1, <1>2 DEF ClearCache, CacheTypeOK
<1>4. pending_evict_ = {}
  BY NullAssumption DEF ClearCache, DeferredIsPinned, CacheTypeOK
<1>5. OneOwner'
  BY <1>1, <1>2, <1>4, NullAssumption DEF ClearCache, CacheTypeOK, OneOwner
<1>6. PinsCounted' /\ PinSafe' /\ DeferredIsPinned' /\ MutexPins'
  BY DEF ClearCache, PinsCounted, PinSafe, DeferredIsPinned, MutexPins
<1> QED
  BY <1>3, <1>5, <1>6

------------------------------------------------------------------------------
(* The theorems.                                                            *)

\* The empty cache satisfies the invariant.
LEMMA InvInit == CacheInit => CacheIInv
<1> SUFFICES ASSUME CacheInit PROVE CacheIInv
  OBVIOUS
<1> USE DEF CacheInit
<1>1. CacheTypeOK
  BY DEF CacheTypeOK
<1>2. Cached = {} /\ Pooled = {}
  BY DEF Cached, Pooled
<1>3. OneOwner
  BY <1>2, NullAssumption DEF OneOwner
<1>4. \A o \in Obj : Counted(o) = {}
  BY NullAssumption DEF Counted
<1>5. PinsCounted
  BY <1>4, FS_EmptySet DEF PinsCounted, Counted
<1>6. PinSafe /\ DeferredIsPinned /\ MutexPins
  BY DEF PinSafe, DeferredIsPinned, MutexPins
<1> QED
  BY <1>1, <1>3, <1>5, <1>6 DEF CacheIInv

\* Every step keeps the invariant.
LEMMA InvNext == CacheIInv /\ [CacheNext]_cacheVars => CacheIInv'
<1> SUFFICES ASSUME CacheIInv, [CacheNext]_cacheVars PROVE CacheIInv'
  OBVIOUS
<1>1. ASSUME NEW t \in Thread, Step(t) PROVE CacheIInv'
  BY <1>1, TakeFromPoolStep, NewChunkStep, PutStep, EraseStep, PinLookupStep, OnEvictStep,
     PinCountStep, ReleasePinnedStep DEF Step
<1>2. ASSUME UNCHANGED cacheVars PROVE CacheIInv'
  <2>1. OneOwner' /\ Reusable' = Reusable
    BY <1>2, SameOwners DEF cacheVars, CacheIInv
  <2>2. CacheTypeOK'
    BY <1>2 DEF cacheVars, CacheIInv, CacheTypeOK
  <2>3. PinsCounted' /\ DeferredIsPinned' /\ MutexPins'
    BY <1>2 DEF cacheVars, CacheIInv, PinsCounted, DeferredIsPinned, MutexPins
  <2>4. PinSafe'
    BY <1>2, <2>1 DEF cacheVars, CacheIInv, PinSafe
  <2> QED
    BY <2>1, <2>2, <2>3, <2>4 DEF CacheIInv
<1> QED
  BY <1>1, <1>2, ClearCacheStep DEF CacheNext

\* The inductive invariant holds in every reachable state, for any finite set of
\* threads and any keys, objects and capacities.
THEOREM CacheInvariance == CacheSpec => []CacheIInv
BY InvInit, InvNext, PTL DEF CacheSpec

\* Type correctness; in particular a pin count never goes below zero.
THEOREM CacheTypeCorrect == CacheSpec => []CacheTypeOK
<1>1. CacheIInv => CacheTypeOK
  BY DEF CacheIInv
<1> QED
  BY <1>1, CacheInvariance, PTL

\* An object a thread is encoding is never pooled, deleted or refilled:
\* getPinned() and releasePinned() protect it from on_evict() of every thread.
THEOREM PinSafeHolds == CacheSpec => []PinSafe
<1>1. CacheIInv => PinSafe
  BY DEF CacheIInv
<1> QED
  BY <1>1, CacheInvariance, PTL

\* A deferred eviction always has a release to come that carries it out.
THEOREM DeferredIsPinnedHolds == CacheSpec => []DeferredIsPinned
<1>1. CacheIInv => DeferredIsPinned
  BY DEF CacheIInv
<1> QED
  BY <1>1, CacheInvariance, PTL

\* The pin counts are exact.
THEOREM PinsCountedHolds == CacheSpec => []PinsCounted
<1>1. CacheIInv => PinsCounted
  BY DEF CacheIInv
<1> QED
  BY <1>1, CacheInvariance, PTL

\* An object is in one place: on_evict() and releasePinned() never recycle it
\* twice, nor while the cache holds it.
THEOREM OneOwnerHolds == CacheSpec => []OneOwner
<1>1. CacheIInv => OneOwner
  BY DEF CacheIInv
<1> QED
  BY <1>1, CacheInvariance, PTL

------------------------------------------------------------------------------
(* THE CHUNK REQUESTS: the inductive invariant.                             *)

\* What a thread's program counter says of the fields it uses.
Places ==
    /\ \A r \in Req : req[r].pc # "new" => req[r].key \in Key
    /\ \A w \in Worker : worker[w].pc = "wait" <=> worker[w].key = NoKey
    /\ \A e \in Encoder :
           /\ enc[e].pc \in {"take", "front"} => enc[e].key \in Key
           /\ enc[e].pc \in {"wait", "write"} => enc[e].tasks = <<>>
           /\ enc[e].pc # "front" => enc[e].cbs = {}

\* A callback is registered after "push", under its own key, is in one place
\* at a time, and has not been called while it is in one.
OneCopy ==
    /\ \A r \in Req : req[r].pc \in {"new", "read", "push"} =>
           /\ answers[r] = 0
           /\ \A key \in Key : r \notin pending_gen_cbs_[key]
           /\ \A e \in Encoder : r \notin enc[e].cbs
    /\ \A key \in Key : \A r \in pending_gen_cbs_[key] :
           /\ req[r].key = key /\ answers[r] = 0
           /\ \A e \in Encoder : r \notin enc[e].cbs
    /\ \A e \in Encoder : \A r \in enc[e].cbs :
           /\ answers[r] = 0
           /\ \A f \in Encoder \ {e} : r \notin enc[f].cbs

\* A registered callback that was not called waits or is about to be called.
Waiting ==
    \A r \in Req : req[r].pc \in {"request", "end"} /\ answers[r] = 0 =>
        r \in pending_gen_cbs_[req[r].key] \/ \E e \in Encoder : r \in enc[e].cbs

\* One that waits, and whose chunk was requested, waits for a chunk under way.
OnItsWay ==
    \A r \in Req : req[r].pc = "end" /\ r \in pending_gen_cbs_[req[r].key] =>
        InFlight(req[r].key)

Generating == {u \in Worker : worker[u].pc = "generate"}

\* DedupIsExact, with what keeps it so when a task is taken or done.
Dedup ==
    /\ dedup_ = Elems(tasks_) \cup {worker[w].key : w \in Generating}
    /\ \A m, n \in 1 .. Len(tasks_) : tasks_[m] = tasks_[n] => m = n
    /\ \A w \in Generating : worker[w].key \notin Elems(tasks_)
    /\ \A u, w \in Generating : worker[u].key = worker[w].key => u = w

Callbacks == AnsweredOnce /\ OneCopy /\ Waiting /\ OnItsWay
IInv == TypeOK /\ Places /\ Callbacks /\ Dedup

------------------------------------------------------------------------------
(* Sequences of keys.                                                       *)

LEMMA ElemsOfAppend ==
    ASSUME NEW s \in Seq(Key), NEW x \in Key
    PROVE  /\ Append(s, x) \in Seq(Key)
           /\ Elems(Append(s, x)) = Elems(s) \cup {x}
  BY DEF Elems

LEMMA ElemsOfHead ==
    ASSUME NEW s \in Seq(Key), s # <<>>
    PROVE  /\ Head(s) \in Key /\ Tail(s) \in Seq(Key)
           /\ Elems(s) = {Head(s)} \cup Elems(Tail(s))
<1>1. Len(s) \in Nat /\ Len(s) > 0 /\ Tail(s) \in Seq(Key) /\ Len(Tail(s)) = Len(s) - 1
  OBVIOUS
<1>2. \A n \in 1 .. Len(Tail(s)) : Tail(s)[n] = s[n + 1]
  OBVIOUS
<1>3. \A n \in 1 .. Len(s) : n = 1 \/ n - 1 \in 1 .. Len(Tail(s))
  BY <1>1
<1>4. ASSUME NEW n \in 1 .. Len(s) PROVE s[n] \in {Head(s)} \cup Elems(Tail(s))
  <2>1. CASE n = 1
    BY <1>1, <2>1
  <2>2. CASE n - 1 \in 1 .. Len(Tail(s))
    BY <1>1, <1>2, <2>2 DEF Elems
  <2>3. QED
    BY <1>3, <2>1, <2>2
<1>5. {Head(s)} \cup Elems(Tail(s)) \subseteq Elems(s)
  BY <1>1, <1>2 DEF Elems
<1>6. Elems(s) \subseteq {Head(s)} \cup Elems(Tail(s))
  BY <1>4 DEF Elems
<1>7. Head(s) \in Key
  BY <1>1
<1>8. QED
  BY <1>1, <1>5, <1>6, <1>7

LEMMA ElemsOfEmpty == Elems(<<>>) = {}
  BY DEF Elems

\* What a worker takes from either end, and what is left.
LEMMA ElemsOfPop ==
    ASSUME NEW s \in Seq(Key), s # <<>>, NEW front \in BOOLEAN,
           NEW k, NEW t,
           \/ front /\ k = s[1] /\ t = Tail(s)
           \/ ~front /\ k = s[Len(s)] /\ t = SubSeq(s, 1, Len(s) - 1)
    PROVE  /\ k \in Key /\ t \in Seq(Key)
           /\ Elems(s) = {k} \cup Elems(t)
           /\ (\A m, n \in 1 .. Len(s) : s[m] = s[n] => m = n) =>
                 /\ k \notin Elems(t)
                 /\ \A m, n \in 1 .. Len(t) : t[m] = t[n] => m = n
<1>1. Len(s) \in Nat /\ Len(s) > 0
  OBVIOUS
<1>2. CASE front
  <2>1. k = s[1] /\ t = Tail(s) /\ Len(t) = Len(s) - 1 /\ t \in Seq(Key)
    BY <1>1, <1>2
  <2>2. \A n \in 1 .. Len(t) : t[n] = s[n + 1] /\ n + 1 \in 1 .. Len(s) /\ n + 1 # 1
    BY <1>1, <2>1
  <2>3. Elems(s) = {k} \cup Elems(t) /\ k \in Key
    <3>1. Head(s) = k
      BY <1>1, <2>1
    <3>2. QED
      BY <2>1, <3>1, ElemsOfHead
  <2>4. ASSUME \A m, n \in 1 .. Len(s) : s[m] = s[n] => m = n
        PROVE  k \notin Elems(t) /\ \A m, n \in 1 .. Len(t) : t[m] = t[n] => m = n
    <3>1. k \notin Elems(t)
      BY <1>1, <2>1, <2>2, <2>4 DEF Elems
    <3>2. ASSUME NEW m \in 1 .. Len(t), NEW n \in 1 .. Len(t), t[m] = t[n] PROVE m = n
      <4>1. m + 1 = n + 1
        BY <2>2, <2>4, <3>2
      <4>2. QED
        BY <4>1
    <3>3. QED
      BY <3>1, <3>2
  <2>5. QED
    BY <2>1, <2>3, <2>4
<1>3. CASE ~front
  <2>1. k = s[Len(s)] /\ t = SubSeq(s, 1, Len(s) - 1)
    BY <1>3
  <2>2. t \in Seq(Key) /\ Len(t) = Len(s) - 1 /\ \A n \in 1 .. Len(t) : t[n] = s[n]
    <3>1. Len(s) - 1 \in 0 .. Len(s)
      BY <1>1
    <3>2. \A n \in 1 .. Len(s) - 1 : s[n] \in Key
      BY <1>1
    <3>3. /\ SubSeq(s, 1, Len(s) - 1) \in Seq(Key)
          /\ Len(SubSeq(s, 1, Len(s) - 1)) = IF 1 <= Len(s) - 1 THEN Len(s) - 1 - 1 + 1 ELSE 0
          /\ \A i \in 1 .. Len(s) - 1 - 1 + 1 : SubSeq(s, 1, Len(s) - 1)[i] = s[1 + i - 1]
      BY <1>1, <3>2, SubSeqProperties, 1 \in Int, Len(s) - 1 \in Int
    <3>4. Len(t) = Len(s) - 1
      <4> DEFINE L == Len(s)
                 u == SubSeq(s, 1, L - 1)
      <4>1. L \in Nat /\ L > 0 /\ Len(u) = IF 1 <= L - 1 THEN L - 1 - 1 + 1 ELSE 0
        BY <1>1, <3>3
      <4> HIDE DEF L, u
      <4>2. Len(u) = L - 1
        BY <4>1
      <4>3. QED
        BY <2>1, <4>2 DEF L, u
    <3>5. ASSUME NEW n \in 1 .. Len(t) PROVE t[n] = s[n]
      <4>1. n \in 1 .. Len(s) - 1 - 1 + 1 /\ 1 + n - 1 = n
        BY <1>1, <3>4
      <4>2. QED
        BY <2>1, <3>3, <4>1
    <3>6. QED
      BY <2>1, <3>3, <3>4, <3>5
  <2>3. k \in Key
    BY <1>1, <2>1
  <2>4. \A n \in 1 .. Len(s) : n = Len(s) \/ n \in 1 .. Len(t)
    BY <1>1, <2>2
  <2>5. Elems(s) = {k} \cup Elems(t)
    BY <1>1, <2>1, <2>2, <2>4 DEF Elems
  <2>6. ASSUME \A m, n \in 1 .. Len(s) : s[m] = s[n] => m = n
        PROVE  k \notin Elems(t) /\ \A m, n \in 1 .. Len(t) : t[m] = t[n] => m = n
    BY <1>1, <2>1, <2>2, <2>6 DEF Elems
  <2>7. QED
    BY <2>2, <2>3, <2>5, <2>6
<1>4. QED
  BY <1>2, <1>3

------------------------------------------------------------------------------
(* Every step keeps it. *)

\* What a request in hand waits for does not change under it.
Early == {"new", "read", "push"}
Requests == [pc : {"new", "read", "push", "request", "end"}, key : Key \cup {NoKey}]

\* A request that was not registered moves on without registering: it is
\* answered at once, or has not been answered.
LEMMA UnregisteredMoves ==
    ASSUME IInv, NEW r \in Req, req[r].pc \in Early,
           NEW q \in Requests, q.key \in Key, req' = [req EXCEPT ![r] = q],
           \/ q.pc \in Early /\ answers' = answers
           \/ q.pc = "end" /\ answers' = [answers EXCEPT ![r] = @ + 1],
           UNCHANGED <<pending_gen_cbs_, Gen, Enc, stored, crashed>>,
           cached' \subseteq Key
    PROVE  IInv'
<1> USE DEF IInv, Callbacks, Gen, Enc, Early
<1>1. /\ req' \in [Req -> Requests] /\ answers' \in [Req -> Nat]
      /\ req'[r] = q /\ \A p \in Req \ {r} : req'[p] = req[p] /\ answers'[p] = answers[p]
      /\ answers[r] = 0
      /\ q.pc \in Early => answers'[r] = 0
      /\ q.pc \notin Early => answers'[r] = 1
  BY DEF TypeOK, OneCopy, Requests
<1>2. TypeOK'
  BY <1>1 DEF TypeOK, Requests
<1>3. Places'
  BY <1>1 DEF Places
<1>4. AnsweredOnce'
  BY <1>1 DEF AnsweredOnce
<1>5. OneCopy'
  <2>1. ASSUME NEW p \in Req, req'[p].pc \in Early
        PROVE  /\ answers'[p] = 0 /\ \A key \in Key : p \notin pending_gen_cbs_[key]
               /\ \A e \in Encoder : p \notin enc[e].cbs
    BY <1>1, <2>1 DEF OneCopy
  <2>2. ASSUME NEW key \in Key, NEW p \in pending_gen_cbs_[key]
        PROVE  req'[p].key = key /\ answers'[p] = 0 /\ \A e \in Encoder : p \notin enc[e].cbs
    <3>1. p \in Req /\ p # r
      BY <2>2 DEF TypeOK, OneCopy
    <3>2. QED
      BY <1>1, <2>2, <3>1 DEF OneCopy
  <2>3. ASSUME NEW e \in Encoder, NEW p \in enc[e].cbs
        PROVE  answers'[p] = 0 /\ \A f \in Encoder \ {e} : p \notin enc[f].cbs
    <3>1. p \in Req /\ p # r
      BY <2>3 DEF TypeOK, OneCopy
    <3>2. QED
      BY <1>1, <2>3, <3>1 DEF OneCopy
  <2>4. QED
    BY <2>1, <2>2, <2>3 DEF OneCopy
<1>6. Waiting'
  BY <1>1 DEF Waiting
<1>7. OnItsWay'
  <2> SUFFICES ASSUME NEW p \in Req, req'[p].pc = "end", p \in pending_gen_cbs_[req'[p].key]
               PROVE  InFlight(req[p].key)'
    BY DEF OnItsWay
  <2>1. p # r
    BY <1>1 DEF OneCopy
  <2>2. InFlight(req[p].key)
    BY <1>1, <2>1 DEF OnItsWay
  <2>3. QED
    BY <1>1, <2>1, <2>2 DEF InFlight
<1>8. Dedup'
  BY DEF Dedup, Generating
<1>9. QED
  BY <1>2, <1>3, <1>4, <1>5, <1>6, <1>7, <1>8

LEMMA AsyncGetChunkKeeps ==
    ASSUME IInv, NEW r \in Req, NEW key \in Key, AsyncGetChunk(r, key) PROVE IInv'
<1>1. CASE key \in cached
  <2>1. [pc |-> "end", key |-> key] \in Requests
    BY DEF Requests
  <2>2. QED
    BY <1>1, <2>1, UnregisteredMoves DEF AsyncGetChunk, Early, IInv, TypeOK
<1>2. CASE key \notin cached
  <2>1. [pc |-> "read", key |-> key] \in Requests
    BY DEF Requests
  <2>2. QED
    BY <1>2, <2>1, UnregisteredMoves DEF AsyncGetChunk, Early, IInv, TypeOK
<1>3. QED
  BY <1>1, <1>2

LEMMA ReadKeeps == ASSUME IInv, NEW r \in Req, Read(r) PROVE IInv'
<1>1. /\ req[r].pc = "read" /\ req[r].key \in Key /\ req[r] \in Requests
      /\ UNCHANGED <<pending_gen_cbs_, Gen, Enc, stored, crashed>>
  BY DEF Read, IInv, TypeOK, Places, Requests
<1>2. cached' \subseteq Key
  BY <1>1 DEF Read, IInv, TypeOK
<1>3. CASE Answer(r)
  <2>1. [req[r] EXCEPT !.pc = "end"] \in Requests
    BY <1>1 DEF Requests
  <2>2. req' = [req EXCEPT ![r] = [req[r] EXCEPT !.pc = "end"]]
    BY <1>3 DEF Answer
  <2>3. QED
    BY <1>1, <1>2, <1>3, <2>1, <2>2, UnregisteredMoves DEF Answer, Early, Requests
<1>4. CASE req' = [req EXCEPT ![r].pc = "push"] /\ answers' = answers
  <2>1. [req[r] EXCEPT !.pc = "push"] \in Requests
    BY <1>1 DEF Requests
  <2>2. req' = [req EXCEPT ![r] = [req[r] EXCEPT !.pc = "push"]]
    BY <1>4
  <2>3. QED
    BY <1>1, <1>2, <1>4, <2>1, <2>2, UnregisteredMoves DEF Early, Requests
<1>5. QED
  BY <1>3, <1>4 DEF Read

LEMMA PushCallbackKeeps == ASSUME IInv, NEW r \in Req, PushCallback(r) PROVE IInv'
<1> USE DEF IInv, Callbacks, Gen, Enc
<1>1. /\ req[r].pc = "push" /\ req'[r].pc = "request" /\ req'[r].key = req[r].key
      /\ \A p \in Req \ {r} : req'[p] = req[p]
      /\ req[r].key \in Key /\ answers' = answers
      /\ pending_gen_cbs_'[req[r].key] = pending_gen_cbs_[req[r].key] \cup {r}
      /\ \A key \in Key \ {req[r].key} : pending_gen_cbs_'[key] = pending_gen_cbs_[key]
  BY DEF PushCallback, TypeOK, Places
<1>2. TypeOK'
  <2>1. req' \in [Req -> Requests]
    BY DEF PushCallback, TypeOK, Requests
  <2>2. pending_gen_cbs_' \in [Key -> SUBSET Req]
    BY DEF PushCallback, TypeOK
  <2>3. QED
    BY <2>1, <2>2 DEF PushCallback, TypeOK, Requests
<1>3. Places'
  BY <1>1 DEF PushCallback, Places
<1>4. AnsweredOnce'
  BY <1>1 DEF AnsweredOnce
<1>5. OneCopy'
  BY <1>1 DEF PushCallback, OneCopy
<1>6. Waiting'
  BY <1>1 DEF PushCallback, TypeOK, Places, Waiting
<1>7. OnItsWay'
  <2> SUFFICES ASSUME NEW p \in Req, req'[p].pc = "end", p \in pending_gen_cbs_'[req'[p].key]
               PROVE  InFlight(req[p].key)'
    BY DEF OnItsWay
  <2>1. p # r /\ req'[p] = req[p] /\ req[p].key \in Key
    BY <1>1 DEF Places
  <2>2. p \in pending_gen_cbs_[req[p].key]
    BY <1>1, <2>1
  <2>3. InFlight(req[p].key)
    BY <2>1, <2>2 DEF OnItsWay
  <2>4. QED
    BY <2>1, <2>3 DEF PushCallback, InFlight
<1>8. Dedup'
  BY DEF PushCallback, Dedup, Generating
<1>9. QED
  BY <1>2, <1>3, <1>4, <1>5, <1>6, <1>7, <1>8

LEMMA RequestChunkKeeps == ASSUME IInv, NEW r \in Req, RequestChunk(r) PROVE IInv'
<1> USE DEF IInv, Callbacks, Gen, Enc
<1>1. /\ req[r].pc = "request" /\ req'[r].pc = "end" /\ req'[r].key = req[r].key
      /\ \A p \in Req \ {r} : req'[p] = req[p]
      /\ req[r].key \in Key /\ UNCHANGED <<answers, pending_gen_cbs_, worker, encode_queue_, enc>>
  BY DEF RequestChunk, TypeOK, Places
<1>2. /\ tasks_' \in Seq(Key) /\ dedup_' = dedup_ \cup {req[r].key}
      /\ Elems(tasks_') = Elems(tasks_) \cup (IF req[r].key \in dedup_ THEN {} ELSE {req[r].key})
  <2>1. CASE req[r].key \in dedup_
    BY <2>1 DEF RequestChunk, TypeOK
  <2>2. CASE req[r].key \notin dedup_
    <3>1. tasks_ \in Seq(Key) /\ tasks_' = Append(tasks_, req[r].key) /\ dedup_' = dedup_ \cup {req[r].key}
      BY <2>2 DEF RequestChunk, TypeOK
    <3>2. tasks_' \in Seq(Key) /\ Elems(tasks_') = Elems(tasks_) \cup {req[r].key}
      BY <1>1, <3>1, ElemsOfAppend
    <3>3. QED
      BY <2>2, <3>1, <3>2
  <2>3. QED
    BY <2>1, <2>2
<1>3. TypeOK'
  <2>1. req' \in [Req -> Requests]
    BY DEF RequestChunk, TypeOK, Requests
  <2>2. QED
    BY <1>1, <1>2, <2>1 DEF RequestChunk, TypeOK, Requests
<1>4. Places'
  BY <1>1 DEF Places
<1>5. AnsweredOnce'
  BY <1>1 DEF AnsweredOnce
<1>6. OneCopy'
  <2>1. \A p \in Req : req'[p].key = req[p].key /\ (req'[p].pc \in Early => req[p].pc \in Early)
    BY <1>1 DEF Early
  <2>2. \A key \in Key : \A p \in pending_gen_cbs_[key] : p \in Req
    BY DEF TypeOK
  <2>3. QED
    BY <1>1, <2>1, <2>2 DEF OneCopy, Early
<1>7. Waiting'
  BY <1>1 DEF Waiting
<1>8. OnItsWay'
  <2> SUFFICES ASSUME NEW p \in Req, req'[p].pc = "end", p \in pending_gen_cbs_[req'[p].key]
               PROVE  InFlight(req[p].key)'
    BY <1>1 DEF OnItsWay
  <2>1. CASE p = r
    <3>1. req'[p].key \in Elems(tasks_') \/ \E w \in Worker : worker[w].key = req'[p].key
      BY <1>1, <1>2, <2>1 DEF Dedup, Generating
    <3>2. QED
      BY <1>1, <3>1 DEF InFlight
  <2>2. CASE p # r
    <3>1. InFlight(req[p].key) /\ req'[p] = req[p]
      BY <1>1, <2>2 DEF OnItsWay
    <3>2. QED
      BY <1>1, <1>2, <3>1 DEF InFlight
  <2>3. QED
    BY <2>1, <2>2
<1>9. Dedup'
  <2>1. CASE req[r].key \in dedup_
    BY <1>1, <2>1 DEF RequestChunk, Dedup, Generating
  <2>2. CASE req[r].key \notin dedup_
    <3>1. tasks_' = Append(tasks_, req[r].key) /\ req[r].key \notin Elems(tasks_)
      BY <2>2 DEF RequestChunk, Dedup
    <3>2. \A m, n \in 1 .. Len(tasks_') : tasks_'[m] = tasks_'[n] => m = n
      BY <1>1, <3>1 DEF Dedup, TypeOK, Elems
    <3>3. QED
      BY <1>1, <1>2, <2>2, <3>2 DEF Dedup, Generating
  <2>3. QED
    BY <2>1, <2>2
<1>10. QED
  BY <1>3, <1>4, <1>5, <1>6, <1>7, <1>8, <1>9

\* A step that leaves the waiting callbacks alone may only move keys on.
LEMMA StillOnItsWay ==
    ASSUME IInv, UNCHANGED <<req, pending_gen_cbs_>>,
           \A key \in Key : InFlight(key) => InFlight(key)'
    PROVE  OnItsWay'
  BY DEF IInv, Callbacks, OnItsWay, Places

\* Callbacks wait and are called as before; a step of a worker or an encode
\* thread may only move a key on.
LEMMA KeysMove ==
    ASSUME IInv, UNCHANGED <<req, answers, pending_gen_cbs_>>,
           \A e \in Encoder : enc'[e].cbs = enc[e].cbs,
           \A key \in Key : InFlight(key) => InFlight(key)'
    PROVE  Callbacks'
<1> USE DEF IInv, Callbacks
<1>1. AnsweredOnce' /\ OneCopy' /\ Waiting'
  BY DEF AnsweredOnce, OneCopy, Waiting
<1>2. OnItsWay'
  BY StillOnItsWay
<1>3. QED
  BY <1>1, <1>2

LEMMA PopTaskKeeps == ASSUME IInv, NEW w \in Worker, PopTask(w) PROVE IInv'
<1> USE DEF IInv, Gen, Enc
<1> DEFINE k == worker'[w].key
<1>1. /\ worker[w].pc = "wait" /\ tasks_ # <<>> /\ tasks_ \in Seq(Key) /\ popFront_ \in BOOLEAN
      /\ k = tasks_[IF popFront_ THEN 1 ELSE Len(tasks_)]
      /\ tasks_' = IF popFront_ THEN Tail(tasks_) ELSE SubSeq(tasks_, 1, Len(tasks_) - 1)
      /\ worker' = [worker EXCEPT ![w] = [pc |-> "generate", key |-> k]]
      /\ UNCHANGED <<req, answers, pending_gen_cbs_, dedup_, Enc, cached, stored, crashed>>
  BY DEF PopTask, TypeOK
<1>2. /\ k \in Key /\ tasks_' \in Seq(Key) /\ Elems(tasks_) = {k} \cup Elems(tasks_')
      /\ k \notin Elems(tasks_')
      /\ \A m, n \in 1 .. Len(tasks_') : tasks_'[m] = tasks_'[n] => m = n
  <2> HIDE DEF k
  <2>1. \A m, n \in 1 .. Len(tasks_) : tasks_[m] = tasks_[n] => m = n
    BY DEF Dedup
  <2> DEFINE s == tasks_
             t == tasks_'
  <2>2. /\ s \in Seq(Key) /\ s # <<>> /\ popFront_ \in BOOLEAN
        /\ \/ popFront_ /\ k = s[1] /\ t = Tail(s)
           \/ ~popFront_ /\ k = s[Len(s)] /\ t = SubSeq(s, 1, Len(s) - 1)
    BY <1>1
  <2>3. \A m, n \in 1 .. Len(s) : s[m] = s[n] => m = n
    BY <2>1
  <2> HIDE DEF s, t
  <2> HIDE DEF IInv, Gen, Enc
  <2>4. /\ k \in Key /\ t \in Seq(Key) /\ Elems(s) = {k} \cup Elems(t)
        /\ k \notin Elems(t) /\ \A m, n \in 1 .. Len(t) : t[m] = t[n] => m = n
    BY ONLY <2>2, <2>3, ElemsOfPop
  <2>5. QED
    BY <2>4 DEF s, t
<1> HIDE DEF k
<1>3. worker'[w] = [pc |-> "generate", key |-> k] /\ \A u \in Worker \ {w} : worker'[u] = worker[u]
  BY <1>1 DEF TypeOK
<1>4. TypeOK'
  <2>1. popFront_' \in BOOLEAN
    BY DEF PopTask, TypeOK
  <2>2. QED
    BY <1>1, <1>2, <2>1 DEF TypeOK
<1>5. Places'
  <2>1. k # NoKey
    BY <1>2, NoKeyAssumption
  <2>2. QED
    BY <1>1, <1>3, <2>1 DEF Places
<1>6. \A key \in Key : InFlight(key) => InFlight(key)'
  <2> SUFFICES ASSUME NEW key \in Key, InFlight(key) PROVE InFlight(key)'
    OBVIOUS
  <2>1. CASE key \in Elems(tasks_)
    BY <1>1, <1>2, <1>3, <2>1 DEF InFlight
  <2>2. CASE \E u \in Worker : worker[u].key = key
    <3>1. PICK u \in Worker : worker[u].key = key
      BY <2>2
    <3>2. u # w
      BY <1>1, <3>1, NoKeyAssumption DEF Places
    <3>3. QED
      BY <1>3, <3>1, <3>2 DEF InFlight
  <2>3. CASE key \in Elems(encode_queue_) \/ \E e \in Encoder : key \in Elems(enc[e].tasks) \/ (enc[e].pc = "take" /\ enc[e].key = key)
    BY <1>1, <2>3 DEF InFlight
  <2>4. QED
    BY <2>1, <2>2, <2>3 DEF InFlight
<1>7. Callbacks'
  BY <1>1, <1>6, KeysMove
<1>8. Dedup'
  <2>1. Generating' = Generating \cup {w} /\ w \notin Generating
    BY <1>1, <1>3 DEF Generating
  <2>2. \A u \in Generating : worker'[u].key = worker[u].key /\ worker[u].key # k
    BY <1>2, <1>3, <2>1 DEF Dedup, Generating
  <2>3. {worker'[u].key : u \in Generating'} = {worker[u].key : u \in Generating} \cup {k}
    BY <1>3, <2>1, <2>2
  <2>4. dedup_' = Elems(tasks_') \cup {worker'[u].key : u \in Generating'}
    BY <1>1, <1>2, <2>3 DEF Dedup
  <2>5. \A u \in Generating' : worker'[u].key \notin Elems(tasks_')
    BY <1>2, <1>3, <2>1, <2>2 DEF Dedup
  <2>6. \A u, v \in Generating' : worker'[u].key = worker'[v].key => u = v
    BY <1>3, <2>1, <2>2 DEF Dedup
  <2>7. QED
    BY <1>2, <2>4, <2>5, <2>6 DEF Dedup
<1>9. QED
  BY <1>4, <1>5, <1>7, <1>8

LEMMA GeneratedKeeps == ASSUME IInv, NEW w \in Worker, Generated(w) PROVE IInv'
<1> USE DEF IInv, Gen, Enc
<1>1. /\ worker[w].pc = "generate" /\ worker'[w].pc = "output" /\ worker'[w].key = worker[w].key
      /\ \A u \in Worker \ {w} : worker'[u] = worker[u]
      /\ dedup_' = dedup_ \ {worker[w].key}
      /\ UNCHANGED <<req, answers, pending_gen_cbs_, tasks_, popFront_, Enc, cached, stored, crashed>>
  BY DEF Generated, TypeOK
<1>2. TypeOK'
  BY DEF Generated, TypeOK
<1>3. Places'
  BY <1>1 DEF Places
<1>4. \A key \in Key : InFlight(key) => InFlight(key)'
  BY <1>1 DEF InFlight
<1>5. Callbacks'
  BY <1>1, <1>4, KeysMove
<1>6. Dedup'
  <2>1. Generating' = Generating \ {w} /\ w \in Generating
    BY <1>1 DEF Generating
  <2>2. \A u \in Generating' :
            /\ u \in Generating /\ worker'[u].key = worker[u].key
            /\ worker[u].key # worker[w].key
    BY <1>1, <2>1 DEF Dedup, Generating
  <2>3. dedup_' = Elems(tasks_') \cup {worker'[u].key : u \in Generating'}
    <3>1. worker[w].key \notin Elems(tasks_)
      BY <2>1 DEF Dedup
    <3>2. {worker'[u].key : u \in Generating'} = {worker[u].key : u \in Generating} \ {worker[w].key}
      BY <2>1, <2>2
    <3>3. QED
      BY <1>1, <3>1, <3>2 DEF Dedup
  <2>4. QED
    BY <1>1, <2>1, <2>2, <2>3 DEF Dedup
<1>7. QED
  BY <1>2, <1>3, <1>5, <1>6

LEMMA OutputKeeps == ASSUME IInv, NEW w \in Worker, Output(w) PROVE IInv'
<1> USE DEF IInv, Gen, Enc
<1>1. /\ worker[w].pc = "output" /\ worker'[w] = [pc |-> "wait", key |-> NoKey]
      /\ \A u \in Worker \ {w} : worker'[u] = worker[u]
      /\ encode_queue_' = Append(encode_queue_, worker[w].key)
      /\ UNCHANGED <<req, answers, pending_gen_cbs_, dedup_, tasks_, popFront_, enc, cached, stored, crashed>>
  BY DEF Output, TypeOK
<1>2. worker[w].key \in Key
  BY <1>1 DEF TypeOK, Places
<1>3. /\ encode_queue_' \in Seq(Key)
      /\ Elems(encode_queue_') = Elems(encode_queue_) \cup {worker[w].key}
  BY <1>1, <1>2, ElemsOfAppend DEF TypeOK
<1>4. TypeOK'
  BY <1>3 DEF Output, TypeOK
<1>5. Places'
  BY <1>1 DEF Places
<1>6. \A key \in Key : InFlight(key) => InFlight(key)'
  BY <1>1, <1>3 DEF InFlight
<1>7. Callbacks'
  BY <1>1, <1>6, KeysMove
<1>8. Dedup'
  <2>1. Generating' = Generating /\ \A u \in Generating : worker'[u] = worker[u]
    BY <1>1 DEF Generating
  <2>2. QED
    BY <1>1, <2>1 DEF Dedup
<1>9. QED
  BY <1>4, <1>5, <1>7, <1>8

------------------------------------------------------------------------------
(* The encode threads.                                                      *)

Encoders == [pc : {"wait", "encode", "take", "front", "write"}, tasks : Seq(Key),
             key : Key \cup {NoKey}, cbs : SUBSET Req, palettes : SUBSET Key]

LEMMA SwapQueueKeeps == ASSUME IInv, NEW e \in Encoder, SwapQueue(e) PROVE IInv'
<1> USE DEF IInv, Gen, Enc
<1>1. /\ enc[e].pc = "wait" /\ enc[e].tasks = <<>>
      /\ enc' = [enc EXCEPT ![e] = [enc[e] EXCEPT !.pc = "encode", !.tasks = encode_queue_]]
      /\ encode_queue_' = <<>> /\ enc \in [Encoder -> Encoders] /\ encode_queue_ \in Seq(Key)
      /\ UNCHANGED <<req, answers, pending_gen_cbs_, Gen, cached, stored, crashed>>
  BY DEF SwapQueue, TypeOK, Places, Encoders
<1>2. /\ enc' \in [Encoder -> Encoders] /\ \A f \in Encoder \ {e} : enc'[f] = enc[f]
      /\ enc'[e].pc = "encode" /\ enc'[e].tasks = encode_queue_ /\ enc'[e].cbs = enc[e].cbs
  BY <1>1 DEF Encoders
<1>3. TypeOK'
  BY <1>1, <1>2 DEF TypeOK, Encoders
<1>4. Places'
  BY <1>1, <1>2 DEF Places
<1>5. \A key \in Key : InFlight(key) => InFlight(key)'
  BY <1>1, <1>2, ElemsOfEmpty DEF InFlight
<1>6. Callbacks'
  <2>1. \A f \in Encoder : enc'[f].cbs = enc[f].cbs
    BY <1>2
  <2>2. QED
    BY <1>1, <1>5, <2>1, KeysMove
<1>7. Dedup'
  BY <1>1 DEF Dedup, Generating
<1>8. QED
  BY <1>3, <1>4, <1>6, <1>7

LEMMA EncodeKeeps == ASSUME IInv, NEW e \in Encoder, Encode(e) PROVE IInv'
<1> USE DEF IInv, Gen, Enc
<1>1. /\ enc[e].pc = "encode" /\ enc \in [Encoder -> Encoders] /\ enc[e].tasks \in Seq(Key)
      /\ UNCHANGED <<req, answers, pending_gen_cbs_, Gen, encode_queue_, stored, crashed>>
  BY DEF Encode, TypeOK, Encoders
<1>2. /\ enc' \in [Encoder -> Encoders] /\ cached' \subseteq Key
      /\ \A f \in Encoder \ {e} : enc'[f] = enc[f]
      /\ enc'[e].cbs = enc[e].cbs /\ enc'[e].pc # "front"
      /\ \/ /\ enc'[e].pc = "take" /\ enc'[e].key \in Key
            /\ Elems(enc[e].tasks) = {enc'[e].key} \cup Elems(enc'[e].tasks)
         \/ enc'[e].pc = "write" /\ enc[e].tasks = <<>> /\ enc'[e].tasks = <<>>
  <2>1. CASE enc[e].tasks # <<>>
    <3> DEFINE s == enc[e].tasks
    <3>1. Head(s) \in Key /\ Tail(s) \in Seq(Key) /\ Elems(s) = {Head(s)} \cup Elems(Tail(s))
      BY <1>1, <2>1, ElemsOfHead
    <3>2. /\ enc' = [enc EXCEPT ![e] = [enc[e] EXCEPT !.pc = "take", !.tasks = Tail(s), !.key = Head(s),
                                                    !.palettes = @ \cup {Head(s)}]]
          /\ cached' = cached \cup {Head(s)}
      BY <1>1, <2>1 DEF Encode, Encoders
    <3>3. /\ enc'[e] \in Encoders /\ \A f \in Encoder \ {e} : enc'[f] = enc[f]
          /\ enc'[e].pc = "take" /\ enc'[e].tasks = Tail(s) /\ enc'[e].key = Head(s)
          /\ enc'[e].cbs = enc[e].cbs
      <4> HIDE DEF s
      <4>1. QED
        BY <1>1, <3>1, <3>2 DEF Encoders
    <3>4. enc' \in [Encoder -> Encoders]
      BY <1>1, <3>2, <3>3
    <3>5. cached' \subseteq Key
      BY <3>1, <3>2 DEF TypeOK
    <3>6. QED
      BY <3>1, <3>3, <3>4, <3>5
  <2>2. CASE enc[e].tasks = <<>>
    <3>1. enc' = [enc EXCEPT ![e] = [enc[e] EXCEPT !.pc = "write"]] /\ cached' = cached
      BY <1>1, <2>2 DEF Encode, Encoders
    <3>2. QED
      BY <1>1, <2>2, <3>1 DEF TypeOK, Encoders
  <2>3. QED
    BY <2>1, <2>2
<1>3. TypeOK'
  BY <1>1, <1>2 DEF TypeOK, Encoders
<1>4. Places'
  BY <1>1, <1>2 DEF Places
<1>5. \A key \in Key : InFlight(key) => InFlight(key)'
  <2> SUFFICES ASSUME NEW key \in Key, InFlight(key) PROVE InFlight(key)'
    OBVIOUS
  <2>1. CASE key \in Elems(enc[e].tasks)
    BY <1>2, <2>1, ElemsOfEmpty DEF InFlight
  <2>2. CASE key \notin Elems(enc[e].tasks)
    BY <1>1, <1>2, <2>2 DEF InFlight
  <2>3. QED
    BY <2>1, <2>2
<1>6. Callbacks'
  <2>1. \A f \in Encoder : enc'[f].cbs = enc[f].cbs
    BY <1>2
  <2>2. QED
    BY <1>1, <1>5, <2>1, KeysMove
<1>7. Dedup'
  BY <1>1 DEF Dedup, Generating
<1>8. QED
  BY <1>3, <1>4, <1>6, <1>7

LEMMA TakeCallbacksKeeps == ASSUME IInv, NEW e \in Encoder, TakeCallbacks(e) PROVE IInv'
<1> USE DEF IInv, Callbacks, Gen, Enc
<1> DEFINE k == enc[e].key
<1>1. /\ enc[e].pc = "take" /\ k \in Key /\ enc[e].cbs = {} /\ enc \in [Encoder -> Encoders]
      /\ pending_gen_cbs_ \in [Key -> SUBSET Req]
      /\ enc' = [enc EXCEPT ![e] = [enc[e] EXCEPT !.pc = "front", !.cbs = pending_gen_cbs_[k]]]
      /\ pending_gen_cbs_' = [pending_gen_cbs_ EXCEPT ![k] = {}]
      /\ UNCHANGED <<req, answers, Gen, encode_queue_, cached, stored, crashed>>
  BY DEF TakeCallbacks, TypeOK, Places, Encoders
<1>2. /\ enc' \in [Encoder -> Encoders] /\ \A f \in Encoder \ {e} : enc'[f] = enc[f]
      /\ enc'[e].pc = "front" /\ enc'[e].cbs = pending_gen_cbs_[k] /\ enc'[e].key = k
      /\ enc'[e].tasks = enc[e].tasks
  BY <1>1 DEF Encoders
<1>3. /\ pending_gen_cbs_' \in [Key -> SUBSET Req] /\ pending_gen_cbs_'[k] = {}
      /\ \A key \in Key \ {k} : pending_gen_cbs_'[key] = pending_gen_cbs_[key]
  BY <1>1
<1>4. TypeOK'
  BY <1>1, <1>2, <1>3 DEF TypeOK, Encoders
<1>5. Places'
  BY <1>1, <1>2 DEF Places
<1>6. AnsweredOnce'
  BY <1>1 DEF AnsweredOnce
<1> HIDE DEF k
<1>7. OneCopy'
  <2>1. ASSUME NEW r \in Req, req[r].pc \in {"new", "read", "push"}
        PROVE  /\ answers[r] = 0 /\ \A key \in Key : r \notin pending_gen_cbs_'[key]
               /\ \A f \in Encoder : r \notin enc'[f].cbs
    BY <1>1, <1>2, <1>3, <2>1 DEF OneCopy
  <2>2. ASSUME NEW key \in Key, NEW r \in pending_gen_cbs_'[key]
        PROVE  req[r].key = key /\ answers[r] = 0 /\ \A f \in Encoder : r \notin enc'[f].cbs
    <3>1. key # k /\ r \in pending_gen_cbs_[key]
      BY <1>3, <2>2
    <3>2. req[r].key = key /\ answers[r] = 0 /\ \A f \in Encoder : r \notin enc[f].cbs
      BY <3>1 DEF OneCopy
    <3>3. r \notin pending_gen_cbs_[k]
      BY <1>1, <3>1, <3>2 DEF OneCopy
    <3>4. QED
      BY <1>2, <3>2, <3>3
  <2>3. ASSUME NEW f \in Encoder, NEW r \in enc'[f].cbs
        PROVE  answers[r] = 0 /\ \A g \in Encoder \ {f} : r \notin enc'[g].cbs
    <3>1. CASE f = e
      BY <1>1, <1>2, <2>3, <3>1 DEF OneCopy
    <3>2. CASE f # e
      <4>1. r \in enc[f].cbs
        BY <1>2, <2>3, <3>2
      <4>2. r \notin pending_gen_cbs_[k]
        BY <1>1, <4>1 DEF OneCopy
      <4>3. QED
        BY <1>2, <3>2, <4>1, <4>2 DEF OneCopy
    <3>3. QED
      BY <3>1, <3>2
  <2>4. QED
    BY <1>1, <2>1, <2>2, <2>3 DEF OneCopy
<1>8. Waiting'
  <2> SUFFICES ASSUME NEW r \in Req, req[r].pc \in {"request", "end"}, answers[r] = 0
               PROVE  r \in pending_gen_cbs_'[req[r].key] \/ \E f \in Encoder : r \in enc'[f].cbs
    BY <1>1 DEF Waiting
  <2>1. CASE r \in pending_gen_cbs_[req[r].key]
    <3>1. req[r].key \in Key
      BY DEF Places
    <3>2. QED
      BY <1>2, <1>3, <2>1, <3>1
  <2>2. CASE \E f \in Encoder : r \in enc[f].cbs
    BY <1>1, <1>2, <2>2
  <2>3. QED
    BY <2>1, <2>2 DEF Waiting
<1>9. OnItsWay'
  <2> SUFFICES ASSUME NEW r \in Req, req[r].pc = "end", r \in pending_gen_cbs_'[req[r].key]
               PROVE  InFlight(req[r].key)'
    BY <1>1 DEF OnItsWay
  <2>1. req[r].key \in Key /\ req[r].key # k /\ r \in pending_gen_cbs_[req[r].key]
    <3>1. req[r].key \in Key
      BY DEF Places
    <3>2. QED
      BY <1>3, <3>1
  <2>2. InFlight(req[r].key)
    BY <2>1 DEF OnItsWay
  <2>3. \A f \in Encoder : enc'[f].tasks = enc[f].tasks
    BY <1>2
  <2>4. \A f \in Encoder : enc[f].pc = "take" /\ enc[f].key = req[r].key
                           => enc'[f].pc = "take" /\ enc'[f].key = req[r].key
    BY <1>2, <2>1 DEF k
  <2>5. QED
    BY <1>1, <2>2, <2>3, <2>4 DEF InFlight
<1>10. Dedup'
  BY <1>1 DEF Dedup, Generating
<1>11. QED
  BY <1>4, <1>5, <1>6, <1>7, <1>8, <1>9, <1>10

LEMMA CallCallbacksKeeps == ASSUME IInv, NEW e \in Encoder, CallCallbacks(e) PROVE IInv'
<1> USE DEF IInv, Callbacks, Gen, Enc
<1>1. /\ enc[e].pc = "front" /\ enc \in [Encoder -> Encoders] /\ answers \in [Req -> Nat]
      /\ UNCHANGED <<req, pending_gen_cbs_, Gen, encode_queue_, cached, stored>>
  BY DEF CallCallbacks, TypeOK, Encoders
<1>2. CASE enc[e].cbs = {}
  <2>1. crashed' = TRUE /\ UNCHANGED <<answers, enc>>
    BY <1>2 DEF CallCallbacks
  <2>2. TypeOK' /\ Places' /\ AnsweredOnce' /\ OneCopy' /\ Waiting'
    BY <1>1, <2>1 DEF TypeOK, Places, AnsweredOnce, OneCopy, Waiting
  <2>3. OnItsWay' /\ Dedup'
    BY <1>1, <2>1 DEF OnItsWay, InFlight, Dedup, Generating
  <2>4. QED
    BY <2>2, <2>3
<1>3. CASE enc[e].cbs # {}
  <2>1. /\ answers' = [r \in Req |-> IF r \in enc[e].cbs THEN answers[r] + 1 ELSE answers[r]]
        /\ enc' = [enc EXCEPT ![e] = [enc[e] EXCEPT !.pc = "encode", !.cbs = {}, !.key = NoKey]]
        /\ crashed' = crashed
    BY <1>1, <1>3 DEF CallCallbacks, Encoders
  <2>2. /\ enc' \in [Encoder -> Encoders] /\ \A f \in Encoder \ {e} : enc'[f] = enc[f]
        /\ enc'[e].pc = "encode" /\ enc'[e].cbs = {} /\ enc'[e].tasks = enc[e].tasks
    BY <1>1, <2>1 DEF Encoders
  <2>3. /\ answers' \in [Req -> Nat]
        /\ \A r \in Req : /\ r \in enc[e].cbs => answers[r] = 0 /\ answers'[r] = 1
                          /\ r \notin enc[e].cbs => answers'[r] = answers[r]
    <3>1. \A r \in enc[e].cbs : answers[r] = 0
      BY DEF OneCopy
    <3>2. QED
      BY <1>1, <2>1, <3>1
  <2>4. TypeOK'
    BY <1>1, <2>1, <2>2, <2>3 DEF TypeOK, Encoders
  <2>5. Places'
    BY <1>1, <2>2 DEF Places
  <2>6. AnsweredOnce'
    BY <2>3 DEF AnsweredOnce
  <2>7. OneCopy'
    <3>1. ASSUME NEW r \in Req, req[r].pc \in {"new", "read", "push"}
          PROVE  /\ answers'[r] = 0 /\ \A key \in Key : r \notin pending_gen_cbs_[key]
                 /\ \A f \in Encoder : r \notin enc'[f].cbs
      BY <2>2, <2>3, <3>1 DEF OneCopy
    <3>2. ASSUME NEW key \in Key, NEW r \in pending_gen_cbs_[key]
          PROVE  req[r].key = key /\ answers'[r] = 0 /\ \A f \in Encoder : r \notin enc'[f].cbs
      <4>1. r \in Req
        BY <3>2 DEF TypeOK
      <4>2. QED
        BY <2>2, <2>3, <3>2, <4>1 DEF OneCopy
    <3>3. ASSUME NEW f \in Encoder, NEW r \in enc'[f].cbs
          PROVE  answers'[r] = 0 /\ \A g \in Encoder \ {f} : r \notin enc'[g].cbs
      <4>1. f # e /\ r \in enc[f].cbs /\ r \in Req
        BY <1>1, <2>2, <3>3 DEF Encoders
      <4>2. r \notin enc[e].cbs /\ answers[r] = 0 /\ \A g \in Encoder \ {f} : r \notin enc[g].cbs
        BY <4>1 DEF OneCopy
      <4>3. QED
        BY <2>2, <2>3, <4>1, <4>2
    <3>4. QED
      BY <1>1, <3>1, <3>2, <3>3 DEF OneCopy
  <2>8. Waiting'
    <3> SUFFICES ASSUME NEW r \in Req, req[r].pc \in {"request", "end"}, answers'[r] = 0
                 PROVE  r \in pending_gen_cbs_[req[r].key] \/ \E f \in Encoder : r \in enc'[f].cbs
      BY <1>1 DEF Waiting
    <3>1. r \notin enc[e].cbs /\ answers[r] = 0
      BY <2>3
    <3>2. QED
      BY <2>2, <3>1 DEF Waiting
  <2>9. \A key \in Key : InFlight(key) => InFlight(key)'
    <3>1. \A f \in Encoder : enc'[f].tasks = enc[f].tasks
      BY <2>2
    <3>2. \A f \in Encoder : enc[f].pc = "take" => enc'[f] = enc[f]
      BY <1>1, <2>2
    <3>3. QED
      BY <1>1, <3>1, <3>2 DEF InFlight
  <2>10. OnItsWay'
    BY <1>1, <2>9, StillOnItsWay
  <2>11. Dedup'
    BY <1>1 DEF Dedup, Generating
  <2>12. QED
    BY <2>4, <2>5, <2>6, <2>7, <2>8, <2>10, <2>11
<1>4. QED
  BY <1>2, <1>3

LEMMA FlushPalettesKeeps == ASSUME IInv, NEW e \in Encoder, FlushPalettes(e) PROVE IInv'
<1> USE DEF IInv, Gen, Enc
<1>1. /\ enc[e].pc = "write" /\ enc[e].tasks = <<>> /\ enc \in [Encoder -> Encoders]
      /\ UNCHANGED <<req, answers, pending_gen_cbs_, Gen, encode_queue_, cached, crashed>>
  BY DEF FlushPalettes, TypeOK, Places, Encoders
<1>2. /\ enc' \in [Encoder -> Encoders] /\ \A f \in Encoder \ {e} : enc'[f] = enc[f]
      /\ enc'[e].pc = "wait" /\ enc'[e].cbs = enc[e].cbs /\ enc'[e].tasks = <<>>
      /\ stored' \subseteq Key
  <2>1. enc[e].palettes \subseteq Key /\ stored \subseteq Key
    BY <1>1 DEF TypeOK, Encoders
  <2>2. \/ enc' = [enc EXCEPT ![e] = [enc[e] EXCEPT !.pc = "wait", !.palettes = {}]]
        \/ enc' = [enc EXCEPT ![e] = [enc[e] EXCEPT !.pc = "wait"]]
    BY <1>1 DEF FlushPalettes, Encoders
  <2>3. stored' \subseteq Key
    BY <2>1 DEF FlushPalettes
  <2>4. \/ enc'[e] = [enc[e] EXCEPT !.pc = "wait", !.palettes = {}]
        \/ enc'[e] = [enc[e] EXCEPT !.pc = "wait"]
    BY <1>1, <2>2
  <2>5. /\ enc'[e] \in Encoders /\ enc'[e].pc = "wait" /\ enc'[e].cbs = enc[e].cbs
        /\ enc'[e].tasks = <<>>
    BY <1>1, <2>4 DEF Encoders
  <2>6. enc' \in [Encoder -> Encoders] /\ \A f \in Encoder \ {e} : enc'[f] = enc[f]
    BY <1>1, <2>2, <2>5
  <2>7. QED
    BY <2>3, <2>5, <2>6
<1>3. TypeOK'
  BY <1>1, <1>2 DEF TypeOK, Encoders
<1>4. Places'
  BY <1>1, <1>2 DEF Places
<1>5. \A key \in Key : InFlight(key) => InFlight(key)'
  <2>1. \A f \in Encoder : enc'[f].tasks = enc[f].tasks
    BY <1>1, <1>2
  <2>2. \A f \in Encoder : enc[f].pc = "take" => enc'[f] = enc[f]
    BY <1>1, <1>2
  <2>3. QED
    BY <1>1, <2>1, <2>2 DEF InFlight
<1>6. Callbacks'
  <2>1. \A f \in Encoder : enc'[f].cbs = enc[f].cbs
    BY <1>2
  <2>2. QED
    BY <1>1, <1>5, <2>1, KeysMove
<1>7. Dedup'
  BY <1>1 DEF Dedup, Generating
<1>8. QED
  BY <1>3, <1>4, <1>6, <1>7

LEMMA EvictKeeps == ASSUME IInv, NEW key \in Key, Evict(key) PROVE IInv'
<1> USE DEF IInv, Gen, Enc
<1>1. /\ cached' \subseteq Key
      /\ UNCHANGED <<req, answers, pending_gen_cbs_, Gen, Enc, stored, crashed>>
  BY DEF Evict, TypeOK
<1>2. TypeOK' /\ Places' /\ Dedup'
  BY <1>1 DEF TypeOK, Places, Dedup, Generating
<1>3. Callbacks'
  <2>1. \A k \in Key : InFlight(k) => InFlight(k)'
    BY <1>1 DEF InFlight
  <2>2. QED
    BY <1>1, <2>1, KeysMove
<1>4. QED
  BY <1>2, <1>3

------------------------------------------------------------------------------
(* The theorems.                                                            *)

LEMMA InitHolds == Init => IInv
<1> SUFFICES ASSUME Init PROVE IInv
  OBVIOUS
<1> USE DEF Init, EncIdle
<1>1. TypeOK
  <2>1. EncIdle \in Encoders
    BY DEF Encoders
  <2>2. enc \in [Encoder -> Encoders]
    BY <2>1
  <2>3. req \in [Req -> Requests] /\ worker \in [Worker -> [pc : {"wait", "generate", "output"},
                                                         key : Key \cup {NoKey}]]
    BY DEF Requests
  <2>4. /\ answers \in [Req -> Nat] /\ pending_gen_cbs_ \in [Key -> SUBSET Req]
        /\ tasks_ \in Seq(Key) /\ encode_queue_ \in Seq(Key)
    OBVIOUS
  <2>5. /\ dedup_ \subseteq Key /\ popFront_ \in BOOLEAN
        /\ cached \subseteq Key /\ stored \subseteq Key /\ crashed \in BOOLEAN
    OBVIOUS
  <2> HIDE DEF Init, EncIdle
  <2>6. QED
    BY <2>2, <2>3, <2>4, <2>5 DEF TypeOK, Encoders, Requests
<1>2. Places
  BY NoKeyAssumption DEF Places
<1>3. Callbacks
  BY DEF Callbacks, AnsweredOnce, OneCopy, Waiting, OnItsWay
<1>4. Dedup
  BY ElemsOfEmpty DEF Dedup, Generating
<1>5. QED
  BY <1>1, <1>2, <1>3, <1>4 DEF IInv

LEMMA NextKeeps == IInv /\ [Next]_vars => IInv'
<1> SUFFICES ASSUME IInv, [Next]_vars PROVE IInv'
  OBVIOUS
<1>1. ASSUME NEW r \in Req, NEW key \in Key, AsyncGetChunk(r, key) PROVE IInv'
  BY <1>1, AsyncGetChunkKeeps
<1>2. ASSUME NEW r \in Req, IoStep(r) PROVE IInv'
  BY <1>2, ReadKeeps, PushCallbackKeeps, RequestChunkKeeps DEF IoStep
<1>3. ASSUME NEW w \in Worker, WorkerStep(w) PROVE IInv'
  BY <1>3, PopTaskKeeps, GeneratedKeeps, OutputKeeps DEF WorkerStep
<1>4. ASSUME NEW e \in Encoder, EncoderStep(e) PROVE IInv'
  BY <1>4, SwapQueueKeeps, EncodeKeeps, TakeCallbacksKeeps, CallCallbacksKeeps, FlushPalettesKeeps
     DEF EncoderStep
<1>5. ASSUME NEW key \in Key, Evict(key) PROVE IInv'
  BY <1>5, EvictKeeps
<1>6. CASE UNCHANGED vars
  <2>1. TypeOK' /\ Places' /\ Dedup'
    BY <1>6 DEF vars, IInv, TypeOK, Places, Dedup, Generating
  <2>2. \A key \in Key : InFlight(key) => InFlight(key)'
    BY <1>6 DEF vars, InFlight
  <2>3. UNCHANGED <<req, answers, pending_gen_cbs_>> /\ \A e \in Encoder : enc'[e].cbs = enc[e].cbs
    BY <1>6 DEF vars
  <2>4. QED
    BY <2>1, <2>2, <2>3, KeysMove DEF IInv
<1>7. QED
  BY <1>1, <1>2, <1>3, <1>4, <1>5, <1>6 DEF Next

LEMMA Invariance == Spec => []IInv
  BY InitHolds, NextKeeps, PTL DEF Spec

\* The variables keep their types.
THEOREM TypeCorrect == Spec => []TypeOK
<1>1. IInv => TypeOK
  BY DEF IInv
<1>2. QED
  BY <1>1, Invariance, PTL

\* However requests, generations and encodings of a chunk overlap, the
\* callback of AsyncGetChunk() is called at most once.
THEOREM AnsweredOnceHolds == Spec => []AnsweredOnce
<1>1. IInv => AnsweredOnce
  BY DEF IInv, Callbacks
<1>2. QED
  BY <1>1, Invariance, PTL

\* A callback left in pending_gen_cbs_ always has a chunk coming: dropping a
\* request for a key in dedup_ strands nobody, because PushCallback came first.
THEOREM NoOrphanCallbackHolds == Spec => []NoOrphanCallback
<1>1. IInv => NoOrphanCallback
  BY DEF IInv, Callbacks, Waiting, OnItsWay, NoOrphanCallback
<1>2. QED
  BY <1>1, Invariance, PTL

\* A sequence whose elements differ has as many elements as its length.
LEMMA DistinctCount ==
    ASSUME NEW s \in Seq(Key), \A m, n \in 1 .. Len(s) : s[m] = s[n] => m = n
    PROVE  Cardinality(Elems(s)) = Len(s)
<1> DEFINE D == 1 .. Len(s)
<1>1. IsFiniteSet(D) /\ Cardinality(D) = Len(s)
  <2> DEFINE n == Len(s)
  <2>1. n \in Nat
    OBVIOUS
  <2> HIDE DEF n
  <2>2. IsFiniteSet(1 .. n) /\ Cardinality(1 .. n) = IF 1 > n THEN 0 ELSE n - 1 + 1
    BY <2>1, FS_Interval, 1 \in Int, n \in Int
  <2>3. IsFiniteSet(1 .. n) /\ Cardinality(1 .. n) = n
    BY <2>1, <2>2
  <2>4. QED
    BY <2>3 DEF n
<1>2. s \in Bijection(D, Elems(s))
  BY DEF Bijection, Injection, Surjection, IsInjective, Elems
<1>3. QED
  BY <1>1, <1>2, FS_Bijection DEF ExistsBijection

\* dedup_ holds exactly the keys waiting for or with a worker, each once: a
\* chunk is not generated twice for two requests that overlap.
THEOREM DedupIsExactHolds == Spec => []DedupIsExact
<1>1. IInv => DedupIsExact
  BY DistinctCount DEF IInv, TypeOK, Dedup, Generating, DedupIsExact
<1>2. QED
  BY <1>1, Invariance, PTL
==============================================================================
