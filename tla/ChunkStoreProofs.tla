-------------------------- MODULE ChunkStoreProofs --------------------------
(***************************************************************************)
(* ChunkStore keeps what it acknowledged, for any number of threads,       *)
(* chunks, blocks and objects, any cache size and any faults: outside the  *)
(* races that `hazard' names.                                              *)
(***************************************************************************)
EXTENDS ChunkStore, TLAPS

------------------------------------------------------------------------------
(* The inductive invariant.                                                 *)

HitPC == {"set_hit", "cas_hit", "cas_set"}
PutPC == {"set_put", "cas_put"}
CasPC == {"cas_hit", "cas_set", "cas_read", "cas_put"}
DonePC == {"erase_palette", "mark_dirty"}
LocPC == {"get_mark", "get_put", "callback"}
ChangePC == HitPC \cup PutPC \cup DonePC \cup {"set_read", "cas_read"}
PC == ChangePC \cup PinPC \cup LocPC \cup {"idle", "get_read", "block_read", "block_put"}

ThreadState ==
    [pc : PC, key : Key \cup {None}, block : Block \cup {None}, ptr : Obj \cup {Null},
     loc : Content \cup {None}, need : SUBSET Block]
FlushState ==
    [pc : {"idle", "next", "write"}, keys : SUBSET Key, key : Key \cup {None},
     snap : Content \cup {None}]

\* The types of what TypeOK leaves open.
Types ==
    /\ TypeOK
    /\ th \in [Thread -> ThreadState]
    /\ flush \in FlushState
    /\ wins \in [Key -> [Block -> Nat]]

\* An object caches one chunk.
OneKey ==
    \A key, other \in Key : cache[key] # Null /\ cache[key] = cache[other] => key = other

\* What thread t's program counter says of its fields, of its pin and of the
\* mutex.
InPlace(t) ==
    /\ th[t].pc # "idle" => up = "up" /\ th[t].key \in Key
    /\ th[t].pc \in ChangePC => th[t].block \in Block
    /\ th[t].pc \in PinPC \cup HitPC => th[t].ptr \in Obj
    /\ th[t].pc \in PutPC \cup LocPC => th[t].loc \in Content
    /\ th[t].pc \in PutPC => th[t].block \in th[t].loc.set
    /\ th[t].pc \in PinPC => \A key \in Key : cache[key] = th[t].ptr => key = th[t].key
    /\ th[t].pc \in CasPC => mutex = t
    /\ th[t].need \subseteq Acked(th[t].key)

Flushing ==
    /\ flush.pc = "idle" => flush.keys = {}
    /\ flush.pc = "write" => flush.key \in Key /\ flush.snap \in Content

Closed ==
    up = "closed" =>
        /\ flush.pc = "idle" /\ dirty = {}
        /\ \A key \in Key : cache[key] = Null /\ palette[key] = None

Shape == OneKey /\ (\A t \in Thread : InPlace(t)) /\ Flushing /\ Closed

Writing(key) == flush.pc = "write" /\ flush.key = key

\* While no race has dropped a change of key, what is acknowledged or stored is
\* what the next lookup finds; a palette or a chunk on its way to LMDB lacks
\* nothing that is stored, and a palette nothing that is acknowledged.
KeyClean(key) ==
    hazard[key] = {} =>
        /\ Acked(key) \cup SetOf(disk[key]) \subseteq Held(key)
        /\ palette[key] # None =>
               /\ Acked(key) \cup SetOf(disk[key]) \subseteq palette[key].set
               /\ palette[key].set \subseteq Held(key)
        /\ Writing(key) =>
               /\ SetOf(disk[key]) \subseteq flush.snap.set
               /\ flush.snap.set \subseteq Held(key)
               /\ palette[key] # None => flush.snap.set \subseteq palette[key].set
        /\ \A b \in Acked(key) :
               \/ b \in SetOf(disk[key])
               \/ key \in dirty \cup flush.keys
               \/ Writing(key) /\ b \in flush.snap.set
        /\ \A b \in Block : wins[key][b] <= 1

\* The same of what thread t holds.
Own(t) ==
    hazard[th[t].key] = {} =>
        /\ th[t].pc \in DonePC => th[t].block \in Held(th[t].key)
        /\ th[t].pc = "mark_dirty" /\ palette[th[t].key] # None =>
               th[t].block \in palette[th[t].key].set
        /\ th[t].pc \in PinPC =>
               /\ obj[th[t].ptr].set \subseteq Held(th[t].key)
               /\ th[t].need \subseteq obj[th[t].ptr].set
        /\ th[t].pc = "get_mark" => th[t].loc.set \subseteq Held(th[t].key)
        /\ th[t].pc \in LocPC => th[t].need \subseteq th[t].loc.set
        /\ th[t].pc = "get_read" => th[t].need \subseteq SetOf(disk[th[t].key])
        /\ th[t].pc = "cas_read" /\ wins[th[t].key][th[t].block] # 0 =>
               th[t].block \in SetOf(disk[th[t].key])
        /\ th[t].pc \in {"cas_set", "cas_put"} => wins[th[t].key][th[t].block] = 0

Busy(t) == th[t].pc # "idle" => Own(t)

\* A CAS that won is acknowledged or about to be.
Won ==
    \A key \in Key, b \in Block :
        wins[key][b] # 0 =>
            \/ b \in Acked(key)
            \/ \E t \in Thread : th[t].pc \in DonePC /\ th[t].key = key /\ th[t].block = b

Clean == (\A key \in Key : KeyClean(key)) /\ (\A t \in Thread : Busy(t)) /\ Won

IInv == Types /\ Shape /\ Clean

------------------------------------------------------------------------------
(* Contents and the cache.                                                  *)

LEMMA ContentTypes ==
    /\ \A key \in Key : Terrain(key) \in Content /\ Terrain(key).set = {}
    /\ Empty \in Content /\ Empty.set = {}
    /\ \A c \in Content, b \in Block :
           Change(c, b) \in Content /\ Change(c, b).set = c.set \cup {b}
    /\ \A c \in Content : SetOf(c) = c.set /\ c # None /\ c # Undecodable
    /\ SetOf(None) = {} /\ SetOf(Undecodable) = {}
    /\ \A c \in Content \cup {None, Undecodable} : SetOf(c) \subseteq Block
  BY SentinelAssumption DEF Content, Terrain, Empty, Change, SetOf

LEMMA IdleTyped == Idle \in ThreadState /\ FlushIdle \in FlushState
  BY DEF Idle, FlushIdle, ThreadState, FlushState, PC

\* A thread takes a new state; the others keep theirs.
LEMMA Becomes ==
    ASSUME NEW t \in Thread, NEW r \in ThreadState, Types, Become(t, r)
    PROVE  /\ th' \in [Thread -> ThreadState] /\ th'[t] = r
           /\ \A u \in Thread \ {t} : th'[u] = th[u]
           /\ \A u \in Thread : th'[u].loc \in Content \cup {None} /\ th'[u].need \subseteq Block
<1>1. th' \in [Thread -> ThreadState] /\ th'[t] = r /\ \A u \in Thread \ {t} : th'[u] = th[u]
  BY DEF Types, Become
<1>2. \A u \in Thread : th'[u] \in ThreadState
  BY <1>1
<1>3. QED
  BY <1>1, <1>2 DEF ThreadState

\* put(): the entry it replaces or evicts had nothing the caller or the database
\* lacks, or the loss is recorded.
LEMMA PutKeeps ==
    ASSUME NEW key \in Key, NEW o \in Free, NEW c \in Content,
           Types, OneKey, PutObject(key, o, c), UNCHANGED disk
    PROVE  /\ cache' \in [Key -> Obj \cup {Null}] /\ obj' \in [Obj -> Content]
           /\ hazard' \in [Key -> SUBSET HazardName]
           /\ OneKey'
           /\ \A k \in Key : cache'[k] \in {Null, o, cache[k]}
           /\ obj'[o] = c /\ \A p \in Obj \ {o} : obj'[p] = obj[p]
           /\ \A k \in Key : hazard'[k] = {} =>
                  hazard[k] = {} /\ Held(k) \subseteq Held(k)'
           /\ Held(key)' = c.set
<1> DEFINE lost == IF ~(Held(key) \cup SetOf(disk[key]) \subseteq c.set) THEN {"replaced"} ELSE {}
<1>1. PICK victim \in Key :
        /\ victim # key => cache[victim] # Null /\ cache[key] = Null
        /\ cache' = [cache EXCEPT ![victim] = Null, ![key] = o]
        /\ obj' = [obj EXCEPT ![o] = c]
        /\ hazard' = [hazard EXCEPT
                         ![key] = @ \cup lost,
                         ![victim] = @ \cup
                            IF victim # key /\ ~(Held(victim) \subseteq SetOf(disk[victim]))
                            THEN {"evicted"} ELSE {}]
  BY DEF PutObject, Cached
<1>2. /\ o \in Obj /\ o # Null /\ \A k \in Key : cache[k] # o
      /\ cache \in [Key -> Obj \cup {Null}] /\ obj \in [Obj -> Content]
      /\ hazard \in [Key -> SUBSET HazardName]
  BY SentinelAssumption DEF Free, Types, TypeOK
<1>3. cache' \in [Key -> Obj \cup {Null}] /\ obj' \in [Obj -> Content]
  BY <1>1, <1>2
<1>4. hazard' \in [Key -> SUBSET HazardName]
  BY <1>1, <1>2 DEF HazardName
<1>5. /\ cache'[key] = o
      /\ victim # key => cache'[victim] = Null
      /\ \A k \in Key \ {key, victim} : cache'[k] = cache[k] /\ hazard'[k] = hazard[k]
      /\ hazard'[key] = hazard[key] \cup lost
      /\ victim # key => hazard'[victim] = hazard[victim] \cup
            IF ~(Held(victim) \subseteq SetOf(disk[victim])) THEN {"evicted"} ELSE {}
  BY <1>1, <1>2
<1>6. obj'[o] = c /\ \A p \in Obj \ {o} : obj'[p] = obj[p]
  BY <1>1, <1>2
<1>7. OneKey'
  BY <1>2, <1>5 DEF OneKey
<1>8. \A k \in Key : cache'[k] \in {Null, o, cache[k]}
  BY <1>5
<1>9. Held(key)' = c.set
  BY <1>2, <1>5, <1>6 DEF Held
<1>10. ASSUME NEW k \in Key, hazard'[k] = {} PROVE hazard[k] = {} /\ Held(k) \subseteq Held(k)'
  <2>1. CASE k = key
    BY <1>5, <1>9, <1>10, <2>1
  <2>2. CASE k = victim /\ victim # key
    <3>1. Held(k)' = SetOf(disk[k])
      BY <1>5, <2>2 DEF Held
    <3>2. QED
      BY <1>5, <1>10, <2>2, <3>1
  <2>3. CASE k \notin {key, victim}
    <3>1. cache'[k] = cache[k] /\ cache[k] # o /\ hazard'[k] = hazard[k]
      BY <1>2, <1>5, <2>3
    <3>2. cache[k] # Null => obj'[cache[k]] = obj[cache[k]]
      BY <1>2, <1>6, <3>1
    <3>3. QED
      BY <1>10, <3>1, <3>2 DEF Held
  <2>4. QED
    BY <2>1, <2>2, <2>3
<1>11. QED
  BY <1>3, <1>4, <1>6, <1>7, <1>8, <1>9, <1>10

\* A change through an address found before: seen by the next lookup of its
\* chunk, or recorded as lost.
LEMMA WriteKeeps ==
    ASSUME NEW t \in Thread, th[t].key \in Key, th[t].ptr \in Obj, th[t].block \in Block,
           Types, OneKey, WriteThrough(t), UNCHANGED <<cache, disk>>
    PROVE  /\ obj' \in [Obj -> Content] /\ hazard' \in [Key -> SUBSET HazardName]
           /\ \A p \in Obj : obj[p].set \subseteq obj'[p].set
           /\ \A p \in Obj \ {th[t].ptr} : obj'[p] = obj[p]
           /\ \A k \in Key : hazard'[k] = {} =>
                  hazard[k] = {} /\ Held(k) \subseteq Held(k)'
           /\ \A u \in Thread : Pinned(u, th[t].ptr) /\ th[u].key \in Key
                                /\ hazard'[th[u].key] = {} => cache[th[u].key] = th[t].ptr
           /\ \A k \in Key : k = th[t].key /\ hazard'[k] = {} =>
                  cache[k] = th[t].ptr /\ th[t].block \in Held(k)'
<1> DEFINE o == th[t].ptr
           key == th[t].key
           stray == {key} \cup {th[u].key : u \in {u \in Thread : Pinned(u, o)}}
<1>1. /\ obj' = [obj EXCEPT ![o] = Change(obj[o], th[t].block)]
      /\ hazard' = [k \in Key |-> hazard[k] \cup IF k \in stray /\ cache[k] # o
                                                 THEN {"unpinned"} ELSE {}]
  BY DEF WriteThrough
<1>2. /\ cache \in [Key -> Obj \cup {Null}] /\ obj \in [Obj -> Content]
      /\ hazard \in [Key -> SUBSET HazardName]
  BY DEF Types, TypeOK
<1>3. Change(obj[o], th[t].block) \in Content
      /\ Change(obj[o], th[t].block).set = obj[o].set \cup {th[t].block}
  BY <1>2, ContentTypes
<1>4. hazard' \in [Key -> SUBSET HazardName]
  BY <1>1, <1>2 DEF HazardName
<1>5. \A k \in Key : hazard'[k] = {} => hazard[k] = {} /\ (k \in stray => cache[k] = o)
  BY <1>1
<1> HIDE DEF stray
<1>6. /\ obj' \in [Obj -> Content] /\ obj'[o].set = obj[o].set \cup {th[t].block}
      /\ \A p \in Obj \ {o} : obj'[p] = obj[p]
  BY <1>1, <1>2, <1>3
<1>7. \A p \in Obj : obj[p].set \subseteq obj'[p].set
  BY <1>6
<1>8. \A k \in Key : Held(k) \subseteq Held(k)'
  BY <1>2, <1>7 DEF Held
<1>9. \A u \in Thread : Pinned(u, o) => th[u].key \in stray
  BY DEF stray
<1>10. key \in stray
  BY DEF stray
<1>11. ASSUME NEW k \in Key, k = key, hazard'[k] = {}
       PROVE  cache[k] = o /\ th[t].block \in Held(k)'
  BY <1>5, <1>6, <1>10, <1>11, SentinelAssumption DEF Held
<1>12. QED
  BY <1>4, <1>5, <1>6, <1>7, <1>8, <1>9, <1>11

------------------------------------------------------------------------------
(* What a step leaves alone.                                                *)

\* The next lookup of key finds at least what it found before, or a race is
\* recorded.
Grows(key) == hazard'[key] = {} => hazard[key] = {} /\ Held(key) \subseteq Held(key)'

LEMMA PlaceRests ==
    ASSUME NEW u \in Thread, InPlace(u), th'[u] = th[u], acked \subseteq acked',
           th[u].pc = "idle" \/ up' = up,
           th[u].pc \in PinPC =>
               \A k \in Key : cache'[k] = th[u].ptr => cache[k] = th[u].ptr,
           th[u].pc \in CasPC => mutex' = mutex
    PROVE  InPlace(u)'
<1>1. Acked(th[u].key) \subseteq Acked(th[u].key)'
  BY DEF Acked
<1>2. QED
  BY <1>1 DEF InPlace

LEMMA OwnRests ==
    ASSUME NEW u \in Thread, NEW key \in Key, key = th[u].key, Own(u), th'[u] = th[u],
           Grows(key),
           hazard'[key] = {} =>
               /\ SetOf(disk[key]) \subseteq SetOf(disk'[key])
               /\ palette'[key] \in {palette[key], None} \/ Held(key) \subseteq palette'[key].set
               /\ th[u].pc \in PinPC =>
                      /\ obj[th[u].ptr].set \subseteq obj'[th[u].ptr].set
                      /\ obj'[th[u].ptr].set \subseteq Held(key)',
           th[u].pc \in CasPC => wins'[key] = wins[key]
    PROVE  Own(u)'
<1> SUFFICES ASSUME hazard'[key] = {}
             PROVE  Own(u)'
  BY DEF Own
<1>1. hazard[key] = {} /\ Held(key) \subseteq Held(key)'
  BY DEF Grows
<1>2. th'[u].pc \in DonePC => th'[u].block \in Held(key)'
  BY <1>1 DEF Own
<1>3. th'[u].pc = "mark_dirty" /\ palette'[key] # None => th'[u].block \in palette'[key].set
  BY <1>1 DEF Own, DonePC
<1>4. th'[u].pc \in PinPC => /\ obj'[th'[u].ptr].set \subseteq Held(key)'
                             /\ th'[u].need \subseteq obj'[th'[u].ptr].set
  BY <1>1 DEF Own
<1>5. /\ th'[u].pc = "get_mark" => th'[u].loc.set \subseteq Held(key)'
      /\ th'[u].pc \in LocPC => th'[u].need \subseteq th'[u].loc.set
      /\ th'[u].pc = "get_read" => th'[u].need \subseteq SetOf(disk'[key])
  BY <1>1 DEF Own
<1>6. /\ th'[u].pc = "cas_read" /\ wins'[key][th'[u].block] # 0 =>
             th'[u].block \in SetOf(disk'[key])
      /\ th'[u].pc \in {"cas_set", "cas_put"} => wins'[key][th'[u].block] = 0
  BY <1>1 DEF Own, CasPC
<1> HIDE DEF Grows
<1>7. QED
  BY <1>2, <1>3, <1>4, <1>5, <1>6 DEF Own

LEMMA KeyRests ==
    ASSUME NEW key \in Key, KeyClean(key), Grows(key),
           hazard'[key] = {} => palette'[key] \in {palette[key], None},
           UNCHANGED <<disk, acked, flush>>,
           key \in dirty => key \in dirty',
           hazard'[key] = {} => \A b \in Block : wins'[key][b] <= 1
    PROVE  KeyClean(key)'
<1> SUFFICES ASSUME hazard'[key] = {}
             PROVE  KeyClean(key)'
  BY DEF KeyClean
<1>1. hazard[key] = {} /\ Held(key) \subseteq Held(key)' /\ Acked(key)' = Acked(key)
      /\ (Writing(key)' <=> Writing(key)) /\ palette'[key] \in {palette[key], None}
  BY DEF Grows, Acked, Writing
<1>2. QED
  BY <1>1 DEF KeyClean

\* A won CAS is still acknowledged or about to be.
LEMMA WonRests ==
    ASSUME Won, acked \subseteq acked', UNCHANGED wins,
           \A t \in Thread : th[t].pc \in DonePC =>
               /\ th'[t].pc \in DonePC /\ th'[t].key = th[t].key /\ th'[t].block = th[t].block
               \/ <<th[t].key, th[t].block>> \in acked'
    PROVE  Won'
<1> SUFFICES ASSUME NEW key \in Key, NEW b \in Block, wins[key][b] # 0, b \notin Acked(key)'
             PROVE  \E t \in Thread : th'[t].pc \in DonePC /\ th'[t].key = key /\ th'[t].block = b
  BY DEF Won
<1>1. PICK t \in Thread : th[t].pc \in DonePC /\ th[t].key = key /\ th[t].block = b
  BY DEF Won, Acked
<1>2. QED
  BY <1>1 DEF Acked

------------------------------------------------------------------------------
(* The initial states.                                                      *)

LEMMA InitHolds == Init => IInv
<1> SUFFICES ASSUME Init PROVE IInv
  OBVIOUS
<1>1. TypeOK
  BY ContentTypes DEF Init, TypeOK, HazardName, Idle, FlushIdle
<1>2. Types
  BY <1>1, IdleTyped DEF Init, Types
<1>3. Shape
  BY DEF Init, Shape, OneKey, InPlace, Idle, Flushing, FlushIdle, Closed, ChangePC, PutPC, HitPC,
     LocPC, PinPC, CasPC, DonePC
<1>4. ASSUME NEW key \in Key PROVE KeyClean(key)
  BY <1>4, ContentTypes DEF Init, KeyClean, Acked, Held, Writing, FlushIdle
<1>5. (\A t \in Thread : Busy(t)) /\ Won
  BY DEF Init, Busy, Idle, Won
<1>6. QED
  BY <1>2, <1>3, <1>4, <1>5 DEF IInv, Clean

------------------------------------------------------------------------------
(* Steps of a caller that change only its own state.                        *)

\* What a caller that may take a step is.
LEMMA CallerFacts ==
    ASSUME IInv, NEW t \in Thread
    PROVE  /\ th[t] \in ThreadState /\ th[t].need \subseteq Block
           /\ th[t].loc \in Content \cup {None}
           /\ InPlace(t) /\ Busy(t)
           /\ \A key \in Key : /\ disk[key] \in Content \cup {None, Undecodable}
                               /\ palette[key] \in Content \cup {None}
                               /\ cache[key] \in Obj \cup {Null}
                               /\ hazard[key] \subseteq HazardName
           /\ \A o \in Obj : obj[o] \in Content
  BY DEF IInv, Types, TypeOK, Shape, Clean

LEMMA CallerSteps ==
    ASSUME IInv, NEW t \in Thread, NEW r \in ThreadState, Become(t, r),
           UNCHANGED <<cache, obj, disk, palette, dirty, flush, encodeQ, batch, up, acked,
                       wins, hazard>>,
           dedup' \subseteq Key, mutex' \in Thread \cup {Null},
           mutex' = mutex \/ mutex = Null \/ mutex = t,
           th[t].pc \notin DonePC, InPlace(t)', Busy(t)'
    PROVE  IInv'
<1>1. /\ Types /\ Shape /\ Clean
      /\ th' \in [Thread -> ThreadState] /\ th'[t] = r
      /\ \A u \in Thread \ {t} : th'[u] = th[u]
      /\ \A u \in Thread : th'[u].loc \in Content \cup {None} /\ th'[u].need \subseteq Block
  BY Becomes DEF IInv
<1>2. Types'
  BY <1>1 DEF Types, TypeOK
<1>3. ASSUME NEW u \in Thread PROVE InPlace(u)'
  <2>1. CASE u = t
    BY <2>1
  <2>2. CASE u # t
    <3>1. InPlace(u) /\ th'[u] = th[u] /\ u # Null
      BY <1>1, <2>2, SentinelAssumption DEF Shape
    <3>2. th[u].pc \in CasPC => mutex' = mutex
      BY <2>2, <3>1 DEF InPlace
    <3>3. QED
      BY <3>1, <3>2, PlaceRests
  <2>3. QED
    BY <2>1, <2>2
<1>4. Shape'
  BY <1>1, <1>3 DEF Shape, OneKey, Flushing, Closed
<1>5. \A key \in Key : Grows(key)
  BY DEF Grows, Held
<1>6. ASSUME NEW key \in Key PROVE KeyClean(key)'
  BY <1>1, <1>5, KeyRests DEF Clean, KeyClean
<1>7. ASSUME NEW u \in Thread PROVE Busy(u)'
  <2>1. CASE u = t
    BY <2>1
  <2>2. CASE u # t /\ th[u].pc # "idle"
    <3>1. th'[u] = th[u] /\ th[u].key \in Key /\ Own(u) /\ InPlace(u)
      BY <1>1, <2>2 DEF Shape, Clean, InPlace, Busy
    <3>2. PICK key \in Key : key = th[u].key
      BY <3>1
    <3>3. th[u].pc \in PinPC /\ hazard[key] = {} => obj[th[u].ptr].set \subseteq Held(key)'
      BY <3>1, <3>2, <1>5 DEF Own, Grows
    <3>4. Own(u)'
      BY <1>5, <3>1, <3>2, <3>3, OwnRests
    <3>5. QED
      BY <3>4 DEF Busy
  <2>3. QED
    BY <1>1, <2>1, <2>2 DEF Busy
<1>8. Won'
  BY <1>1, WonRests DEF Clean
<1>9. QED
  BY <1>2, <1>4, <1>6, <1>7, <1>8 DEF IInv, Clean

\* Idle, or holding nothing that Own speaks of.
QuietPC == {"idle", "set_hit", "set_read", "set_put", "cas_hit", "block_read", "block_put"}

LEMMA QuietOwns == ASSUME NEW t \in Thread, th'[t].pc \in QuietPC PROVE Busy(t)'
  BY DEF QuietPC, Busy, Own, DonePC, PinPC, LocPC

LEMMA ReturnInPlace ==
    ASSUME NEW t \in Thread, th'[t] = Idle PROVE InPlace(t)' /\ Busy(t)'
  BY DEF Idle, InPlace, Busy, ChangePC, PinPC, HitPC, PutPC, LocPC, CasPC, DonePC

\* What a CAS won is found by the next lookup.
LEMMA WonIsHeld ==
    ASSUME IInv, NEW key \in Key, NEW b \in Block, hazard[key] = {}, wins[key][b] # 0
    PROVE  b \in Held(key)
<1>1. KeyClean(key) /\ Won
  BY DEF IInv, Clean
<1>2. CASE b \in Acked(key)
  BY <1>1, <1>2 DEF KeyClean
<1>3. ASSUME NEW u \in Thread, th[u].pc \in DonePC, th[u].key = key, th[u].block = b
      PROVE  b \in Held(key)
  <2>1. Own(u)
    BY <1>3 DEF IInv, Clean, Busy, DonePC
  <2>2. QED
    BY <1>3, <2>1 DEF Own
<1>4. QED
  BY <1>1, <1>2, <1>3 DEF Won

LEMMA ChangeBegins ==
    ASSUME IInv, NEW t \in Thread, NEW key \in Key, NEW b \in Block,
           SetBlock(t, key, b) \/ CasBlock(t, key, b)
    PROVE  IInv'
<1> USE CallerFacts
<1>1. CASE SetBlock(t, key, b)
  <2> DEFINE r == [Idle EXCEPT !.pc = IF cache[key] # Null THEN "set_hit" ELSE "set_read",
                               !.key = key, !.block = b, !.ptr = cache[key]]
  <2>1. r \in ThreadState
    BY DEF ThreadState, Idle, PC, ChangePC, HitPC
  <2>2. Become(t, r) /\ th[t].pc = "idle" /\ up = "up"
    BY <1>1 DEF SetBlock, Begin, At
  <2>3. th'[t] = r
    BY <2>1, <2>2, Becomes DEF IInv
  <2>4. InPlace(t)'
    BY <1>1, <2>2, <2>3 DEF SetBlock, InPlace, Idle, PinPC, HitPC, PutPC, LocPC, CasPC
  <2>5. Busy(t)'
    BY <2>3, QuietOwns DEF QuietPC, Idle
  <2>6. QED
    BY <1>1, <2>1, <2>2, <2>4, <2>5, CallerSteps
       DEF SetBlock, Begin, DonePC, IInv, Types, TypeOK
<1>2. CASE CasBlock(t, key, b)
  <2> DEFINE r == [Idle EXCEPT !.pc = IF cache[key] # Null THEN "cas_hit" ELSE "cas_read",
                               !.key = key, !.block = b, !.ptr = cache[key]]
  <2>1. r \in ThreadState
    BY DEF ThreadState, Idle, PC, ChangePC, HitPC
  <2>2. Become(t, r) /\ th[t].pc = "idle" /\ up = "up" /\ mutex' = t
    BY <1>2 DEF CasBlock, Begin, At
  <2>3. th'[t] = r
    BY <2>1, <2>2, Becomes DEF IInv
  <2>4. InPlace(t)'
    BY <1>2, <2>2, <2>3 DEF CasBlock, InPlace, Idle, PinPC, HitPC, PutPC, LocPC, CasPC
  <2>5. ASSUME hazard[key] = {}, cache[key] = Null, wins[key][b] # 0 PROVE b \in SetOf(disk[key])
    BY <2>5, WonIsHeld DEF Held
  <2>6. Busy(t)'
    <3>1. CASE cache[key] # Null
      BY <2>3, <3>1, QuietOwns DEF QuietPC, Idle
    <3>2. CASE cache[key] = Null
      BY <1>2, <2>3, <2>5, <3>2 DEF CasBlock, Busy, Own, Idle, DonePC, PinPC, LocPC
    <3>3. QED
      BY <3>1, <3>2
  <2>7. QED
    BY <1>2, <2>1, <2>2, <2>4, <2>6, CallerSteps
       DEF CasBlock, Begin, DonePC, IInv, Types, TypeOK
<1>3. QED
  BY <1>1, <1>2

LEMMA ReadBegins ==
    ASSUME IInv, NEW t \in Thread, NEW key \in Key,
           AsyncGetChunk(t, key) \/ GetBlockAt(t, key)
    PROVE  IInv'
<1> USE CallerFacts
<1>1. CASE AsyncGetChunk(t, key)
  <2> DEFINE r == [Idle EXCEPT !.pc = IF cache[key] # Null THEN "get_take" ELSE "get_read",
                               !.key = key, !.ptr = cache[key], !.need = Acked(key)]
  <2>1. r \in ThreadState
    BY DEF ThreadState, Idle, PC, PinPC, Acked
  <2>2. Become(t, r) /\ th[t].pc = "idle" /\ up = "up"
    BY <1>1 DEF AsyncGetChunk, Begin, At
  <2>3. th'[t] = r
    BY <2>1, <2>2, Becomes DEF IInv
  <2>4. Acked(key)' = Acked(key)
    BY <1>1 DEF AsyncGetChunk, Acked
  <2>5. InPlace(t)'
    BY <1>1, <2>2, <2>3, <2>4
       DEF AsyncGetChunk, InPlace, Idle, ChangePC, DonePC, PinPC, HitPC, PutPC, LocPC, CasPC,
           IInv, Shape, OneKey
  <2>6. hazard[key] = {} => Acked(key) \cup SetOf(disk[key]) \subseteq Held(key)
    BY DEF IInv, Clean, KeyClean
  <2>7. Busy(t)'
    BY <1>1, <2>3, <2>6 DEF AsyncGetChunk, Busy, Own, Idle, DonePC, PinPC, LocPC, Held
  <2>8. QED
    BY <1>1, <2>1, <2>2, <2>5, <2>7, CallerSteps
       DEF AsyncGetChunk, Begin, DonePC, IInv, Types, TypeOK
<1>2. CASE GetBlockAt(t, key)
  <2> DEFINE r == [Idle EXCEPT !.pc = "block_read", !.key = key]
  <2>1. r \in ThreadState
    BY DEF ThreadState, Idle, PC
  <2>2. Become(t, r) /\ th[t].pc = "idle" /\ up = "up"
    BY <1>2 DEF GetBlockAt, Begin, At
  <2>3. th'[t] = r
    BY <2>1, <2>2, Becomes DEF IInv
  <2>4. InPlace(t)'
    BY <1>2, <2>2, <2>3
       DEF GetBlockAt, InPlace, Idle, ChangePC, DonePC, PinPC, HitPC, PutPC, LocPC, CasPC
  <2>5. Busy(t)'
    BY <2>3, QuietOwns DEF QuietPC, Idle
  <2>6. QED
    BY <1>2, <2>1, <2>2, <2>4, <2>5, CallerSteps
       DEF GetBlockAt, Begin, DonePC, IInv, Types, TypeOK
<1>3. QED
  BY <1>1, <1>2

LEMMA SetReadKeeps == ASSUME IInv, NEW t \in Thread, SetRead(t) PROVE IInv'
<1>1. /\ th[t] \in ThreadState /\ InPlace(t) /\ th[t].pc = "set_read"
      /\ th[t].key \in Key /\ th[t].block \in Block /\ up = "up"
      /\ disk[th[t].key] \in Content \cup {None, Undecodable}
  BY CallerFacts DEF SetRead, At, InPlace, ChangePC
<1>2. CASE Return(t)
  <2>1. InPlace(t)' /\ Busy(t)'
    BY <1>2, IdleTyped, Becomes, ReturnInPlace DEF Return, IInv
  <2>2. QED
    BY <1>1, <1>2, <2>1, IdleTyped, CallerSteps DEF Return, SetRead, DonePC, IInv, Types, TypeOK
<1>3. CASE \E c \in Content : /\ th[t].block \in c.set
                              /\ Become(t, [th[t] EXCEPT !.pc = "set_put", !.loc = c])
  <2>1. PICK c \in Content : /\ th[t].block \in c.set
                             /\ Become(t, [th[t] EXCEPT !.pc = "set_put", !.loc = c])
    BY <1>3
  <2> DEFINE r == [th[t] EXCEPT !.pc = "set_put", !.loc = c]
  <2>2. r \in ThreadState
    BY <1>1 DEF ThreadState, PC, ChangePC, PutPC
  <2>3. th'[t] = r
    BY <2>1, <2>2, Becomes DEF IInv
  <2>4. InPlace(t)'
    BY <1>1, <2>1, <2>3
       DEF SetRead, InPlace, Acked, ThreadState, ChangePC, DonePC, PinPC, HitPC, PutPC, LocPC, CasPC
  <2>5. Busy(t)'
    BY <1>1, <2>3, QuietOwns DEF QuietPC, ThreadState
  <2>6. QED
    BY <1>1, <2>1, <2>2, <2>4, <2>5, CallerSteps DEF SetRead, DonePC, IInv, Types, TypeOK
<1>4. QED
  <2>1. \A c \in Content : Change(c, th[t].block) \in Content /\ th[t].block \in Change(c, th[t].block).set
    BY <1>1, ContentTypes
  <2>2. Empty \in Content
    BY ContentTypes
  <2>3. QED
    BY <1>1, <1>2, <1>3, <2>1, <2>2 DEF SetRead

LEMMA CasReadKeeps == ASSUME IInv, NEW t \in Thread, CasRead(t) PROVE IInv'
<1>1. /\ th[t] \in ThreadState /\ InPlace(t) /\ th[t].pc = "cas_read" /\ mutex = t
      /\ th[t].key \in Key /\ th[t].block \in Block /\ up = "up"
      /\ disk[th[t].key] \in Content \cup {None, Undecodable}
  BY CallerFacts DEF CasRead, At, InPlace, ChangePC, CasPC
<1>2. CASE Conflict(t)
  <2>1. InPlace(t)' /\ Busy(t)'
    BY <1>2, IdleTyped, Becomes, ReturnInPlace DEF Conflict, Return, IInv
  <2>2. QED
    BY <1>1, <1>2, <2>1, IdleTyped, CallerSteps
       DEF Conflict, Return, CasRead, DonePC, IInv, Types, TypeOK
<1>3. CASE ~Conflict(t)
  <2> DEFINE wire == disk[th[t].key]
             c == Change(wire, th[t].block)
             r == [th[t] EXCEPT !.pc = "cas_put", !.loc = c]
  <2>1. /\ wire \in Content /\ th[t].block \notin wire.set /\ Become(t, r) /\ mutex' = mutex
        /\ c \in Content /\ th[t].block \in c.set
    BY <1>1, <1>3, ContentTypes DEF CasRead
  <2>2. r \in ThreadState
    BY <1>1, <2>1 DEF ThreadState, PC, ChangePC, PutPC
  <2>3. th'[t] = r
    BY <2>1, <2>2, Becomes DEF IInv
  <2> HIDE DEF c
  <2>4. InPlace(t)'
    BY <1>1, <2>1, <2>3
       DEF CasRead, InPlace, Acked, ThreadState, ChangePC, DonePC, PinPC, HitPC, PutPC, LocPC, CasPC
  <2>5. hazard[th[t].key] = {} => wins[th[t].key][th[t].block] = 0
    <3>1. SetOf(wire) = wire.set
      BY <2>1, ContentTypes
    <3>2. Own(t)
      BY <1>1, CallerFacts DEF Busy
    <3>3. QED
      BY <1>1, <2>1, <3>1, <3>2 DEF Own
  <2>6. Busy(t)'
    BY <1>1, <2>3, <2>5 DEF CasRead, Busy, Own, ThreadState, DonePC, PinPC, LocPC
  <2>7. QED
    BY <1>1, <2>1, <2>2, <2>4, <2>6, CallerSteps DEF CasRead, DonePC, IInv, Types, TypeOK
<1>4. QED
  BY <1>2, <1>3

LEMMA GetEncodeKeeps == ASSUME IInv, NEW t \in Thread, GetEncode(t) PROVE IInv'
<1> DEFINE r == [th[t] EXCEPT !.pc = "get_mark", !.loc = obj[th[t].ptr]]
<1>1. /\ th[t] \in ThreadState /\ InPlace(t) /\ th[t].pc = "get_encode" /\ Own(t)
      /\ th[t].key \in Key /\ th[t].ptr \in Obj /\ obj[th[t].ptr] \in Content
  BY CallerFacts DEF GetEncode, At, InPlace, Busy, PinPC
<1>2. r \in ThreadState
  BY <1>1 DEF ThreadState, PC, LocPC
<1>3. Become(t, r) /\ th'[t] = r
  BY <1>2, Becomes DEF IInv, GetEncode
<1>4. InPlace(t)'
  BY <1>1, <1>3
     DEF GetEncode, InPlace, Acked, ThreadState, ChangePC, DonePC, PinPC, HitPC, PutPC, LocPC, CasPC
<1>5. PICK key \in Key : key = th[t].key
  BY <1>1
<1>6. Held(key)' = Held(key)
  BY DEF GetEncode, Held
<1>7. Busy(t)'
  BY <1>1, <1>3, <1>5, <1>6 DEF GetEncode, Busy, Own, ThreadState, DonePC, PinPC, LocPC
<1>8. QED
  BY <1>1, <1>2, <1>3, <1>4, <1>7, CallerSteps DEF GetEncode, DonePC, IInv, Types, TypeOK

LEMMA GetReadKeeps == ASSUME IInv, NEW t \in Thread, GetRead(t) PROVE IInv'
<1>1. /\ th[t] \in ThreadState /\ InPlace(t) /\ th[t].pc = "get_read" /\ Own(t)
      /\ th[t].key \in Key /\ disk[th[t].key] \in Content \cup {None, Undecodable}
      /\ dedup' \subseteq Key
  BY CallerFacts DEF GetRead, At, InPlace, Busy, IInv, Types, TypeOK
<1>2. CASE Return(t)
  <2>1. InPlace(t)' /\ Busy(t)'
    BY <1>2, IdleTyped, Becomes, ReturnInPlace DEF Return, IInv
  <2>2. QED
    BY <1>1, <1>2, <2>1, IdleTyped, CallerSteps DEF Return, GetRead, DonePC, IInv, Types, TypeOK
<1>3. CASE ~Return(t)
  <2> DEFINE wire == disk[th[t].key]
             r == [th[t] EXCEPT !.pc = "get_put", !.loc = wire]
  <2>1. wire \in Content /\ Become(t, r)
    BY <1>1, <1>3 DEF GetRead
  <2>2. r \in ThreadState
    BY <1>1, <2>1 DEF ThreadState, PC, LocPC
  <2>3. th'[t] = r
    BY <2>1, <2>2, Becomes DEF IInv
  <2>4. InPlace(t)'
    BY <1>1, <2>1, <2>3
       DEF GetRead, InPlace, Acked, ThreadState, ChangePC, DonePC, PinPC, HitPC, PutPC, LocPC, CasPC
  <2>5. SetOf(wire) = wire.set
    BY <2>1, ContentTypes
  <2>6. Busy(t)'
    BY <1>1, <2>3, <2>5 DEF GetRead, Busy, Own, ThreadState, DonePC, PinPC, LocPC
  <2>7. QED
    BY <1>1, <2>1, <2>2, <2>4, <2>6, CallerSteps DEF GetRead, DonePC, IInv, Types, TypeOK
<1>4. QED
  BY <1>2, <1>3

LEMMA BlockReadKeeps == ASSUME IInv, NEW t \in Thread, BlockRead(t) PROVE IInv'
<1>1. /\ th[t] \in ThreadState /\ InPlace(t) /\ th[t].pc = "block_read"
      /\ th[t].key \in Key /\ disk[th[t].key] \in Content \cup {None, Undecodable}
  BY CallerFacts DEF BlockRead, At, InPlace
<1>2. CASE Return(t)
  <2>1. InPlace(t)' /\ Busy(t)'
    BY <1>2, IdleTyped, Becomes, ReturnInPlace DEF Return, IInv
  <2>2. QED
    BY <1>1, <1>2, <2>1, IdleTyped, CallerSteps DEF Return, BlockRead, DonePC, IInv, Types, TypeOK
<1>3. CASE ~Return(t)
  <2> DEFINE r == [th[t] EXCEPT !.pc = "block_put", !.loc = disk[th[t].key]]
  <2>1. disk[th[t].key] \in Content \cup {None} /\ Become(t, r)
    BY <1>1, <1>3 DEF BlockRead
  <2>2. r \in ThreadState
    BY <1>1, <2>1 DEF ThreadState, PC
  <2>3. th'[t] = r
    BY <2>1, <2>2, Becomes DEF IInv
  <2>4. InPlace(t)'
    BY <1>1, <2>1, <2>3
       DEF BlockRead, InPlace, Acked, ThreadState, ChangePC, DonePC, PinPC, HitPC, PutPC, LocPC, CasPC
  <2>5. Busy(t)'
    BY <1>1, <2>3, QuietOwns DEF QuietPC, ThreadState
  <2>6. QED
    BY <1>1, <2>1, <2>2, <2>4, <2>5, CallerSteps DEF BlockRead, DonePC, IInv, Types, TypeOK
<1>4. QED
  BY <1>2, <1>3

LEMMA CallbackKeeps == ASSUME IInv, NEW t \in Thread, Callback(t) PROVE IInv'
<1>1. InPlace(t)' /\ Busy(t)'
  BY IdleTyped, Becomes, ReturnInPlace DEF Callback, Return, IInv
<1>2. QED
  BY <1>1, IdleTyped, CallerSteps DEF Callback, At, Return, DonePC, IInv, Types, TypeOK

------------------------------------------------------------------------------
(* Steps that change cached objects: put() and writes through an address.   *)

\* What a thread that does not move needs of such a step.
Spared(u) ==
    th[u].pc \in PinPC =>
        /\ \A k \in Key : cache'[k] = th[u].ptr => cache[k] = th[u].ptr
        /\ obj[th[u].ptr].set \subseteq obj'[th[u].ptr].set
        /\ \A k \in Key : k = th[u].key /\ hazard'[k] = {} =>
               obj'[th[u].ptr].set \subseteq Held(k)'

LEMMA StoreSteps ==
    ASSUME IInv, NEW T \in SUBSET Thread, up # "closed",
           UNCHANGED <<disk, palette, dirty, flush, acked, up, mutex>>,
           Types', OneKey', \A k \in Key : Grows(k),
           \A u \in T : InPlace(u)' /\ Busy(u)',
           \A u \in Thread \ T : th'[u] = th[u] /\ Spared(u),
           \A u \in Thread \ T, k \in Key :
               th[u].pc \in CasPC /\ k = th[u].key => wins'[k] = wins[k],
           \A k \in Key : hazard'[k] = {} => \A b \in Block : wins'[k][b] <= 1,
           Won'
    PROVE  IInv'
<1>1. ASSUME NEW u \in Thread PROVE InPlace(u)'
  <2>1. CASE u \in Thread \ T
    BY <2>1, PlaceRests DEF IInv, Shape, Spared
  <2>2. QED
    BY <2>1
<1>2. Shape'
  BY <1>1 DEF IInv, Shape, Flushing, Closed
<1>3. ASSUME NEW key \in Key PROVE KeyClean(key)'
  BY KeyRests DEF IInv, Clean
<1>4. ASSUME NEW u \in Thread PROVE Busy(u)'
  <2>1. CASE u \in Thread \ T /\ th[u].pc # "idle"
    <3>1. Own(u) /\ th[u].key \in Key
      BY <2>1 DEF IInv, Shape, InPlace, Clean, Busy
    <3>2. PICK key \in Key : key = th[u].key
      BY <3>1
    <3>3. Own(u)'
      BY <2>1, <3>1, <3>2, OwnRests DEF Spared
    <3>4. QED
      BY <3>3 DEF Busy
  <2>2. QED
    BY <2>1 DEF Busy
<1>5. QED
  BY <1>2, <1>3, <1>4 DEF IInv, Clean

\* A put() spares every other thread: the object it takes is pinned by none.
LEMMA PutSpares ==
    ASSUME IInv, NEW key \in Key, NEW o \in Free, NEW c \in Content, PutObject(key, o, c),
           UNCHANGED disk, NEW u \in Thread
    PROVE  Spared(u)
<1> SUFFICES ASSUME th[u].pc \in PinPC PROVE Spared(u)
  BY DEF Spared
<1>1. /\ Types /\ OneKey /\ th[u].ptr # o /\ th[u].ptr \in Obj
      /\ th[u].ptr # Null /\ th[u].key \in Key /\ Own(u)
  BY SentinelAssumption DEF IInv, Shape, InPlace, Free, Pinned, Clean, Busy, PinPC
<1>2. obj'[th[u].ptr] = obj[th[u].ptr] /\ \A k \in Key : cache'[k] \in {Null, o, cache[k]}
  BY <1>1, PutKeeps
<1>3. ASSUME NEW k \in Key, k = th[u].key, hazard'[k] = {}
      PROVE  obj'[th[u].ptr].set \subseteq Held(k)'
  <2>1. hazard[k] = {} /\ Held(k) \subseteq Held(k)'
    BY <1>1, <1>3, PutKeeps
  <2>2. QED
    BY <1>1, <1>2, <1>3, <2>1 DEF Own
<1>4. QED
  BY <1>1, <1>2, <1>3 DEF Spared

\* So does a write: the object it changes is still its reader's chunk, or the
\* race is recorded.
LEMMA WriteSpares ==
    ASSUME IInv, NEW t \in Thread, th[t].pc \in HitPC, WriteThrough(t),
           UNCHANGED <<cache, disk>>, NEW u \in Thread
    PROVE  Spared(u)
<1> SUFFICES ASSUME th[u].pc \in PinPC PROVE Spared(u)
  BY DEF Spared
<1>1. /\ Types /\ OneKey /\ th[u].ptr \in Obj /\ th[u].key \in Key /\ Own(u)
      /\ th[t].key \in Key /\ th[t].ptr \in Obj /\ th[t].block \in Block
  BY DEF IInv, Shape, InPlace, Clean, Busy, PinPC, HitPC, ChangePC
<1>2. /\ \A p \in Obj : obj[p].set \subseteq obj'[p].set
      /\ \A p \in Obj \ {th[t].ptr} : obj'[p] = obj[p]
      /\ \A k \in Key : hazard'[k] = {} => hazard[k] = {} /\ Held(k) \subseteq Held(k)'
      /\ Pinned(u, th[t].ptr) /\ hazard'[th[u].key] = {} => cache[th[u].key] = th[t].ptr
  BY <1>1, WriteKeeps
<1>3. ASSUME NEW k \in Key, k = th[u].key, hazard'[k] = {}
      PROVE  obj'[th[u].ptr].set \subseteq Held(k)'
  <2>1. CASE th[u].ptr = th[t].ptr
    <3>1. cache[k] = th[u].ptr
      BY <1>2, <1>3, <2>1 DEF Pinned
    <3>2. Held(k)' = obj'[th[u].ptr].set
      BY <1>1, <3>1, SentinelAssumption DEF Held
    <3>3. QED
      BY <3>2
  <2>2. CASE th[u].ptr # th[t].ptr
    BY <1>1, <1>2, <1>3, <2>2 DEF Own
  <2>3. QED
    BY <2>1, <2>2
<1>4. QED
  BY <1>1, <1>2, <1>3 DEF Spared

LEMMA GrowsByPut ==
    ASSUME IInv, NEW key \in Key, NEW o \in Free, NEW c \in Content, PutObject(key, o, c),
           UNCHANGED disk
    PROVE  OneKey' /\ \A k \in Key : Grows(k)
<1>1. Types /\ OneKey
  BY DEF IInv, Shape
<1>2. QED
  BY <1>1, PutKeeps DEF Grows

\* A caller that puts a chunk and has won nothing.
LEMMA CallerPuts ==
    ASSUME IInv, NEW t \in Thread, NEW o \in Free, NEW c \in Content, th[t].key \in Key,
           PutObject(th[t].key, o, c), NEW r \in ThreadState, Become(t, r),
           th[t].pc \notin DonePC \cup {"idle"}, InPlace(t)', Busy(t)',
           UNCHANGED <<disk, palette, dirty, mutex, flush, dedup, encodeQ, batch, up, acked, wins>>
    PROVE  IInv'
<1>1. /\ Types /\ OneKey /\ up # "closed"
      /\ th' \in [Thread -> ThreadState]
      /\ \A u \in Thread \ {t} : th'[u] = th[u]
      /\ \A u \in Thread : th'[u].loc \in Content \cup {None} /\ th'[u].need \subseteq Block
  BY Becomes DEF IInv, Shape, InPlace
<1>2. /\ cache' \in [Key -> Obj \cup {Null}] /\ obj' \in [Obj -> Content]
      /\ hazard' \in [Key -> SUBSET HazardName]
  BY <1>1, PutKeeps
<1>3. Types'
  BY <1>1, <1>2 DEF Types, TypeOK
<1>4. OneKey' /\ (\A k \in Key : Grows(k)) /\ \A u \in Thread : Spared(u)
  BY GrowsByPut, PutSpares
<1>5. ASSUME NEW k \in Key, hazard'[k] = {} PROVE \A b \in Block : wins'[k][b] <= 1
  BY <1>4, <1>5 DEF Grows, IInv, Clean, KeyClean
<1>6. Won'
  <2>1. Won /\ \A u \in Thread : th[u].pc \in DonePC => th'[u] = th[u]
    BY <1>1 DEF IInv, Clean
  <2>2. QED
    BY <2>1, WonRests
<1> DEFINE T == {t}
<1>7. T \in SUBSET Thread /\ \A u \in T : InPlace(u)' /\ Busy(u)'
  OBVIOUS
<1>8. \A u \in Thread \ T : th'[u] = th[u] /\ Spared(u)
  BY <1>1, <1>4
<1> HIDE DEF T
<1>9. QED
  BY <1>1, <1>3, <1>4, <1>5, <1>6, <1>7, <1>8, StoreSteps

LEMMA SetPutKeeps == ASSUME IInv, NEW t \in Thread, SetPut(t) PROVE IInv'
<1> DEFINE r == [th[t] EXCEPT !.pc = "erase_palette"]
<1>1. /\ th[t] \in ThreadState /\ InPlace(t) /\ th[t].pc = "set_put"
      /\ th[t].key \in Key /\ th[t].block \in Block
      /\ th[t].loc \in Content /\ th[t].block \in th[t].loc.set
  BY CallerFacts DEF SetPut, At, InPlace, PutPC, ChangePC
<1>2. PICK o \in Free : PutObject(th[t].key, o, th[t].loc)
  BY DEF SetPut, CachePut
<1>3. r \in ThreadState
  BY <1>1 DEF ThreadState, PC, ChangePC, DonePC
<1>4. Become(t, r) /\ th'[t] = r
  BY <1>3, Becomes DEF IInv, SetPut
<1>5. InPlace(t)'
  BY <1>1, <1>4
     DEF SetPut, InPlace, Acked, ThreadState, ChangePC, DonePC, PinPC, HitPC, PutPC, LocPC, CasPC
<1>6. PICK key \in Key : key = th[t].key
  BY <1>1
<1>7. Held(key)' = th[t].loc.set
  BY <1>1, <1>2, <1>6, PutKeeps DEF IInv, Shape, SetPut
<1>8. Busy(t)'
  BY <1>1, <1>4, <1>6, <1>7 DEF Busy, Own, ThreadState, DonePC, PinPC, LocPC
<1>9. QED
  BY <1>1, <1>2, <1>3, <1>4, <1>5, <1>8, CallerPuts DEF SetPut, DonePC

LEMMA GetPutKeeps == ASSUME IInv, NEW t \in Thread, GetPut(t) PROVE IInv'
<1> DEFINE r == [th[t] EXCEPT !.pc = "callback"]
<1>1. /\ th[t] \in ThreadState /\ InPlace(t) /\ th[t].pc = "get_put" /\ Own(t)
      /\ th[t].key \in Key /\ th[t].loc \in Content
  BY CallerFacts DEF GetPut, At, InPlace, Busy, LocPC
<1>2. PICK o \in Free : PutObject(th[t].key, o, th[t].loc)
  BY DEF GetPut, CachePut
<1>3. r \in ThreadState
  BY <1>1 DEF ThreadState, PC, LocPC
<1>4. Become(t, r) /\ th'[t] = r
  BY <1>3, Becomes DEF IInv, GetPut
<1>5. InPlace(t)'
  BY <1>1, <1>4
     DEF GetPut, InPlace, Acked, ThreadState, ChangePC, DonePC, PinPC, HitPC, PutPC, LocPC, CasPC
<1>6. hazard'[th[t].key] = {} => hazard[th[t].key] = {}
  BY <1>1, <1>2, GrowsByPut DEF Grows, GetPut
<1>7. Busy(t)'
  BY <1>1, <1>4, <1>6 DEF Busy, Own, ThreadState, DonePC, PinPC, LocPC
<1>8. QED
  BY <1>1, <1>2, <1>3, <1>4, <1>5, <1>7, CallerPuts DEF GetPut, DonePC

LEMMA BlockPutKeeps == ASSUME IInv, NEW t \in Thread, BlockPut(t) PROVE IInv'
<1>1. /\ InPlace(t) /\ th[t].pc = "block_put" /\ th[t].key \in Key
      /\ th[t].loc \in Content \cup {None} /\ \A o \in Free : obj[o] \in Content
  BY CallerFacts DEF BlockPut, At, InPlace, Free
<1>2. PICK o \in Free, c \in Content : PutObject(th[t].key, o, c)
  BY <1>1 DEF BlockPut, CachePut
<1>3. Become(t, Idle) /\ InPlace(t)' /\ Busy(t)'
  BY IdleTyped, Becomes, ReturnInPlace DEF BlockPut, Return, IInv
<1>4. QED
  BY <1>1, <1>2, <1>3, IdleTyped, CallerPuts DEF BlockPut, DonePC

\* A generated chunk is put by an encode thread.
LEMMA EncodeKeeps == ASSUME IInv, NEW key \in Key, Encode(key) PROVE IInv'
<1>1. /\ Types /\ OneKey /\ UNCHANGED <<disk, palette, dirty, flush, acked, up, mutex, th, wins>>
      /\ up # "closed" /\ encodeQ' \in [Key -> Nat] /\ batch' \in [Key -> Nat]
  BY DEF IInv, Types, TypeOK, Shape, Encode
<1>2. PICK o \in Free : PutObject(key, o, Terrain(key)) /\ Terrain(key) \in Content
  BY ContentTypes DEF Encode, CachePut
<1>3. /\ cache' \in [Key -> Obj \cup {Null}] /\ obj' \in [Obj -> Content]
      /\ hazard' \in [Key -> SUBSET HazardName]
  BY <1>1, <1>2, PutKeeps
<1>4. Types'
  BY <1>1, <1>3 DEF Types, TypeOK, Encode
<1>5. OneKey' /\ (\A k \in Key : Grows(k)) /\ \A u \in Thread : Spared(u)
  BY <1>1, <1>2, GrowsByPut, PutSpares
<1>6. ASSUME NEW k \in Key, hazard'[k] = {} PROVE \A b \in Block : wins'[k][b] <= 1
  BY <1>1, <1>5, <1>6 DEF Grows, IInv, Clean, KeyClean
<1>7. Won'
  BY <1>1, WonRests DEF IInv, Clean
<1> DEFINE T == {}
<1>8. /\ T \in SUBSET Thread /\ \A u \in T : InPlace(u)' /\ Busy(u)'
      /\ \A u \in Thread \ T : th'[u] = th[u] /\ Spared(u)
  BY <1>1, <1>5
<1> HIDE DEF T
<1>9. QED
  BY <1>1, <1>4, <1>5, <1>6, <1>7, <1>8, StoreSteps

\* A CAS that wins is the first to win its block; mutex_ keeps the others out.
LEMMA CasWins ==
    ASSUME IInv, NEW t \in Thread, th[t].pc \in CasPC, Win(t), \A k \in Key : Grows(k),
           th[t].key \in Key, th[t].block \in Block,
           hazard'[th[t].key] = {} => wins[th[t].key][th[t].block] = 0,
           th'[t].pc \in DonePC, th'[t].key = th[t].key, th'[t].block = th[t].block,
           \A u \in Thread \ {t} : th'[u] = th[u], UNCHANGED acked
    PROVE  /\ wins' \in [Key -> [Block -> Nat]]
           /\ \A k \in Key : hazard'[k] = {} => \A b \in Block : wins'[k][b] <= 1
           /\ Won'
           /\ \A u \in Thread \ {t} : th[u].pc \notin CasPC
<1> DEFINE key == th[t].key
           b == th[t].block
<1>1. wins \in [Key -> [Block -> Nat]] /\ wins' = [wins EXCEPT ![key][b] = @ + 1]
  BY DEF IInv, Types, Win
<1>2. /\ wins' \in [Key -> [Block -> Nat]]
      /\ wins'[key][b] = wins[key][b] + 1
      /\ \A k \in Key, c \in Block : <<k, c>> # <<key, b>> => wins'[k][c] = wins[k][c]
  BY <1>1
<1>3. ASSUME NEW k \in Key, hazard'[k] = {}, NEW c \in Block PROVE wins'[k][c] <= 1
  <2>1. wins[k][c] <= 1
    BY <1>3 DEF IInv, Clean, KeyClean, Grows
  <2>2. CASE <<k, c>> = <<key, b>>
    BY <1>2, <1>3, <2>2
  <2>3. QED
    BY <1>2, <2>1, <2>2
<1>4. ASSUME NEW k \in Key, NEW c \in Block, wins'[k][c] # 0
      PROVE  \/ <<k, c>> \in acked'
             \/ \E u \in Thread : th'[u].pc \in DonePC /\ th'[u].key = k /\ th'[u].block = c
  <2>1. CASE <<k, c>> = <<key, b>>
    BY <2>1
  <2>2. CASE <<k, c>> # <<key, b>>
    <3>1. \/ <<k, c>> \in acked
          \/ \E u \in Thread : th[u].pc \in DonePC /\ th[u].key = k /\ th[u].block = c
      BY <1>2, <1>4, <2>2 DEF IInv, Clean, Won, Acked
    <3>2. th[t].pc \notin DonePC
      BY DEF CasPC, DonePC
    <3>3. QED
      BY <3>1, <3>2
  <2>3. QED
    BY <2>1, <2>2
<1>5. Won'
  BY <1>4 DEF Won, Acked
<1>6. \A u \in Thread \ {t} : th[u].pc \notin CasPC
  BY DEF IInv, Shape, InPlace
<1>7. QED
  BY <1>2, <1>3, <1>5, <1>6

LEMMA CasPutKeeps == ASSUME IInv, NEW t \in Thread, CasPut(t) PROVE IInv'
<1> DEFINE r == [th[t] EXCEPT !.pc = "erase_palette"]
<1>1. /\ th[t] \in ThreadState /\ InPlace(t) /\ th[t].pc = "cas_put" /\ Own(t)
      /\ th[t].key \in Key /\ th[t].block \in Block /\ up # "closed"
      /\ th[t].loc \in Content /\ th[t].block \in th[t].loc.set
  BY CallerFacts DEF CasPut, At, InPlace, PutPC, ChangePC, Busy
<1>2. PICK o \in Free : PutObject(th[t].key, o, th[t].loc)
  BY DEF CasPut, CachePut
<1>3. r \in ThreadState
  BY <1>1 DEF ThreadState, PC, ChangePC, DonePC
<1>4. /\ Become(t, r) /\ th'[t] = r /\ th' \in [Thread -> ThreadState]
      /\ \A u \in Thread \ {t} : th'[u] = th[u]
      /\ \A u \in Thread : th'[u].loc \in Content \cup {None} /\ th'[u].need \subseteq Block
  BY <1>3, Becomes DEF IInv, CasPut
<1>5. InPlace(t)'
  BY <1>1, <1>4
     DEF CasPut, InPlace, Acked, ThreadState, ChangePC, DonePC, PinPC, HitPC, PutPC, LocPC, CasPC
<1>6. PICK key \in Key : key = th[t].key
  BY <1>1
<1>7. Held(key)' = th[t].loc.set
  BY <1>1, <1>2, <1>6, PutKeeps DEF IInv, Shape, CasPut
<1>8. Busy(t)'
  BY <1>1, <1>4, <1>6, <1>7 DEF Busy, Own, ThreadState, DonePC, PinPC, LocPC
<1>9. /\ cache' \in [Key -> Obj \cup {Null}] /\ obj' \in [Obj -> Content]
      /\ hazard' \in [Key -> SUBSET HazardName]
      /\ OneKey' /\ (\A k \in Key : Grows(k)) /\ \A u \in Thread : Spared(u)
  BY <1>1, <1>2, PutKeeps, GrowsByPut, PutSpares DEF IInv, Shape, CasPut
<1>10. hazard'[th[t].key] = {} => wins[th[t].key][th[t].block] = 0
  BY <1>1, <1>9 DEF Own, Grows
<1>11. /\ wins' \in [Key -> [Block -> Nat]]
       /\ \A k \in Key : hazard'[k] = {} => \A b \in Block : wins'[k][b] <= 1
       /\ Won'
       /\ \A u \in Thread \ {t} : th[u].pc \notin CasPC
  <2>1. th[t].pc \in CasPC /\ Win(t) /\ UNCHANGED acked
    BY <1>1 DEF CasPut, CasPC
  <2>2. th'[t].pc \in DonePC /\ th'[t].key = th[t].key /\ th'[t].block = th[t].block
    BY <1>1, <1>4 DEF ThreadState, DonePC
  <2>3. QED
    BY <1>1, <1>4, <1>9, <1>10, <2>1, <2>2, CasWins
<1>12. Types'
  BY <1>4, <1>9, <1>11 DEF Types, TypeOK, IInv, CasPut
<1> DEFINE T == {t}
<1>13. /\ T \in SUBSET Thread /\ \A u \in T : InPlace(u)' /\ Busy(u)'
       /\ \A u \in Thread \ T : th'[u] = th[u] /\ Spared(u) /\ th[u].pc \notin CasPC
  BY <1>4, <1>5, <1>8, <1>9, <1>11
<1>14. UNCHANGED <<disk, palette, dirty, flush, acked, up, mutex>>
  BY DEF CasPut
<1> HIDE DEF T
<1>15. QED
  BY <1>1, <1>9, <1>11, <1>12, <1>13, <1>14, StoreSteps

\* A change through the address found: SetHit and CasSet.
LEMMA HitSteps ==
    ASSUME IInv, NEW t \in Thread, th[t].pc \in HitPC, WriteThrough(t),
           Become(t, [th[t] EXCEPT !.pc = "erase_palette"]),
           \/ UNCHANGED wins
           \/ th[t].pc = "cas_set" /\ Win(t),
           UNCHANGED <<cache, disk, palette, dirty, mutex, flush, dedup, encodeQ, batch, up, acked>>
    PROVE  IInv'
<1> DEFINE r == [th[t] EXCEPT !.pc = "erase_palette"]
<1>1. /\ th[t] \in ThreadState /\ InPlace(t) /\ th[t].pc # "idle" /\ th[t].pc \notin DonePC
      /\ th[t].key \in Key /\ th[t].block \in Block /\ th[t].ptr \in Obj /\ up # "closed"
      /\ Types /\ OneKey
  BY CallerFacts DEF InPlace, HitPC, ChangePC, DonePC, IInv, Shape
<1>2. r \in ThreadState
  BY <1>1 DEF ThreadState, PC, ChangePC, DonePC
<1>3. /\ th'[t] = r /\ th' \in [Thread -> ThreadState]
      /\ \A u \in Thread \ {t} : th'[u] = th[u]
      /\ \A u \in Thread : th'[u].loc \in Content \cup {None} /\ th'[u].need \subseteq Block
  BY <1>1, <1>2, Becomes
<1>4. InPlace(t)'
  BY <1>1, <1>3
     DEF InPlace, Acked, ThreadState, ChangePC, DonePC, PinPC, HitPC, PutPC, LocPC, CasPC
<1>5. PICK key \in Key : key = th[t].key
  BY <1>1
<1>6. /\ obj' \in [Obj -> Content] /\ hazard' \in [Key -> SUBSET HazardName]
      /\ \A k \in Key : Grows(k)
      /\ hazard'[key] = {} => cache[key] = th[t].ptr /\ th[t].block \in Held(key)'
  BY <1>1, <1>5, WriteKeeps DEF Grows
<1>7. Busy(t)'
  BY <1>1, <1>3, <1>5, <1>6 DEF Busy, Own, ThreadState, DonePC, PinPC, LocPC
<1>8. OneKey' /\ \A u \in Thread : Spared(u)
  BY <1>1, WriteSpares DEF OneKey
<1>9. /\ wins' \in [Key -> [Block -> Nat]]
      /\ \A k \in Key : hazard'[k] = {} => \A b \in Block : wins'[k][b] <= 1
      /\ Won'
      /\ \A u \in Thread \ {t} : wins' = wins \/ th[u].pc \notin CasPC
  <2>1. CASE UNCHANGED wins
    <3>1. \A k \in Key : hazard'[k] = {} => \A b \in Block : wins'[k][b] <= 1
      BY <1>6, <2>1 DEF Grows, IInv, Clean, KeyClean
    <3>2. Won /\ \A u \in Thread : th[u].pc \in DonePC => th'[u] = th[u]
      BY <1>1, <1>3 DEF IInv, Clean
    <3>3. Won'
      BY <2>1, <3>2, WonRests
    <3>4. QED
      BY <1>1, <2>1, <3>1, <3>3 DEF Types
  <2>2. CASE th[t].pc = "cas_set" /\ Win(t)
    <3>1. hazard'[key] = {} => wins[key][th[t].block] = 0
      BY <1>5, <1>6, <2>2, CallerFacts DEF Grows, Busy, Own
    <3>2. th[t].pc \in CasPC
      BY <2>2 DEF CasPC
    <3>3. th'[t].pc \in DonePC /\ th'[t].key = th[t].key /\ th'[t].block = th[t].block
      BY <1>1, <1>3 DEF ThreadState, DonePC
    <3>4. QED
      BY <1>1, <1>3, <1>5, <1>6, <2>2, <3>1, <3>2, <3>3, CasWins
  <2>3. QED
    BY <2>1, <2>2
<1>10. Types'
  BY <1>1, <1>3, <1>6, <1>9 DEF Types, TypeOK
<1> DEFINE T == {t}
<1>11. /\ T \in SUBSET Thread /\ \A u \in T : InPlace(u)' /\ Busy(u)'
       /\ \A u \in Thread \ T : /\ th'[u] = th[u] /\ Spared(u)
                                /\ wins' = wins \/ th[u].pc \notin CasPC
  BY <1>3, <1>4, <1>7, <1>8, <1>9
<1> HIDE DEF T
<1>12. QED
  BY <1>1, <1>6, <1>8, <1>9, <1>10, <1>11, StoreSteps

LEMMA SetHitKeeps == ASSUME IInv, NEW t \in Thread, SetHit(t) PROVE IInv'
  BY HitSteps DEF SetHit, At, HitPC

\* The comparison that finds the expected value: nobody has won the block, as
\* what is won is held, unless the address was no longer the chunk's.
LEMMA ComparedSteps ==
    ASSUME IInv, NEW t \in Thread, CasHit(t), th[t].block \notin obj[th[t].ptr].set
    PROVE  IInv'
<1> DEFINE r == [th[t] EXCEPT !.pc = "cas_set"]
<1>1. /\ th[t] \in ThreadState /\ InPlace(t) /\ th[t].pc = "cas_hit" /\ mutex = t
      /\ th[t].key \in Key /\ th[t].block \in Block /\ th[t].ptr \in Obj /\ up = "up"
      /\ Types /\ OneKey /\ Become(t, r)
      /\ UNCHANGED <<cache, obj, disk, palette, dirty, mutex, flush, dedup, encodeQ, batch, up,
                     acked, wins>>
  BY CallerFacts DEF CasHit, At, InPlace, HitPC, ChangePC, CasPC, IInv, Shape
<1>2. r \in ThreadState
  BY <1>1 DEF ThreadState, PC, ChangePC, HitPC
<1>3. /\ th'[t] = r /\ th' \in [Thread -> ThreadState]
      /\ \A u \in Thread \ {t} : th'[u] = th[u]
      /\ \A u \in Thread : th'[u].loc \in Content \cup {None} /\ th'[u].need \subseteq Block
  BY <1>1, <1>2, Becomes
<1>4. PICK key \in Key : key = th[t].key
  BY <1>1
<1>5. /\ hazard' \in [Key -> SUBSET HazardName]
      /\ \A k \in Key : hazard'[k] = {} => hazard[k] = {}
      /\ hazard'[key] = {} => cache[key] = th[t].ptr
  <2>1. /\ hazard \in [Key -> SUBSET HazardName]
        /\ hazard' = [hazard EXCEPT ![key] =
                         @ \cup IF cache[key] # th[t].ptr THEN {"unpinned"} ELSE {}]
    BY <1>4 DEF CasHit, IInv, Types, TypeOK
  <2>2. QED
    BY <2>1 DEF HazardName
<1>6. \A k \in Key : Grows(k)
  BY <1>1, <1>5 DEF Grows, Held
<1>7. InPlace(t)'
  BY <1>1, <1>3
     DEF InPlace, Acked, ThreadState, ChangePC, DonePC, PinPC, HitPC, PutPC, LocPC, CasPC
<1>8. hazard'[key] = {} => wins[key][th[t].block] = 0
  <2> SUFFICES ASSUME hazard'[key] = {}, wins[key][th[t].block] # 0 PROVE FALSE
    OBVIOUS
  <2>1. hazard[key] = {} /\ cache[key] = th[t].ptr
    BY <1>5
  <2>2. th[t].block \in Held(key)
    BY <1>1, <2>1, WonIsHeld
  <2>3. QED
    BY <1>1, <2>1, <2>2, SentinelAssumption DEF Held
<1>9. Busy(t)'
  BY <1>1, <1>3, <1>4, <1>8 DEF Busy, Own, ThreadState, DonePC, PinPC, LocPC
<1>10. ASSUME NEW u \in Thread PROVE Spared(u)
  <2> SUFFICES ASSUME th[u].pc \in PinPC PROVE Spared(u)
    BY DEF Spared
  <2>1. Own(u) /\ th[u].key \in Key
    BY DEF IInv, Shape, InPlace, Clean, Busy, PinPC
  <2>2. QED
    BY <1>1, <1>5, <2>1 DEF Spared, Own, Held
<1>11. Types' /\ OneKey'
  BY <1>1, <1>3, <1>5 DEF Types, TypeOK, OneKey, CasHit
<1>12. \A k \in Key : hazard'[k] = {} => \A b \in Block : wins'[k][b] <= 1
  BY <1>1, <1>5 DEF IInv, Clean, KeyClean
<1>13. Won'
  <2>1. Won /\ \A u \in Thread : th[u].pc \in DonePC => th'[u] = th[u]
    BY <1>1, <1>3 DEF IInv, Clean, DonePC
  <2>2. QED
    BY <1>1, <2>1, WonRests
<1> DEFINE T == {t}
<1>14. /\ T \in SUBSET Thread /\ \A u \in T : InPlace(u)' /\ Busy(u)'
       /\ \A u \in Thread \ T : th'[u] = th[u] /\ Spared(u)
  BY <1>3, <1>7, <1>9, <1>10
<1> HIDE DEF T
<1>15. QED
  BY <1>1, <1>6, <1>11, <1>12, <1>13, <1>14, StoreSteps

LEMMA CasHitKeeps == ASSUME IInv, NEW t \in Thread, CasHit(t) PROVE IInv'
<1>1. CASE th[t].block \in obj[th[t].ptr].set
  <2>1. /\ th[t].pc = "cas_hit" /\ mutex = t /\ Conflict(t)
        /\ UNCHANGED <<cache, obj, disk, palette, dirty, flush, dedup, encodeQ, batch, up,
                       acked, wins, hazard>>
    BY <1>1, CallerFacts DEF CasHit, At, InPlace, CasPC
  <2>2. InPlace(t)' /\ Busy(t)'
    BY <2>1, IdleTyped, Becomes, ReturnInPlace DEF Conflict, Return, IInv
  <2>3. QED
    BY <2>1, <2>2, IdleTyped, CallerSteps DEF Conflict, Return, DonePC, IInv, Types, TypeOK
<1>2. CASE th[t].block \notin obj[th[t].ptr].set
  BY <1>2, ComparedSteps
<1>3. QED
  BY <1>1, <1>2

LEMMA CasSetKeeps == ASSUME IInv, NEW t \in Thread, CasSet(t) PROVE IInv'
  BY HitSteps DEF CasSet, At, HitPC

------------------------------------------------------------------------------
(* Steps that change palettes, the dirty set and LMDB.                      *)

LEMMA OthersRest ==
    ASSUME IInv, NEW T \in SUBSET Thread, \A u \in Thread \ T : th'[u] = th[u],
           UNCHANGED <<cache, obj, wins, up>>, acked \subseteq acked',
           \A u \in Thread \ T : mutex = u => mutex' = u,
           \A k \in Key : Grows(k),
           \A k \in Key : hazard'[k] = {} =>
               /\ SetOf(disk[k]) \subseteq SetOf(disk'[k])
               /\ palette'[k] \in {palette[k], None} \/ Held(k) \subseteq palette'[k].set
    PROVE  \A u \in Thread \ T : InPlace(u)' /\ Busy(u)'
<1> SUFFICES ASSUME NEW u \in Thread \ T PROVE InPlace(u)' /\ Busy(u)'
  OBVIOUS
<1>1. InPlace(u) /\ Busy(u)
  BY DEF IInv, Shape, Clean
<1>2. InPlace(u)'
  BY <1>1, PlaceRests DEF InPlace
<1>3. CASE th[u].pc # "idle"
  <2>1. Own(u) /\ th[u].key \in Key
    BY <1>1, <1>3 DEF InPlace, Busy
  <2>2. PICK key \in Key : key = th[u].key
    BY <2>1
  <2>3. hazard'[key] = {} /\ th[u].pc \in PinPC => obj'[th[u].ptr].set \subseteq Held(key)'
    BY <2>1, <2>2 DEF Own, Grows
  <2>4. Own(u)'
    BY <2>1, <2>2, <2>3, OwnRests
  <2>5. QED
    BY <1>2, <2>4 DEF Busy
<1>4. QED
  BY <1>2, <1>3 DEF Busy

\* A caller that takes the palette of its chunk away.
LEMMA PaletteSteps ==
    ASSUME IInv, NEW t \in Thread, NEW r \in ThreadState, Become(t, r),
           palette' = [palette EXCEPT ![th[t].key] = None], th[t].key \in Key,
           UNCHANGED <<cache, obj, disk, dirty, mutex, flush, dedup, encodeQ, batch, up, acked,
                       wins, hazard>>,
           th[t].pc \in DonePC => r.pc \in DonePC /\ r.key = th[t].key /\ r.block = th[t].block,
           InPlace(t)', Busy(t)'
    PROVE  IInv'
<1>1. /\ Types /\ Shape /\ Clean
      /\ th' \in [Thread -> ThreadState] /\ th'[t] = r
      /\ \A u \in Thread \ {t} : th'[u] = th[u]
      /\ \A u \in Thread : th'[u].loc \in Content \cup {None} /\ th'[u].need \subseteq Block
  BY Becomes DEF IInv
<1>2. palette' \in [Key -> Content \cup {None}] /\ \A k \in Key : palette'[k] \in {palette[k], None}
  BY <1>1 DEF Types, TypeOK
<1>3. Types'
  BY <1>1, <1>2 DEF Types, TypeOK
<1>4. \A k \in Key : Grows(k)
  BY DEF Grows, Held
<1> DEFINE T == {t}
<1>5. T \in SUBSET Thread /\ \A u \in Thread \ T : th'[u] = th[u]
  BY <1>1
<1> HIDE DEF T
<1>6. \A u \in Thread \ T : InPlace(u)' /\ Busy(u)'
  BY <1>2, <1>4, <1>5, OthersRest
<1>7. \A u \in Thread : InPlace(u)' /\ Busy(u)'
  BY <1>6 DEF T
<1>8. Shape'
  BY <1>1, <1>2, <1>7 DEF Shape, OneKey, Flushing, Closed
<1>9. ASSUME NEW key \in Key PROVE KeyClean(key)'
  BY <1>1, <1>2, <1>4, KeyRests DEF Clean, KeyClean
<1>10. Won'
  BY <1>1, WonRests DEF Clean
<1>11. QED
  BY <1>3, <1>7, <1>8, <1>9, <1>10 DEF IInv, Clean

LEMMA ErasePaletteKeeps == ASSUME IInv, NEW t \in Thread, ErasePalette(t) PROVE IInv'
<1> DEFINE r == [th[t] EXCEPT !.pc = "mark_dirty"]
<1>1. /\ th[t] \in ThreadState /\ InPlace(t) /\ th[t].pc = "erase_palette" /\ Own(t)
      /\ th[t].key \in Key /\ th[t].block \in Block /\ palette \in [Key -> Content \cup {None}]
  BY CallerFacts
     DEF ErasePalette, At, InPlace, ChangePC, DonePC, Busy, IInv, Types, TypeOK
<1>2. r \in ThreadState
  BY <1>1 DEF ThreadState, PC, ChangePC, DonePC
<1>3. Become(t, r) /\ th'[t] = r
  BY <1>2, Becomes DEF IInv, ErasePalette
<1>4. InPlace(t)'
  BY <1>1, <1>3
     DEF ErasePalette, InPlace, Acked, ThreadState, ChangePC, DonePC, PinPC, HitPC, PutPC, LocPC,
         CasPC
<1>5. PICK key \in Key : key = th[t].key
  BY <1>1
<1>6. Held(key)' = Held(key) /\ palette'[key] = None
  BY <1>1, <1>5 DEF ErasePalette, Held
<1>7. Busy(t)'
  BY <1>1, <1>3, <1>5, <1>6 DEF ErasePalette, Busy, Own, ThreadState, DonePC, PinPC, LocPC
<1>8. QED
  BY <1>1, <1>2, <1>3, <1>4, <1>7, PaletteSteps DEF ErasePalette, ThreadState, DonePC

LEMMA GetTakeKeeps == ASSUME IInv, NEW t \in Thread, GetTake(t) PROVE IInv'
<1> DEFINE p == palette[th[t].key]
           r == IF p # None THEN [th[t] EXCEPT !.pc = "callback", !.loc = p]
                            ELSE [th[t] EXCEPT !.pc = "get_encode"]
<1>1. /\ th[t] \in ThreadState /\ InPlace(t) /\ th[t].pc = "get_take" /\ Own(t)
      /\ th[t].key \in Key /\ th[t].ptr \in Obj /\ p \in Content \cup {None}
  BY CallerFacts DEF GetTake, At, InPlace, PinPC, Busy
<1>2. r \in ThreadState
  BY <1>1 DEF ThreadState, PC, LocPC, PinPC
<1>3. Become(t, r) /\ th'[t] = r
  BY <1>2, Becomes DEF IInv, GetTake
<1>4. InPlace(t)'
  BY <1>1, <1>3
     DEF GetTake, InPlace, Acked, ThreadState, ChangePC, DonePC, PinPC, HitPC, PutPC, LocPC, CasPC
<1>5. PICK key \in Key : key = th[t].key
  BY <1>1
<1>6. Held(key)' = Held(key)
  BY DEF GetTake, Held
<1>7. hazard[key] = {} /\ p # None => th[t].need \subseteq p.set
  BY <1>1, <1>5 DEF IInv, Clean, KeyClean, InPlace
<1>8. Busy(t)'
  BY <1>1, <1>3, <1>5, <1>6, <1>7 DEF GetTake, Busy, Own, ThreadState, DonePC, PinPC, LocPC
<1>9. QED
  BY <1>1, <1>2, <1>3, <1>4, <1>8, PaletteSteps DEF GetTake, DonePC

\* An encoded palette that is emplaced holds all that is acknowledged and
\* cached, or the race is recorded.
LEMMA GetMarkKeeps == ASSUME IInv, NEW t \in Thread, GetMark(t) PROVE IInv'
<1> DEFINE r == [th[t] EXCEPT !.pc = "callback"]
<1>1. /\ th[t] \in ThreadState /\ InPlace(t) /\ th[t].pc = "get_mark" /\ Own(t)
      /\ th[t].key \in Key /\ th[t].loc \in Content /\ Types /\ Shape /\ Clean
      /\ palette \in [Key -> Content \cup {None}] /\ hazard \in [Key -> SUBSET HazardName]
  BY CallerFacts DEF GetMark, At, InPlace, LocPC, Busy, IInv, Types, TypeOK
<1>2. r \in ThreadState
  BY <1>1 DEF ThreadState, PC, LocPC
<1>3. /\ Become(t, r) /\ th'[t] = r /\ th' \in [Thread -> ThreadState]
      /\ \A u \in Thread \ {t} : th'[u] = th[u]
      /\ \A u \in Thread : th'[u].loc \in Content \cup {None} /\ th'[u].need \subseteq Block
  BY <1>1, <1>2, Becomes DEF GetMark
<1>4. PICK key \in Key : key = th[t].key
  BY <1>1
<1> DEFINE emplaced == palette[key] = None
           stale == emplaced /\ ~(Acked(key) \cup Held(key) \subseteq th[t].loc.set)
<1>5. /\ UNCHANGED <<cache, obj, disk, dirty, mutex, flush, dedup, encodeQ, batch, up, acked, wins>>
      /\ palette' = [palette EXCEPT ![key] = IF emplaced THEN th[t].loc ELSE palette[key]]
      /\ hazard' = [hazard EXCEPT ![key] = hazard[key] \cup IF stale THEN {"palette"} ELSE {}]
  BY <1>4 DEF GetMark
<1>6. /\ palette' \in [Key -> Content \cup {None}]
      /\ palette'[key] = IF emplaced THEN th[t].loc ELSE palette[key]
      /\ \A k \in Key \ {key} : palette'[k] = palette[k]
  BY <1>1, <1>5
<1>7. /\ hazard' \in [Key -> SUBSET HazardName]
      /\ hazard'[key] = {} => hazard[key] = {} /\ ~stale
      /\ \A k \in Key \ {key} : hazard'[k] = hazard[k]
  BY <1>1, <1>5 DEF HazardName
<1>8. Types'
  BY <1>1, <1>3, <1>5, <1>6, <1>7 DEF Types, TypeOK
<1> HIDE DEF stale
<1>9. \A k \in Key : Grows(k)
  BY <1>5, <1>7 DEF Grows, Held
<1>10. InPlace(t)'
  BY <1>1, <1>3, <1>5
     DEF InPlace, Acked, ThreadState, ChangePC, DonePC, PinPC, HitPC, PutPC, LocPC, CasPC
<1>11. Busy(t)'
  BY <1>1, <1>3, <1>4, <1>7 DEF Busy, Own, ThreadState, DonePC, PinPC, LocPC
<1>12. hazard'[key] = {} => \/ palette'[key] = palette[key]
                            \/ /\ palette'[key].set = th[t].loc.set
                               /\ Acked(key) \cup Held(key) \subseteq th[t].loc.set
  BY <1>6, <1>7 DEF stale
<1> HIDE DEF emplaced
<1> DEFINE T == {t}
<1>13. T \in SUBSET Thread /\ \A u \in Thread \ T : th'[u] = th[u]
  BY <1>3
<1> HIDE DEF T
<1>14. \A k \in Key : hazard'[k] = {} =>
          palette'[k] = palette[k] \/ Held(k) \subseteq palette'[k].set
  BY <1>6, <1>12
<1>15. \A u \in Thread \ T : InPlace(u)' /\ Busy(u)'
  BY <1>5, <1>9, <1>13, <1>14, OthersRest
<1>16. \A u \in Thread : InPlace(u)' /\ Busy(u)'
  BY <1>10, <1>11, <1>15 DEF T
<1>17. Shape'
  BY <1>1, <1>5, <1>6, <1>16 DEF Shape, InPlace, OneKey, Flushing, Closed
<1>18. ASSUME NEW k \in Key PROVE KeyClean(k)'
  <2>1. KeyClean(k) /\ Grows(k)
    BY <1>1, <1>9 DEF Clean
  <2>2. CASE palette'[k] = palette[k]
    BY <1>5, <2>1, <2>2, KeyRests DEF KeyClean, Grows
  <2>3. CASE k = key /\ hazard'[key] = {} /\ palette'[key] # palette[key]
    <3>1. /\ hazard[key] = {} /\ palette'[key].set = th[t].loc.set
          /\ Acked(key) \cup Held(key) \subseteq th[t].loc.set
          /\ th[t].loc.set \subseteq Held(key)
      BY <1>1, <1>4, <1>7, <1>12, <2>3 DEF Own
    <3>2. Held(key)' = Held(key) /\ Acked(key)' = Acked(key) /\ (Writing(key)' <=> Writing(key))
      BY <1>5 DEF Held, Acked, Writing
    <3>3. QED
      BY <1>5, <2>1, <2>3, <3>1, <3>2 DEF KeyClean
  <2>4. QED
    BY <1>6, <2>2, <2>3 DEF KeyClean
<1>19. Won'
  BY <1>1, <1>3, <1>5, WonRests DEF Clean, DonePC
<1>20. QED
  BY <1>8, <1>16, <1>17, <1>18, <1>19 DEF IInv, Clean

\* What a caller is told is done is in the dirty set, and found by the next
\* lookup and in the palette.
LEMMA MarkDirtyKeeps == ASSUME IInv, NEW t \in Thread, MarkDirty(t) PROVE IInv'
<1>1. /\ InPlace(t) /\ th[t].pc = "mark_dirty" /\ Own(t) /\ up # "closed"
      /\ th[t].key \in Key /\ th[t].block \in Block /\ Types /\ Shape /\ Clean
  BY CallerFacts DEF MarkDirty, At, InPlace, ChangePC, DonePC, Busy, IInv
<1>2. /\ th'[t] = Idle /\ th' \in [Thread -> ThreadState]
      /\ \A u \in Thread \ {t} : th'[u] = th[u]
      /\ \A u \in Thread : th'[u].loc \in Content \cup {None} /\ th'[u].need \subseteq Block
  BY <1>1, IdleTyped, Becomes DEF MarkDirty, Return
<1>3. PICK key \in Key, b \in Block : key = th[t].key /\ b = th[t].block
  BY <1>1
<1>4. /\ UNCHANGED <<cache, obj, disk, palette, flush, dedup, encodeQ, batch, up, wins, hazard>>
      /\ dirty' = dirty \cup {key} /\ acked' = acked \cup {<<key, b>>}
      /\ mutex' = IF mutex = t THEN Null ELSE mutex
  BY <1>3 DEF MarkDirty
<1>5. Types'
  BY <1>1, <1>2, <1>4 DEF Types, TypeOK
<1>6. \A k \in Key : Grows(k)
  BY <1>4 DEF Grows, Held
<1>7. InPlace(t)' /\ Busy(t)'
  BY <1>2, ReturnInPlace
<1> DEFINE T == {t}
<1>8. T \in SUBSET Thread /\ \A u \in Thread \ T : th'[u] = th[u] /\ u # t
  BY <1>2
<1> HIDE DEF T
<1>9. \A u \in Thread \ T : InPlace(u)' /\ Busy(u)'
  BY <1>4, <1>6, <1>8, OthersRest
<1>10. \A u \in Thread : InPlace(u)' /\ Busy(u)'
  BY <1>7, <1>9 DEF T
<1>11. Shape'
  BY <1>1, <1>4, <1>10 DEF Shape, OneKey, Flushing, Closed
<1>12. ASSUME NEW k \in Key PROVE KeyClean(k)'
  <2> SUFFICES ASSUME hazard[k] = {} PROVE KeyClean(k)'
    BY <1>4 DEF KeyClean
  <2>1. /\ Held(k)' = Held(k) /\ (Writing(k)' <=> Writing(k))
        /\ Acked(k)' = Acked(k) \cup IF k = key THEN {b} ELSE {}
    BY <1>4 DEF Held, Acked, Writing
  <2>2. KeyClean(k)
    BY <1>1 DEF Clean
  <2>3. k = key => b \in Held(k) /\ (palette[k] # None => b \in palette[k].set)
    BY <1>1, <1>3 DEF Own, DonePC
  <2>4. QED
    BY <1>4, <2>1, <2>2, <2>3 DEF KeyClean
<1>13. Won'
  BY <1>1, <1>2, <1>3, <1>4, WonRests DEF Clean
<1>14. QED
  BY <1>5, <1>10, <1>11, <1>12, <1>13 DEF IInv, Clean

\* What the steps of the flush thread and of world generation share: no caller
\* moves, no object changes.
LEMMA BackgroundSteps ==
    ASSUME IInv, UNCHANGED <<cache, obj, mutex, th, up, ops, acked, wins>>, Types',
           Flushing', Closed', \A k \in Key : Grows(k),
           \A k \in Key : hazard'[k] = {} =>
               SetOf(disk[k]) \subseteq SetOf(disk'[k]) /\ palette'[k] \in {palette[k], None},
           \A k \in Key : KeyClean(k)'
    PROVE  IInv'
<1> DEFINE T == {}
<1>1. T \in SUBSET Thread /\ \A u \in Thread \ T : th'[u] = th[u]
  OBVIOUS
<1> HIDE DEF T
<1>2. \A u \in Thread \ T : InPlace(u)' /\ Busy(u)'
  BY <1>1, OthersRest
<1>3. \A u \in Thread : InPlace(u)' /\ Busy(u)'
  BY <1>2 DEF T
<1>4. Shape'
  BY <1>3 DEF IInv, Shape, OneKey
<1>5. Won'
  BY WonRests DEF IInv, Clean
<1>6. QED
  BY <1>3, <1>4, <1>5 DEF IInv, Clean

LEMMA FlushSwapKeeps == ASSUME IInv, FlushSwap PROVE IInv'
<1>1. /\ Types /\ Shape /\ Clean /\ flush.pc = "idle" /\ flush.keys = {} /\ up # "closed"
      /\ UNCHANGED <<cache, obj, disk, palette, mutex, th, dedup, encodeQ, batch, up, ops, acked,
                     wins, hazard>>
      /\ flush' = [FlushIdle EXCEPT !.pc = "next", !.keys = dirty] /\ dirty' = {}
  BY DEF IInv, Shape, Flushing, FlushSwap
<1>2. /\ flush' \in FlushState /\ flush'.keys = dirty /\ flush'.pc = "next"
      /\ flush'.snap \in Content \cup {None}
  BY <1>1 DEF Types, TypeOK, FlushIdle, FlushState
<1>3. Types' /\ Flushing' /\ Closed'
  BY <1>1, <1>2 DEF Types, TypeOK, Flushing, Closed
<1>4. \A k \in Key : Grows(k)
  BY <1>1 DEF Grows, Held
<1>5. ASSUME NEW k \in Key PROVE KeyClean(k)'
  <2>1. /\ Held(k)' = Held(k) /\ Acked(k)' = Acked(k) /\ ~Writing(k) /\ ~Writing(k)'
    BY <1>1, <1>2 DEF Held, Acked, Writing
  <2>2. QED
    BY <1>1, <1>2, <2>1 DEF Clean, KeyClean
<1>6. QED
  BY <1>1, <1>3, <1>4, <1>5, BackgroundSteps

\* The chunk taken for writing holds all that is acknowledged.
LEMMA FlushTakeKeeps == ASSUME IInv, NEW key \in Key, FlushTake(key) PROVE IInv'
<1> DEFINE snap == IF palette[key] # None THEN palette[key]
                   ELSE IF cache[key] # Null THEN obj[cache[key]]
                   ELSE None
           keys == flush.keys \ {key}
<1>1. /\ Types /\ Shape /\ Clean /\ flush.pc = "next" /\ key \in flush.keys /\ up # "closed"
      /\ UNCHANGED <<cache, obj, disk, dirty, mutex, th, dedup, encodeQ, batch, up, ops, acked,
                     wins, hazard>>
      /\ palette' = [palette EXCEPT ![key] = None]
  BY DEF IInv, Shape, Closed, FlushTake
<1>2. flush' = IF snap # None
               THEN [pc |-> "write", keys |-> keys, key |-> key, snap |-> snap]
               ELSE [FlushIdle EXCEPT !.pc = IF keys = {} THEN "idle" ELSE "next", !.keys = keys]
  BY DEF FlushTake
<1>3. /\ palette \in [Key -> Content \cup {None}] /\ cache \in [Key -> Obj \cup {Null}]
      /\ obj \in [Obj -> Content] /\ flush \in FlushState
  BY <1>1 DEF Types, TypeOK
<1>4. snap \in Content \cup {None} /\ keys \subseteq Key
  BY <1>3 DEF FlushState
<1>5. snap = None => palette[key] = None /\ cache[key] = Null
  BY <1>3, ContentTypes
<1> DEFINE s == snap
<1>6. /\ hazard[key] = {} /\ s # None => /\ Acked(key) \cup SetOf(disk[key]) \subseteq s.set
                                         /\ s.set \subseteq Held(key)
  BY <1>1 DEF Clean, KeyClean, Held
<1> HIDE DEF snap, keys
<1>7. /\ flush' \in FlushState /\ flush'.keys = keys /\ flush'.snap \in Content \cup {None}
      /\ flush'.keys \subseteq Key
      /\ snap # None => flush'.pc = "write" /\ flush'.key = key /\ flush'.snap = snap
      /\ snap = None => flush'.pc # "write"
      /\ Flushing'
  BY <1>2, <1>4 DEF FlushState, FlushIdle, Flushing
<1>8. palette' \in [Key -> Content \cup {None}] /\ palette'[key] = None
      /\ \A k \in Key \ {key} : palette'[k] = palette[k]
  BY <1>1, <1>3
<1>9. Types' /\ Closed'
  BY <1>1, <1>7, <1>8 DEF Types, TypeOK, Closed
<1>10. \A k \in Key : Grows(k)
  BY <1>1 DEF Grows, Held
<1>11. ASSUME NEW k \in Key PROVE KeyClean(k)'
  <2> SUFFICES ASSUME hazard[k] = {} PROVE KeyClean(k)'
    BY <1>1 DEF KeyClean
  <2>1. /\ Held(k)' = Held(k) /\ Acked(k)' = Acked(k) /\ ~Writing(k)
        /\ (Writing(k)' <=> snap # None /\ k = key)
    BY <1>1, <1>7 DEF Held, Acked, Writing
  <2>2. KeyClean(k)
    BY <1>1 DEF Clean
  <2>3. CASE k # key
    <3>1. flush'.keys = flush.keys \ {key} /\ palette'[k] = palette[k]
      BY <1>7, <1>8, <2>3 DEF keys
    <3>2. QED
      BY <1>1, <2>1, <2>2, <2>3, <3>1 DEF KeyClean
  <2>4. CASE k = key /\ snap # None
    BY <1>1, <1>6, <1>7, <1>8, <2>1, <2>2, <2>4 DEF KeyClean
  <2>5. CASE k = key /\ snap = None
    <3>1. Held(k) = SetOf(disk[k])
      BY <1>5, <2>5 DEF Held
    <3>2. QED
      BY <1>1, <1>8, <2>1, <2>2, <2>5, <3>1 DEF KeyClean
  <2>6. QED
    BY <2>3, <2>4, <2>5
<1>12. QED
  BY <1>1, <1>7, <1>8, <1>9, <1>10, <1>11, BackgroundSteps

LEMMA FlushWriteKeeps == ASSUME IInv, FlushWrite PROVE IInv'
<1> DEFINE key == flush.key
           snap == flush.snap
<1>1. /\ Types /\ Shape /\ Clean /\ flush.pc = "write" /\ up # "closed"
      /\ flush.key \in Key /\ flush.snap \in Content
      /\ UNCHANGED <<cache, obj, palette, dirty, mutex, th, dedup, encodeQ, batch, up, ops, acked,
                     wins>>
      /\ flush' = [FlushIdle EXCEPT !.pc = IF flush.keys = {} THEN "idle" ELSE "next",
                                    !.keys = flush.keys]
  BY DEF IInv, Shape, Closed, Flushing, FlushWrite
<1>2. /\ disk \in [Key -> Content \cup {None, Undecodable}]
      /\ hazard \in [Key -> SUBSET HazardName] /\ flush \in FlushState
      /\ flush.keys \subseteq Key
  BY <1>1 DEF Types, TypeOK
<1>3. /\ flush' \in FlushState /\ flush'.keys = flush.keys /\ flush'.pc # "write"
      /\ flush'.snap \in Content \cup {None} /\ Flushing'
  BY <1>1, <1>2 DEF FlushIdle, FlushState, Flushing
<1>4. PICK k0 \in Key, c \in Content : k0 = flush.key /\ c = flush.snap
  BY <1>1
<1>5. SetOf(c) = c.set
  BY ContentTypes
<1>6. /\ disk' \in [Key -> Content \cup {None, Undecodable}]
      /\ hazard' \in [Key -> SUBSET HazardName]
      /\ \A k \in Key : hazard'[k] = {} => hazard[k] = {}
      /\ \A k \in Key \ {k0} : disk'[k] = disk[k]
      /\ hazard'[k0] = {} => disk'[k0] = c
  BY <1>1, <1>2, <1>4 DEF FlushWrite, HazardName
<1>7. Types' /\ Closed'
  BY <1>1, <1>3, <1>6 DEF Types, TypeOK, Closed
<1>8. ASSUME hazard'[k0] = {}
      PROVE  /\ SetOf(disk[k0]) \subseteq c.set /\ c.set \subseteq Held(k0)
             /\ palette[k0] # None => c.set \subseteq palette[k0].set
  BY <1>1, <1>4, <1>6, <1>8 DEF Clean, KeyClean, Writing
<1>9. ASSUME NEW k \in Key PROVE Grows(k)
  BY <1>1, <1>5, <1>6, <1>8 DEF Grows, Held
<1>10. \A k \in Key : hazard'[k] = {} => SetOf(disk[k]) \subseteq SetOf(disk'[k])
  BY <1>5, <1>6, <1>8
<1>11. ASSUME NEW k \in Key PROVE KeyClean(k)'
  <2> SUFFICES ASSUME hazard'[k] = {} PROVE KeyClean(k)'
    BY DEF KeyClean
  <2>1. /\ KeyClean(k) /\ hazard[k] = {} /\ Held(k) \subseteq Held(k)' /\ ~Writing(k)'
        /\ Acked(k)' = Acked(k)
    BY <1>1, <1>3, <1>6, <1>9 DEF Clean, Grows, Acked, Writing
  <2>2. CASE k = k0
    <3>1. SetOf(disk'[k]) = c.set /\ SetOf(disk[k]) \subseteq c.set /\ c.set \subseteq Held(k)
          /\ (palette[k] # None => c.set \subseteq palette[k].set)
      BY <1>5, <1>6, <1>8, <2>2
    <3>2. \A b \in Acked(k) : b \in c.set \/ k \in dirty \cup flush.keys
      BY <1>4, <2>1, <2>2, <3>1 DEF KeyClean
    <3>3. QED
      BY <1>1, <1>3, <2>1, <3>1, <3>2 DEF KeyClean
  <2>3. CASE k # k0
    BY <1>1, <1>3, <1>4, <1>6, <2>1, <2>3 DEF KeyClean, Writing
  <2>4. QED
    BY <2>2, <2>3
<1>12. QED
  BY <1>1, <1>3, <1>7, <1>9, <1>10, <1>11, BackgroundSteps

LEMMA GenerateKeeps == ASSUME IInv, NEW key \in Key, Generate(key) PROVE IInv'
<1>1. /\ Types /\ Shape /\ Clean
      /\ UNCHANGED <<cache, obj, disk, palette, dirty, mutex, th, flush, batch, up, ops, acked,
                     wins, hazard>>
  BY DEF IInv, Generate
<1>2. Types' /\ Flushing' /\ Closed'
  BY <1>1 DEF Types, TypeOK, Shape, Flushing, Closed, Generate
<1>3. \A k \in Key : Grows(k)
  BY <1>1 DEF Grows, Held
<1>4. \A k \in Key : KeyClean(k)'
  BY <1>1, <1>3, KeyRests DEF Clean, KeyClean
<1>5. QED
  BY <1>1, <1>2, <1>3, <1>4, BackgroundSteps

\* A generated chunk written over a stored one loses what that one had, or the
\* stored one had no changes.
LEMMA WriteBatchKeeps == ASSUME IInv, NEW key \in Key, WriteBatch(key) PROVE IInv'
<1>1. /\ Types /\ Shape /\ Clean
      /\ UNCHANGED <<cache, obj, palette, dirty, mutex, th, flush, dedup, encodeQ, up, ops, acked,
                     wins>>
      /\ disk \in [Key -> Content \cup {None, Undecodable}] /\ batch \in [Key -> Nat]
      /\ hazard \in [Key -> SUBSET HazardName]
      /\ Terrain(key) \in Content /\ SetOf(Terrain(key)) = {}
  BY ContentTypes DEF IInv, Types, TypeOK, WriteBatch
<1>2. /\ disk' \in [Key -> Content \cup {None, Undecodable}]
      /\ disk'[key] = Terrain(key) /\ \A k \in Key \ {key} : disk'[k] = disk[k]
      /\ batch' \in [Key -> Nat] /\ hazard' \in [Key -> SUBSET HazardName]
      /\ \A k \in Key : hazard'[k] = {} => hazard[k] = {}
      /\ hazard'[key] = {} => SetOf(disk[key]) = {}
  BY <1>1 DEF WriteBatch, HazardName
<1>3. Types' /\ Flushing' /\ Closed'
  BY <1>1, <1>2 DEF Types, TypeOK, Shape, Flushing, Closed
<1>4. \A k \in Key : hazard'[k] = {} => hazard[k] = {} /\ SetOf(disk'[k]) = SetOf(disk[k])
  BY <1>1, <1>2
<1>5. ASSUME NEW k \in Key, hazard'[k] = {} PROVE Held(k)' = Held(k)
  BY <1>1, <1>4, <1>5 DEF Held
<1>6. \A k \in Key : Grows(k)
  BY <1>4, <1>5 DEF Grows
<1>7. ASSUME NEW k \in Key PROVE KeyClean(k)'
  <2> SUFFICES ASSUME hazard'[k] = {} PROVE KeyClean(k)'
    BY DEF KeyClean
  <2>1. /\ KeyClean(k) /\ Held(k)' = Held(k) /\ Acked(k)' = Acked(k)
        /\ (Writing(k)' <=> Writing(k))
    BY <1>1, <1>5 DEF Clean, Acked, Writing
  <2>2. QED
    BY <1>1, <1>4, <2>1 DEF KeyClean
<1>8. QED
  BY <1>1, <1>3, <1>4, <1>6, <1>7, BackgroundSteps

------------------------------------------------------------------------------
(* close() and restart: no caller is inside the store.                      *)

LEMMA RestSteps ==
    ASSUME IInv, \A t \in Thread : th[t].pc = "idle", UNCHANGED <<mutex, th, acked, wins>>,
           Types', OneKey', Flushing', Closed', \A k \in Key : KeyClean(k)'
    PROVE  IInv'
<1>1. ASSUME NEW t \in Thread PROVE InPlace(t)' /\ Busy(t)'
  BY <1>1, PlaceRests DEF IInv, Shape, Busy, PinPC, CasPC
<1>2. Won'
  BY WonRests DEF IInv, Clean
<1>3. QED
  BY <1>1, <1>2 DEF IInv, Shape, Clean

LEMMA CloseKeeps == ASSUME IInv, Close PROVE IInv'
<1>1. Types' /\ OneKey' /\ Flushing' /\ Closed'
  BY DEF IInv, Types, TypeOK, Shape, OneKey, Flushing, Closed, Close
<1>2. \A k \in Key : Grows(k)
  BY DEF Grows, Held, Close
<1>3. \A k \in Key : KeyClean(k)'
  BY <1>2, KeyRests DEF IInv, Clean, KeyClean, Close
<1>4. QED
  BY <1>1, <1>3, RestSteps DEF Close, At

\* The cache is cleared when all that is acknowledged is in LMDB.
LEMMA ClearCacheKeeps == ASSUME IInv, ClearCache PROVE IInv'
<1>1. /\ Types /\ Shape /\ Clean /\ up = "closing"
      /\ \A t \in Thread : th[t].pc = "idle"
      /\ UNCHANGED <<obj, disk, dirty, mutex, th, flush, batch, ops, acked, wins, hazard>>
      /\ \A k \in Key : cache'[k] = Null /\ palette'[k] = None
      /\ flush.pc = "idle" /\ flush.keys = {} /\ dirty = {}
  BY DEF IInv, Shape, InPlace, Flushing, ClearCache
<1>2. Types'
  BY <1>1 DEF Types, TypeOK, ClearCache
<1>3. OneKey' /\ Flushing' /\ Closed'
  BY <1>1 DEF Shape, OneKey, Flushing, Closed
<1>4. ASSUME NEW k \in Key PROVE KeyClean(k)'
  <2> SUFFICES ASSUME hazard[k] = {} PROVE KeyClean(k)'
    BY <1>1 DEF KeyClean
  <2>1. /\ KeyClean(k) /\ Held(k)' = SetOf(disk[k]) /\ Acked(k)' = Acked(k)
        /\ ~Writing(k) /\ ~Writing(k)'
    BY <1>1 DEF Clean, Held, Acked, Writing
  <2>2. Acked(k) \subseteq SetOf(disk[k])
    BY <1>1, <2>1 DEF KeyClean
  <2>3. QED
    BY <1>1, <2>1, <2>2 DEF KeyClean
<1>5. QED
  BY <1>1, <1>2, <1>3, <1>4, RestSteps

LEMMA ReopenKeeps == ASSUME IInv, Reopen PROVE IInv'
<1>1. /\ Types /\ Shape /\ Clean /\ up = "closed"
      /\ \A t \in Thread : th[t].pc = "idle"
      /\ UNCHANGED <<cache, disk, palette, dirty, mutex, th, flush, dedup, encodeQ, batch, ops,
                     acked, wins, hazard>>
      /\ \A k \in Key : cache[k] = Null /\ palette[k] = None
  BY DEF IInv, Shape, InPlace, Closed, Reopen
<1>2. Types'
  BY <1>1, ContentTypes DEF Types, TypeOK, Reopen
<1>3. OneKey' /\ Flushing' /\ Closed'
  BY <1>1 DEF Shape, OneKey, Flushing, Closed, Reopen
<1>4. \A k \in Key : Grows(k)
  BY <1>1 DEF Grows, Held
<1>5. \A k \in Key : KeyClean(k)'
  BY <1>1, <1>4, KeyRests DEF Clean, KeyClean
<1>6. QED
  BY <1>1, <1>2, <1>3, <1>5, RestSteps

------------------------------------------------------------------------------
LEMMA CallerKeeps == ASSUME IInv, NEW t \in Thread, Caller(t) PROVE IInv'
<1>1. ASSUME NEW key \in Key, NEW b \in Block, SetBlock(t, key, b) \/ CasBlock(t, key, b)
      PROVE  IInv'
  BY <1>1, ChangeBegins
<1>2. ASSUME NEW key \in Key, AsyncGetChunk(t, key) \/ GetBlockAt(t, key) PROVE IInv'
  BY <1>2, ReadBegins
<1>3. QED
  BY <1>1, <1>2, SetHitKeeps, SetReadKeeps, SetPutKeeps, ErasePaletteKeeps, MarkDirtyKeeps,
     CasHitKeeps, CasSetKeeps, CasReadKeeps, CasPutKeeps, GetTakeKeeps, GetEncodeKeeps,
     GetMarkKeeps, GetReadKeeps, GetPutKeeps, CallbackKeeps, BlockReadKeeps, BlockPutKeeps DEF Caller

LEMMA NextKeeps == IInv /\ [Next]_vars => IInv'
<1> SUFFICES ASSUME IInv, [Next]_vars PROVE IInv'
  OBVIOUS
<1>1. ASSUME NEW t \in Thread, Caller(t) PROVE IInv'
  BY <1>1, CallerKeeps
<1>2. CASE Flusher
  BY <1>2, FlushSwapKeeps, FlushTakeKeeps, FlushWriteKeeps DEF Flusher
<1>3. CASE Worldgen
  BY <1>3, GenerateKeeps, EncodeKeeps, WriteBatchKeeps DEF Worldgen
<1>4. CASE Close \/ ClearCache \/ Reopen
  BY <1>4, CloseKeeps, ClearCacheKeeps, ReopenKeeps
<1>5. CASE UNCHANGED vars
  <2>1. UNCHANGED <<cache, obj, disk, palette, dirty, mutex, th, flush, dedup, encodeQ, batch, up,
                    ops, acked, wins, hazard>>
    BY <1>5 DEF vars
  <2>2. Types' /\ Flushing' /\ Closed'
    BY <2>1 DEF IInv, Types, TypeOK, Shape, Flushing, Closed
  <2>3. \A k \in Key : Grows(k)
    BY <2>1 DEF Grows, Held
  <2>4. \A k \in Key : KeyClean(k)'
    BY <2>1, <2>3, KeyRests DEF IInv, Clean, KeyClean
  <2>5. QED
    BY <2>1, <2>2, <2>3, <2>4, BackgroundSteps
<1>6. QED
  BY <1>1, <1>2, <1>3, <1>4, <1>5 DEF Next

------------------------------------------------------------------------------
\* The store, its callers and the flush thread keep their types, whichever races
\* lose a change (ChunkStore.cpp).
THEOREM StoreTypeCorrect == Spec => []TypeOK
<1>1. IInv => TypeOK
  BY DEF IInv, Types
<1>2. QED
  BY <1>1, InitHolds, NextKeeps, PTL DEF Spec

\* A change that setBlock() or casBlock() reported as done is in LMDB or queued
\* for the flush thread until it is, through flushes, reads that take palettes,
\* close() and restart, unless one of the named races dropped it.
THEOREM AckedIsDurableHolds == Spec => []AckedIsDurable
<1>1. ASSUME IInv PROVE AckedIsDurable
  <2> SUFFICES ASSUME NEW key \in Key, NEW b \in Block, <<key, b>> \in acked, hazard[key] = {}
               PROVE  b \in SetOf(disk[key]) \/ Queued(key, b)
    BY DEF AckedIsDurable
  <2>1. KeyClean(key) /\ b \in Acked(key)
    BY <1>1 DEF IInv, Clean, Acked
  <2>2. CASE key \in dirty \cup flush.keys
    <3>1. palette[key] # None => b \in palette[key].set
      BY <2>1 DEF KeyClean
    <3>2. b \in Held(key)
      BY <2>1 DEF KeyClean
    <3>3. QED
      BY <2>2, <3>1, <3>2 DEF Queued, Pending, Held
  <2>3. QED
    BY <2>1, <2>2 DEF KeyClean, Queued, Writing
<1>2. QED
  BY <1>1, InitHolds, NextKeeps, PTL DEF Spec

\* Of the CASes of a block that expect the same value at most one wins, with
\* setBlock(), evictions, reloads and flushes between casBlock()'s comparison and
\* its write: for a chunk that none of the named races has struck, and for no
\* other (each race leaves `hazard' set; ChunkStore says which step sets it).
THEOREM CasWinsOnceHolds == Spec => []CasWinsOnce
<1>1. IInv => CasWinsOnce
  BY DEF IInv, Clean, KeyClean, CasWinsOnce
<1>2. QED
  BY <1>1, InitHolds, NextKeeps, PTL DEF Spec

\* AsyncGetChunk() answers with every change acknowledged before the call, from
\* the palette, the cached chunk or LMDB: for a chunk that none of the named
\* races has struck, and for no other.
THEOREM ReadsSeeAckedHolds == Spec => []ReadsSeeAcked
<1>1. ASSUME IInv PROVE ReadsSeeAcked
  <2> SUFFICES ASSUME NEW t \in Thread, At(t, "callback"), hazard[th[t].key] = {}
               PROVE  th[t].need \subseteq th[t].loc.set
    BY DEF ReadsSeeAcked
  <2>1. Own(t) /\ th[t].pc \in LocPC
    BY <1>1 DEF IInv, Clean, Busy, At, LocPC
  <2>2. QED
    BY <2>1 DEF Own
<1>2. QED
  BY <1>1, InitHolds, NextKeeps, PTL DEF Spec
=============================================================================
