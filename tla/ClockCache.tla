------------------------------ MODULE ClockCache ------------------------------
(***************************************************************************)
(* The lock-free set-associative CLOCK cache of chunkd                     *)
(* (src/src/apps/chunk_store/Storage/cache/ClockCache.h).                  *)
(*                                                                         *)
(* One set of the cache is modelled: set_idx() sends a key to one set and  *)
(* sets share nothing, so the keys below are keys that collide.  Every     *)
(* load, store and compare-and-swap of a 128-bit slot, and of the CLOCK    *)
(* hand, is a step of its own; the branchless mask arithmetic between them *)
(* is local to the thread and is folded into the step that follows it.     *)
(*                                                                         *)
(* Values are pointers to chunks.  A caller of put() gives a pointer away, *)
(* and on_evict() gives one back: `free' holds the pointers the callers    *)
(* own, and mine[t] the pointer thread t answers for in the middle of an   *)
(* operation (the one it is inserting, then the one its CAS displaced).    *)
(***************************************************************************)
EXTENDS Naturals, FiniteSets

CONSTANTS
    Thread,     \* threads that call the cache
    Key,        \* keys of one set
    Val,        \* chunk pointers
    NoKey,      \* key 0, the empty-slot sentinel
    NoVal,      \* the null pointer
    Assoc,      \* kAssoc, ways per set
    MaxOps      \* bound on the number of operations started

ASSUME AssocAssumption == Assoc \in Nat \ {0}
ASSUME MaxOpsAssumption == MaxOps \in Nat
ASSUME SentinelAssumption == NoKey \notin Key /\ NoVal \notin Val

VARIABLES
    slot,   \* the ways of the set
    hand,   \* CLOCK hand of the set
    free,   \* pointers owned by the callers
    pc,     \* where each thread is
    k,      \* the key argument of the thread's operation
    mine,   \* the pointer the thread answers for
    v,      \* the slots as the thread loaded them
    i,      \* loop counter of the thread
    h,      \* the hand as the thread loaded it
    got,    \* values the last get() of the thread OR-ed together
    ops     \* operations started so far

vars == <<slot, hand, free, pc, k, mine, v, i, h, got, ops>>

Ways == 0 .. Assoc - 1
Slot == [key : Key \cup {NoKey}, val : Val \cup {NoVal}, ref : BOOLEAN]
Empty == [key |-> NoKey, val |-> NoVal, ref |-> FALSE]

GetPC == {"get_load", "get_hit"}
PutPC == {"put_load", "put_same", "put_empty", "put_hand", "put_scan",
          "put_clear", "put_clear_cas", "put_clear_adv"}
ErasePC == {"erase_load", "erase_cas"}
ClearPC == {"clear_load", "clear_cas", "clear_evict"}
PC == GetPC \cup PutPC \cup ErasePC \cup ClearPC \cup {"idle", "put_adv", "evict"}

\* pack() always sets the reference bit.
pack(key, val) == [key |-> key, val |-> val, ref |-> TRUE]
set_ref(s) == [s EXCEPT !.ref = TRUE]
clear_ref(s) == [s EXCEPT !.ref = FALSE]

\* The ways whose loaded key matches.
Matches(t) == {w \in Ways : v[t][w].key = k[t]}

\* __builtin_ctzll(m0 | m1 | m2 | m3): each mask is 0 or all ones, so the union
\* of the masks, when it is not 0, has its lowest bit set, and the index it
\* yields is 0 whichever way matched.
CtzIndex == 0

\* Mutant: the scan takes the entry at the hand whatever its reference bit.
VictimsAny(t) == Ways

\* The n-th way in CLOCK order from the loaded hand, and the first way in
\* that order whose loaded reference bit is clear.
Clock(t, n) == (h[t] + n) % Assoc
Victims(t) == {n \in Ways : ~v[t][Clock(t, n)].ref}
Victim(t) == Clock(t, CHOOSE n \in Victims(t) : \A u \in Victims(t) : n <= u)

Init ==
    /\ slot = [w \in Ways |-> Empty]
    /\ hand = 0
    /\ free = Val
    /\ pc = [t \in Thread |-> "idle"]
    /\ k = [t \in Thread |-> NoKey]
    /\ mine = [t \in Thread |-> NoVal]
    /\ v = [t \in Thread |-> [w \in Ways |-> Empty]]
    /\ i = [t \in Thread |-> 0]
    /\ h = [t \in Thread |-> 0]
    /\ got = [t \in Thread |-> {}]
    /\ ops = 0

Goto(t, p) == pc' = [pc EXCEPT ![t] = p]

Start(t, p, key) ==
    /\ pc[t] = "idle"
    /\ ops < MaxOps
    /\ ops' = ops + 1
    /\ Goto(t, p)
    /\ k' = [k EXCEPT ![t] = key]
    /\ i' = [i EXCEPT ![t] = 0]
    /\ UNCHANGED <<slot, hand, v, h>>

\* Load the ways one after another, then go to p.
Load(t, p, next) ==
    /\ pc[t] = p
    /\ v' = [v EXCEPT ![t][i[t]] = slot[i[t]]]
    /\ IF i[t] + 1 < Assoc
       THEN /\ i' = [i EXCEPT ![t] = i[t] + 1]
            /\ UNCHANGED pc
       ELSE /\ i' = [i EXCEPT ![t] = 0]
            /\ Goto(t, next)
    /\ UNCHANGED <<slot, hand, free, k, mine, h, got, ops>>

------------------------------------------------------------------------------
(* get(): four loads, a mask over the matches, a fire-and-forget CAS that   *)
(* sets the reference bit of way CtzIndex.                                  *)

GetStart(t, key) ==
    /\ Start(t, "get_load", key)
    /\ got' = [got EXCEPT ![t] = {}]
    /\ UNCHANGED <<free, mine>>

GetLoad(t) == Load(t, "get_load", "get_hit")

GetHit(t) ==
    /\ pc[t] = "get_hit"
    /\ Goto(t, "idle")
    /\ got' = [got EXCEPT ![t] = {v[t][w].val : w \in Matches(t)}]
    /\ slot' = IF Matches(t) # {} /\ slot[CtzIndex] = v[t][CtzIndex]
               THEN [slot EXCEPT ![CtzIndex] = set_ref(v[t][CtzIndex])]
               ELSE slot
    /\ UNCHANGED <<hand, free, k, mine, v, i, h, ops>>

------------------------------------------------------------------------------
(* put(): pass 1 same key, pass 2 empty slot, pass 3 CLOCK scan for a clear *)
(* reference bit, pass 4 clear the bit at the hand and try again.           *)

PutStart(t, key, val) ==
    /\ Start(t, "put_load", key)
    /\ val \in free
    /\ free' = free \ {val}
    /\ mine' = [mine EXCEPT ![t] = val]
    /\ UNCHANGED got

PutLoad(t) == Load(t, "put_load", "put_same")

\* Mutant: the entry is stored without checking it is still what was loaded.
SwapBlind(t, w, ok, fail) ==
    /\ slot' = [slot EXCEPT ![w] = pack(k[t], mine[t])]
    /\ mine' = [mine EXCEPT ![t] = v[t][w].val]
    /\ Goto(t, ok)

\* CAS the loaded contents of way w to the new entry; on success the thread
\* answers for the pointer it displaced.
Swap(t, w, ok, fail) ==
    IF slot[w] = v[t][w]
    THEN /\ slot' = [slot EXCEPT ![w] = pack(k[t], mine[t])]
         /\ mine' = [mine EXCEPT ![t] = v[t][w].val]
         /\ Goto(t, ok)
    ELSE /\ Goto(t, fail)
         /\ UNCHANGED <<slot, mine>>

PutSame(t) ==
    /\ pc[t] = "put_same"
    /\ IF Matches(t) # {}
       THEN Swap(t, CtzIndex, "evict", "put_load")
       ELSE /\ Goto(t, "put_empty")
            /\ UNCHANGED <<slot, mine>>
    /\ UNCHANGED <<hand, free, k, v, i, h, got, ops>>

PutEmpty(t) ==
    /\ pc[t] = "put_empty"
    /\ IF slot[i[t]] = Empty
       THEN /\ slot' = [slot EXCEPT ![i[t]] = pack(k[t], mine[t])]
            /\ mine' = [mine EXCEPT ![t] = NoVal]
            /\ i' = [i EXCEPT ![t] = 0]
            /\ Goto(t, "idle")
       ELSE /\ IF i[t] + 1 < Assoc
               THEN /\ i' = [i EXCEPT ![t] = i[t] + 1]
                    /\ UNCHANGED pc
               ELSE /\ i' = [i EXCEPT ![t] = 0]
                    /\ Goto(t, "put_hand")
            /\ UNCHANGED <<slot, mine>>
    /\ UNCHANGED <<hand, free, k, v, h, got, ops>>

PutHand(t) ==
    /\ pc[t] = "put_hand"
    /\ h' = [h EXCEPT ![t] = hand]
    /\ Goto(t, "put_scan")
    /\ UNCHANGED <<slot, hand, free, k, mine, v, i, got, ops>>

PutScan(t) ==
    /\ pc[t] = "put_scan"
    /\ IF Victims(t) # {}
       THEN /\ Swap(t, Victim(t), "put_adv", "put_load")
            /\ i' = [i EXCEPT ![t] = IF slot[Victim(t)] = v[t][Victim(t)]
                                     THEN Victim(t) ELSE 0]
       ELSE /\ Goto(t, "put_clear")
            /\ UNCHANGED <<slot, mine, i>>
    /\ UNCHANGED <<hand, free, k, v, h, got, ops>>

\* Mutant: pass 3 forgets the callback for the entry it evicts.
PutAdvanceNoEvict(t) ==
    /\ pc[t] = "put_adv"
    /\ hand' = (i[t] + 1) % Assoc
    /\ Goto(t, "idle")
    /\ UNCHANGED <<slot, free, k, mine, v, i, h, got, ops>>

\* Advance the hand past the evicted way; an empty way has nothing to evict.
PutAdvance(t) ==
    /\ pc[t] = "put_adv"
    /\ hand' = (i[t] + 1) % Assoc
    /\ Goto(t, IF v[t][i[t]].key # NoKey THEN "evict" ELSE "idle")
    /\ UNCHANGED <<slot, free, k, mine, v, i, h, got, ops>>

PutClear(t) ==
    /\ pc[t] = "put_clear"
    /\ v' = [v EXCEPT ![t][h[t]] = slot[h[t]]]
    /\ Goto(t, "put_clear_cas")
    /\ UNCHANGED <<slot, hand, free, k, mine, i, h, got, ops>>

\* Mutant: pass 4 leaves the reference bit set.
PutClearCasSkipped(t) ==
    /\ pc[t] = "put_clear_cas"
    /\ Goto(t, "put_clear_adv")
    /\ UNCHANGED <<slot, hand, free, k, mine, v, i, h, got, ops>>

PutClearCas(t) ==
    /\ pc[t] = "put_clear_cas"
    /\ slot' = IF slot[h[t]] = v[t][h[t]]
               THEN [slot EXCEPT ![h[t]] = clear_ref(v[t][h[t]])]
               ELSE slot
    /\ Goto(t, "put_clear_adv")
    /\ UNCHANGED <<hand, free, k, mine, v, i, h, got, ops>>

\* Mutant: the hand is advanced without the mask.
PutClearAdvanceUnmasked(t) ==
    /\ pc[t] = "put_clear_adv"
    /\ hand' = h[t] + 1
    /\ Goto(t, "put_load")
    /\ UNCHANGED <<slot, free, k, mine, v, i, h, got, ops>>

PutClearAdvance(t) ==
    /\ pc[t] = "put_clear_adv"
    /\ hand' = (h[t] + 1) % Assoc
    /\ Goto(t, "put_load")
    /\ UNCHANGED <<slot, free, k, mine, v, i, h, got, ops>>

\* on_evict(): the pointer, unless it is null, goes back to the callers
\* (ChunkCache's pool).
Evict(t) ==
    /\ pc[t] = "evict"
    /\ free' = free \cup ({mine[t]} \ {NoVal})
    /\ mine' = [mine EXCEPT ![t] = NoVal]
    /\ i' = [i EXCEPT ![t] = 0]
    /\ Goto(t, "idle")
    /\ UNCHANGED <<slot, hand, k, v, h, got, ops>>

------------------------------------------------------------------------------
(* erase() and clear().                                                     *)

EraseStart(t, key) ==
    /\ Start(t, "erase_load", key)
    /\ UNCHANGED <<free, mine, got>>

EraseLoad(t) == Load(t, "erase_load", "erase_cas")

\* CAS the loaded contents of way w to empty.
Take(t, w, ok, fail) ==
    IF slot[w] = v[t][w]
    THEN /\ slot' = [slot EXCEPT ![w] = Empty]
         /\ mine' = [mine EXCEPT ![t] = v[t][w].val]
         /\ Goto(t, ok)
    ELSE /\ Goto(t, fail)
         /\ UNCHANGED <<slot, mine>>

EraseCas(t) ==
    /\ pc[t] = "erase_cas"
    /\ IF Matches(t) # {}
       THEN Take(t, CtzIndex, "evict", "idle")
       ELSE /\ Goto(t, "idle")
            /\ UNCHANGED <<slot, mine>>
    /\ UNCHANGED <<hand, free, k, v, i, h, got, ops>>

ClearStart(t) ==
    /\ Start(t, "clear_load", NoKey)
    /\ UNCHANGED <<free, mine, got>>

\* Move to the next way, or return after the last.
ClearNext(t) ==
    IF i[t] + 1 < Assoc
    THEN /\ i' = [i EXCEPT ![t] = i[t] + 1]
         /\ Goto(t, "clear_load")
    ELSE /\ i' = [i EXCEPT ![t] = 0]
         /\ Goto(t, "idle")

ClearLoad(t) ==
    /\ pc[t] = "clear_load"
    /\ v' = [v EXCEPT ![t][i[t]] = slot[i[t]]]
    /\ IF slot[i[t]].key = NoKey
       THEN ClearNext(t)
       ELSE /\ Goto(t, "clear_cas")
            /\ UNCHANGED i
    /\ UNCHANGED <<slot, hand, free, k, mine, h, got, ops>>

ClearCas(t) ==
    /\ pc[t] = "clear_cas"
    /\ Take(t, i[t], "clear_evict", "clear_load")
    /\ UNCHANGED <<hand, free, k, v, i, h, got, ops>>

ClearEvict(t) ==
    /\ pc[t] = "clear_evict"
    /\ free' = free \cup ({mine[t]} \ {NoVal})
    /\ mine' = [mine EXCEPT ![t] = NoVal]
    /\ ClearNext(t)
    /\ UNCHANGED <<slot, hand, k, v, h, got, ops>>

------------------------------------------------------------------------------
Get(t) == (\E key \in Key : GetStart(t, key)) \/ GetLoad(t) \/ GetHit(t)

Put(t) ==
    \/ \E key \in Key, val \in Val : PutStart(t, key, val)
    \/ PutLoad(t) \/ PutSame(t) \/ PutEmpty(t) \/ PutHand(t) \/ PutScan(t)
    \/ PutAdvance(t) \/ PutClear(t) \/ PutClearCas(t) \/ PutClearAdvance(t)
    \/ Evict(t)

Erase(t) == (\E key \in Key : EraseStart(t, key)) \/ EraseLoad(t) \/ EraseCas(t)

Clear(t) == ClearStart(t) \/ ClearLoad(t) \/ ClearCas(t) \/ ClearEvict(t)

\* The bound on operations is reached and every thread has returned.
Quiescent ==
    /\ ops = MaxOps
    /\ \A t \in Thread : pc[t] = "idle"
    /\ UNCHANGED vars

Next == (\E t \in Thread : Get(t) \/ Put(t) \/ Erase(t) \/ Clear(t)) \/ Quiescent

Spec == Init /\ [][Next]_vars

\* A thread inside an operation is running code, which the scheduler runs on.
Running(t) == pc[t] # "idle" /\ (Get(t) \/ Put(t) \/ Erase(t) \/ Clear(t))

FairSpec == Spec /\ \A t \in Thread : WF_vars(Running(t))

------------------------------------------------------------------------------
(* Properties.                                                              *)

\* Type invariant.
TypeOK ==
    /\ slot \in [Ways -> Slot]
    /\ hand \in Ways
    /\ free \in SUBSET Val
    /\ pc \in [Thread -> PC]
    /\ k \in [Thread -> Key \cup {NoKey}]
    /\ mine \in [Thread -> Val \cup {NoVal}]
    /\ v \in [Thread -> [Ways -> Slot]]
    /\ i \in [Thread -> Ways]
    /\ h \in [Thread -> Ways]
    /\ got \in [Thread -> SUBSET (Val \cup {NoVal})]
    /\ ops \in 0 .. MaxOps

\* No pointer is ever in two places: two ways, two threads' hands, or one of
\* these and the callers' hands.  A pointer in two places is a chunk that
\* on_evict() gives away twice, or a cached chunk that is recycled under its
\* readers.  It rests on every slot change being a CAS of the whole pair.
OwnedOnce ==
    /\ \A w1, w2 \in Ways : w1 # w2 /\ slot[w1].val = slot[w2].val => slot[w1].val = NoVal
    /\ \A t1, t2 \in Thread : t1 # t2 /\ mine[t1] = mine[t2] => mine[t1] = NoVal
    /\ \A w \in Ways, t \in Thread : slot[w].val = mine[t] => mine[t] = NoVal
    /\ \A w \in Ways : slot[w].val \notin free
    /\ \A t \in Thread : mine[t] \notin free

\* No pointer is lost: one that is not with the callers is in a way or in the
\* hands of a thread that has not returned (on_evict() is called for every
\* displaced entry, whichever pass displaced it).
NoLeak ==
    \A x \in Val :
        \/ x \in free
        \/ \E w \in Ways : slot[w].val = x
        \/ \E t \in Thread : mine[t] = x /\ pc[t] # "idle"

\* Every pointer is in exactly one place: ClockCache neither hands a chunk to
\* on_evict() twice nor forgets to.
ExactlyOnce == OwnedOnce /\ NoLeak

\* "hot entries (ref=1 from get()) survive until the hand wraps back around":
\* whatever the interleaving, a step that puts another key in a way finds the
\* way empty or its reference bit clear in that very state.
Hot(w) == slot[w] # Empty /\ slot[w].ref
Displaced(w) == slot'[w].key \notin {slot[w].key, NoKey}
SecondChance == [][\A w \in Ways : Hot(w) => ~Displaced(w)]_vars

\* The same of every way but the one pass 1 overwrites: the CLOCK scan, which
\* decides on slots loaded earlier, never evicts an entry whose reference bit a
\* get() or put() of another thread has set in the meantime.
HotSurvivesScan == [][\A w \in Ways \ {CtzIndex} : Hot(w) => ~Displaced(w)]_vars

\* get() answers with one value of one slot: the values it ORs under the match
\* mask come from at most one match ("OR-mask the value from whichever slot
\* matched"), never from two, whose OR is no pointer at all.
GetReturnsOneValue == \A t \in Thread : Cardinality(got[t]) <= 1

\* put() and clear() are lock-free, not wait-free: they retry whenever a CAS
\* fails, and put() clears one reference bit per round.  A thread may lose every
\* race it runs, but as long as one is inside an operation, operations go on
\* returning, if not its own then another's.  A behaviour that breaks this ends
\* without a return, so with one operation per thread for ever: MaxOps bounds
\* what the cache holds when they begin to contend, not how long they do.
Returns(t) == pc[t] # "idle" /\ pc'[t] = "idle"
SomeReturn ==
    \/ []<><<\E t \in Thread : Returns(t)>>_vars
    \/ <>[](\A t \in Thread : pc[t] = "idle")

==============================================================================
