-------------------------- MODULE ClockCacheProofs --------------------------
(***************************************************************************)
(* Proofs about ClockCache for any number of threads, keys, pointers and   *)
(* ways: types, ownership of the pointers, and the CLOCK scan's respect    *)
(* for reference bits.                                                     *)
(***************************************************************************)
EXTENDS ClockCache, WellFoundedInduction, TLAPS

\* Control points at which a thread answers for no pointer.
EmptyHanded == GetPC \cup ErasePC \cup {"idle", "clear_load", "clear_cas"}

\* What the threads rely on between their steps: a thread outside put() and
\* outside a callback answers for nothing, a put() has a real key, and once the
\* scan has evicted way i the thread answers for what it loaded from it.
LocalInv ==
    \A t \in Thread :
        /\ pc[t] \in EmptyHanded => mine[t] = NoVal
        /\ pc[t] \in PutPC => k[t] \in Key
        /\ pc[t] = "put_adv" => mine[t] = v[t][i[t]].val

\* A way without a key holds no pointer, in memory and as loaded.
KeylessIsNull ==
    /\ \A w \in Ways : slot[w].key = NoKey => slot[w].val = NoVal
    /\ \A t \in Thread, w \in Ways : v[t][w].key = NoKey => v[t][w].val = NoVal

\* Every pointer is with the callers, in a way or in a thread's hands.
Accounted ==
    \A x \in Val : \/ x \in free
                   \/ \E w \in Ways : slot[w].val = x
                   \/ \E t \in Thread : mine[t] = x

Owned == OwnedOnce /\ Accounted

\* The inductive invariant.
IInv == TypeOK /\ Owned /\ KeylessIsNull /\ LocalInv

------------------------------------------------------------------------------
\* Ways is not empty: it holds the index pass 1 uses.
LEMMA CtzIndexIsWay == CtzIndex \in Ways
BY AssocAssumption DEF CtzIndex, Ways

\* The masked successor of a way (the hand's advance) is a way.
LEMMA NextWay == ASSUME NEW n \in Nat PROVE n % Assoc \in Ways
BY AssocAssumption DEF Ways

\* The loops over the ways stay inside them.
LEMMA WayIndex ==
    /\ 0 \in Ways
    /\ \A n \in Ways : /\ n + 1 < Assoc => n + 1 \in Ways
                        /\ (n + 1) % Assoc \in Ways
BY AssocAssumption, NextWay DEF Ways

\* A scan that finds a candidate evicts a way whose loaded bit is clear.
LEMMA VictimIsWay ==
    ASSUME NEW t \in Thread, h[t] \in Ways, Victims(t) # {}
    PROVE  Victim(t) \in Ways /\ ~v[t][Victim(t)].ref
<1> DEFINE V == Victims(t)
<1>1. V \subseteq Nat
  BY AssocAssumption DEF Victims, Ways
<1>2. \E n \in V : \A u \in V : ~(<<u, n>> \in OpToRel(<, Nat))
  BY <1>1, NatLessThanWellFounded, WFMin
<1>A. \A u, n \in Nat : u < n => <<u, n>> \in OpToRel(<, Nat)
  BY Zenon DEF OpToRel
<1>B. \E n \in V : \A u \in V : ~(u < n)
  BY <1>1, <1>2, <1>A, Zenon
<1>3. \E n \in V : \A u \in V : n <= u
  BY <1>1, <1>B
<1> DEFINE m == CHOOSE n \in V : \A u \in V : n <= u
<1>4. m \in V
  BY <1>3
<1>5. Clock(t, m) \in Ways
  BY <1>1, <1>4, NextWay, AssocAssumption DEF Clock, Ways
<1>6. ~v[t][Clock(t, m)].ref
  BY <1>4 DEF Victims
<1> QED
  BY <1>5, <1>6 DEF Victim

\* The slot values the operations build are slots.
LEMMA SlotValues ==
    /\ Empty \in Slot /\ Empty.val = NoVal
    /\ \A key \in Key, val \in Val \cup {NoVal} :
          pack(key, val) \in Slot /\ pack(key, val).val = val /\ pack(key, val).key = key
    /\ \A s \in Slot : /\ set_ref(s) \in Slot /\ clear_ref(s) \in Slot
                       /\ set_ref(s).val = s.val /\ set_ref(s).key = s.key
                       /\ clear_ref(s).val = s.val /\ clear_ref(s).key = s.key
    /\ \A s \in Slot : s.val \in Val \cup {NoVal} /\ s.key \in Key \cup {NoKey}
BY DEF Slot, Empty, pack, set_ref, clear_ref

\* The control points are named in PC.
LEMMA Names ==
    {"idle", "get_load", "get_hit", "put_load", "put_same", "put_empty", "put_hand",
     "put_scan", "put_adv", "put_clear", "put_clear_cas", "put_clear_adv", "evict",
     "erase_load", "erase_cas", "clear_load", "clear_cas", "clear_evict"} \subseteq PC
BY DEF PC, GetPC, PutPC, ErasePC, ClearPC

------------------------------------------------------------------------------
(* Ownership, by what happens to the pointers.                              *)

\* No pointer moves: reference bits, loads and the hand.
LEMMA Unmoved ==
    ASSUME Owned, UNCHANGED <<mine, free>>,
           \A w \in Ways : slot'[w].val = slot[w].val
    PROVE  Owned'
BY DEF Owned, OwnedOnce, Accounted

\* A CAS exchanges the pointer in a way for the one in a thread's hands.
LEMMA Exchanged ==
    ASSUME Owned, TypeOK, NEW t \in Thread, NEW w \in Ways,
           slot'[w].val = mine[t],
           \A u \in Ways \ {w} : slot'[u].val = slot[u].val,
           mine' = [mine EXCEPT ![t] = slot[w].val],
           UNCHANGED free
    PROVE  Owned'
<1>1. mine'[t] = slot[w].val /\ \A u \in Thread \ {t} : mine'[u] = mine[u]
  BY DEF TypeOK
<1>2. OwnedOnce'
  BY <1>1 DEF Owned, OwnedOnce
<1>3. Accounted'
  BY <1>1 DEF Owned, Accounted
<1> QED
  BY <1>2, <1>3 DEF Owned

\* A caller hands a pointer to put().
LEMMA Given ==
    ASSUME Owned, TypeOK, NEW t \in Thread, NEW val \in free, mine[t] = NoVal,
           mine' = [mine EXCEPT ![t] = val], free' = free \ {val}, UNCHANGED slot
    PROVE  Owned'
<1>1. mine'[t] = val /\ \A u \in Thread \ {t} : mine'[u] = mine[u]
  BY DEF TypeOK
<1>2. OwnedOnce'
  BY <1>1 DEF Owned, OwnedOnce
<1>3. Accounted'
  BY <1>1, SentinelAssumption DEF Owned, Accounted, TypeOK
<1> QED
  BY <1>2, <1>3 DEF Owned

\* on_evict() hands a pointer back.
LEMMA Returned ==
    ASSUME Owned, TypeOK, NEW t \in Thread,
           mine' = [mine EXCEPT ![t] = NoVal],
           free' = free \cup ({mine[t]} \ {NoVal}), UNCHANGED slot
    PROVE  Owned'
<1>1. mine'[t] = NoVal /\ \A u \in Thread \ {t} : mine'[u] = mine[u]
  BY DEF TypeOK
<1>2. OwnedOnce'
  BY <1>1, SentinelAssumption DEF Owned, OwnedOnce, TypeOK
<1>3. Accounted'
  BY <1>1, SentinelAssumption DEF Owned, Accounted, TypeOK
<1> QED
  BY <1>2, <1>3 DEF Owned

\* Loading a way keeps keyless loads null.
LEMMA Loaded ==
    ASSUME TypeOK, KeylessIsNull, NEW t \in Thread, NEW w \in Ways,
           v' = [v EXCEPT ![t][w] = slot[w]], UNCHANGED slot
    PROVE  KeylessIsNull'
<1>1. \A u \in Thread, x \in Ways :
         v'[u][x] = IF u = t /\ x = w THEN slot[x] ELSE v[u][x]
  BY DEF TypeOK
<1> QED
  BY <1>1 DEF KeylessIsNull

------------------------------------------------------------------------------
(* One lemma per kind of step.                                              *)

\* The operation begins; the ways are as they were.
LEMMA GetStartStep ==
    ASSUME IInv, NEW t \in Thread, NEW key \in Key, GetStart(t, key)
    PROVE  IInv'
<1> USE DEF IInv
<1>1. TypeOK'
  BY Names, WayIndex, MaxOpsAssumption DEF TypeOK, GetStart, Start, Goto
<1>2. Owned'
  BY Unmoved DEF GetStart, Start, Goto
<1>3. KeylessIsNull'
  BY DEF KeylessIsNull, TypeOK, GetStart, Start, Goto
<1>4. LocalInv'
  BY DEF TypeOK, LocalInv, EmptyHanded, GetPC, ErasePC, PutPC, GetStart, Start, Goto
<1> QED
  BY <1>1, <1>2, <1>3, <1>4

\* The operation begins; the ways are as they were.
LEMMA EraseStartStep ==
    ASSUME IInv, NEW t \in Thread, NEW key \in Key, EraseStart(t, key)
    PROVE  IInv'
<1> USE DEF IInv
<1>1. TypeOK'
  BY Names, WayIndex, MaxOpsAssumption DEF TypeOK, EraseStart, Start, Goto
<1>2. Owned'
  BY Unmoved DEF EraseStart, Start, Goto
<1>3. KeylessIsNull'
  BY DEF KeylessIsNull, TypeOK, EraseStart, Start, Goto
<1>4. LocalInv'
  BY DEF TypeOK, LocalInv, EmptyHanded, GetPC, ErasePC, PutPC, EraseStart, Start, Goto
<1> QED
  BY <1>1, <1>2, <1>3, <1>4

\* The operation begins; the ways are as they were.
LEMMA ClearStartStep ==
    ASSUME IInv, NEW t \in Thread, ClearStart(t)
    PROVE  IInv'
<1> USE DEF IInv
<1>1. TypeOK'
  BY Names, WayIndex, MaxOpsAssumption DEF TypeOK, ClearStart, Start, Goto
<1>2. Owned'
  BY Unmoved DEF ClearStart, Start, Goto
<1>3. KeylessIsNull'
  BY DEF KeylessIsNull, TypeOK, ClearStart, Start, Goto
<1>4. LocalInv'
  BY DEF TypeOK, LocalInv, EmptyHanded, GetPC, ErasePC, PutPC, ClearStart, Start, Goto
<1> QED
  BY <1>1, <1>2, <1>3, <1>4

\* put() takes a pointer from its caller.
LEMMA PutStartStep ==
    ASSUME IInv, NEW t \in Thread, NEW key \in Key, NEW val \in Val, PutStart(t, key, val)
    PROVE  IInv'
<1> USE DEF IInv
<1>1. TypeOK'
  BY Names, WayIndex, MaxOpsAssumption DEF TypeOK, PutStart, Start, Goto
<1>2. Owned'
  BY Given DEF PutStart, Start, Goto, LocalInv, EmptyHanded
<1>3. KeylessIsNull'
  BY DEF KeylessIsNull, TypeOK, PutStart, Start, Goto
<1>4. LocalInv'
  BY DEF TypeOK, LocalInv, EmptyHanded, GetPC, ErasePC, PutPC, PutStart, Start, Goto
<1> QED
  BY <1>1, <1>2, <1>3, <1>4

\* A load changes only what the thread knows.
LEMMA GetLoadStep ==
    ASSUME IInv, NEW t \in Thread, GetLoad(t)
    PROVE  IInv'
<1> USE DEF IInv
<1>1. TypeOK'
  BY Names, WayIndex DEF TypeOK, GetLoad, Load, Goto
<1>2. Owned'
  BY Unmoved DEF GetLoad, Load, Goto
<1>3. KeylessIsNull'
  <2>1. i[t] \in Ways
    BY DEF TypeOK
  <2> QED
    BY <2>1, Loaded DEF GetLoad, Load
<1>4. LocalInv'
  BY DEF TypeOK, LocalInv, EmptyHanded, GetPC, ErasePC, PutPC, GetLoad, Load, Goto
<1> QED
  BY <1>1, <1>2, <1>3, <1>4

\* A load changes only what the thread knows.
LEMMA PutLoadStep ==
    ASSUME IInv, NEW t \in Thread, PutLoad(t)
    PROVE  IInv'
<1> USE DEF IInv
<1>1. TypeOK'
  BY Names, WayIndex DEF TypeOK, PutLoad, Load, Goto
<1>2. Owned'
  BY Unmoved DEF PutLoad, Load, Goto
<1>3. KeylessIsNull'
  <2>1. i[t] \in Ways
    BY DEF TypeOK
  <2> QED
    BY <2>1, Loaded DEF PutLoad, Load
<1>4. LocalInv'
  BY DEF TypeOK, LocalInv, EmptyHanded, GetPC, ErasePC, PutPC, PutLoad, Load, Goto
<1> QED
  BY <1>1, <1>2, <1>3, <1>4

\* A load changes only what the thread knows.
LEMMA EraseLoadStep ==
    ASSUME IInv, NEW t \in Thread, EraseLoad(t)
    PROVE  IInv'
<1> USE DEF IInv
<1>1. TypeOK'
  BY Names, WayIndex DEF TypeOK, EraseLoad, Load, Goto
<1>2. Owned'
  BY Unmoved DEF EraseLoad, Load, Goto
<1>3. KeylessIsNull'
  <2>1. i[t] \in Ways
    BY DEF TypeOK
  <2> QED
    BY <2>1, Loaded DEF EraseLoad, Load
<1>4. LocalInv'
  BY DEF TypeOK, LocalInv, EmptyHanded, GetPC, ErasePC, PutPC, EraseLoad, Load, Goto
<1> QED
  BY <1>1, <1>2, <1>3, <1>4

\* The reference-bit CAS leaves key and pointer alone.
LEMMA GetHitStep ==
    ASSUME IInv, NEW t \in Thread, GetHit(t)
    PROVE  IInv'
<1> USE DEF IInv
<1>1. TypeOK'
  BY Names, WayIndex, CtzIndexIsWay, SlotValues DEF TypeOK, GetHit, Goto, Matches
<1>2. Owned'
  BY Unmoved, CtzIndexIsWay, SlotValues DEF GetHit, Goto, TypeOK
<1>3. KeylessIsNull'
  BY CtzIndexIsWay, SlotValues DEF KeylessIsNull, TypeOK, GetHit, Goto
<1>4. LocalInv'
  BY DEF TypeOK, LocalInv, EmptyHanded, GetPC, ErasePC, PutPC, GetHit, Goto
<1> QED
  BY <1>1, <1>2, <1>3, <1>4

\* Passes 1 and 3 exchange the pointer in hand for the one in a way.
LEMMA Swapped ==
    ASSUME IInv, NEW t \in Thread, NEW w \in Ways, NEW ok \in PC, NEW fail \in PC,
           Swap(t, w, ok, fail), pc[t] \in PutPC, UNCHANGED <<free, v>>
    PROVE  /\ slot' \in [Ways -> Slot] /\ mine' \in [Thread -> Val \cup {NoVal}]
           /\ pc' \in [Thread -> PC]
           /\ Owned' /\ KeylessIsNull'
           /\ \A u \in Thread \ {t} : mine'[u] = mine[u]
           /\ pc'[t] = fail \/ (pc'[t] = ok /\ mine'[t] = v[t][w].val)
<1> USE DEF IInv
<1>1. k[t] \in Key
  BY DEF LocalInv
<1>2. CASE slot[w] = v[t][w]
  <2>1. /\ slot' = [slot EXCEPT ![w] = pack(k[t], mine[t])]
        /\ mine' = [mine EXCEPT ![t] = v[t][w].val]
        /\ pc' = [pc EXCEPT ![t] = ok]
    BY <1>2 DEF Swap, Goto
  <2>2. pack(k[t], mine[t]) \in Slot /\ pack(k[t], mine[t]).val = mine[t]
        /\ pack(k[t], mine[t]).key # NoKey
    BY <1>1, SlotValues, SentinelAssumption DEF TypeOK
  <2>3. Owned'
    BY <1>2, <2>1, <2>2, Exchanged DEF TypeOK
  <2>4. KeylessIsNull'
    BY <2>1, <2>2 DEF KeylessIsNull, TypeOK
  <2> QED
    BY <1>2, <2>1, <2>2, <2>3, <2>4, SlotValues DEF TypeOK
<1>3. CASE slot[w] # v[t][w]
  <2>1. UNCHANGED <<slot, mine>> /\ pc' = [pc EXCEPT ![t] = fail]
    BY <1>3 DEF Swap, Goto
  <2>2. Owned' /\ KeylessIsNull'
    BY <2>1, Unmoved DEF KeylessIsNull
  <2> QED
    BY <2>1, <2>2 DEF TypeOK
<1> QED
  BY <1>2, <1>3

\* Pass 1 replaces the entry of way 0, or finds no match and goes on.
LEMMA PutSameStep ==
    ASSUME IInv, NEW t \in Thread, PutSame(t)
    PROVE  IInv'
<1> USE DEF IInv
<1>1. CASE Matches(t) = {}
  <2>1. UNCHANGED <<slot, hand, free, k, mine, v, i, h, got, ops>>
        /\ pc[t] = "put_same" /\ pc' = [pc EXCEPT ![t] = "put_empty"]
    BY <1>1 DEF PutSame, Goto
  <2>2. TypeOK'
    BY <2>1, Names DEF TypeOK
  <2>3. Owned' /\ KeylessIsNull'
    BY <2>1, Unmoved DEF KeylessIsNull
  <2>4. LocalInv'
    BY <2>1 DEF LocalInv, EmptyHanded, GetPC, ErasePC, PutPC, TypeOK
  <2> QED
    BY <2>2, <2>3, <2>4
<1>2. CASE Matches(t) # {}
  <2>1. /\ Swap(t, CtzIndex, "evict", "put_load")
        /\ pc[t] = "put_same" /\ UNCHANGED <<hand, free, k, v, i, h, got, ops>>
    BY <1>2 DEF PutSame
  <2>2. pc' = [pc EXCEPT ![t] = pc'[t]]
    BY <2>1 DEF Swap, Goto, TypeOK
  <2>3. /\ slot' \in [Ways -> Slot] /\ mine' \in [Thread -> Val \cup {NoVal}]
        /\ pc' \in [Thread -> PC] /\ Owned' /\ KeylessIsNull'
        /\ \A u \in Thread \ {t} : mine'[u] = mine[u]
        /\ pc'[t] \in {"put_load", "evict"}
    BY <2>1, Swapped, CtzIndexIsWay, Names DEF PutPC
  <2>4. TypeOK'
    BY <2>1, <2>3 DEF TypeOK
  <2>5. LocalInv'
    BY <2>1, <2>2, <2>3 DEF LocalInv, EmptyHanded, GetPC, ErasePC, PutPC, TypeOK
  <2> QED
    BY <2>3, <2>4, <2>5
<1> QED
  BY <1>1, <1>2

\* Pass 3 replaces the entry it chose, retries, or finds every bit set.
LEMMA PutScanStep ==
    ASSUME IInv, NEW t \in Thread, PutScan(t)
    PROVE  IInv'
<1> USE DEF IInv
<1>1. CASE Victims(t) = {}
  <2>1. UNCHANGED <<slot, hand, free, k, mine, v, i, h, got, ops>>
        /\ pc[t] = "put_scan" /\ pc' = [pc EXCEPT ![t] = "put_clear"]
    BY <1>1 DEF PutScan, Goto
  <2>2. TypeOK'
    BY <2>1, Names DEF TypeOK
  <2>3. Owned' /\ KeylessIsNull'
    BY <2>1, Unmoved DEF KeylessIsNull
  <2>4. LocalInv'
    BY <2>1 DEF LocalInv, EmptyHanded, GetPC, ErasePC, PutPC, TypeOK
  <2> QED
    BY <2>2, <2>3, <2>4
<1>2. CASE Victims(t) # {}
  <2> DEFINE w == Victim(t)
  <2>1. /\ Swap(t, w, "put_adv", "put_load")
        /\ i' = [i EXCEPT ![t] = IF slot[w] = v[t][w] THEN w ELSE 0]
        /\ pc[t] = "put_scan" /\ UNCHANGED <<hand, free, k, v, h, got, ops>>
    BY <1>2 DEF PutScan
  <2>2. w \in Ways /\ 0 \in Ways
    BY <1>2, VictimIsWay, CtzIndexIsWay DEF TypeOK, CtzIndex
  <2> HIDE DEF w
  <2>3. pc' = [pc EXCEPT ![t] = pc'[t]] /\ (pc'[t] = "put_adv" => i'[t] = w)
    BY <2>1 DEF Swap, Goto, TypeOK
  <2>4. /\ slot' \in [Ways -> Slot] /\ mine' \in [Thread -> Val \cup {NoVal}]
        /\ pc' \in [Thread -> PC] /\ Owned' /\ KeylessIsNull'
        /\ \A u \in Thread \ {t} : mine'[u] = mine[u]
        /\ pc'[t] = "put_load" \/ (pc'[t] = "put_adv" /\ mine'[t] = v[t][w].val)
    BY <2>1, <2>2, Swapped, Names DEF PutPC
  <2>5. TypeOK'
    BY <2>1, <2>2, <2>4 DEF TypeOK
  <2>6. \A u \in Thread \ {t} : i'[u] = i[u] /\ pc'[u] = pc[u]
    BY <2>1, <2>3 DEF TypeOK
  <2>7. LocalInv'
    BY <2>1, <2>3, <2>4, <2>6 DEF LocalInv, EmptyHanded, GetPC, ErasePC, PutPC, TypeOK
  <2> QED
    BY <2>4, <2>5, <2>7
<1> QED
  BY <1>1, <1>2

\* The hand is read.
LEMMA PutHandStep ==
    ASSUME IInv, NEW t \in Thread, PutHand(t)
    PROVE  IInv'
<1> USE DEF IInv
<1>1. TypeOK'
  BY Names, WayIndex DEF TypeOK, PutHand, Goto
<1>2. Owned'
  BY Unmoved DEF PutHand, Goto
<1>3. KeylessIsNull'
  BY DEF KeylessIsNull, TypeOK, PutHand, Goto
<1>4. LocalInv'
  BY DEF TypeOK, LocalInv, EmptyHanded, GetPC, ErasePC, PutPC, PutHand, Goto
<1> QED
  BY <1>1, <1>2, <1>3, <1>4

\* Pass 4 clears a reference bit.
LEMMA PutClearCasStep ==
    ASSUME IInv, NEW t \in Thread, PutClearCas(t)
    PROVE  IInv'
<1> USE DEF IInv
<1>1. TypeOK'
  BY Names, WayIndex, SlotValues DEF TypeOK, PutClearCas, Goto
<1>2. Owned'
  BY Unmoved, SlotValues DEF PutClearCas, Goto, TypeOK
<1>3. KeylessIsNull'
  BY SlotValues DEF KeylessIsNull, TypeOK, PutClearCas, Goto
<1>4. LocalInv'
  BY DEF TypeOK, LocalInv, EmptyHanded, GetPC, ErasePC, PutPC, PutClearCas, Goto
<1> QED
  BY <1>1, <1>2, <1>3, <1>4

\* The hand moves on.
LEMMA PutClearAdvanceStep ==
    ASSUME IInv, NEW t \in Thread, PutClearAdvance(t)
    PROVE  IInv'
<1> USE DEF IInv
<1>1. TypeOK'
  <2>1. h[t] \in Ways
    BY DEF TypeOK
  <2>2. (h[t] + 1) % Assoc \in Ways
    BY <2>1, AssocAssumption DEF Ways
  <2>3. hand' \in Ways
    BY <2>2 DEF PutClearAdvance
  <2> QED
    BY <2>3, Names DEF TypeOK, PutClearAdvance, Goto
<1>2. Owned'
  BY Unmoved DEF PutClearAdvance, Goto
<1>3. KeylessIsNull'
  BY DEF KeylessIsNull, TypeOK, PutClearAdvance, Goto
<1>4. LocalInv'
  BY DEF TypeOK, LocalInv, EmptyHanded, GetPC, ErasePC, PutPC, PutClearAdvance, Goto
<1> QED
  BY <1>1, <1>2, <1>3, <1>4

\* Pass 4 loads the way at the hand.
LEMMA PutClearStep ==
    ASSUME IInv, NEW t \in Thread, PutClear(t)
    PROVE  IInv'
<1> USE DEF IInv
<1>1. TypeOK'
  BY Names, WayIndex DEF TypeOK, PutClear, Goto
<1>2. Owned'
  BY Unmoved DEF PutClear, Goto
<1>3. KeylessIsNull'
  <2>1. h[t] \in Ways
    BY DEF TypeOK
  <2> QED
    BY <2>1, Loaded DEF PutClear
<1>4. LocalInv'
  BY DEF TypeOK, LocalInv, EmptyHanded, GetPC, ErasePC, PutPC, PutClear, Goto
<1> QED
  BY <1>1, <1>2, <1>3, <1>4

\* The hand passes the evicted way; an empty way leaves nothing in hand.
LEMMA PutAdvanceStep ==
    ASSUME IInv, NEW t \in Thread, PutAdvance(t)
    PROVE  IInv'
<1> USE DEF IInv
<1>1. TypeOK'
  <2>1. i[t] \in Ways
    BY DEF TypeOK
  <2>2. (i[t] + 1) % Assoc \in Ways
    BY <2>1, AssocAssumption DEF Ways
  <2>3. hand' \in Ways
    BY <2>2 DEF PutAdvance
  <2> QED
    BY <2>3, Names DEF TypeOK, PutAdvance, Goto
<1>2. Owned'
  BY Unmoved DEF PutAdvance, Goto
<1>3. KeylessIsNull'
  BY DEF KeylessIsNull, TypeOK, PutAdvance, Goto
<1>4. LocalInv'
  BY DEF TypeOK, LocalInv, EmptyHanded, GetPC, ErasePC, PutPC, PutAdvance, Goto, KeylessIsNull
<1> QED
  BY <1>1, <1>2, <1>3, <1>4

\* The callback gives the pointer in hand back.
LEMMA EvictStep ==
    ASSUME IInv, NEW t \in Thread, Evict(t)
    PROVE  IInv'
<1> USE DEF IInv
<1>1. TypeOK'
  BY Names, WayIndex, SentinelAssumption DEF TypeOK, Evict, Goto
<1>2. Owned'
  BY Returned DEF Evict, Goto
<1>3. KeylessIsNull'
  BY DEF KeylessIsNull, TypeOK, Evict, Goto
<1>4. LocalInv'
  BY DEF TypeOK, LocalInv, EmptyHanded, GetPC, ErasePC, PutPC, Evict, Goto
<1> QED
  BY <1>1, <1>2, <1>3, <1>4

\* The same inside clear().
LEMMA ClearEvictStep ==
    ASSUME IInv, NEW t \in Thread, ClearEvict(t)
    PROVE  IInv'
<1> USE DEF IInv
<1>1. TypeOK'
  <2>1. i[t] \in Ways
    BY DEF TypeOK
  <2>2. \E n \in Ways, p \in PC : i' = [i EXCEPT ![t] = n] /\ pc' = [pc EXCEPT ![t] = p]
    BY <2>1, WayIndex, Names DEF ClearEvict, ClearNext, Goto
  <2> QED
    BY <2>2 DEF TypeOK, ClearEvict
<1>2. Owned'
  BY Returned DEF ClearEvict, ClearNext, Goto
<1>3. KeylessIsNull'
  BY DEF KeylessIsNull, TypeOK, ClearEvict, ClearNext, Goto
<1>4. LocalInv'
  BY DEF TypeOK, LocalInv, EmptyHanded, GetPC, ErasePC, PutPC, ClearEvict, ClearNext, Goto
<1> QED
  BY <1>1, <1>2, <1>3, <1>4

\* Pass 2 moves the pointer in hand to an empty way, or looks at the next way.
LEMMA PutEmptyStep ==
    ASSUME IInv, NEW t \in Thread, PutEmpty(t)
    PROVE  IInv'
<1> USE DEF IInv
<1>0. k[t] \in Key /\ i[t] \in Ways /\ 0 \in Ways /\ pc[t] = "put_empty"
  BY CtzIndexIsWay DEF LocalInv, PutEmpty, PutPC, TypeOK, CtzIndex
<1> DEFINE e == pack(k[t], mine[t])
<1>e. e \in Slot /\ e.val = mine[t] /\ e.key # NoKey
  BY <1>0, SlotValues, SentinelAssumption DEF TypeOK
<1> HIDE DEF e
<1>1. CASE slot[i[t]] = Empty
  <2>1. /\ slot' = [slot EXCEPT ![i[t]] = e]
        /\ mine' = [mine EXCEPT ![t] = NoVal]
        /\ i' = [i EXCEPT ![t] = 0] /\ pc' = [pc EXCEPT ![t] = "idle"]
        /\ UNCHANGED <<hand, free, k, v, h, got, ops>>
    BY <1>1 DEF PutEmpty, Goto, e
  <2>2. TypeOK'
    BY <1>0, <1>e, <2>1, Names DEF TypeOK
  <2>3. Owned'
    <3>1. /\ slot'[i[t]].val = mine[t] /\ slot[i[t]].val = NoVal
          /\ \A u \in Ways \ {i[t]} : slot'[u].val = slot[u].val
      BY <1>0, <1>1, <1>e, <2>1, SlotValues DEF TypeOK
    <3> QED
      BY <1>0, <2>1, <3>1, Exchanged
  <2>4. KeylessIsNull'
    BY <1>0, <1>e, <2>1 DEF KeylessIsNull, TypeOK
  <2>5. LocalInv'
    BY <1>0, <2>1 DEF LocalInv, EmptyHanded, GetPC, ErasePC, PutPC, TypeOK
  <2> QED
    BY <2>2, <2>3, <2>4, <2>5
<1>2. CASE slot[i[t]] # Empty
  <2>1. /\ UNCHANGED <<slot, mine, hand, free, k, v, h, got, ops>>
        /\ i' = [i EXCEPT ![t] = IF i[t] + 1 < Assoc THEN i[t] + 1 ELSE 0]
        /\ pc' = [pc EXCEPT ![t] = IF i[t] + 1 < Assoc THEN "put_empty" ELSE "put_hand"]
    BY <1>0, <1>2 DEF PutEmpty, Goto, TypeOK
  <2>2. TypeOK'
    BY <1>0, <2>1, Names, WayIndex DEF TypeOK
  <2>3. Owned' /\ KeylessIsNull'
    BY <2>1, Unmoved DEF KeylessIsNull
  <2>4. LocalInv'
    BY <1>0, <2>1 DEF LocalInv, EmptyHanded, GetPC, ErasePC, PutPC, TypeOK
  <2> QED
    BY <2>2, <2>3, <2>4
<1> QED
  BY <1>1, <1>2

\* erase() and clear() take the pointer of a way in hand, if nothing changed.
LEMMA Taken ==
    ASSUME IInv, NEW t \in Thread, NEW w \in Ways, NEW ok \in PC, NEW fail \in PC,
           Take(t, w, ok, fail), mine[t] = NoVal, UNCHANGED <<free, v>>
    PROVE  /\ slot' \in [Ways -> Slot] /\ mine' \in [Thread -> Val \cup {NoVal}]
           /\ pc' \in [Thread -> PC]
           /\ Owned' /\ KeylessIsNull'
           /\ \A u \in Thread \ {t} : mine'[u] = mine[u] /\ pc'[u] = pc[u]
           /\ pc'[t] = ok \/ (pc'[t] = fail /\ mine'[t] = NoVal)
<1> USE DEF IInv
<1>1. CASE slot[w] = v[t][w]
  <2>1. /\ slot' = [slot EXCEPT ![w] = Empty]
        /\ mine' = [mine EXCEPT ![t] = v[t][w].val]
        /\ pc' = [pc EXCEPT ![t] = ok]
    BY <1>1 DEF Take, Goto
  <2>2. Owned'
    <3>1. /\ slot'[w].val = mine[t]
          /\ \A u \in Ways \ {w} : slot'[u].val = slot[u].val
      BY <2>1, SlotValues DEF TypeOK
    <3> QED
      BY <1>1, <2>1, <3>1, Exchanged
  <2>3. KeylessIsNull'
    BY <2>1, SlotValues DEF KeylessIsNull, TypeOK
  <2> QED
    BY <1>1, <2>1, <2>2, <2>3, SlotValues DEF TypeOK
<1>2. CASE slot[w] # v[t][w]
  <2>1. UNCHANGED <<slot, mine>> /\ pc' = [pc EXCEPT ![t] = fail]
    BY <1>2 DEF Take, Goto
  <2>2. Owned' /\ KeylessIsNull'
    BY <2>1, Unmoved DEF KeylessIsNull
  <2> QED
    BY <2>1, <2>2 DEF TypeOK
<1> QED
  BY <1>1, <1>2

\* erase() empties way 0 when some way matched.
LEMMA EraseCasStep ==
    ASSUME IInv, NEW t \in Thread, EraseCas(t)
    PROVE  IInv'
<1> USE DEF IInv
<1>0. pc[t] = "erase_cas" /\ mine[t] = NoVal /\ UNCHANGED <<hand, free, k, v, i, h, got, ops>>
  BY DEF EraseCas, LocalInv, EmptyHanded, ErasePC
<1>1. /\ slot' \in [Ways -> Slot] /\ mine' \in [Thread -> Val \cup {NoVal}]
      /\ pc' \in [Thread -> PC] /\ Owned' /\ KeylessIsNull'
      /\ \A u \in Thread \ {t} : mine'[u] = mine[u] /\ pc'[u] = pc[u]
      /\ pc'[t] = "evict" \/ (pc'[t] = "idle" /\ mine'[t] = NoVal)
  <2>1. CASE Matches(t) # {}
    BY <1>0, <2>1, Taken, CtzIndexIsWay, Names DEF EraseCas
  <2>2. CASE Matches(t) = {}
    <3>1. UNCHANGED <<slot, mine>> /\ pc' = [pc EXCEPT ![t] = "idle"]
      BY <2>2 DEF EraseCas, Goto
    <3>2. Owned' /\ KeylessIsNull'
      BY <1>0, <3>1, Unmoved DEF KeylessIsNull
    <3> QED
      BY <1>0, <3>1, <3>2, Names DEF TypeOK
  <2> QED
    BY <2>1, <2>2
<1>2. TypeOK'
  BY <1>0, <1>1 DEF TypeOK
<1>3. LocalInv'
  BY <1>0, <1>1 DEF LocalInv, EmptyHanded, GetPC, ErasePC, PutPC, TypeOK
<1> QED
  BY <1>1, <1>2, <1>3

\* clear() empties the way it loaded, or loads it again.
LEMMA ClearCasStep ==
    ASSUME IInv, NEW t \in Thread, ClearCas(t)
    PROVE  IInv'
<1> USE DEF IInv
<1>0. pc[t] = "clear_cas" /\ mine[t] = NoVal /\ UNCHANGED <<hand, free, k, v, i, h, got, ops>>
  BY DEF ClearCas, LocalInv, EmptyHanded
<1>1. /\ slot' \in [Ways -> Slot] /\ mine' \in [Thread -> Val \cup {NoVal}]
      /\ pc' \in [Thread -> PC] /\ Owned' /\ KeylessIsNull'
      /\ \A u \in Thread \ {t} : mine'[u] = mine[u] /\ pc'[u] = pc[u]
      /\ pc'[t] = "clear_evict" \/ (pc'[t] = "clear_load" /\ mine'[t] = NoVal)
  <2>1. i[t] \in Ways
    BY DEF TypeOK
  <2> QED
    BY <1>0, <2>1, Taken, Names DEF ClearCas
<1>2. TypeOK'
  BY <1>0, <1>1 DEF TypeOK
<1>3. LocalInv'
  BY <1>0, <1>1 DEF LocalInv, EmptyHanded, GetPC, ErasePC, PutPC, TypeOK
<1> QED
  BY <1>1, <1>2, <1>3

\* clear() loads a way and skips an empty one.
LEMMA ClearLoadStep ==
    ASSUME IInv, NEW t \in Thread, ClearLoad(t)
    PROVE  IInv'
<1> USE DEF IInv
<1>1. TypeOK'
  <2>1. i[t] \in Ways
    BY DEF TypeOK
  <2>2. i' \in [Thread -> Ways] /\ pc' \in [Thread -> PC]
    <3>1. i \in [Thread -> Ways] /\ pc \in [Thread -> PC]
      BY DEF TypeOK
    <3>2. ClearNext(t) \/ (Goto(t, "clear_cas") /\ UNCHANGED i)
      BY DEF ClearLoad
    <3> HIDE DEF IInv
    <3> QED
      BY <2>1, <3>1, <3>2, WayIndex, Names DEF ClearNext, Goto
  <2> QED
    BY <2>1, <2>2 DEF TypeOK, ClearLoad
<1>2. Owned'
  BY Unmoved DEF ClearLoad, ClearNext, Goto
<1>3. KeylessIsNull'
  <2>1. i[t] \in Ways
    BY DEF TypeOK
  <2> QED
    BY <2>1, Loaded DEF ClearLoad
<1>4. LocalInv'
  BY DEF TypeOK, LocalInv, EmptyHanded, GetPC, ErasePC, PutPC, ClearLoad, ClearNext, Goto
<1> QED
  BY <1>1, <1>2, <1>3, <1>4

------------------------------------------------------------------------------
(* The theorems.                                                            *)

\* The empty cache satisfies the invariant.
LEMMA InvInit == Init => IInv
<1> SUFFICES ASSUME Init PROVE IInv
  OBVIOUS
<1>1. TypeOK
  BY SlotValues, WayIndex, Names, MaxOpsAssumption DEF Init, TypeOK
<1>2. Owned
  BY SlotValues, SentinelAssumption DEF Init, Owned, OwnedOnce, Accounted
<1>3. KeylessIsNull
  BY SlotValues DEF Init, KeylessIsNull
<1>4. LocalInv
  BY DEF Init, LocalInv, PutPC
<1> QED
  BY <1>1, <1>2, <1>3, <1>4 DEF IInv

\* Every step of every thread keeps the invariant.
LEMMA InvNext == IInv /\ [Next]_vars => IInv'
<1> SUFFICES ASSUME IInv, [Next]_vars PROVE IInv'
  OBVIOUS
<1>1. ASSUME NEW t \in Thread, Get(t) PROVE IInv'
  BY <1>1, GetStartStep, GetLoadStep, GetHitStep DEF Get
<1>2. ASSUME NEW t \in Thread, Put(t) PROVE IInv'
  BY <1>2, PutStartStep, PutLoadStep, PutSameStep, PutEmptyStep, PutHandStep, PutScanStep,
     PutAdvanceStep, PutClearStep, PutClearCasStep, PutClearAdvanceStep, EvictStep DEF Put
<1>3. ASSUME NEW t \in Thread, Erase(t) PROVE IInv'
  BY <1>3, EraseStartStep, EraseLoadStep, EraseCasStep DEF Erase
<1>4. ASSUME NEW t \in Thread, Clear(t) PROVE IInv'
  BY <1>4, ClearStartStep, ClearLoadStep, ClearCasStep, ClearEvictStep DEF Clear
<1>5. ASSUME UNCHANGED vars PROVE IInv'
  BY <1>5 DEF vars, IInv, TypeOK, Owned, OwnedOnce, Accounted, KeylessIsNull, LocalInv
<1> QED
  BY <1>1, <1>2, <1>3, <1>4, <1>5 DEF Next, Quiescent

\* The inductive invariant holds in every reachable state, for any number of
\* threads, keys, pointers and ways.
THEOREM Invariance == Spec => []IInv
BY InvInit, InvNext, PTL DEF Spec

\* Type correctness of the cache.
THEOREM TypeCorrect == Spec => []TypeOK
<1>1. IInv => TypeOK
  BY DEF IInv
<1> QED
  BY <1>1, Invariance, PTL

\* No pointer is ever in two places: put(), erase() and clear() of any number of
\* threads never recycle a chunk that is still cached, nor recycle one twice.
THEOREM OwnedOnceHolds == Spec => []OwnedOnce
<1>1. IInv => OwnedOnce
  BY DEF IInv, Owned
<1> QED
  BY <1>1, Invariance, PTL

\* No pointer is lost: on_evict() is called for every entry that is displaced.
THEOREM NoLeakHolds == Spec => []NoLeak
<1>1. IInv => NoLeak
  <2> SUFFICES ASSUME IInv, NEW x \in Val
               PROVE  \/ x \in free
                      \/ \E w \in Ways : slot[w].val = x
                      \/ \E t \in Thread : mine[t] = x /\ pc[t] # "idle"
    BY DEF NoLeak
  <2>1. \A t \in Thread : mine[t] = x => pc[t] # "idle"
    BY SentinelAssumption DEF IInv, LocalInv, EmptyHanded
  <2> QED
    BY <2>1 DEF IInv, Owned, Accounted
<1> QED
  BY <1>1, Invariance, PTL

\* Every pointer is in exactly one place, for any number of threads, ways and
\* pointers, whatever the interleaving of get, put, erase and clear.
THEOREM ExactlyOnceHolds == Spec => []ExactlyOnce
<1>1. OwnedOnce /\ NoLeak => ExactlyOnce
  BY DEF ExactlyOnce
<1> QED
  BY <1>1, OwnedOnceHolds, NoLeakHolds, PTL

------------------------------------------------------------------------------
(* Reference bits.                                                          *)

\* What a step does to a way other than way 0: nothing, fill it when it is
\* empty, overwrite it when its reference bit is clear, clear the bit, or
\* empty it.
LEMMA WayStep ==
    ASSUME IInv, NEW t \in Thread, Get(t) \/ Put(t) \/ Erase(t) \/ Clear(t),
           NEW w \in Ways \ {CtzIndex}, Hot(w)
    PROVE  ~Displaced(w)
<1> USE DEF IInv
<1>1. CASE slot' = slot
  BY <1>1 DEF Displaced
<1>2. CASE GetHit(t)
  BY <1>2, CtzIndexIsWay DEF GetHit, Displaced, TypeOK
<1>3. CASE PutSame(t)
  BY <1>3, CtzIndexIsWay DEF PutSame, Swap, Displaced, TypeOK
<1>4. CASE PutEmpty(t)
  BY <1>4 DEF PutEmpty, Displaced, Hot, TypeOK
<1>5. CASE PutScan(t)
  <2>1. CASE Victims(t) = {}
    BY <1>5, <2>1 DEF PutScan, Displaced
  <2>2. CASE Victims(t) # {}
    <3>1. Swap(t, Victim(t), "put_adv", "put_load")
      BY <1>5, <2>2 DEF PutScan
    <3>2. Victim(t) \in Ways /\ ~v[t][Victim(t)].ref
      BY <2>2, VictimIsWay DEF TypeOK
    <3>3. slot' = slot \/ (Victim(t) # w /\ slot' = [slot EXCEPT ![Victim(t)] = pack(k[t], mine[t])])
      <4>1. CASE slot[Victim(t)] # v[t][Victim(t)]
        BY <3>1, <4>1 DEF Swap
      <4>2. CASE slot[Victim(t)] = v[t][Victim(t)]
        <5>1. Victim(t) # w
          BY <3>2, <4>2, Zenon DEF Hot
        <5> QED
          BY <3>1, <4>2, <5>1 DEF Swap
      <4> QED
        BY <4>1, <4>2
    <3> QED
      BY <3>2, <3>3 DEF Displaced, TypeOK
  <2> QED
    BY <2>1, <2>2
<1>6. CASE PutClearCas(t)
  BY <1>6, SlotValues DEF PutClearCas, Displaced, TypeOK
<1>7. CASE EraseCas(t)
  BY <1>7, CtzIndexIsWay DEF EraseCas, Take, Displaced, TypeOK
<1>8. CASE ClearCas(t)
  BY <1>8 DEF ClearCas, Take, Displaced, TypeOK, Empty
<1> QED
  BY <1>1, <1>2, <1>3, <1>4, <1>5, <1>6, <1>7, <1>8
     DEF Get, Put, Erase, Clear, GetStart, PutStart, EraseStart, ClearStart, Start,
         GetLoad, PutLoad, EraseLoad, Load, PutHand, PutAdvance, PutClear,
         PutClearAdvance, Evict, ClearLoad, ClearEvict

\* Outside way 0 an entry whose reference bit is set is never displaced,
\* although the scan decides on slots it loaded earlier.
THEOREM HotSurvivesScanHolds == Spec => HotSurvivesScan
<1>1. IInv /\ [Next]_vars =>
        [\A w \in Ways \ {CtzIndex} : Hot(w) => ~Displaced(w)]_vars
  BY WayStep DEF Next, Quiescent
<1> QED
  BY <1>1, Invariance, PTL DEF Spec, HotSurvivesScan
=============================================================================
