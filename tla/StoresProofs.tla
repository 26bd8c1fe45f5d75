----------------------------- MODULE StoresProofs -----------------------------
(***************************************************************************)
(* Proofs about LmdbStore for any batches, map sizes and sets of failing   *)
(* LMDB calls: writeBatch() drops no entry and true means written; and     *)
(* about EntityStore for any keys, blobs and connections and a cache of    *)
(* any size: a load finds the last save; and about ChunkLink for any       *)
(* callers and number of calls: who waits hears the answer to its own call.*)
(***************************************************************************)
EXTENDS LmdbStore, EntityStore, ChunkLink, SequenceTheorems, TLAPS

\* The first n entries of the vector.
First(n) == {items[m] : m \in 1 .. n}

\* What the loops have done so far: the open transaction holds exactly the
\* entries handled, and the entry-by-entry fallback has committed them.
LoopInv ==
    /\ pc \in {"put", "put_error"} => txn = First(i)
    /\ pc = "prefix" => First(i) \subseteq db

\* The inductive invariant.  NothingDropped alone is not inductive: erasing the
\* first i entries of items is safe because LoopInv says where they are.
IInv == TypeOK /\ NothingDropped /\ LoopInv

------------------------------------------------------------------------------
\* push_back adds one element.
LEMMA ElemsAppend ==
  ASSUME NEW S, NEW s \in Seq(S), NEW e \in S
  PROVE  Elems(Append(s, e)) = Elems(s) \cup {e}
<1>1. /\ Append(s, e) \in Seq(S) /\ Len(Append(s, e)) = Len(s) + 1 /\ Len(s) \in Nat
      /\ \A n \in 1 .. Len(s) : Append(s, e)[n] = s[n]
      /\ Append(s, e)[Len(s) + 1] = e
  OBVIOUS
<1> QED
  BY <1>1 DEF Elems

\* Erasing the first n entries leaves a vector of the others.
LEMMA DropFirst ==
  ASSUME items \in Seq(Entry), NEW n \in 0 .. Len(items)
  PROVE  /\ Drop(items, n) \in Seq(Entry)
         /\ Elems(items) \subseteq First(n) \cup Elems(Drop(items, n))
<1> DEFINE N == Len(items)
           d == SubSeq(items, n + 1, N)
<1>1. N \in Nat /\ n \in Nat /\ n <= N /\ \A k \in (n + 1) .. N : items[k] \in Entry
  OBVIOUS
<1> HIDE DEF N
<1>2. /\ d \in Seq(Entry)
      /\ Len(d) = IF n + 1 <= N THEN N - (n + 1) + 1 ELSE 0
      /\ \A k \in 1 .. N - (n + 1) + 1 : d[k] = items[(n + 1) + k - 1]
  BY <1>1, SubSeqProperties
<1> HIDE DEF d
<1>3. Len(d) = N - n
  BY <1>1, <1>2
<1>4. \A m \in (n + 1) .. N : m - n \in 1 .. Len(d) /\ items[m] = d[m - n]
  <2> SUFFICES ASSUME NEW m \in (n + 1) .. N PROVE m - n \in 1 .. Len(d) /\ items[m] = d[m - n]
    OBVIOUS
  <2>1. m - n \in 1 .. N - (n + 1) + 1 /\ (n + 1) + (m - n) - 1 = m /\ m - n \in 1 .. N - n
    BY <1>1
  <2>2. d[m - n] = items[(n + 1) + (m - n) - 1]
    BY <1>2, <2>1
  <2>3. QED
    BY <1>3, <2>1, <2>2
<1>5. Elems(items) \subseteq First(n) \cup Elems(d)
  <2> SUFFICES ASSUME NEW m \in 1 .. N PROVE items[m] \in First(n) \cup Elems(d)
    BY DEF Elems, N
  <2>1. CASE m \in 1 .. n
    BY <2>1 DEF First
  <2>2. CASE m \in (n + 1) .. N
    BY <1>4, <2>2 DEF Elems
  <2> QED
    BY <1>1, <2>1, <2>2
<1> QED
  BY <1>2, <1>5 DEF Drop, d, N

\* Before the first entry nothing is handled.
LEMMA FirstZero == First(0) = {}
BY DEF First

\* After the last entry everything is.
LEMMA FirstAll == First(Len(items)) = Elems(items)
BY DEF First, Elems

\* Handling one more entry.
LEMMA FirstNext ==
  ASSUME NEW n \in Nat PROVE First(n + 1) = First(n) \cup {items[n + 1]}
BY DEF First

\* growMapSize() stays within the cap.
LEMMA DoubledType ==
  ASSUME mapsize \in MapSize .. MaxMapSize PROVE Doubled \in MapSize .. MaxMapSize
BY SizesAssumption DEF Doubled

\* Steps that leave the vector and the history alone and lose nothing on disk
\* drop nothing.
LEMMA KeepsAll ==
  ASSUME NothingDropped, db \subseteq db', UNCHANGED <<items, given>> PROVE NothingDropped'
BY DEF NothingDropped, Elems

------------------------------------------------------------------------------
\* The callers: a new entry, the call itself, and the other writer.
LEMMA CallersStep ==
  ASSUME IInv, \/ \E e \in Entry : AddItem(e)
               \/ CallBatch
               \/ \E e \in Other : WriteRaw(e)
  PROVE  IInv'
<1> USE DEF IInv
<1>1. ASSUME NEW e \in Entry, AddItem(e) PROVE IInv'
  <2>1. items' \in Seq(Entry) /\ Len(items') = Len(items) + 1 /\ Len(items) \in Nat
    BY <1>1 DEF AddItem, TypeOK
  <2>2. TypeOK'
    BY <1>1, <2>1 DEF AddItem, TypeOK
  <2>3. Elems(items') = Elems(items) \cup {e}
    BY <1>1, ElemsAppend DEF AddItem, TypeOK
  <2>4. Elems(items)' = Elems(items')
    BY DEF Elems
  <2>5. NothingDropped'
    BY <1>1, <2>3, <2>4 DEF AddItem, NothingDropped
  <2>6. LoopInv'
    BY <1>1 DEF AddItem, LoopInv
  <2> QED
    BY <2>2, <2>5, <2>6
<1>2. CASE CallBatch
  <2>1. TypeOK' /\ LoopInv'
    BY <1>2 DEF CallBatch, TypeOK, LoopInv
  <2> QED
    BY <1>2, <2>1, KeepsAll DEF CallBatch
<1>3. ASSUME NEW e \in Other, WriteRaw(e) PROVE IInv'
  <2>1. db \subseteq db' /\ db' \subseteq db \cup {e}
    BY <1>3 DEF WriteRaw
  <2>2. TypeOK'
    BY <1>3, <2>1, DoubledType DEF WriteRaw, TypeOK
  <2>3. LoopInv'
    BY <1>3, <2>1 DEF WriteRaw, LoopInv, First
  <2> QED
    BY <1>3, <2>1, <2>2, <2>3, KeepsAll DEF WriteRaw
<1> QED
  BY <1>1, <1>2, <1>3

\* Beginning the transaction.
LEMMA BeginStep == ASSUME IInv, Begin PROVE IInv'
<1> USE DEF IInv
<1>1. 0 \in 0 .. Len(items) /\ 0 \in 0 .. MaxRounds
  BY SizesAssumption DEF TypeOK
<1>2. TypeOK'
  BY <1>1 DEF Begin, Return, TypeOK
<1>3. First(0)' = {}
  BY DEF First
<1>4. LoopInv'
  <2>1. CASE pc' = "idle"
    BY <2>1 DEF LoopInv
  <2>2. CASE pc' = "put" /\ txn' = {} /\ i' = 0
    BY <1>3, <2>2 DEF LoopInv, First
  <2> QED
    BY <2>1, <2>2 DEF Begin, Return
<1> QED
  BY <1>2, <1>4, KeepsAll DEF Begin

\* One mdb_put of the loop.
LEMMA PutStep == ASSUME IInv, Put PROVE IInv'
<1> USE DEF IInv
<1>1. i \in Nat /\ Len(items) \in Nat /\ i < Len(items) /\ items[i + 1] \in Entry
  BY DEF Put, TypeOK
<1>2. TypeOK'
  BY <1>1 DEF Put, TypeOK
<1>3. \A n : First(n)' = First(n)
  BY DEF Put, First
<1>4. First(i + 1) = First(i) \cup {items[i + 1]}
  BY <1>1, FirstNext
<1>5. LoopInv'
  <2>1. txn = First(i) /\ pc = "put"
    BY DEF Put, LoopInv
  <2>2. CASE txn' = txn \cup {items[i + 1]} /\ i' = i + 1 /\ pc' = pc
    BY <1>1, <1>4, <2>1, <2>2 DEF LoopInv, First, Put
  <2>3. CASE pc' = "full"
    BY <2>3 DEF LoopInv
  <2>4. CASE pc' = "put_error" /\ UNCHANGED <<txn, i>>
    BY <2>1, <2>4 DEF LoopInv, First, Put
  <2> QED
    BY <2>2, <2>3, <2>4 DEF Put
<1> QED
  BY <1>2, <1>5, KeepsAll DEF Put

\* A failed mdb_put: what was accepted is committed and leaves the vector.
LEMMA PutErrorStep == ASSUME IInv, PutError PROVE IInv'
<1> USE DEF IInv
<1>1. txn = First(i) /\ pc' = "idle"
  BY DEF PutError, LoopInv, Return
<1>2. LoopInv'
  BY <1>1 DEF LoopInv
<1>3. CASE db' = db \cup txn /\ items' = Drop(items, i)
  <2>1. items' \in Seq(Entry) /\ Elems(items) \subseteq First(i) \cup Elems(items')
    BY <1>3, DropFirst DEF TypeOK
  <2>2. 0 \in 0 .. Len(items') /\ 0 \in 0 .. MaxRounds
    BY <2>1, SizesAssumption
  <2>3. TypeOK'
    BY <1>3, <2>1, <2>2 DEF PutError, Return, TypeOK
  <2>4. Elems(items)' = Elems(items') /\ given' = given
    BY DEF Elems, PutError
  <2>5. NothingDropped'
    BY <1>1, <1>3, <2>1, <2>4 DEF NothingDropped
  <2> QED
    BY <1>2, <2>3, <2>5
<1>4. CASE UNCHANGED <<db, items>>
  <2>1. 0 \in 0 .. Len(items) /\ 0 \in 0 .. MaxRounds
    BY SizesAssumption DEF TypeOK
  <2>2. TypeOK'
    BY <1>4, <2>1 DEF PutError, Return, TypeOK
  <2> QED
    BY <1>2, <1>4, <2>2, KeepsAll DEF PutError
<1> QED
  BY <1>3, <1>4 DEF PutError

\* The commit of a whole batch.
LEMMA CommitStep == ASSUME IInv, Commit PROVE IInv'
<1> USE DEF IInv
<1>1. txn = Elems(items) /\ pc' = "idle"
  BY FirstAll DEF Commit, LoopInv, Return
<1>2. LoopInv'
  BY <1>1 DEF LoopInv
<1>3. CASE db' = db \cup txn /\ items' = <<>>
  <2>1. items' \in Seq(Entry) /\ 0 \in 0 .. Len(items') /\ 0 \in 0 .. MaxRounds
    BY <1>3, SizesAssumption
  <2>2. TypeOK'
    BY <1>3, <2>1 DEF Commit, Return, TypeOK
  <2>3. NothingDropped'
    BY <1>1, <1>3 DEF NothingDropped, Commit
  <2> QED
    BY <1>2, <2>2, <2>3
<1>4. CASE UNCHANGED <<db, items>>
  <2>1. 0 \in 0 .. Len(items) /\ 0 \in 0 .. MaxRounds
    BY SizesAssumption DEF TypeOK
  <2>2. TypeOK'
    BY <1>4, <2>1 DEF Commit, Return, TypeOK
  <2> QED
    BY <1>2, <1>4, <2>2, KeepsAll DEF Commit
<1> QED
  BY <1>3, <1>4 DEF Commit

\* growMapSize(), another round, or the fallback.
LEMMA FullStep == ASSUME IInv, Full PROVE IInv'
<1> USE DEF IInv
<1>1. 0 \in 0 .. Len(items) /\ 0 \in 0 .. MaxRounds
  BY SizesAssumption DEF TypeOK
<1>2. Doubled \in MapSize .. MaxMapSize
  BY DoubledType DEF TypeOK
<1>3. mapsize' \in MapSize .. MaxMapSize /\ UNCHANGED <<db, items, given>>
  BY <1>2 DEF Full, TypeOK
<1>4. i' \in 0 .. Len(items) /\ round' \in 0 .. MaxRounds
  BY <1>1, SizesAssumption DEF Full, Return, TypeOK
<1>5. txn' \subseteq Entry /\ pc' \in {"begin", "idle", "prefix"} /\ result' \in BOOLEAN
  BY DEF Full, Return, TypeOK
<1>6. TypeOK'
  BY <1>3, <1>4, <1>5 DEF TypeOK
<1>7. LoopInv'
  <2>1. CASE pc' \in {"begin", "idle"}
    BY <2>1 DEF LoopInv
  <2>2. CASE pc' = "prefix" /\ i' = 0
    BY <2>2 DEF LoopInv, First
  <2> QED
    BY <2>1, <2>2 DEF Full, Return
<1> QED
  BY <1>3, <1>6, <1>7, KeepsAll

\* The entry-by-entry fallback: an entry, an early return, or the end.
LEMMA PrefixStep == ASSUME IInv, Prefix PROVE IInv'
<1> USE DEF IInv
<1>1. First(i) \subseteq db /\ i \in Nat /\ pc = "prefix"
  BY DEF Prefix, LoopInv, TypeOK
<1>2. ASSUME i < Len(items), db' = db \cup {items[i + 1]}, i' = i + 1,
             UNCHANGED <<items, pc, txn, round, result, mapsize, given>>
      PROVE  IInv'
  <2>1. items[i + 1] \in Entry
    BY <1>1, <1>2 DEF TypeOK
  <2>2. TypeOK'
    BY <1>1, <1>2, <2>1 DEF TypeOK
  <2>3. LoopInv'
    BY <1>1, <1>2, FirstNext DEF LoopInv, First
  <2> QED
    BY <1>2, <2>2, <2>3, KeepsAll
<1>3. ASSUME Return(FALSE), UNCHANGED <<db, items, mapsize, given>> PROVE IInv'
  <2>1. 0 \in 0 .. Len(items) /\ 0 \in 0 .. MaxRounds
    BY SizesAssumption DEF TypeOK
  <2>2. TypeOK' /\ LoopInv'
    BY <1>3, <2>1 DEF Return, TypeOK, LoopInv
  <2> QED
    BY <1>3, <2>2, KeepsAll
<1>4. ASSUME items' = Drop(items, i), Return(FALSE), UNCHANGED <<db, mapsize, given>>
      PROVE  IInv'
  <2>1. items' \in Seq(Entry) /\ Elems(items) \subseteq First(i) \cup Elems(items')
    BY <1>4, DropFirst DEF TypeOK
  <2>2. 0 \in 0 .. Len(items') /\ 0 \in 0 .. MaxRounds
    BY <2>1, SizesAssumption
  <2>3. TypeOK' /\ LoopInv'
    BY <1>4, <2>1, <2>2 DEF Return, TypeOK, LoopInv
  <2>4. Elems(items)' = Elems(items')
    BY DEF Elems
  <2>5. NothingDropped'
    BY <1>1, <1>4, <2>1, <2>4 DEF NothingDropped
  <2> QED
    BY <2>3, <2>5
<1> QED
  BY <1>2, <1>3, <1>4 DEF Prefix

------------------------------------------------------------------------------
(* The theorems.                                                            *)

\* The empty store satisfies the invariant.
LEMMA InvInit == Init => IInv
<1> SUFFICES ASSUME Init PROVE IInv
  OBVIOUS
<1>1. TypeOK
  BY SizesAssumption DEF Init, TypeOK
<1>2. NothingDropped /\ LoopInv
  BY DEF Init, NothingDropped, LoopInv
<1> QED
  BY <1>1, <1>2 DEF IInv

\* Every step keeps the invariant.
LEMMA InvNext == IInv /\ [Next]_vars => IInv'
<1> SUFFICES ASSUME IInv, [Next]_vars PROVE IInv'
  OBVIOUS
<1>1. ASSUME UNCHANGED vars PROVE IInv'
  <2>1. TypeOK'
    BY <1>1 DEF vars, IInv, TypeOK
  <2>2. NothingDropped' /\ LoopInv'
    BY <1>1 DEF vars, IInv, NothingDropped, Elems, LoopInv, First
  <2> QED
    BY <2>1, <2>2 DEF IInv
<1> QED
  BY <1>1, CallersStep, BeginStep, PutStep, PutErrorStep, CommitStep, FullStep, PrefixStep
  DEF Next

\* The inductive invariant holds in every reachable state, for any batches, map
\* sizes and failing LMDB calls.
THEOREM Invariance == Spec => []IInv
BY InvInit, InvNext, PTL DEF Spec

\* Type correctness; in particular the map never outgrows maxMapSize_ and the
\* loop index of writeBatch() never leaves the vector.
THEOREM TypeCorrect == Spec => []TypeOK
<1>1. IInv => TypeOK
  BY DEF IInv
<1> QED
  BY <1>1, Invariance, PTL

\* writeBatch() drops no chunk, whichever LMDB call fails and however often the
\* caller hands it what was left over.
THEOREM NothingDroppedHolds == Spec => []NothingDropped
<1>1. IInv => NothingDropped
  BY DEF IInv
<1> QED
  BY <1>1, Invariance, PTL

\* A writeBatch() that returns true has written everything it was ever given.
THEOREM TrueMeansWrittenHolds == Spec => TrueMeansWritten
<1> DEFINE Written == pc # "idle" /\ pc' = "idle" /\ result' => given \subseteq db'
<1>1. IInv /\ [Next]_vars => [Written]_vars
  <2> SUFFICES ASSUME IInv, Next, pc # "idle", pc' = "idle", result' PROVE given \subseteq db'
    BY DEF vars
  <2>1. Commit /\ db' = db \cup txn
    BY DEF Next, AddItem, CallBatch, WriteRaw, Begin, Put, PutError, Commit, Full, Prefix, Return
  <2>2. txn = Elems(items)
    BY <2>1, FirstAll DEF IInv, LoopInv, Commit
  <2> QED
    BY <2>1, <2>2 DEF IInv, NothingDropped
<1> QED
  BY <1>1, Invariance, PTL DEF Spec, TrueMeansWritten

------------------------------------------------------------------------------
(* The entity store.                                                        *)

\* LoadsFindSaves, with what a restart finds when it ends the wait of a stuck
\* thread: the cache may then disagree, the database not.
Kept(k) == /\ k \in DOMAIN states /\ states[k] = acked[k]
           /\ ~stuck /\ k \in DOMAIN cache => cache[k] = acked[k]
AllKept == \A k \in DOMAIN acked \ unsaved : Kept(k)

\* A load copies into the cache what the database has.
LEMMA LoadKeeps ==
    ASSUME AllKept, ~stuck, NEW k, NEW b, NEW ok, LoadEntityState(k, b, ok),
           UNCHANGED <<states, acked, unsaved>>
    PROVE  AllKept'
<1>1. CASE UNCHANGED <<cache, stuck>>
  BY <1>1 DEF AllKept, Kept
<1>2. CASE set(k, b) /\ b = states[k]
  BY <1>2 DEF AllKept, Kept, set, With
<1>3. QED
  BY <1>1, <1>2 DEF LoadEntityState

\* A save that nobody answers leaves the database and the account alone; one
\* that is answered is in the cache, and in the database or in `unsaved'.
LEMMA SaveKeeps ==
    ASSUME AllKept, ~stuck, NEW k, NEW b, NEW ok, SaveEntityState(k, b, ok)
    PROVE  AllKept'
<1>1. CASE Overflows(k)
  BY <1>1 DEF AllKept, Kept, SaveEntityState, set
<1>2. CASE ~Overflows(k) /\ ok
  BY <1>2 DEF AllKept, Kept, SaveEntityState, set, doSaveEntityState, With
<1>3. CASE ~Overflows(k) /\ ~ok
  BY <1>3 DEF AllKept, Kept, SaveEntityState, set, doSaveEntityState, With
<1>4. QED
  BY <1>1, <1>2, <1>3

LEMMA ServesKeeps ==
    ASSUME AllKept, ~stuck, NEW q, NEW r, NEW ok, Serves(q, r, ok)
    PROVE  AllKept'
  BY LoadKeeps, SaveKeeps DEF Serves

\* While the service runs, a load finds the last save that was acknowledged
\* and written, in the cache and below it, across restarts and over both paths
\* (SaveEntityState(), LoadEntityState(), initialize()).
THEOREM LoadsFindSavesHolds == EntitySpec => []LoadsFindSaves
<1>1. EntityInit => AllKept
  BY DEF EntityInit, AllKept, None
<1>2. AllKept /\ [EntityNext]_entityVars => AllKept'
  <2> SUFFICES ASSUME AllKept, [EntityNext]_entityVars PROVE AllKept'
    OBVIOUS
  <2>1. ASSUME NEW c \in Conns, NEW ok \in BOOLEAN, doReadFrame(c, ok) PROVE AllKept'
    BY <2>1, ServesKeeps DEF doReadFrame
  <2>2. ASSUME NEW q \in Requests, NEW ok \in BOOLEAN, onRouterMessage(q, ok) PROVE AllKept'
    BY <2>2, ServesKeeps DEF onRouterMessage
  <2>3. ASSUME NEW c \in Conns, NEW q \in Requests, Ask(c, q) PROVE AllKept'
    BY <2>3 DEF Ask, AllKept, Kept
  <2>4. CASE RouterTurns
    BY <2>4 DEF RouterTurns, AllKept, Kept
  <2>5. CASE Restart
    BY <2>5 DEF Restart, initialize, AllKept, Kept, None
  <2>6. CASE UNCHANGED entityVars
    BY <2>6 DEF entityVars, AllKept, Kept
  <2>7. QED
    BY <2>1, <2>2, <2>3, <2>4, <2>5, <2>6 DEF EntityNext
<1>3. AllKept => LoadsFindSaves
  BY DEF AllKept, Kept, LoadsFindSaves
<1>4. QED
  BY <1>1, <1>2, <1>3, PTL DEF EntitySpec

------------------------------------------------------------------------------
(* ChunkLink: a callback hears at most one reply, the one to its own request. *)

IsSeq(s) == s \in Seq(Elems(s))
\* A request or a reply with an id that was given out, and to its own call.
Own(m) == m.id = m.call /\ m.id \in 1 .. (next_req_id - 1)

\* As long as the client is connected, ids and calls are counted together; a
\* call that fails at once takes no id, and nothing connects again.
LinkCounts ==
    /\ next_req_id \in 1 .. (Len(calls) + 1)
    /\ connected => next_req_id = Len(calls) + 1
    /\ Len(heard) = Len(calls)
LinkSeqs ==
    /\ IsSeq(calls) /\ IsSeq(heard) /\ IsSeq(toServer) /\ IsSeq(toClient)
    /\ \A c \in Numbers : IsSeq(heard[c])
    /\ building = [t \in Callers |-> building[t]]
\* Whatever is on its way carries the id of its call.
OwnIds ==
    /\ \A t \in Callers : building[t] # << >> => Own(building[t][1])
    /\ \A k \in DOMAIN toServer : Own(toServer[k])
    /\ \A m \in io_pool : Own(m)
    /\ \A k \in DOMAIN toClient : Own(toClient[k])
\* One thread at a time registers the last id given out, which nobody is
\* registered under, and who is registered has heard nothing.
OneAtATime ==
    /\ \A t \in Callers : building[t] # << >> =>
         /\ building[t][1].id = RegisteredId
         /\ RegisteredId \notin DOMAIN pending /\ heard[RegisteredId] = << >>
         /\ \A u \in Callers \ {t} : building[u] = << >>
    /\ \A k \in DOMAIN pending : k \in 1 .. RegisteredId /\ pending[k] = k /\ heard[k] = << >>

\* The inductive invariant. AnsweredByItsOwn alone is not inductive: that a
\* reply finds its own callback is due to how ids are registered (OneAtATime)
\* and carried (OwnIds).
LinkInv ==
    LinkCounts /\ LinkSeqs /\ OwnIds /\ (~overlapped => OneAtATime) /\ AnsweredByItsOwn

\* A sequence over any set is one over its elements.
LEMMA SeqOfElems == ASSUME NEW S, NEW s \in Seq(S) PROVE IsSeq(s)
<1>1. s = [k \in 1 .. Len(s) |-> s[k]] /\ Len(s) \in Nat
  OBVIOUS
<1>2. \A k \in 1 .. Len(s) : s[k] \in Elems(s)
  BY DEF Elems
<1> QED
  BY <1>1, <1>2 DEF IsSeq

\* What is in a larger set.
LEMMA SeqIn ==
  ASSUME NEW s, IsSeq(s), NEW S, Elems(s) \subseteq S PROVE s \in Seq(S)
<1>1. s = [k \in 1 .. Len(s) |-> s[k]] /\ Len(s) \in Nat
  BY DEF IsSeq
<1>2. \A k \in 1 .. Len(s) : s[k] \in S
  BY DEF Elems
<1> QED
  BY <1>1, <1>2

LEMMA AnyAppend ==
  ASSUME NEW s, IsSeq(s), NEW e
  PROVE  /\ IsSeq(Append(s, e))
         /\ Len(s) \in Nat /\ Len(Append(s, e)) = Len(s) + 1
         /\ DOMAIN s = 1 .. Len(s) /\ DOMAIN Append(s, e) = 1 .. (Len(s) + 1)
         /\ \A k \in 1 .. Len(s) : Append(s, e)[k] = s[k]
         /\ Append(s, e)[Len(s) + 1] = e
<1> DEFINE S == Elems(s) \cup {e}
<1>1. s \in Seq(S) /\ e \in S
  BY SeqIn
<1> HIDE DEF S
<1>2. Append(s, e) \in Seq(S)
  BY <1>1, AppendProperties
<1>3. IsSeq(Append(s, e))
  BY <1>2, SeqOfElems
<1> QED
  BY <1>1, <1>2, <1>3, AppendProperties

LEMMA AnyTail ==
  ASSUME NEW s, IsSeq(s), s # << >>
  PROVE  /\ IsSeq(Tail(s))
         /\ 1 \in DOMAIN s /\ Head(s) = s[1]
         /\ \A k \in DOMAIN Tail(s) : k + 1 \in DOMAIN s /\ Tail(s)[k] = s[k + 1]
<1> DEFINE S == Elems(s)
<1>1. s \in Seq(S)
  BY DEF IsSeq
<1> HIDE DEF S
<1>2. /\ Tail(s) \in Seq(S) /\ Len(Tail(s)) = Len(s) - 1
      /\ \A x \in 1 .. Len(Tail(s)) : Tail(s)[x] = s[x + 1]
  BY <1>1, HeadTailProperties
<1>3. IsSeq(Tail(s))
  BY <1>2, SeqOfElems
<1>4. Len(s) \in Nat /\ Len(s) > 0 /\ DOMAIN s = 1 .. Len(s) /\ Head(s) = s[1]
  BY <1>1
<1> QED
  BY <1>2, <1>3, <1>4

\* The empty sequence and one of one element.
LEMMA AnyShort ==
  /\ IsSeq(<< >>) /\ Len(<< >>) = 0 /\ DOMAIN << >> = {}
  /\ \A e : IsSeq(<<e>>) /\ Len(<<e>>) = 1 /\ DOMAIN <<e>> = {1} /\ <<e>>[1] = e /\ <<e>> # << >>
<1>1. << >> \in Seq({}) /\ \A e : <<e>> \in Seq({e})
  OBVIOUS
<1>2. IsSeq(<< >>) /\ \A e : IsSeq(<<e>>)
  BY <1>1, SeqOfElems
<1> QED
  BY <1>2

LEMMA LinkInitInv == LinkInit => LinkInv
BY AnyShort DEF LinkInit, LinkInv, LinkCounts, LinkSeqs, OwnIds, OneAtATime, AnsweredByItsOwn, Numbers

LEMMA CallDownStep ==
  ASSUME LinkInv, NEW t \in Callers, NEW request, CallDown(t, request) PROVE LinkInv'
<1> DEFINE n == Len(calls) + 1
           reply == [from |-> n, result |-> Failure]
<1>1. reply.from = n
  OBVIOUS
<1> HIDE DEF reply
<1>2. calls' = Append(calls, request) /\ heard' = Append(heard, <<reply>>)
      /\ ~connected' /\ UNCHANGED <<next_req_id, building, pending, toServer, io_pool, toClient, overlapped>>
  BY DEF CallDown, reply
<1>3. /\ Len(calls) \in Nat /\ Len(heard) = Len(calls)
      /\ DOMAIN calls = 1 .. Len(calls) /\ DOMAIN calls' = 1 .. n
      /\ Len(calls') = n /\ Len(heard') = n /\ IsSeq(calls') /\ IsSeq(heard')
      /\ \A k \in 1 .. Len(calls) : heard'[k] = heard[k]
      /\ heard'[n] = <<reply>>
  BY <1>2, AnyAppend DEF LinkInv, LinkSeqs, LinkCounts
<1>4. LinkCounts'
  BY <1>2, <1>3 DEF LinkInv, LinkCounts
<1>5. LinkSeqs'
  BY <1>2, <1>3, AnyShort DEF LinkInv, LinkSeqs, Numbers
<1>6. OwnIds'
  BY <1>2 DEF LinkInv, OwnIds, Own
<1>7. ~overlapped' => OneAtATime'
  BY <1>2, <1>3 DEF LinkInv, OneAtATime, RegisteredId, OwnIds, Own, LinkCounts
<1>8. AnsweredByItsOwn'
  BY <1>1, <1>2, <1>3, AnyShort DEF LinkInv, AnsweredByItsOwn, Numbers
<1> QED
  BY <1>4, <1>5, <1>6, <1>7, <1>8 DEF LinkInv

LEMMA CallUpStep ==
  ASSUME LinkInv, NEW t \in Callers, building[t] = << >>, NEW request, CallUp(t, request) PROVE LinkInv'
<1> DEFINE n == Len(calls) + 1
           msg == [id |-> next_req_id, call |-> n]
<1>1. msg.id = n /\ msg.call = n /\ next_req_id = n /\ connected
  BY DEF CallUp, LinkInv, LinkCounts
<1> HIDE DEF msg
<1>2. /\ calls' = Append(calls, request) /\ heard' = Append(heard, << >>)
      /\ next_req_id' = next_req_id + 1 /\ building' = [building EXCEPT ![t] = <<msg>>]
      /\ overlapped' = (overlapped \/ \E u \in Callers \ {t} : building[u] # << >>)
      /\ UNCHANGED <<pending, connected, toServer, io_pool, toClient>>
  BY DEF CallUp, msg
<1>3. /\ Len(calls) \in Nat /\ Len(heard) = Len(calls)
      /\ DOMAIN calls = 1 .. Len(calls) /\ DOMAIN calls' = 1 .. n
      /\ Len(calls') = n /\ Len(heard') = n /\ IsSeq(calls') /\ IsSeq(heard')
      /\ \A k \in 1 .. Len(calls) : heard'[k] = heard[k]
      /\ heard'[n] = << >>
  BY <1>2, AnyAppend DEF LinkInv, LinkSeqs, LinkCounts
<1>b. /\ building'[t] = <<msg>> /\ \A u \in Callers \ {t} : building'[u] = building[u]
      /\ building' = [u \in Callers |-> building'[u]]
  BY <1>2 DEF LinkInv, LinkSeqs
<1>4. LinkCounts'
  BY <1>1, <1>2, <1>3 DEF LinkInv, LinkCounts
<1>5. LinkSeqs'
  BY <1>2, <1>3, <1>b, AnyShort DEF LinkInv, LinkSeqs, Numbers
<1>6. OwnIds'
  BY <1>1, <1>2, <1>3, <1>b, AnyShort DEF LinkInv, OwnIds, Own
<1>7. ASSUME ~overlapped' PROVE OneAtATime'
  <2>1. OneAtATime /\ ~overlapped /\ \A u \in Callers \ {t} : building[u] = << >>
    BY <1>2, <1>7 DEF LinkInv
  <2>2. RegisteredId' = n /\ RegisteredId = Len(calls)
    BY <1>1, <1>2, <1>3 DEF RegisteredId
  <2>3. \A k \in DOMAIN pending : k \in 1 .. Len(calls) /\ pending[k] = k /\ heard'[k] = << >>
    BY <1>3, <2>1, <2>2 DEF OneAtATime
  <2>4. n \notin DOMAIN pending
    BY <1>3, <2>3
  <2> QED
    BY <1>1, <1>2, <1>3, <1>b, <2>1, <2>2, <2>3, <2>4, AnyShort DEF OneAtATime
<1>8. ASSUME ~overlapped', NEW k \in 1 .. n
      PROVE  Len(heard'[k]) <= 1 /\ \A x \in DOMAIN heard'[k] : heard'[k][x].from = k
  <2>1. CASE k = n
    BY <1>3, <2>1, AnyShort
  <2>2. CASE k \in 1 .. Len(calls)
    <3>1. ~overlapped /\ heard'[k] = heard[k]
      BY <1>2, <1>3, <1>8, <2>2
    <3> QED
      BY <1>3, <2>2, <3>1 DEF LinkInv, AnsweredByItsOwn, Numbers
  <2> QED
    BY <1>3, <2>1, <2>2
<1>9. AnsweredByItsOwn'
  BY <1>3, <1>8 DEF AnsweredByItsOwn, Numbers
<1> QED
  BY <1>4, <1>5, <1>6, <1>7, <1>9 DEF LinkInv

LEMMA SendStep == ASSUME LinkInv, NEW t \in Callers, Send(t) PROVE LinkInv'
<1> DEFINE msg == building[t][1]
<1>1. /\ building[t] # << >>
      /\ pending' = [k \in DOMAIN pending \cup {RegisteredId} |->
                       IF k = RegisteredId THEN msg.call ELSE pending[k]]
      /\ toServer' = IF connected THEN Append(toServer, msg) ELSE toServer
      /\ building' = [building EXCEPT ![t] = << >>]
      /\ UNCHANGED <<next_req_id, connected, io_pool, toClient, calls, heard, overlapped>>
  BY DEF Send
<1>2. Own(msg)
  BY <1>1 DEF LinkInv, OwnIds
<1> HIDE DEF msg
<1>3. building'[t] = << >> /\ (\A u \in Callers \ {t} : building'[u] = building[u])
      /\ building' = [u \in Callers |-> building'[u]]
  BY <1>1 DEF LinkInv, LinkSeqs
<1>4. IsSeq(toServer') /\ \A k \in DOMAIN toServer' : Own(toServer'[k])
  BY <1>1, <1>2, AnyAppend DEF LinkInv, LinkSeqs, OwnIds
<1>5. LinkCounts' /\ LinkSeqs' /\ AnsweredByItsOwn'
  BY <1>1, <1>3, <1>4 DEF LinkInv, LinkCounts, LinkSeqs, Numbers, AnsweredByItsOwn
<1>6. OwnIds'
  BY <1>1, <1>3, <1>4 DEF LinkInv, OwnIds, Own
<1>7. ASSUME ~overlapped' PROVE OneAtATime'
  <2>1. OneAtATime /\ RegisteredId' = RegisteredId
    BY <1>1, <1>7 DEF LinkInv, RegisteredId
  <2>2. /\ msg.id = RegisteredId /\ heard[RegisteredId] = << >>
        /\ \A u \in Callers \ {t} : building[u] = << >>
    BY <1>1, <2>1 DEF OneAtATime, msg
  <2>3. msg.call = RegisteredId /\ RegisteredId \in 1 .. RegisteredId
    BY <1>2, <2>2 DEF Own, RegisteredId
  <2>4. \A k \in DOMAIN pending' : k \in 1 .. RegisteredId /\ pending'[k] = k /\ heard'[k] = << >>
    BY <1>1, <2>1, <2>2, <2>3 DEF OneAtATime
  <2> QED
    BY <1>3, <2>1, <2>2, <2>4 DEF OneAtATime
<1> QED
  BY <1>5, <1>6, <1>7 DEF LinkInv

LEMMA ReadStep == ASSUME LinkInv, onRead PROVE LinkInv'
<1> DEFINE reply == Head(toClient)
           c == pending[reply.id]
<1>1. /\ toClient # << >> /\ toClient' = Tail(toClient)
      /\ UNCHANGED <<next_req_id, building, connected, toServer, io_pool, calls, overlapped>>
      /\ \/ /\ reply.id \in DOMAIN pending
            /\ pending' = Restrict(pending, DOMAIN pending \ {reply.id})
            /\ \E answer : heard' = [heard EXCEPT ![c] = Append(@, [from |-> reply.call, result |-> answer])]
         \/ UNCHANGED <<pending, heard>>
  BY DEF onRead, Hear
<1>2. /\ IsSeq(toClient') /\ \A k \in DOMAIN toClient' : Own(toClient'[k])
      /\ Own(reply)
  BY <1>1, AnyTail DEF LinkInv, LinkSeqs, OwnIds
<1> HIDE DEF reply
<1>3. OwnIds'
  BY <1>1, <1>2 DEF LinkInv, OwnIds, Own
<1>4. CASE UNCHANGED <<pending, heard>>
  <2>1. LinkCounts' /\ LinkSeqs' /\ AnsweredByItsOwn'
    BY <1>1, <1>2, <1>4 DEF LinkInv, LinkCounts, LinkSeqs, Numbers, AnsweredByItsOwn
  <2>2. ~overlapped' => OneAtATime'
    BY <1>1, <1>4 DEF LinkInv, OneAtATime, RegisteredId
  <2> QED
    BY <1>3, <2>1, <2>2 DEF LinkInv
<1>5. ASSUME NEW answer, reply.id \in DOMAIN pending,
             pending' = Restrict(pending, DOMAIN pending \ {reply.id}),
             heard' = [heard EXCEPT ![c] = Append(@, [from |-> reply.call, result |-> answer])]
      PROVE  LinkInv'
  <2> DEFINE told == [from |-> reply.call, result |-> answer]
  <2>1. told.from = reply.call
    OBVIOUS
  <2>2. heard' = [heard EXCEPT ![c] = Append(@, told)]
    BY <1>5
  <2> HIDE DEF told, c
  <2>3. /\ DOMAIN heard = 1 .. Len(heard) /\ Len(heard) \in Nat /\ DOMAIN calls = 1 .. Len(calls)
        /\ heard = [k \in 1 .. Len(heard) |-> heard[k]]
    BY DEF LinkInv, LinkSeqs, IsSeq
  <2>4. /\ heard' = [k \in 1 .. Len(heard) |-> heard'[k]]
        /\ \A k \in 1 .. Len(heard) : k # c => heard'[k] = heard[k]
        /\ c \in 1 .. Len(heard) => heard'[c] = Append(heard[c], told)
    BY <2>2, <2>3
  <2>5. IsSeq(heard') /\ Len(heard') = Len(heard)
    <3>1. heard' \in Seq({heard'[k] : k \in 1 .. Len(heard)}) /\ Len(heard') = Len(heard)
      BY <2>3, <2>4
    <3> QED
      BY <3>1, SeqOfElems
  <2>6. LinkCounts' /\ LinkSeqs'
    <3>1. LinkCounts'
      BY <1>1, <2>5 DEF LinkInv, LinkCounts
    <3>2. ASSUME NEW k \in 1 .. Len(heard) PROVE IsSeq(heard'[k])
      <4>1. IsSeq(heard[k])
        BY <2>3 DEF LinkInv, LinkSeqs, LinkCounts, Numbers
      <4>2. heard'[k] = heard[k] \/ heard'[k] = Append(heard[k], told)
        BY <2>4
      <4>3. IsSeq(Append(heard[k], told))
        BY <4>1, AnyAppend
      <4> QED
        BY <4>1, <4>2, <4>3
    <3> QED
      BY <1>1, <1>2, <2>3, <2>5, <3>1, <3>2 DEF LinkInv, LinkSeqs, LinkCounts, Numbers
  <2>7. ASSUME ~overlapped' PROVE OneAtATime' /\ AnsweredByItsOwn'
    <3>1. OneAtATime /\ RegisteredId' = RegisteredId
      BY <1>1, <2>7 DEF LinkInv, RegisteredId
    <3>2. c = reply.id /\ c \in 1 .. RegisteredId /\ heard[c] = << >> /\ reply.call = c
      BY <1>2, <1>5, <3>1 DEF OneAtATime, c, Own
    <3>3. DOMAIN pending' = DOMAIN pending \ {c} /\ \A k \in DOMAIN pending' : pending'[k] = pending[k]
      BY <1>5, <3>2 DEF Restrict
    <3>4. RegisteredId <= Len(heard) /\ Len(heard) = Len(calls) /\ RegisteredId \in Int
      BY <2>3 DEF LinkInv, LinkCounts, RegisteredId
    <3>5. c \in 1 .. Len(heard) /\ heard'[c] = <<told>>
      BY <2>3, <2>4, <3>2, <3>4
    <3>6. \A k \in DOMAIN pending' : k \in 1 .. RegisteredId /\ pending'[k] = k /\ heard'[k] = << >>
      BY <2>3, <2>4, <3>1, <3>3, <3>4 DEF OneAtATime
    <3>7. ASSUME NEW t \in Callers, building[t] # << >>
          PROVE  RegisteredId \notin DOMAIN pending' /\ heard'[RegisteredId] = << >>
      <4>1. RegisteredId \notin DOMAIN pending /\ heard[RegisteredId] = << >> /\ RegisteredId \in 1 .. RegisteredId
        BY <3>1, <3>7 DEF OneAtATime, LinkInv, OwnIds, Own, RegisteredId
      <4>2. RegisteredId # c
        BY <1>5, <3>2, <4>1
      <4> QED
        BY <2>3, <2>4, <3>3, <3>4, <4>1, <4>2
    <3>8. OneAtATime'
      BY <1>1, <3>1, <3>6, <3>7 DEF OneAtATime
    <3>9. ASSUME NEW k \in 1 .. Len(heard)
          PROVE  Len(heard'[k]) <= 1 /\ \A x \in DOMAIN heard'[k] : heard'[k][x].from = k
      <4>1. CASE k = c
        <5>1. heard'[k] = <<told>> /\ told.from = k
          BY <2>1, <3>2, <3>5, <4>1
        <5> QED
          BY <5>1, AnyShort
      <4>2. CASE k # c
        <5>1. heard'[k] = heard[k] /\ ~overlapped
          BY <1>1, <2>4, <2>7, <4>2
        <5> QED
          BY <2>3, <3>4, <5>1 DEF LinkInv, AnsweredByItsOwn, Numbers
      <4> QED
        BY <4>1, <4>2
    <3>10. AnsweredByItsOwn'
      BY <1>1, <2>3, <3>4, <3>9 DEF AnsweredByItsOwn, Numbers
    <3> QED
      BY <3>8, <3>10
  <2>8. AnsweredByItsOwn'
    BY <2>7 DEF AnsweredByItsOwn
  <2> QED
    BY <1>3, <2>6, <2>7, <2>8 DEF LinkInv
<1> QED
  BY <1>1, <1>4, <1>5

LEMMA ClosedStep == ASSUME LinkInv, on_closed PROVE LinkInv'
BY AnyShort DEF on_closed, LinkInv, LinkCounts, LinkSeqs, OwnIds, Own, OneAtATime, RegisteredId,
                AnsweredByItsOwn, Numbers

\* What the service does: it moves requests, and replies carry their ids.
LEMMA ServiceStep ==
  ASSUME LinkInv, NEW msg, Own(msg), NEW answer,
         UNCHANGED <<next_req_id, building, pending, connected, calls, heard, overlapped>>,
         toServer' = toServer \/ (toServer # << >> /\ toServer' = Tail(toServer)),
         io_pool' \subseteq io_pool \cup {msg},
         toClient' = toClient \/ sendResponse(msg, answer)
  PROVE  LinkInv'
<1>1. IsSeq(toServer') /\ \A k \in DOMAIN toServer' : Own(toServer'[k])
  <2>1. CASE toServer' = toServer
    BY <2>1 DEF LinkInv, LinkSeqs, OwnIds
  <2>2. CASE toServer # << >> /\ toServer' = Tail(toServer)
    BY <2>2, AnyTail DEF LinkInv, LinkSeqs, OwnIds
  <2> QED
    BY <2>1, <2>2
<1>2. IsSeq(toClient') /\ \A k \in DOMAIN toClient' : Own(toClient'[k])
  <2>1. CASE toClient' = toClient
    BY <2>1 DEF LinkInv, LinkSeqs, OwnIds
  <2>2. CASE toClient' = Append(toClient, [id |-> msg.id, call |-> msg.call, result |-> answer])
    <3> DEFINE reply == [id |-> msg.id, call |-> msg.call, result |-> answer]
    <3>1. Own(reply)
      BY DEF Own
    <3> HIDE DEF reply
    <3>2. toClient' = Append(toClient, reply)
      BY <2>2 DEF reply
    <3> QED
      BY <3>1, <3>2, AnyAppend DEF LinkInv, LinkSeqs, OwnIds
  <2> QED
    BY <2>1, <2>2 DEF sendResponse
<1>3. LinkCounts' /\ LinkSeqs' /\ AnsweredByItsOwn'
  BY <1>1, <1>2 DEF LinkInv, LinkCounts, LinkSeqs, Numbers, AnsweredByItsOwn
<1>4. OwnIds'
  BY <1>1, <1>2 DEF LinkInv, OwnIds, Own
<1>5. ~overlapped' => OneAtATime'
  BY DEF LinkInv, OneAtATime, RegisteredId
<1> QED
  BY <1>3, <1>4, <1>5 DEF LinkInv

LEMMA MessageStep == ASSUME LinkInv, onMessage PROVE LinkInv'
<1> DEFINE msg == Head(toServer)
<1>1. Own(msg)
  BY AnyTail DEF onMessage, LinkInv, LinkSeqs, OwnIds
<1> HIDE DEF msg
<1>2. PICK answer : /\ io_pool' \subseteq io_pool \cup {msg}
                    /\ toClient' = toClient \/ sendResponse(msg, answer)
  BY DEF onMessage, handleGetBlock, handleSetBlock, handleSetBlockCAS, msg
<1> QED
  BY <1>1, <1>2, ServiceStep DEF onMessage

LEMMA AsyncStep == ASSUME LinkInv, AsyncSetBlock PROVE LinkInv'
<1>1. PICK msg \in io_pool : sendResponse(msg, Result(TRUE, NoBlock)) /\ io_pool' = io_pool \ {msg}
  BY DEF AsyncSetBlock
<1>2. Own(msg)
  BY DEF LinkInv, OwnIds
<1> QED
  BY <1>1, <1>2, ServiceStep DEF AsyncSetBlock

LEMMA LinkStep == LinkInv /\ [LinkNext]_linkVars => LinkInv'
<1> SUFFICES ASSUME LinkInv, [LinkNext]_linkVars PROVE LinkInv'
  OBVIOUS
<1>1. CASE UNCHANGED linkVars
  BY <1>1 DEF linkVars, LinkInv, LinkCounts, LinkSeqs, OwnIds, Own, OneAtATime, RegisteredId,
              AnsweredByItsOwn, Numbers
<1>2. ASSUME NEW t \in Callers, Call(t) PROVE LinkInv'
  BY <1>2, CallDownStep, CallUpStep DEF Call
<1>3. ASSUME NEW t \in Callers, Send(t) PROVE LinkInv'
  BY <1>3, SendStep
<1>4. CASE onRead \/ on_closed \/ onMessage \/ AsyncSetBlock
  BY <1>4, ReadStep, ClosedStep, MessageStep, AsyncStep
<1> QED
  BY <1>1, <1>2, <1>3, <1>4 DEF LinkNext

\* While no two threads are inside a call at once, a callback hears at most one
\* reply, and the one to its own request, for any number of callers, positions
\* and calls (IoUringChunkClient, IoUringChunkStoreService).
THEOREM AnsweredByItsOwnHolds == LinkSpec => []AnsweredByItsOwn
<1>1. LinkInv => AnsweredByItsOwn
  BY DEF LinkInv
<1> QED
  BY LinkInitInv, LinkStep, <1>1, PTL DEF LinkSpec
==============================================================================
