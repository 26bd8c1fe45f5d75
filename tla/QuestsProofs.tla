---------------------------- MODULE QuestsProofs -----------------------------
(***************************************************************************)
(* Proofs about Quests, for every set of quests with any prerequisites,    *)
(* any inventory and any number of faults:                                 *)
(*                                                                         *)
(*   loops       a Walk is a run of its body, from which follows what a    *)
(*               detection, a count, a grant and a cost amount to          *)
(*   queues      what taking and publishing messages does to those that    *)
(*               report a quest as done                                    *)
(*   database    what the handlers of MetaDB make of it                    *)
(*   IInv        the inductive invariant, and one lemma per action: the    *)
(*               action keeps it, and is a step of the quest book          *)
(*   theorems                                                              *)
(***************************************************************************)
EXTENDS Quests, FiniteSetTheorems, WellFoundedInduction, TLAPS

-----------------------------------------------------------------------------
(***************************************************************************)
(* Loops.  The library states induction for operators; over sets it is the *)
(* least element of what would be missing.                                 *)
(***************************************************************************)
LEMMA LeastElement ==
    ASSUME NEW T \in SUBSET Nat, T # {}
    PROVE  \E n \in T : \A m \in T : n <= m
<1> DEFINE Below == {ss \in Nat \X Nat : ss[1] < ss[2]}
<1>1. IsWellFoundedOn(Below, Nat)
  BY NatLessThanWellFounded DEF OpToRel
<1>2. PICK n \in T : \A m \in T : <<m, n>> \notin Below
  <2> HIDE DEF Below
  <2> QED
    BY <1>1, WFMin
<1>3. \A m \in T : ~(m < n)
  BY <1>2
<1>4. QED
  BY <1>3

LEMMA UpTo ==
    ASSUME NEW n \in Nat, NEW T, 0 \in T, \A k \in 1 .. n : k - 1 \in T => k \in T
    PROVE  0 .. n \subseteq T
<1> SUFFICES ASSUME (0 .. n) \ T # {} PROVE FALSE
  OBVIOUS
<1> DEFINE M == (0 .. n) \ T
<1>1. PICK k \in M : \A m \in M : k <= m
  <2>1. M \in SUBSET Nat /\ M # {}
    OBVIOUS
  <2> HIDE DEF M
  <2>2. QED
    BY <2>1, LeastElement
<1>2. k \in 1 .. n /\ k - 1 \in 0 .. n
  BY <1>1
<1>3. k - 1 \in T
  BY <1>1, <1>2
<1>4. QED
  BY <1>1, <1>2, <1>3

\* A loop whose body is a function on a set of states has a run.
Bodies(S, n) == [S \X (1 .. n) -> S]
Runs(S, n, F, a) ==
    {g \in [0 .. n -> S] : g[0] = a /\ \A k \in 1 .. n : g[k] = F[<<g[k - 1], k>>]}

LEMMA LoopRuns ==
    ASSUME NEW S, NEW a \in S, NEW n \in Nat, NEW F \in Bodies(S, n)
    PROVE  \E g : g \in Runs(S, n, F, a)
<1> DEFINE Run(g, j) == /\ g \in [0 .. j -> S] /\ g[0] = a
                        /\ \A k \in 1 .. j : g[k] = F[<<g[k - 1], k>>]
           T == {j \in 0 .. n : \E g : Run(g, j)}
<1>1. 0 \in T
  <2> DEFINE g == [k \in 0 .. 0 |-> a]
  <2>1. Run(g, 0)
    OBVIOUS
  <2>2. \E f : Run(f, 0)
    <3> HIDE DEF Run, g
    <3> QED
      BY <2>1
  <2>3. QED
    BY <2>2
<1>2. ASSUME NEW j \in 1 .. n, j - 1 \in T PROVE j \in T
  <2>1. PICK g : Run(g, j - 1)
    BY <1>2
  <2> DEFINE h == [k \in 0 .. j |-> IF k = j THEN F[<<g[j - 1], j>>] ELSE g[k]]
  <2>2. g[j - 1] \in S /\ F[<<g[j - 1], j>>] \in S
    BY <2>1 DEF Bodies
  <2>3. h \in [0 .. j -> S] /\ h[0] = a
    BY <2>1, <2>2
  <2>4. ASSUME NEW k \in 1 .. j PROVE h[k] = F[<<h[k - 1], k>>]
    <3>1. CASE k = j
      BY <2>1, <3>1
    <3>2. CASE k # j
      <4>1. k \in 1 .. j - 1 /\ k - 1 # j /\ k \in 0 .. j /\ k - 1 \in 0 .. j
        BY <3>2
      <4>2. h[k] = g[k] /\ h[k - 1] = g[k - 1]
        BY <4>1, <3>2
      <4>3. QED
        BY <2>1, <4>1, <4>2
    <3>3. QED
      BY <3>1, <3>2
  <2>5. Run(h, j)
    BY <2>3, <2>4
  <2>6. \E f : Run(f, j)
    <3> HIDE DEF Run, h
    <3> QED
      BY <2>5
  <2>7. QED
    BY <2>6
<1>3. n \in T
  <2>1. 0 .. n \subseteq T
    <3> HIDE DEF T
    <3> QED
      BY <1>1, <1>2, UpTo
  <2>2. QED
    BY <2>1
<1>4. QED
  BY <1>3 DEF Runs
-----------------------------------------------------------------------------
(***************************************************************************)
(* Types.                                                                  *)
(***************************************************************************)
Stati == {"LOCKED", "AVAILABLE", "COMPLETED"}
Progress == UNION {[D -> Stati] : D \in SUBSET Quests}
DoneMsgs == [t : {"done"}, q : Quests]
\* What a call of QuestManager carries.
Calls == [prog : Progress, eras : SUBSET Eras, out : Seq(DoneMsgs)]

LEMMA ProgressFact ==
    \A pr : pr \in Progress <=>
        /\ DOMAIN pr \subseteq Quests /\ pr = [q \in DOMAIN pr |-> pr[q]]
        /\ \A q \in DOMAIN pr : pr[q] \in Stati
<1>1. ASSUME NEW pr \in Progress
      PROVE  /\ DOMAIN pr \subseteq Quests /\ pr = [q \in DOMAIN pr |-> pr[q]]
             /\ \A q \in DOMAIN pr : pr[q] \in Stati
  <2>1. PICK D \in SUBSET Quests : pr \in [D -> Stati]
    BY DEF Progress
  <2>2. QED
    BY <2>1
<1>2. ASSUME NEW pr, DOMAIN pr \subseteq Quests, pr = [q \in DOMAIN pr |-> pr[q]],
             \A q \in DOMAIN pr : pr[q] \in Stati
      PROVE  pr \in Progress
  <2>1. pr \in [DOMAIN pr -> Stati]
    BY <1>2
  <2>2. QED
    BY <1>2, <2>1 DEF Progress
<1>3. QED
  BY <1>1, <1>2

LEMMA CompletedWith ==
    ASSUME NEW pr \in Progress, NEW q \in Quests, NEW s \in Stati
    PROVE  /\ With(pr, q, s) \in Progress
           /\ Completed(With(pr, q, s)) =
                 IF s = "COMPLETED" THEN Completed(pr) \cup {q} ELSE Completed(pr) \ {q}
<1>1. With(pr, q, s) \in [DOMAIN pr \cup {q} -> Stati] /\ DOMAIN pr \cup {q} \subseteq Quests
  BY ProgressFact DEF With
<1>2. With(pr, q, s) \in Progress
  BY <1>1 DEF Progress
<1>3. QED
  BY <1>1, <1>2 DEF With, Completed

\* Unlocking touches no completed quest and completes none.
LEMMA CompletedUnlocked ==
    ASSUME NEW pr \in Progress
    PROVE  /\ unlockNewlyAvailable(pr) \in Progress
           /\ Completed(unlockNewlyAvailable(pr)) = Completed(pr)
<1>1. /\ unlockNewlyAvailable(pr) \in [DOMAIN pr -> Stati] /\ DOMAIN pr \subseteq Quests
  BY ProgressFact DEF unlockNewlyAvailable, Stati
<1>2. unlockNewlyAvailable(pr) \in Progress
  BY <1>1 DEF Progress
<1>3. Completed(unlockNewlyAvailable(pr)) = Completed(pr)
  BY <1>1 DEF unlockNewlyAvailable, Completed, NewlyAvailable
<1>4. QED
  BY <1>2, <1>3

LEMMA StatusIs ==
    \A pr, q : Status(pr, q) = "COMPLETED" <=> q \in Completed(pr)
BY DEF Status, Completed

\* Eras depend on what is completed only.
LEMMA EraIs ==
    \A e, pr : IsEraComplete(e, pr) <=> \A q \in BuildQuestEraMap : EraOf[q] = e => q \in Completed(pr)
BY StatusIs DEF IsEraComplete
-----------------------------------------------------------------------------
(***************************************************************************)
(* What a call of QuestManager does to the progress it began with.         *)
(***************************************************************************)
EraExact(er, pr) ==
    \A e \in {EraOf[q] : q \in BuildQuestEraMap} : e \in er <=> IsEraComplete(e, pr)

\* From pr0, er0 to m: quests were completed, each after its prerequisites, and
\* what is reported is what was completed, once.
Grew(pr0, er0, m) ==
    /\ m \in Calls
    /\ Completed(pr0) \subseteq Completed(m.prog)
    /\ \A q \in Completed(m.prog) \ Completed(pr0) : Prereqs[q] \subseteq Completed(m.prog)
    /\ \A i \in 1 .. Len(m.out) : m.out[i].q \in Completed(m.prog) \ Completed(pr0)
    /\ \A i, j \in 1 .. Len(m.out) : m.out[i].q = m.out[j].q => i = j
    /\ EraExact(er0, pr0) => EraExact(m.eras, m.prog)

LEMMA CompletedKnown ==
    ASSUME NEW pr \in Progress
    PROVE  Completed(pr) \subseteq Quests
BY ProgressFact DEF Completed

\* completeQuestInternal() of a quest that may be completed.
LEMMA Completes ==
    ASSUME NEW pr0, NEW er0, NEW m, Grew(pr0, er0, m), NEW q \in Quests, CanComplete(q, m.prog)
    PROVE  Grew(pr0, er0, completeQuestInternal(m, q))
<1> DEFINE pr1 == With(m.prog, q, "COMPLETED")
           er1 == IF IsEraComplete(EraOf[q], pr1) THEN m.eras \cup {EraOf[q]} ELSE m.eras
           msg == [t |-> "done", q |-> q]
           r == [prog |-> unlockNewlyAvailable(pr1), eras |-> er1, out |-> Append(m.out, msg)]
<1>1. m \in Calls
  BY DEF Grew
<1>2. CASE q \in Completed(m.prog)
  BY <1>2, StatusIs DEF completeQuestInternal
<1>3. CASE q \notin Completed(m.prog)
  <2>1. completeQuestInternal(m, q) = r
    BY <1>1, <1>3, StatusIs DEF completeQuestInternal, maybePublishEraTransition, Calls
  <2>2. m.prog \in Progress /\ m.eras \in SUBSET Eras /\ m.out \in Seq(DoneMsgs)
    BY <1>1 DEF Calls
  <2>3. /\ r.prog \in Progress
        /\ Completed(pr1) = Completed(m.prog) \cup {q}
        /\ Completed(r.prog) = Completed(m.prog) \cup {q}
    BY <2>2, CompletedWith, CompletedUnlocked DEF Stati
  <2>4. msg \in DoneMsgs /\ r.eras \in SUBSET Eras
    BY <2>2 DEF DoneMsgs, Eras
  <2>5. r \in Calls
    BY <2>2, <2>3, <2>4 DEF Calls
  <2>6. Completed(pr0) \subseteq Completed(r.prog)
    BY <2>3 DEF Grew
  <2>7. ASSUME NEW p \in Completed(r.prog) \ Completed(pr0)
        PROVE  Prereqs[p] \subseteq Completed(r.prog)
    BY <2>3 DEF Grew, CanComplete
  <2>8. /\ Len(r.out) = Len(m.out) + 1 /\ Len(m.out) \in Nat
        /\ \A i \in 1 .. Len(m.out) : r.out[i] = m.out[i]
        /\ r.out[Len(m.out) + 1] = msg
    BY <2>2, <2>4
  <2>9. ASSUME NEW i \in 1 .. Len(r.out)
        PROVE  r.out[i].q \in Completed(r.prog) \ Completed(pr0)
    <3>1. CASE i \in 1 .. Len(m.out)
      BY <2>3, <2>8, <3>1 DEF Grew
    <3>2. CASE i = Len(m.out) + 1
      BY <2>3, <2>8, <3>2, <1>3 DEF Grew
    <3>3. QED
      BY <2>8, <3>1, <3>2
  <2>10. ASSUME NEW i \in 1 .. Len(r.out), NEW j \in 1 .. Len(r.out), r.out[i].q = r.out[j].q
         PROVE  i = j
    <3>1. \A k \in 1 .. Len(m.out) : r.out[k].q # q
      BY <2>8, <1>3 DEF Grew
    <3>2. CASE i \in 1 .. Len(m.out) /\ j \in 1 .. Len(m.out)
      BY <2>8, <2>10, <3>2 DEF Grew
    <3>3. CASE i = Len(m.out) + 1 \/ j = Len(m.out) + 1
      BY <2>8, <2>10, <3>1, <3>3
    <3>4. QED
      BY <2>8, <3>2, <3>3
  <2>11. ASSUME EraExact(m.eras, m.prog) PROVE EraExact(r.eras, r.prog)
    <3>1. SUFFICES ASSUME NEW p \in BuildQuestEraMap
                   PROVE  EraOf[p] \in r.eras <=> IsEraComplete(EraOf[p], r.prog)
      BY DEF EraExact
    <3>2. EraOf[p] \in m.eras <=> IsEraComplete(EraOf[p], m.prog)
      BY <2>11 DEF EraExact
    <3>3. IsEraComplete(EraOf[p], r.prog) <=> IsEraComplete(EraOf[p], pr1)
      BY <2>3, EraIs
    <3>4. IsEraComplete(EraOf[p], m.prog) => IsEraComplete(EraOf[p], pr1)
      BY <2>3, EraIs
    <3>5. CASE EraOf[p] = EraOf[q]
      BY <3>2, <3>3, <3>4, <3>5
    <3>6. CASE EraOf[p] # EraOf[q]
      <4>1. IsEraComplete(EraOf[p], pr1) <=> IsEraComplete(EraOf[p], m.prog)
        BY <2>3, <3>6, EraIs
      <4>2. EraOf[p] \in r.eras <=> EraOf[p] \in m.eras
        BY <3>6
      <4>3. QED
        BY <3>2, <3>3, <4>1, <4>2
    <3>7. QED
      BY <3>5, <3>6
  <2>12. Grew(pr0, er0, r)
    <3> HIDE DEF r
    <3> QED
      BY <2>5, <2>6, <2>7, <2>9, <2>10, <2>11 DEF Grew
  <2>13. QED
    BY <2>1, <2>12
<1>4. QED
  BY <1>2, <1>3

LEMMA MetGrows ==
    ASSUME NEW pr0, NEW er0, NEW m, Grew(pr0, er0, m), NEW q \in Quests
    PROVE  Grew(pr0, er0, MetIfReady(m, q))
<1>1. CASE ~CanComplete(q, m.prog)
  BY <1>1 DEF MetIfReady
<1>2. CASE CanComplete(q, m.prog) /\ q \in AutoComplete
  BY <1>2, Completes DEF MetIfReady, handleQuestMet
<1>3. CASE CanComplete(q, m.prog) /\ q \notin AutoComplete
  <2>1. CASE Status(m.prog, q) \notin {"absent", "LOCKED"}
    BY <1>3, <2>1 DEF MetIfReady, handleQuestMet
  <2>2. CASE Status(m.prog, q) \in {"absent", "LOCKED"}
    <3> DEFINE r == [m EXCEPT !.prog = With(@, q, "AVAILABLE")]
    <3>1. MetIfReady(m, q) = r
      BY <1>3, <2>2 DEF MetIfReady, handleQuestMet
    <3>2. m \in Calls /\ m.prog \in Progress /\ q \notin Completed(m.prog)
      BY <2>2, StatusIs DEF Grew, Calls
    <3>3. /\ r.prog = With(m.prog, q, "AVAILABLE") /\ r.eras = m.eras /\ r.out = m.out
          /\ r.prog \in Progress /\ Completed(r.prog) = Completed(m.prog)
      <4>1. r.prog = With(m.prog, q, "AVAILABLE") /\ r.eras = m.eras /\ r.out = m.out
        BY <3>2 DEF Calls
      <4>2. "AVAILABLE" \in Stati /\ "AVAILABLE" # "COMPLETED"
        BY DEF Stati
      <4>3. /\ With(m.prog, q, "AVAILABLE") \in Progress
            /\ Completed(With(m.prog, q, "AVAILABLE")) = Completed(m.prog) \ {q}
        BY <3>2, <4>2, CompletedWith
      <4>4. QED
        BY <3>2, <4>1, <4>3
    <3>4. r \in Calls
      BY <3>2, <3>3 DEF Calls
    <3>5. EraExact(m.eras, m.prog) <=> EraExact(r.eras, r.prog)
      BY <3>3, EraIs DEF EraExact
    <3>6. Grew(pr0, er0, r)
      <4> HIDE DEF r
      <4> QED
        BY <3>3, <3>4, <3>5 DEF Grew
    <3>7. QED
      BY <3>1, <3>6
  <2>3. QED
    BY <2>1, <2>2
<1>4. QED
  BY <1>1, <1>2, <1>3

\* A detection: the walk over all quests.
LEMMA DetectedGrows ==
    ASSUME NEW pr \in Progress, NEW er \in SUBSET Eras, NEW met \in SUBSET Quests
    PROVE  Grew(pr, er, Detected([prog |-> pr, eras |-> er, out |-> << >>], met))
<1> DEFINE m == [prog |-> pr, eras |-> er, out |-> << >>]
           N == Cardinality(Quests)
           S == {a \in Calls : Grew(pr, er, a)}
           Step(a, q) == IF q \in met THEN MetIfReady(a, q) ELSE a
           Eq(g) == [k \in 0 .. N |-> IF k = 0 THEN m ELSE Step(g[k - 1], k)]
           after == CHOOSE g : g = Eq(g)
<1>1. N \in Nat /\ Quests = 1 .. N
  BY QuestAssumption, FS_CardinalityType
<1>2. m \in S
  <2>1. m \in Calls
    BY DEF Calls
  <2>2. QED
    BY <2>1 DEF Grew
<1>3. \A a \in S, q \in 1 .. N : Step(a, q) \in S
  <2>1. \A a \in S, q \in 1 .. N : Grew(pr, er, Step(a, q))
    BY <1>1, MetGrows
  <2>2. QED
    BY <2>1 DEF Grew
<1>4. Detected(m, met) = after[N]
  BY DEF Detected, Walk
<1> HIDE DEF m, S, Step, N
<1>5. \E g : g = Eq(g)
  <2> DEFINE F == [x \in S \X (1 .. N) |-> Step(x[1], x[2])]
  <2>1. F \in Bodies(S, N) /\ N \in Nat /\ m \in S
    BY <1>1, <1>2, <1>3 DEF Bodies
  <2>11. \A a \in S, k \in 1 .. N : F[<<a, k>>] = Step(a, k)
    OBVIOUS
  <2>2. PICK g : g \in Runs(S, N, F, m)
    <3> HIDE DEF F
    <3> QED
      BY <2>1, LoopRuns
  <2>3. \A k \in 1 .. N : g[k - 1] \in S /\ g[k] = Step(g[k - 1], k)
    <3> HIDE DEF F
    <3>1. \A k \in 1 .. N : k - 1 \in 0 .. N /\ k \in 0 .. N
      BY <2>1
    <3>2. \A k \in 1 .. N : g[k - 1] \in S /\ g[k] = F[<<g[k - 1], k>>]
      BY <2>2, <3>1 DEF Runs
    <3> QED
      BY <2>11, <3>2
  <2>4. g = Eq(g)
    BY <1>1, <2>2, <2>3 DEF Runs
  <2>5. QED
    BY <2>4
<1>6. after = Eq(after)
  <2> HIDE DEF Eq
  <2> QED
    BY <1>5
<1>7. 0 .. N \subseteq {k \in 0 .. N : after[k] \in S}
  <2> HIDE DEF after
  <2>1. after[0] = m /\ \A k \in 1 .. N : after[k] = Step(after[k - 1], k)
    BY <1>1, <1>6
  <2> DEFINE T == {k \in 0 .. N : after[k] \in S}
  <2>2. 0 \in T /\ \A k \in 1 .. N : k - 1 \in T => k \in T
    BY <1>1, <1>2, <1>3, <2>1
  <2>3. 0 .. N \subseteq T
    <3> HIDE DEF T
    <3> QED
      BY <1>1, <2>2, UpTo
  <2>4. QED
    BY <2>3
<1>8. after[N] \in S
  <2> HIDE DEF after
  <2> QED
    BY <1>1, <1>7
<1>9. QED
  BY <1>4, <1>8 DEF S, m
-----------------------------------------------------------------------------
(***************************************************************************)
(* Slots, and how many of an item they hold.                               *)
(***************************************************************************)
Stacks == {v \in [id : Nat, n : 0 .. Stack] : v.id = 0 => v.n = 0}
Rows == UNION {[D -> Stacks] : D \in SUBSET Slots}

LEMMA RowsFact ==
    \A r : r \in Rows <=> /\ DOMAIN r \subseteq Slots /\ r = [s \in DOMAIN r |-> r[s]]
                          /\ \A s \in DOMAIN r : r[s] \in Stacks
<1>1. ASSUME NEW r \in Rows
      PROVE  /\ DOMAIN r \subseteq Slots /\ r = [s \in DOMAIN r |-> r[s]]
             /\ \A s \in DOMAIN r : r[s] \in Stacks
  <2>1. PICK D \in SUBSET Slots : r \in [D -> Stacks]
    BY DEF Rows
  <2>2. QED
    BY <2>1
<1>2. ASSUME NEW r, DOMAIN r \subseteq Slots, r = [s \in DOMAIN r |-> r[s]],
             \A s \in DOMAIN r : r[s] \in Stacks
      PROVE  r \in Rows
  <2>1. r \in [DOMAIN r -> Stacks]
    BY <1>2
  <2>2. QED
    BY <1>2, <2>1 DEF Rows
<1>3. QED
  BY <1>1, <1>2

LEMMA HeldType ==
    ASSUME NEW r \in Rows, NEW s \in Slots
    PROVE  /\ Held(r, s) \in Stacks /\ Held(r, s).id \in Nat /\ Held(r, s).n \in 0 .. Stack
           /\ Held(r, s).id = 0 => Held(r, s).n = 0
           /\ \A i : Amount(r, i, s) \in 0 .. Stack
<1>1. NoItem \in Stacks
  BY SlotAssumption DEF NoItem, Stacks
<1>2. Held(r, s) \in Stacks
  BY <1>1, RowsFact DEF Held
<1>3. QED
  BY <1>2, SlotAssumption DEF Stacks, Amount

\* A row is written or deleted: the others stay.
LEMMA RowWritten ==
    ASSUME NEW r \in Rows, NEW s \in Slots, NEW v \in Stacks
    PROVE  /\ UpdateInventorySlot(r, s, v) \in Rows
           /\ DOMAIN UpdateInventorySlot(r, s, v) = DOMAIN r \cup {s}
           /\ Held(UpdateInventorySlot(r, s, v), s) = v
           /\ \A t \in Slots \ {s} : Held(UpdateInventorySlot(r, s, v), t) = Held(r, t)
<1> DEFINE r1 == UpdateInventorySlot(r, s, v)
<1>1. r1 \in [DOMAIN r \cup {s} -> Stacks] /\ DOMAIN r \cup {s} \subseteq Slots
  BY RowsFact DEF UpdateInventorySlot
<1>2. r1 \in Rows
  BY <1>1 DEF Rows
<1>3. QED
  BY <1>1, <1>2 DEF Held, UpdateInventorySlot

\* The rows u are r with v written into slot s.
Written(u, r, s, v) ==
    /\ u \in Rows /\ DOMAIN u = DOMAIN r \cup {s} /\ Held(u, s) = v
    /\ \A t \in Slots \ {s} : Held(u, t) = Held(r, t)

\* UpdateInventorySlot() writes the row it is given.
LEMMA RowIsWritten ==
    ASSUME NEW r \in Rows, NEW s \in Slots, NEW v \in Stacks
    PROVE  Written(UpdateInventorySlot(r, s, v), r, s, v)
BY RowWritten DEF Written

\* A row is deleted: the others stay.
LEMMA RowDeleted ==
    ASSUME NEW r \in Rows, NEW s \in Slots
    PROVE  /\ Emptied(r, s) \in Rows /\ Held(Emptied(r, s), s) = NoItem
           /\ \A t \in Slots \ {s} : Held(Emptied(r, s), t) = Held(r, t)
<1> DEFINE r1 == Emptied(r, s)
<1>1. r1 \in [DOMAIN r \ {s} -> Stacks] /\ DOMAIN r \ {s} \subseteq Slots
  BY RowsFact DEF Emptied
<1>2. r1 \in Rows
  BY <1>1 DEF Rows
<1>3. QED
  BY <1>1, <1>2 DEF Held, Emptied

\* Count() as the run of its loop.
Sums(r, i) == {g \in [0 .. SlotCount -> Nat] :
                 g[0] = 0 /\ \A k \in 1 .. SlotCount : g[k] = g[k - 1] + Amount(r, i, k - 1)}

LEMMA CountIs ==
    ASSUME NEW r \in Rows, NEW i
    PROVE  \E g : g \in Sums(r, i) /\ Count(r, i) = g[SlotCount]
<1> DEFINE Step(a, k) == a + Amount(r, i, k - 1)
           Eq(g) == [k \in 0 .. SlotCount |-> IF k = 0 THEN 0 ELSE Step(g[k - 1], k)]
           after == CHOOSE g : g = Eq(g)
<1>1. \A k \in 1 .. SlotCount : k - 1 \in Slots /\ Amount(r, i, k - 1) \in Nat
  <2>1. \A k \in 1 .. SlotCount : k - 1 \in Slots
    BY SlotAssumption DEF Slots
  <2>2. QED
    BY <2>1, HeldType, SlotAssumption
<1>2. \A a \in Nat, k \in 1 .. SlotCount : Step(a, k) \in Nat
  BY <1>1
<1>3. Count(r, i) = after[SlotCount]
  BY DEF Count, OverSlots, Walk
<1> HIDE DEF Step
<1>4. \E g : g = Eq(g)
  <2> DEFINE F == [x \in Nat \X (1 .. SlotCount) |-> Step(x[1], x[2])]
  <2>1. F \in Bodies(Nat, SlotCount) /\ SlotCount \in Nat
    BY <1>2, SlotAssumption DEF Bodies
  <2>2. \A a \in Nat, k \in 1 .. SlotCount : F[<<a, k>>] = Step(a, k)
    OBVIOUS
  <2>3. PICK g : g \in Runs(Nat, SlotCount, F, 0)
    <3> HIDE DEF F
    <3> QED
      BY <2>1, LoopRuns
  <2>4. \A k \in 1 .. SlotCount : g[k - 1] \in Nat /\ g[k] = Step(g[k - 1], k)
    <3> HIDE DEF F
    <3>1. \A k \in 1 .. SlotCount : k - 1 \in 0 .. SlotCount
      BY <2>1
    <3>2. \A k \in 1 .. SlotCount : g[k - 1] \in Nat /\ g[k] = F[<<g[k - 1], k>>]
      BY <2>3, <3>1 DEF Runs
    <3>3. QED
      BY <2>2, <3>2
  <2>5. g = Eq(g)
    BY <2>1, <2>3, <2>4 DEF Runs
  <2>6. QED
    BY <2>5
<1>5. after = Eq(after)
  <2> HIDE DEF Eq
  <2> QED
    BY <1>4
<1> HIDE DEF after
<1>6. after[0] = 0 /\ \A k \in 1 .. SlotCount : after[k] = Step(after[k - 1], k)
  BY <1>5, SlotAssumption
<1> DEFINE T == {k \in 0 .. SlotCount : after[k] \in Nat}
<1>7. 0 \in T /\ \A k \in 1 .. SlotCount : k - 1 \in T => k \in T
  BY <1>2, <1>6, SlotAssumption
<1>8. 0 .. SlotCount \subseteq T
  <2> HIDE DEF T
  <2> QED
    BY <1>7, UpTo, SlotAssumption
<1>9. after \in [0 .. SlotCount -> Nat]
  BY <1>5, <1>8
<1>10. after \in Sums(r, i)
  BY <1>6, <1>9 DEF Sums, Step
<1>11. QED
  BY <1>3, <1>10

\* Only what a slot holds more or less changes the count.
LEMMA CountChanges ==
    ASSUME NEW r \in Rows, NEW r1 \in Rows, NEW s \in Slots, NEW i,
           \A t \in Slots \ {s} : Held(r1, t) = Held(r, t)
    PROVE  /\ Count(r, i) \in Nat /\ Count(r1, i) \in Nat
           /\ Count(r1, i) = Count(r, i) - Amount(r, i, s) + Amount(r1, i, s)
<1>1. PICK g : g \in Sums(r, i) /\ Count(r, i) = g[SlotCount]
  BY CountIs
<1>2. PICK h : h \in Sums(r1, i) /\ Count(r1, i) = h[SlotCount]
  BY CountIs
<1> DEFINE delta == Amount(r1, i, s) - Amount(r, i, s)
           T == {k \in 0 .. SlotCount : h[k] = g[k] + (IF s < k THEN delta ELSE 0)}
<1>3. /\ SlotCount \in Nat /\ s \in 0 .. SlotCount - 1 /\ delta \in Int
      /\ Amount(r1, i, s) \in Int /\ Amount(r, i, s) \in Int
  BY HeldType, SlotAssumption DEF Slots
<1>4. ASSUME NEW k \in 1 .. SlotCount, k - 1 \in T PROVE k \in T
  <2>1. /\ g[k] = g[k - 1] + Amount(r, i, k - 1) /\ h[k] = h[k - 1] + Amount(r1, i, k - 1)
        /\ g[k - 1] \in Nat /\ h[k - 1] \in Nat
    BY <1>1, <1>2, <1>3 DEF Sums
  <2>2. k - 1 \in Slots
    BY <1>3 DEF Slots
  <2>3. Amount(r, i, k - 1) \in Int /\ Amount(r1, i, k - 1) \in Int
    BY <2>2, HeldType
  <2>4. k - 1 # s => Amount(r1, i, k - 1) = Amount(r, i, k - 1)
    BY <2>2 DEF Amount
  <2>5. h[k - 1] = g[k - 1] + (IF s < k - 1 THEN delta ELSE 0)
    BY <1>4
  <2>6. CASE k - 1 = s
    <3>1. h[k] = g[k] + delta
      BY <1>3, <2>1, <2>3, <2>5, <2>6
    <3>2. QED
      BY <1>3, <2>6, <3>1
  <2>7. CASE k - 1 # s
    <3>1. h[k] = g[k] + (IF s < k - 1 THEN delta ELSE 0)
      BY <1>3, <2>1, <2>3, <2>4, <2>5, <2>7
    <3>2. s < k - 1 <=> s < k
      BY <1>3, <2>7
    <3>3. QED
      BY <3>1, <3>2
  <2>8. QED
    BY <2>6, <2>7
<1>5. 0 \in T
  BY <1>1, <1>2, <1>3 DEF Sums
<1>6. 0 .. SlotCount \subseteq T
  <2> HIDE DEF T
  <2> QED
    BY <1>3, <1>4, <1>5, UpTo
<1>7. SlotCount \in 0 .. SlotCount /\ g[SlotCount] \in Nat /\ h[SlotCount] \in Nat
  BY <1>1, <1>2, <1>3 DEF Sums
<1>8. h[SlotCount] = g[SlotCount] + delta
  BY <1>3, <1>6, <1>7
<1>9. QED
  BY <1>1, <1>2, <1>3, <1>7, <1>8

(***************************************************************************)
(* Grants and costs, slot by slot.                                         *)
(***************************************************************************)
Accs == [rows : Rows, id : Nat, left : Nat]

\* What is granted of v, from the rows r, has been put into the slots.
Granting(r, v) ==
    {a \in Accs : /\ a.id = v.id /\ a.left <= v.n /\ DOMAIN r \subseteq DOMAIN a.rows
                  /\ \A i \in Nat : Count(a.rows, i) =
                         Count(r, i) + (IF i = v.id THEN v.n - a.left ELSE 0)}

\* What is taken of c, from the rows r, has left the slots.
Taking(r, c) ==
    {a \in Accs : /\ a.id = c.id /\ a.left <= c.n
                  /\ \A i \in Nat : Count(a.rows, i) =
                         Count(r, i) - (IF i = c.id THEN c.n - a.left ELSE 0)}

\* Some of v is put into the slot s.
LEMMA PutInSlot ==
    ASSUME NEW r \in Rows, NEW v \in Goods, NEW a \in Granting(r, v), NEW s \in Slots,
           NEW add \in Nat, add > 0, add <= a.left,
           NEW n \in Nat, n + add <= Stack, Held(a.rows, s).n = n, Held(a.rows, s).id \in {0, v.id},
           NEW b \in Accs, b.id = a.id, b.left = a.left - add,
           b.rows = UpdateInventorySlot(a.rows, s, [id |-> v.id, n |-> n + add])
    PROVE  b \in Granting(r, v)
<1> DEFINE w == [id |-> v.id, n |-> n + add]
<1>1. /\ a \in Accs /\ a.rows \in Rows /\ a.left \in Nat /\ v.id \in Nat /\ v.n \in Nat
      /\ a.left <= v.n /\ DOMAIN r \subseteq DOMAIN a.rows /\ (v.id = 0 => v.n = 0)
      /\ \A i \in Nat : Count(a.rows, i) = Count(r, i) + (IF i = v.id THEN v.n - a.left ELSE 0)
  BY DEF Granting, Accs, Goods
<1>2. v.id # 0 /\ w \in Stacks
  BY <1>1, SlotAssumption DEF Stacks
<1>3. /\ b.rows \in Rows /\ DOMAIN b.rows = DOMAIN a.rows \cup {s} /\ Held(b.rows, s) = w
      /\ \A t \in Slots \ {s} : Held(b.rows, t) = Held(a.rows, t)
  <2>1. b.rows = UpdateInventorySlot(a.rows, s, w)
    OBVIOUS
  <2> HIDE DEF w
  <2> DEFINE u == UpdateInventorySlot(a.rows, s, w)
  <2>2. /\ u \in Rows /\ DOMAIN u = DOMAIN a.rows \cup {s} /\ Held(u, s) = w
        /\ \A t \in Slots \ {s} : Held(u, t) = Held(a.rows, t)
    <3>1. a.rows \in Rows /\ s \in Slots /\ w \in Stacks
      BY <1>1, <1>2
    <3>2. Written(u, a.rows, s, w)
      BY <3>1, RowIsWritten
    <3> HIDE DEF u
    <3>3. QED
      BY <3>2 DEF Written
  <2> HIDE DEF u
  <2>3. QED
    BY <2>1, <2>2 DEF u
<1>4. Held(a.rows, s).id = 0 => n = 0
  BY <1>1, HeldType
<1>5. ASSUME NEW i \in Nat
      PROVE  Count(b.rows, i) = Count(r, i) + (IF i = v.id THEN v.n - b.left ELSE 0)
  <2>1. /\ Count(b.rows, i) = Count(a.rows, i) - Amount(a.rows, i, s) + Amount(b.rows, i, s)
        /\ Count(a.rows, i) \in Nat
    BY <1>1, <1>3, CountChanges
  <2>2. Count(r, i) \in Nat
    BY CountChanges, <1>3
  <2>3. Amount(b.rows, i, s) = IF v.id = i THEN n + add ELSE 0
    BY <1>3 DEF Amount
  <2>4. Amount(a.rows, i, s) = IF v.id = i THEN n ELSE 0
    BY <1>4, <1>2 DEF Amount
  <2>5. QED
    BY <1>1, <2>1, <2>2, <2>3, <2>4
<1>6. QED
  BY <1>1, <1>3, <1>5 DEF Granting

LEMMA PartialFills ==
    ASSUME NEW r \in Rows, NEW v \in Goods, NEW a \in Granting(r, v), NEW s \in Slots
    PROVE  FillPartial(a, s) \in Granting(r, v)
<1> DEFINE h == Held(a.rows, s)
           add == Smaller(Stack - h.n, a.left)
           b == [a EXCEPT !.rows = UpdateInventorySlot(@, s, [id |-> h.id, n |-> h.n + add]), !.left = @ - add]
<1>1. a \in Accs /\ a.rows \in Rows /\ a.left \in Nat /\ a.id = v.id
  BY DEF Granting, Accs
<1>2. h.id \in Nat /\ h.n \in 0 .. Stack /\ (h.id = 0 => h.n = 0)
  BY <1>1, HeldType
<1>3. CASE ~(h.id = a.id /\ h.n > 0 /\ h.n < Stack /\ add > 0)
  BY <1>3 DEF FillPartial
<1>4. CASE h.id = a.id /\ h.n > 0 /\ h.n < Stack /\ add > 0
  <2>1. add \in Nat /\ add > 0 /\ add <= a.left /\ h.n + add <= Stack /\ h.n \in Nat
    BY <1>1, <1>2, <1>4, SlotAssumption DEF Smaller
  <2> HIDE DEF add, h
  <2> DEFINE w == [id |-> h.id, n |-> h.n + add]
  <2>2. w \in Stacks
    BY <1>2, <1>4, <2>1 DEF Stacks
  <2>21. UpdateInventorySlot(a.rows, s, w) \in Rows
    <3> HIDE DEF w
    <3> QED
      BY <1>1, <2>2, RowWritten
  <2>3. /\ b.id = a.id /\ b.left = a.left - add
        /\ b.rows = UpdateInventorySlot(a.rows, s, [id |-> v.id, n |-> h.n + add])
    BY <1>1, <1>4 DEF Accs
  <2>4. b \in Accs
    <3> DEFINE u == UpdateInventorySlot(a.rows, s, w)
    <3>1. a \in [rows : Rows, id : Nat, left : Nat] /\ b = [a EXCEPT !.rows = u, !.left = @ - add]
      BY <1>1 DEF Accs
    <3>2. u \in Rows /\ a.left - add \in Nat
      BY <1>1, <2>1, <2>21
    <3> HIDE DEF u, b
    <3>3. QED
      BY <3>1, <3>2 DEF Accs
  <2>5. b \in Granting(r, v)
    <3> HIDE DEF b
    <3>1. Held(a.rows, s).n = h.n /\ Held(a.rows, s).id \in {0, v.id}
      BY <1>1, <1>4 DEF h
    <3>2. QED
      BY <2>1, <2>3, <2>4, <3>1, PutInSlot
  <2>6. FillPartial(a, s) = b
    BY <1>4 DEF FillPartial, h, add
  <2>7. QED
    BY <2>5, <2>6
<1>5. QED
  BY <1>3, <1>4

LEMMA EmptyFills ==
    ASSUME NEW r \in Rows, NEW v \in Goods, NEW a \in Granting(r, v), NEW s \in Slots
    PROVE  FillEmpty(a, s) \in Granting(r, v)
<1> DEFINE h == Held(a.rows, s)
           add == Smaller(Stack, a.left)
           b == [a EXCEPT !.rows = UpdateInventorySlot(@, s, [id |-> a.id, n |-> add]), !.left = @ - add]
<1>1. /\ a \in Accs /\ a.rows \in Rows /\ a.left \in Nat /\ a.id = v.id /\ a.left <= v.n
      /\ v.id \in Nat /\ v.n \in Nat /\ (v.id = 0 => v.n = 0)
  BY DEF Granting, Accs, Goods
<1>2. h.id = 0 => h.n = 0
  BY <1>1, HeldType
<1>3. CASE ~(h.id = 0 /\ add > 0)
  BY <1>3 DEF FillEmpty
<1>4. CASE h.id = 0 /\ add > 0
  <2>1. add \in Nat /\ add > 0 /\ add <= a.left /\ 0 + add <= Stack
    BY <1>1, <1>4, SlotAssumption DEF Smaller
  <2> HIDE DEF add, h
  <2> DEFINE w == [id |-> a.id, n |-> add]
  <2>2. w \in Stacks
    BY <1>1, <2>1, SlotAssumption DEF Stacks
  <2>21. UpdateInventorySlot(a.rows, s, w) \in Rows
    <3> HIDE DEF w
    <3> QED
      BY <1>1, <2>2, RowWritten
  <2>3. /\ b.id = a.id /\ b.left = a.left - add
        /\ b.rows = UpdateInventorySlot(a.rows, s, [id |-> v.id, n |-> 0 + add])
    BY <1>1, <2>1 DEF Accs
  <2>4. b \in Accs
    <3> DEFINE u == UpdateInventorySlot(a.rows, s, w)
    <3>1. a \in [rows : Rows, id : Nat, left : Nat] /\ b = [a EXCEPT !.rows = u, !.left = @ - add]
      BY <1>1 DEF Accs
    <3>2. u \in Rows /\ a.left - add \in Nat
      BY <1>1, <2>1, <2>21
    <3> HIDE DEF u, b
    <3>3. QED
      BY <3>1, <3>2 DEF Accs
  <2>5. b \in Granting(r, v)
    <3> HIDE DEF b
    <3>1. Held(a.rows, s).n = 0 /\ Held(a.rows, s).id \in {0, v.id}
      BY <1>2, <1>4 DEF h
    <3>2. QED
      BY <2>1, <2>3, <2>4, <3>1, PutInSlot
  <2>6. FillEmpty(a, s) = b
    BY <1>4 DEF FillEmpty, h, add
  <2>7. QED
    BY <2>5, <2>6
<1>5. QED
  BY <1>3, <1>4

LEMMA CostTaken ==
    ASSUME NEW r \in Rows, NEW c \in Goods, NEW a \in Taking(r, c), NEW s \in Slots
    PROVE  TakeCost(a, s) \in Taking(r, c)
<1> DEFINE h == Held(a.rows, s)
           take == Smaller(h.n, a.left)
           rows1 == IF take = h.n THEN Emptied(a.rows, s)
                    ELSE UpdateInventorySlot(a.rows, s, [id |-> h.id, n |-> h.n - take])
           b == [a EXCEPT !.left = @ - take, !.rows = rows1]
<1>1. /\ a \in Accs /\ a.rows \in Rows /\ a.left \in Nat /\ a.id = c.id /\ a.left <= c.n
      /\ c.id \in Nat /\ c.n \in Nat
      /\ \A i \in Nat : Count(a.rows, i) = Count(r, i) - (IF i = c.id THEN c.n - a.left ELSE 0)
  BY DEF Taking, Accs, Goods
<1>2. h.id \in Nat /\ h.n \in 0 .. Stack /\ (h.id = 0 => h.n = 0)
  BY <1>1, HeldType
<1>3. CASE h.id # a.id \/ take = 0
  BY <1>3 DEF TakeCost
<1>4. CASE h.id = a.id /\ take # 0
  <2>1. take \in Nat /\ take > 0 /\ take <= a.left /\ take <= h.n
    BY <1>1, <1>2, <1>4 DEF Smaller
  <2>2. TakeCost(a, s) = b
    BY <1>1, <1>4 DEF TakeCost
  <2> HIDE DEF take, h
  <2> DEFINE w == [id |-> h.id, n |-> h.n - take]
  <2>3. w \in Stacks
    BY <1>2, <2>1, SlotAssumption DEF Stacks
  <2>4. /\ rows1 \in Rows /\ \A t \in Slots \ {s} : Held(rows1, t) = Held(a.rows, t)
        /\ take = h.n => Held(rows1, s) = NoItem
        /\ take # h.n => Held(rows1, s) = [id |-> h.id, n |-> h.n - take]
    <3>1. CASE take = h.n
      BY <1>1, <3>1, RowDeleted
    <3>2. CASE take # h.n
      <4>1. rows1 = UpdateInventorySlot(a.rows, s, w)
        BY <3>2
      <4> HIDE DEF w, rows1
      <4>2. /\ rows1 \in Rows /\ Held(rows1, s) = w
            /\ \A t \in Slots \ {s} : Held(rows1, t) = Held(a.rows, t)
        <5> DEFINE u == UpdateInventorySlot(a.rows, s, w)
        <5>0. a.rows \in Rows /\ s \in Slots
          BY <1>1
        <5>1. Written(u, a.rows, s, w)
          BY <5>0, <2>3, RowIsWritten
        <5>2. rows1 = u
          BY <4>1
        <5> HIDE DEF u
        <5>3. QED
          BY <5>1, <5>2 DEF Written
      <4>3. QED
        BY <3>2, <4>2 DEF w
    <3>3. QED
      BY <3>1, <3>2
  <2> HIDE DEF rows1
  <2>5. b \in Accs /\ b.id = a.id /\ b.left = a.left - take /\ b.rows = rows1
    <3>1. a \in [rows : Rows, id : Nat, left : Nat] /\ a.left - take \in Nat
      BY <1>1, <2>1 DEF Accs
    <3>2. QED
      BY <2>4, <3>1 DEF Accs
  <2>6. ASSUME NEW i \in Nat
        PROVE  Count(rows1, i) = Count(r, i) - (IF i = c.id THEN c.n - (a.left - take) ELSE 0)
    <3>1. /\ Count(rows1, i) = Count(a.rows, i) - Amount(a.rows, i, s) + Amount(rows1, i, s)
          /\ Count(a.rows, i) \in Nat
      BY <1>1, <2>4, CountChanges
    <3>2. Count(r, i) \in Nat
      BY <2>4, CountChanges
    <3>3. Amount(a.rows, i, s) = IF i = c.id THEN h.n ELSE 0
      BY <1>1, <1>4 DEF Amount, h
    <3>4. Amount(rows1, i, s) = IF i = c.id THEN h.n - take ELSE 0
      BY <1>1, <1>2, <1>4, <2>1, <2>4 DEF Amount, NoItem
    <3>5. QED
      BY <1>1, <1>2, <2>1, <3>1, <3>2, <3>3, <3>4
  <2>7. b \in Taking(r, c)
    <3> HIDE DEF b
    <3>1. b.id = c.id /\ b.left <= c.n
      BY <1>1, <2>1, <2>5
    <3>2. \A i \in Nat : Count(b.rows, i) = Count(r, i) - (IF i = c.id THEN c.n - b.left ELSE 0)
      BY <2>5, <2>6
    <3>3. QED
      BY <2>5, <3>1, <3>2 DEF Taking
  <2>8. QED
    BY <2>2, <2>7
<1>5. QED
  BY <1>3, <1>4

\* The loop over the partial stacks.
LEMMA PartialLoop ==
    ASSUME NEW r \in Rows, NEW v \in Goods, NEW a \in Granting(r, v)
    PROVE  OverSlots(FillPartial, a) \in Granting(r, v)
<1> DEFINE Step(b, k) == FillPartial(b, k - 1)
           Eq(g) == [k \in 0 .. SlotCount |-> IF k = 0 THEN a ELSE Step(g[k - 1], k)]
           after == CHOOSE g : g = Eq(g)
<1>1. \A b \in Granting(r, v), k \in 1 .. SlotCount : Step(b, k) \in Granting(r, v)
  <2>1. \A k \in 1 .. SlotCount : k - 1 \in Slots
    BY SlotAssumption DEF Slots
  <2>2. QED
    BY <2>1, PartialFills
<1>2. OverSlots(FillPartial, a) = after[SlotCount]
  BY DEF OverSlots, Walk
<1> HIDE DEF Step
<1>3. \E g : g = Eq(g)
  <2> DEFINE F == [x \in Granting(r, v) \X (1 .. SlotCount) |-> Step(x[1], x[2])]
  <2>1. F \in Bodies(Granting(r, v), SlotCount) /\ SlotCount \in Nat
    BY <1>1, SlotAssumption DEF Bodies
  <2>2. \A b \in Granting(r, v), k \in 1 .. SlotCount : F[<<b, k>>] = Step(b, k)
    OBVIOUS
  <2>3. PICK g : g \in Runs(Granting(r, v), SlotCount, F, a)
    <3> HIDE DEF F
    <3> QED
      BY <2>1, LoopRuns
  <2>4. \A k \in 1 .. SlotCount : g[k] = Step(g[k - 1], k)
    <3> HIDE DEF F
    <3>1. \A k \in 1 .. SlotCount : k - 1 \in 0 .. SlotCount
      BY <2>1
    <3>2. \A k \in 1 .. SlotCount : g[k - 1] \in Granting(r, v) /\ g[k] = F[<<g[k - 1], k>>]
      BY <2>3, <3>1 DEF Runs
    <3>3. QED
      BY <2>2, <3>2
  <2>5. g = Eq(g)
    BY <2>1, <2>3, <2>4 DEF Runs
  <2>6. QED
    BY <2>5
<1>4. after = Eq(after)
  <2> HIDE DEF Eq
  <2> QED
    BY <1>3
<1> HIDE DEF after
<1>5. after[0] = a /\ \A k \in 1 .. SlotCount : after[k] = Step(after[k - 1], k)
  BY <1>4, SlotAssumption
<1> DEFINE T == {k \in 0 .. SlotCount : after[k] \in Granting(r, v)}
<1>6. 0 \in T /\ \A k \in 1 .. SlotCount : k - 1 \in T => k \in T
  BY <1>1, <1>5, SlotAssumption
<1>7. 0 .. SlotCount \subseteq T
  <2> HIDE DEF T
  <2> QED
    BY <1>6, UpTo, SlotAssumption
<1>8. QED
  BY <1>2, <1>7, SlotAssumption

\* The loop over the empty slots.
LEMMA EmptyLoop ==
    ASSUME NEW r \in Rows, NEW v \in Goods, NEW a \in Granting(r, v)
    PROVE  OverSlots(FillEmpty, a) \in Granting(r, v)
<1> DEFINE Step(b, k) == FillEmpty(b, k - 1)
           Eq(g) == [k \in 0 .. SlotCount |-> IF k = 0 THEN a ELSE Step(g[k - 1], k)]
           after == CHOOSE g : g = Eq(g)
<1>1. \A b \in Granting(r, v), k \in 1 .. SlotCount : Step(b, k) \in Granting(r, v)
  <2>1. \A k \in 1 .. SlotCount : k - 1 \in Slots
    BY SlotAssumption DEF Slots
  <2>2. QED
    BY <2>1, EmptyFills
<1>2. OverSlots(FillEmpty, a) = after[SlotCount]
  BY DEF OverSlots, Walk
<1> HIDE DEF Step
<1>3. \E g : g = Eq(g)
  <2> DEFINE F == [x \in Granting(r, v) \X (1 .. SlotCount) |-> Step(x[1], x[2])]
  <2>1. F \in Bodies(Granting(r, v), SlotCount) /\ SlotCount \in Nat
    BY <1>1, SlotAssumption DEF Bodies
  <2>2. \A b \in Granting(r, v), k \in 1 .. SlotCount : F[<<b, k>>] = Step(b, k)
    OBVIOUS
  <2>3. PICK g : g \in Runs(Granting(r, v), SlotCount, F, a)
    <3> HIDE DEF F
    <3> QED
      BY <2>1, LoopRuns
  <2>4. \A k \in 1 .. SlotCount : g[k] = Step(g[k - 1], k)
    <3> HIDE DEF F
    <3>1. \A k \in 1 .. SlotCount : k - 1 \in 0 .. SlotCount
      BY <2>1
    <3>2. \A k \in 1 .. SlotCount : g[k - 1] \in Granting(r, v) /\ g[k] = F[<<g[k - 1], k>>]
      BY <2>3, <3>1 DEF Runs
    <3>3. QED
      BY <2>2, <3>2
  <2>5. g = Eq(g)
    BY <2>1, <2>3, <2>4 DEF Runs
  <2>6. QED
    BY <2>5
<1>4. after = Eq(after)
  <2> HIDE DEF Eq
  <2> QED
    BY <1>3
<1> HIDE DEF after
<1>5. after[0] = a /\ \A k \in 1 .. SlotCount : after[k] = Step(after[k - 1], k)
  BY <1>4, SlotAssumption
<1> DEFINE T == {k \in 0 .. SlotCount : after[k] \in Granting(r, v)}
<1>6. 0 \in T /\ \A k \in 1 .. SlotCount : k - 1 \in T => k \in T
  BY <1>1, <1>5, SlotAssumption
<1>7. 0 .. SlotCount \subseteq T
  <2> HIDE DEF T
  <2> QED
    BY <1>6, UpTo, SlotAssumption
<1>8. QED
  BY <1>2, <1>7, SlotAssumption

\* The loop that deducts a cost.
LEMMA CostLoop ==
    ASSUME NEW r \in Rows, NEW c \in Goods, NEW a \in Taking(r, c)
    PROVE  OverSlots(TakeCost, a) \in Taking(r, c)
<1> DEFINE Step(b, k) == TakeCost(b, k - 1)
           Eq(g) == [k \in 0 .. SlotCount |-> IF k = 0 THEN a ELSE Step(g[k - 1], k)]
           after == CHOOSE g : g = Eq(g)
<1>1. \A b \in Taking(r, c), k \in 1 .. SlotCount : Step(b, k) \in Taking(r, c)
  <2>1. \A k \in 1 .. SlotCount : k - 1 \in Slots
    BY SlotAssumption DEF Slots
  <2>2. QED
    BY <2>1, CostTaken
<1>2. OverSlots(TakeCost, a) = after[SlotCount]
  BY DEF OverSlots, Walk
<1> HIDE DEF Step
<1>3. \E g : g = Eq(g)
  <2> DEFINE F == [x \in Taking(r, c) \X (1 .. SlotCount) |-> Step(x[1], x[2])]
  <2>1. F \in Bodies(Taking(r, c), SlotCount) /\ SlotCount \in Nat
    BY <1>1, SlotAssumption DEF Bodies
  <2>2. \A b \in Taking(r, c), k \in 1 .. SlotCount : F[<<b, k>>] = Step(b, k)
    OBVIOUS
  <2>3. PICK g : g \in Runs(Taking(r, c), SlotCount, F, a)
    <3> HIDE DEF F
    <3> QED
      BY <2>1, LoopRuns
  <2>4. \A k \in 1 .. SlotCount : g[k] = Step(g[k - 1], k)
    <3> HIDE DEF F
    <3>1. \A k \in 1 .. SlotCount : k - 1 \in 0 .. SlotCount
      BY <2>1
    <3>2. \A k \in 1 .. SlotCount : g[k - 1] \in Taking(r, c) /\ g[k] = F[<<g[k - 1], k>>]
      BY <2>3, <3>1 DEF Runs
    <3>3. QED
      BY <2>2, <3>2
  <2>5. g = Eq(g)
    BY <2>1, <2>3, <2>4 DEF Runs
  <2>6. QED
    BY <2>5
<1>4. after = Eq(after)
  <2> HIDE DEF Eq
  <2> QED
    BY <1>3
<1> HIDE DEF after
<1>5. after[0] = a /\ \A k \in 1 .. SlotCount : after[k] = Step(after[k - 1], k)
  BY <1>4, SlotAssumption
<1> DEFINE T == {k \in 0 .. SlotCount : after[k] \in Taking(r, c)}
<1>6. 0 \in T /\ \A k \in 1 .. SlotCount : k - 1 \in T => k \in T
  BY <1>1, <1>5, SlotAssumption
<1>7. 0 .. SlotCount \subseteq T
  <2> HIDE DEF T
  <2> QED
    BY <1>6, UpTo, SlotAssumption
<1>8. QED
  BY <1>2, <1>7, SlotAssumption

\* grantItemToInventory() puts v, but for what is left, into the slots.
LEMMA GrantIs ==
    ASSUME NEW r \in Rows, NEW v \in Goods
    PROVE  grantItemToInventory(r, v) \in Granting(r, v)
<1> DEFINE a == [rows |-> r, id |-> v.id, left |-> v.n]
<1>1. a \in Granting(r, v)
  <2>1. v.id \in Nat /\ v.n \in Nat /\ a \in Accs
    BY DEF Accs, Goods
  <2>2. PICK s : s \in Slots
    BY SlotAssumption DEF Slots
  <2>3. \A i \in Nat : Count(r, i) \in Nat
    BY <2>2, CountChanges
  <2>4. QED
    BY <2>1, <2>3 DEF Granting
<1>2. QED
  BY <1>1, PartialLoop, EmptyLoop DEF grantItemToInventory
-----------------------------------------------------------------------------
(***************************************************************************)
(* The queues.                                                             *)
(***************************************************************************)
SetMsgs == [t : {"set"}, s : Slots, v : Stacks]
MetaMsgs == {[t |-> "get"]} \cup DoneMsgs \cup SetMsgs
SimMsgs == [t : {"progress"}, done : SUBSET Quests] \cup [t : {"load"}, slots : [Slots -> Stacks]]

DoneIn(queue) == {queue[i].q : i \in {j \in 1 .. Len(queue) : queue[j].t = "done"}}
DoneAt(queue, q) == {i \in 1 .. Len(queue) : queue[i] = [t |-> "done", q |-> q]}
DoneCount(queue, q) == Cardinality(DoneAt(queue, q))

LEMMA DoneCounted ==
    ASSUME NEW queue \in Seq(MetaMsgs), NEW q
    PROVE  IsFiniteSet(DoneAt(queue, q)) /\ DoneCount(queue, q) \in Nat
<1>1. IsFiniteSet(1 .. Len(queue)) /\ DoneAt(queue, q) \in SUBSET (1 .. Len(queue))
  BY FS_Interval DEF DoneAt
<1>2. IsFiniteSet(DoneAt(queue, q))
  BY <1>1, FS_Subset
<1>3. QED
  BY <1>2, FS_CardinalityType DEF DoneCount

LEMMA DoneIs ==
    ASSUME NEW m \in MetaMsgs, m.t = "done"
    PROVE  m.q \in Quests /\ m = [t |-> "done", q |-> m.q]
BY DEF MetaMsgs, DoneMsgs, SetMsgs

\* The message a handler takes is one that waits.
LEMMA FirstIs ==
    ASSUME NEW queue, Len(queue) \in Nat, NEW t, Waits(queue, t)
    PROVE  /\ First(queue, t) \in 1 .. Len(queue)
           /\ Msg(queue, t) = queue[First(queue, t)] /\ Msg(queue, t).t = t
           /\ Without(queue, t) = RemoveAt(queue, First(queue, t))
<1> DEFINE I == {i \in 1 .. Len(queue) : (queue[i].t \in LowTopics) = (t \in LowTopics)}
<1>1. First(queue, t) = IF I # {} THEN Min(I) ELSE 0
  BY DEF First, SelectInSeq
<1>2. I # {}
  BY <1>1 DEF Waits
<1>3. Min(I) \in I
  <2>1. I \in SUBSET Nat
    OBVIOUS
  <2> HIDE DEF I
  <2>2. \E n \in I : \A m \in I : n <= m
    BY <1>2, <2>1, LeastElement
  <2>3. QED
    BY <2>2 DEF Min
<1>4. QED
  BY <1>1, <1>2, <1>3 DEF Msg, Waits, Without

LEMMA RemoveIs ==
    ASSUME NEW S, NEW queue \in Seq(S), NEW n \in 1 .. Len(queue)
    PROVE  /\ RemoveAt(queue, n) \in Seq(S)
           /\ Len(RemoveAt(queue, n)) = Len(queue) - 1
           /\ \A i \in 1 .. Len(queue) - 1 :
                 RemoveAt(queue, n)[i] = IF i < n THEN queue[i] ELSE queue[i + 1]
<1> DEFINE a == SubSeq(queue, 1, n - 1)
           b == SubSeq(queue, n + 1, Len(queue))
<1>1. Len(queue) \in Nat /\ \A i \in 1 .. Len(queue) : queue[i] \in S
  OBVIOUS
<1>2. a \in Seq(S) /\ Len(a) = n - 1 /\ \A i \in 1 .. n - 1 : a[i] = queue[i]
  BY <1>1
<1>3. /\ b \in Seq(S) /\ Len(b) = Len(queue) - n
      /\ \A i \in 1 .. Len(queue) - n : b[i] = queue[n + i]
  BY <1>1
<1>4. RemoveAt(queue, n) = a \o b
  BY DEF RemoveAt
<1> HIDE DEF a, b
<1>5. /\ a \o b \in Seq(S) /\ Len(a \o b) = Len(queue) - 1
      /\ \A i \in 1 .. Len(queue) - 1 : (a \o b)[i] = IF i <= n - 1 THEN a[i] ELSE b[i - (n - 1)]
  BY <1>1, <1>2, <1>3
<1>6. ASSUME NEW i \in 1 .. Len(queue) - 1
      PROVE  (a \o b)[i] = IF i < n THEN queue[i] ELSE queue[i + 1]
  <2>1. CASE i < n
    BY <1>1, <1>2, <1>5, <2>1
  <2>2. CASE ~(i < n)
    <3>1. i - (n - 1) \in 1 .. Len(queue) - n /\ n + (i - (n - 1)) = i + 1
      BY <1>1, <2>2
    <3>2. (a \o b)[i] = b[i - (n - 1)]
      BY <1>1, <1>5, <2>2
    <3>3. QED
      BY <1>3, <2>2, <3>1, <3>2
  <2>3. QED
    BY <2>1, <2>2
<1>7. QED
  BY <1>4, <1>5, <1>6

\* What is taken from a queue is missing from it, and nothing else.
LEMMA Removed ==
    ASSUME NEW queue \in Seq(MetaMsgs), NEW n \in 1 .. Len(queue)
    PROVE  /\ DoneIn(queue) = DoneIn(RemoveAt(queue, n))
                               \cup (IF queue[n].t = "done" THEN {queue[n].q} ELSE {})
           /\ \A q : DoneCount(RemoveAt(queue, n), q)
                     <= DoneCount(queue, q) - (IF queue[n] = [t |-> "done", q |-> q] THEN 1 ELSE 0)
<1> DEFINE w == RemoveAt(queue, n)
<1>0. /\ w \in Seq(MetaMsgs) /\ Len(w) = Len(queue) - 1
      /\ \A i \in 1 .. Len(queue) - 1 : w[i] = IF i < n THEN queue[i] ELSE queue[i + 1]
  BY RemoveIs
<1> HIDE DEF w
<1>1. /\ Len(queue) \in Nat /\ w \in Seq(MetaMsgs) /\ Len(w) = Len(queue) - 1
      /\ \A i \in 1 .. Len(w) : w[i] = IF i < n THEN queue[i] ELSE queue[i + 1]
  BY <1>0
<1>2. \A i \in 1 .. Len(w) : \E j \in 1 .. Len(queue) : w[i] = queue[j]
  BY <1>1
<1>3. ASSUME NEW j \in 1 .. Len(queue), j # n PROVE \E i \in 1 .. Len(w) : w[i] = queue[j]
  <2>1. CASE j < n
    <3>1. j \in 1 .. Len(w) /\ w[j] = queue[j]
      BY <1>1, <2>1
    <3>2. QED
      BY <3>1
  <2>2. CASE j > n
    <3>1. j - 1 \in 1 .. Len(w) /\ w[j - 1] = queue[(j - 1) + 1] /\ (j - 1) + 1 = j
      BY <1>1, <2>2
    <3>2. QED
      BY <3>1
  <2>3. QED
    BY <1>1, <1>3, <2>1, <2>2
<1>4. DoneIn(queue) = DoneIn(w) \cup (IF queue[n].t = "done" THEN {queue[n].q} ELSE {})
  <2>1. ASSUME NEW x \in DoneIn(w) PROVE x \in DoneIn(queue)
    <3>1. PICK i \in 1 .. Len(w) : w[i].t = "done" /\ x = w[i].q
      BY DEF DoneIn
    <3>2. PICK j \in 1 .. Len(queue) : w[i] = queue[j]
      BY <1>2
    <3>3. QED
      BY <3>1, <3>2 DEF DoneIn
  <2>2. ASSUME NEW x \in DoneIn(queue)
        PROVE  x \in DoneIn(w) \/ (queue[n].t = "done" /\ x = queue[n].q)
    <3>1. PICK j \in 1 .. Len(queue) : queue[j].t = "done" /\ x = queue[j].q
      BY DEF DoneIn
    <3>2. CASE j = n
      BY <3>1, <3>2
    <3>3. CASE j # n
      <4>1. PICK i \in 1 .. Len(w) : w[i] = queue[j]
        BY <1>3, <3>3
      <4>2. QED
        BY <3>1, <4>1 DEF DoneIn
    <3>4. QED
      BY <3>2, <3>3
  <2>3. queue[n].t = "done" => queue[n].q \in DoneIn(queue)
    BY DEF DoneIn
  <2>4. QED
    BY <2>1, <2>2, <2>3
<1>5. ASSUME NEW q
      PROVE  DoneCount(w, q) <= DoneCount(queue, q) - (IF queue[n] = [t |-> "done", q |-> q] THEN 1 ELSE 0)
  <2> DEFINE D == DoneAt(w, q)
             E == DoneAt(queue, q) \ {n}
             f == [i \in D |-> IF i < n THEN i ELSE i + 1]
  <2>1. \A i \in D : i \in 1 .. Len(w) /\ w[i] = [t |-> "done", q |-> q]
    BY DEF DoneAt
  <2>11. \A i \in D : f[i] \in 1 .. Len(queue) /\ f[i] # n /\ queue[f[i]] = w[i]
    BY <1>1, <2>1
  <2>12. f \in [D -> E]
    BY <2>1, <2>11 DEF DoneAt
  <2>13. \A i, j \in D : f[i] = f[j] => i = j
    BY <1>1, <2>1
  <2>2. f \in Injection(D, E)
    BY <2>12, <2>13 DEF Injection, IsInjective
  <2>3. /\ IsFiniteSet(DoneAt(queue, q)) /\ DoneCount(queue, q) \in Nat
        /\ IsFiniteSet(D) /\ DoneCount(w, q) \in Nat
    BY <1>1, DoneCounted
  <2>4. /\ IsFiniteSet(E)
        /\ Cardinality(E) = IF n \in DoneAt(queue, q) THEN DoneCount(queue, q) - 1 ELSE DoneCount(queue, q)
    BY <2>3, FS_RemoveElement DEF DoneCount
  <2>5. Cardinality(D) <= Cardinality(E)
    <3> HIDE DEF D, E, f
    <3> QED
      BY <2>2, <2>4, FS_Injection
  <2>6. n \in DoneAt(queue, q) <=> queue[n] = [t |-> "done", q |-> q]
    BY DEF DoneAt
  <2>7. QED
    BY <2>3, <2>4, <2>5, <2>6 DEF DoneCount
<1>6. QED
  BY <1>4, <1>5 DEF w

\* What is published is added to a queue.
LEMMA Sent ==
    ASSUME NEW queue \in Seq(MetaMsgs), NEW out \in Seq(MetaMsgs),
           \A i, j \in 1 .. Len(out) :
               out[i].t = "done" /\ out[j].t = "done" /\ out[i].q = out[j].q => i = j
    PROVE  /\ queue \o out \in Seq(MetaMsgs)
           /\ DoneIn(queue \o out) = DoneIn(queue) \cup DoneIn(out)
           /\ \A q : DoneCount(queue \o out, q)
                     <= DoneCount(queue, q) + (IF q \in DoneIn(out) THEN 1 ELSE 0)
<1> DEFINE w == queue \o out
           n == Len(queue)
<1>1. /\ w \in Seq(MetaMsgs) /\ n \in Nat /\ Len(out) \in Nat /\ Len(w) = n + Len(out)
      /\ \A i \in 1 .. Len(w) : w[i] = IF i <= n THEN queue[i] ELSE out[i - n]
  OBVIOUS
<1> HIDE DEF w, n
<1>11. n = Len(queue)
  BY DEF n
<1>2. \A j \in 1 .. n : j \in 1 .. Len(w) /\ w[j] = queue[j]
  BY <1>1
<1>3. \A j \in 1 .. Len(out) : n + j \in 1 .. Len(w) /\ w[n + j] = out[j]
  BY <1>1
<1>4. \A i \in 1 .. Len(w) : \/ i \in 1 .. n /\ w[i] = queue[i]
                             \/ i - n \in 1 .. Len(out) /\ w[i] = out[i - n]
  BY <1>1
<1>5. DoneIn(w) = DoneIn(queue) \cup DoneIn(out)
  <2>1. ASSUME NEW x \in DoneIn(w) PROVE x \in DoneIn(queue) \cup DoneIn(out)
    <3>1. PICK i \in 1 .. Len(w) : w[i].t = "done" /\ x = w[i].q
      BY DEF DoneIn
    <3>2. QED
      BY <1>4, <1>11, <3>1 DEF DoneIn
  <2>2. ASSUME NEW x \in DoneIn(queue) PROVE x \in DoneIn(w)
    BY <1>2, <1>11 DEF DoneIn
  <2>3. ASSUME NEW x \in DoneIn(out) PROVE x \in DoneIn(w)
    <3>1. PICK j \in 1 .. Len(out) : out[j].t = "done" /\ x = out[j].q
      BY DEF DoneIn
    <3>2. QED
      BY <1>3, <3>1 DEF DoneIn
  <2>4. QED
    BY <2>1, <2>2, <2>3
<1>6. ASSUME NEW q
      PROVE  DoneCount(w, q) <= DoneCount(queue, q) + (IF q \in DoneIn(out) THEN 1 ELSE 0)
  <2>1. IsFiniteSet(DoneAt(queue, q)) /\ DoneCount(queue, q) \in Nat /\ DoneCount(w, q) \in Nat
    BY <1>1, DoneCounted
  <2>2. CASE DoneAt(out, q) = {}
    <3>1. DoneAt(w, q) \in SUBSET DoneAt(queue, q)
      BY <1>4, <1>11, <2>2 DEF DoneAt
    <3>2. DoneCount(w, q) <= DoneCount(queue, q)
      BY <2>1, <3>1, FS_Subset DEF DoneCount
    <3>3. QED
      BY <2>1, <3>2
  <2>3. CASE DoneAt(out, q) # {}
    <3>1. PICK j \in 1 .. Len(out) : out[j] = [t |-> "done", q |-> q]
      BY <2>3 DEF DoneAt
    <3>2. q \in DoneIn(out)
      BY <3>1 DEF DoneIn
    <3>3. DoneAt(w, q) \in SUBSET (DoneAt(queue, q) \cup {n + j})
      <4>1. ASSUME NEW i \in DoneAt(w, q), i \notin DoneAt(queue, q) PROVE i = n + j
        <5>1. i \in 1 .. Len(w) /\ w[i] = [t |-> "done", q |-> q]
          BY <4>1 DEF DoneAt
        <5>2. i - n \in 1 .. Len(out) /\ w[i] = out[i - n]
          BY <1>4, <1>11, <4>1, <5>1 DEF DoneAt
        <5>3. i - n = j
          BY <3>1, <5>1, <5>2
        <5>4. QED
          BY <1>1, <5>1, <5>3
      <4>2. QED
        BY <4>1
    <3>4. /\ IsFiniteSet(DoneAt(queue, q) \cup {n + j})
          /\ Cardinality(DoneAt(queue, q) \cup {n + j}) \in {DoneCount(queue, q), DoneCount(queue, q) + 1}
      BY <2>1, FS_AddElement DEF DoneCount
    <3>5. DoneCount(w, q) <= Cardinality(DoneAt(queue, q) \cup {n + j})
      BY <3>3, <3>4, FS_Subset DEF DoneCount
    <3>6. QED
      BY <2>1, <3>2, <3>4, <3>5
  <2>4. QED
    BY <2>2, <2>3
<1>7. QED
  BY <1>1, <1>5, <1>6 DEF w
-----------------------------------------------------------------------------
(***************************************************************************)
(* What MetaDB's handlers make of the database.                            *)
(***************************************************************************)
Dbs == [rows : Rows, pending : [Quests -> Nat], redeemed : [Quests -> Nat],
        done : SUBSET Quests, expires : [Quests -> Nat]]
Rewarded(d, q) == d.pending[q] + d.redeemed[q]

LEMMA DbsFact ==
    \A d \in Dbs : /\ d.rows \in Rows /\ d.done \in SUBSET Quests
                   /\ d.pending \in [Quests -> Nat] /\ d.redeemed \in [Quests -> Nat]
                   /\ d.expires \in [Quests -> Nat]
                   /\ \A q \in Quests : /\ d.pending[q] \in Nat /\ d.redeemed[q] \in Nat
                                        /\ d.expires[q] \in Nat /\ Rewarded(d, q) \in Nat
BY DEF Dbs, Rewarded

LEMMA GrantType ==
    ASSUME NEW r \in Rows, NEW v \in Goods
    PROVE  /\ grantItemToInventory(r, v).rows \in Rows /\ grantItemToInventory(r, v).left \in Nat
           /\ DOMAIN r \subseteq DOMAIN grantItemToInventory(r, v).rows
           /\ \A i \in Nat : Count(grantItemToInventory(r, v).rows, i) =
                Count(r, i) + (IF i = v.id THEN v.n - grantItemToInventory(r, v).left ELSE 0)
BY GrantIs DEF Granting, Accs

LEMMA StoreIs ==
    ASSUME NEW d \in Dbs, NEW q \in Quests
    PROVE  /\ StorePlayerQuestReward(d, q) \in Dbs
           /\ StorePlayerQuestReward(d, q).done = d.done
           /\ \A p \in Quests : Rewarded(StorePlayerQuestReward(d, q), p) =
                                    Rewarded(d, p) + (IF p = q THEN 1 ELSE 0)
<1> DEFINE d1 == StorePlayerQuestReward(d, q)
           pend == [d.pending EXCEPT ![q] = @ + 1]
<1>1. pend \in [Quests -> Nat] /\ \A p \in Quests : pend[p] = d.pending[p] + (IF p = q THEN 1 ELSE 0)
  BY DbsFact
<1>2. d1 = [d EXCEPT !.pending = pend]
  BY DEF StorePlayerQuestReward
<1> HIDE DEF pend
<1>3. /\ d1 \in Dbs /\ d1.done = d.done /\ d1.pending = pend /\ d1.redeemed = d.redeemed
  BY <1>1, <1>2 DEF Dbs
<1> HIDE DEF d1
<1>4. ASSUME NEW p \in Quests
      PROVE  Rewarded(d1, p) = Rewarded(d, p) + (IF p = q THEN 1 ELSE 0)
  <2>1. d.pending[p] \in Nat /\ d.redeemed[p] \in Nat
    BY DbsFact
  <2>2. d1.pending[p] = d.pending[p] + (IF p = q THEN 1 ELSE 0) /\ d1.redeemed[p] = d.redeemed[p]
    BY <1>1, <1>3
  <2>3. QED
    BY <2>1, <2>2 DEF Rewarded
<1>5. QED
  BY <1>3, <1>4 DEF d1

\* A grant moves a reward from pending to redeemed, or does nothing.
LEMMA RedeemIs ==
    ASSUME NEW d \in Dbs, NEW q \in Quests
    PROVE  /\ RedeemPlayerQuestReward(d, q) \in Dbs
           /\ RedeemPlayerQuestReward(d, q).done = d.done
           /\ \A p \in Quests : Rewarded(RedeemPlayerQuestReward(d, q), p) = Rewarded(d, p)
<1> DEFINE g == grantItemToInventory(d.rows, Reward[q])
           pend == [d.pending EXCEPT ![q] = @ - 1]
           rede == [d.redeemed EXCEPT ![q] = @ + 1]
           d1 == [d EXCEPT !.rows = g.rows, !.pending = pend, !.redeemed = rede]
<1>1. g.rows \in Rows
  BY DbsFact, ItemAssumption, GrantType
<1>2. CASE d.pending[q] = 0 \/ g.left > 0
  BY <1>2 DEF RedeemPlayerQuestReward
<1>3. CASE ~(d.pending[q] = 0 \/ g.left > 0)
  <2>1. /\ pend \in [Quests -> Nat] /\ rede \in [Quests -> Nat]
        /\ \A p \in Quests : pend[p] + rede[p] = d.pending[p] + d.redeemed[p]
    BY <1>3, DbsFact
  <2>2. RedeemPlayerQuestReward(d, q) = d1
    BY <1>3 DEF RedeemPlayerQuestReward
  <2> HIDE DEF g, pend, rede
  <2>3. d1 \in Dbs /\ d1.done = d.done /\ d1.pending = pend /\ d1.redeemed = rede
    BY <1>1, <2>1 DEF Dbs
  <2>4. \A p \in Quests : Rewarded(d1, p) = Rewarded(d, p)
    BY <2>1, <2>3 DEF Rewarded
  <2>5. QED
    BY <2>2, <2>3, <2>4
<1>4. QED
  BY <1>2, <1>3

LEMMA SetDoneIs ==
    ASSUME NEW d \in Dbs, NEW q \in Quests
    PROVE  /\ SetQuestProgress(d, q) \in Dbs
           /\ SetQuestProgress(d, q).done = d.done \cup {q}
           /\ \A p \in Quests : Rewarded(SetQuestProgress(d, q), p) = Rewarded(d, p)
BY DEF SetQuestProgress, Dbs, Rewarded

\* The database d1 is what HandleQuestCompleted(d, q, k, fail) leaves.
Handled(d1, d, q, k, fails) ==
    /\ d1 \in Dbs /\ d1.done = (IF k = 3 /\ "progress" \notin fails THEN d.done \cup {q} ELSE d.done)
    /\ \A p \in Quests :
          Rewarded(d1, p) = Rewarded(d, p) + (IF p = q /\ k >= 1 /\ "store" \notin fails THEN 1 ELSE 0)

\* HandleQuestCompleted(), stopped after any of its statements.
LEMMA CompletedIs ==
    ASSUME NEW d \in Dbs, NEW q \in Quests, NEW k \in 0 .. 3, NEW fails \in SUBSET Statements
    PROVE  Handled(HandleQuestCompleted(d, q, k, fails), d, q, k, fails)
<1> DEFINE d1 == IF k >= 1 /\ "store" \notin fails THEN StorePlayerQuestReward(d, q) ELSE d
           d2 == IF k >= 2 /\ {"store", "redeem"} \cap fails = {} THEN RedeemPlayerQuestReward(d1, q) ELSE d1
           d3 == IF k >= 3 /\ "progress" \notin fails THEN SetQuestProgress(d2, q) ELSE d2
<1>1. HandleQuestCompleted(d, q, k, fails) = d3
  BY DEF HandleQuestCompleted
<1>2. /\ d1 \in Dbs /\ d1.done = d.done
      /\ \A p \in Quests : Rewarded(d1, p) = Rewarded(d, p) + (IF p = q /\ k >= 1 /\ "store" \notin fails THEN 1 ELSE 0)
  BY StoreIs, DbsFact
<1> HIDE DEF d1
<1>3. /\ d2 \in Dbs /\ d2.done = d1.done /\ \A p \in Quests : Rewarded(d2, p) = Rewarded(d1, p)
  BY <1>2, RedeemIs
<1> HIDE DEF d2
<1>4. /\ d3 \in Dbs /\ d3.done = IF k = 3 /\ "progress" \notin fails THEN d2.done \cup {q} ELSE d2.done
      /\ \A p \in Quests : Rewarded(d3, p) = Rewarded(d2, p)
  <2>1. CASE k = 3 /\ "progress" \notin fails
    BY <1>3, <2>1, SetDoneIs
  <2>2. CASE ~(k = 3 /\ "progress" \notin fails)
    BY <1>3, <2>2
  <2>3. QED
    BY <2>1, <2>2
<1> HIDE DEF d3
<1>5. Handled(d3, d, q, k, fails)
  BY <1>2, <1>3, <1>4 DEF Handled
<1>6. QED
  BY <1>1, <1>5

\* An exchange is whole or nothing.
LEMMA ExchangeIs ==
    ASSUME NEW d \in Dbs, NEW q \in Quests, NEW clock \in Nat
    PROVE  /\ HandleQuestExchangeRequest(d, q, clock) \in Dbs
           /\ HandleQuestExchangeRequest(d, q, clock).done = d.done
           /\ \A p \in Quests : Rewarded(HandleQuestExchangeRequest(d, q, clock), p)
                                    \in {Rewarded(d, p), Rewarded(d, p) + (IF p = q THEN 1 ELSE 0)}
           /\ \/ HandleQuestExchangeRequest(d, q, clock) = d
              \/ \A i \in Nat : Count(HandleQuestExchangeRequest(d, q, clock).rows, i) =
                     Count(d.rows, i) + (IF Reward[q].id = i THEN Reward[q].n ELSE 0)
                                      - (IF Cost[q].id = i THEN Cost[q].n ELSE 0)
<1> DEFINE a == [rows |-> d.rows, id |-> Cost[q].id, left |-> Cost[q].n]
           paid == OverSlots(TakeCost, a)
           g == grantItemToInventory(paid.rows, Reward[q])
           stop == Cost[q] = NoItem \/ d.expires[q] > clock \/ paid.left > 0 \/ g.left > 0
           exps == [d.expires EXCEPT ![q] = clock + Cooldown]
           rede == [d.redeemed EXCEPT ![q] = @ + 1]
           d1 == [d EXCEPT !.rows = g.rows, !.expires = exps, !.redeemed = rede]
<1>1. /\ d.rows \in Rows /\ Cost[q] \in Goods /\ Reward[q] \in Goods
      /\ \A i \in Nat : Count(d.rows, i) \in Nat
  <2>1. d.rows \in Rows /\ Cost[q] \in Goods /\ Reward[q] \in Goods
    BY DbsFact, ItemAssumption
  <2>2. PICK s : s \in Slots
    BY SlotAssumption DEF Slots
  <2>3. QED
    BY <2>1, <2>2, CountChanges
<1>2. a \in Taking(d.rows, Cost[q])
  <2>1. Cost[q].id \in Nat /\ Cost[q].n \in Nat
    BY <1>1 DEF Goods
  <2>2. a \in Accs
    BY <1>1, <2>1 DEF Accs
  <2>3. QED
    BY <1>1, <2>1, <2>2 DEF Taking
<1>3. paid \in Taking(d.rows, Cost[q])
  <2> HIDE DEF a
  <2> QED
    BY <1>1, <1>2, CostLoop
<1>4. HandleQuestExchangeRequest(d, q, clock) = IF stop THEN d ELSE d1
  BY DEF HandleQuestExchangeRequest
<1> HIDE DEF paid
<1>5. /\ paid.rows \in Rows /\ paid.left \in Nat
      /\ \A i \in Nat : Count(paid.rows, i) =
             Count(d.rows, i) - (IF i = Cost[q].id THEN Cost[q].n - paid.left ELSE 0)
  BY <1>3 DEF Taking, Accs
<1>6. /\ g.rows \in Rows /\ g.left \in Nat
      /\ \A i \in Nat : Count(g.rows, i) =
             Count(paid.rows, i) + (IF i = Reward[q].id THEN Reward[q].n - g.left ELSE 0)
  BY <1>1, <1>5, GrantType
<1>7. CASE stop
  BY <1>4, <1>7, DbsFact
<1>8. CASE ~stop
  <2> HIDE DEF g
  <2>1. paid.left = 0 /\ g.left = 0
    BY <1>5, <1>6, <1>8
  <2>2. /\ exps \in [Quests -> Nat] /\ rede \in [Quests -> Nat]
        /\ \A p \in Quests : rede[p] = d.redeemed[p] + (IF p = q THEN 1 ELSE 0)
    BY DbsFact, CooldownAssumption
  <2> HIDE DEF exps, rede
  <2>3. /\ d1 \in Dbs /\ d1.done = d.done /\ d1.rows = g.rows /\ d1.pending = d.pending
        /\ d1.redeemed = rede
    BY <1>6, <2>2 DEF Dbs
  <2>4. \A p \in Quests : Rewarded(d1, p) = Rewarded(d, p) + (IF p = q THEN 1 ELSE 0)
    BY <2>2, <2>3, DbsFact DEF Rewarded
  <2>5. ASSUME NEW i \in Nat
        PROVE  Count(d1.rows, i) = Count(d.rows, i) + (IF Reward[q].id = i THEN Reward[q].n ELSE 0)
                                                    - (IF Cost[q].id = i THEN Cost[q].n ELSE 0)
    <3>1. /\ Count(d.rows, i) \in Nat
          /\ Cost[q].n \in Nat /\ Reward[q].n \in Nat
      BY <1>1 DEF Goods
    <3>2. /\ Count(g.rows, i) = Count(paid.rows, i) + (IF i = Reward[q].id THEN Reward[q].n ELSE 0)
          /\ Count(paid.rows, i) = Count(d.rows, i) - (IF i = Cost[q].id THEN Cost[q].n ELSE 0)
      BY <1>5, <1>6, <2>1, <3>1
    <3>3. QED
      BY <2>3, <3>1, <3>2
  <2>6. HandleQuestExchangeRequest(d, q, clock) = d1
    BY <1>4, <1>8
  <2> HIDE DEF d1
  <2>7. QED
    BY <2>3, <2>4, <2>5, <2>6
<1>9. QED
  BY <1>7, <1>8
-----------------------------------------------------------------------------
(***************************************************************************)
(* The inductive invariant.                                                *)
(***************************************************************************)
TypeInv ==
    /\ prog \in Progress /\ eras \in SUBSET Eras /\ inv \in [Slots -> Stacks]
    /\ toMeta \in Seq(MetaMsgs) /\ toSim \in Seq(SimMsgs)
    /\ db \in Dbs /\ now \in Nat
    /\ restarts \in Nat /\ crashes \in Nat /\ sqlErrors \in Nat /\ writeErrors \in Nat

\* What MetaDB has answered is still saved when the answer is taken.
SavedStays == \A i \in 1 .. Len(toSim) : toSim[i].t = "progress" => toSim[i].done \subseteq db.done

\* A quest is rewarded or reported once per restart, and once more while its
\* completion is known: RewardsPerRestart alone forgets what is completed.
OncePerRestart ==
    \A q \in BuildQuestEraMap :
        Rewarded(db, q) + DoneCount(toMeta, q) <= restarts + (IF q \in Completed(prog) THEN 1 ELSE 0)

IInv == TypeInv /\ SavedStays /\ EraExact(eras, prog) /\ RewardBeforeDone /\ OncePerRestart

LEMMA IInvImplies ==
    IInv => TypeOK /\ ErasExact /\ RewardsAreKept
<1> SUFFICES ASSUME IInv PROVE TypeOK /\ ErasExact /\ RewardsAreKept
  OBVIOUS
<1>1. TypeInv /\ EraExact(eras, prog) /\ RewardBeforeDone /\ OncePerRestart
  BY DEF IInv
<1>2. TypeOK
  <2>1. DOMAIN prog \subseteq Quests /\ \A q \in DOMAIN prog : prog[q] \in {"LOCKED", "AVAILABLE", "COMPLETED"}
    BY <1>1, ProgressFact DEF TypeInv, Stati
  <2>2. DOMAIN inv = Slots /\ \A s \in Slots : inv[s].n \in 0 .. Stack
    BY <1>1 DEF TypeInv, Stacks
  <2>3. DOMAIN db.rows \subseteq Slots /\ db.done \subseteq Quests
    BY <1>1, DbsFact, RowsFact DEF TypeInv
  <2>4. \A s \in Slots : Held(db.rows, s).n \in 0 .. Stack
    BY <1>1, DbsFact, HeldType DEF TypeInv
  <2>5. eras \subseteq Eras
    BY <1>1 DEF TypeInv
  <2>6. QED
    BY <2>1, <2>2, <2>3, <2>4, <2>5 DEF TypeOK
<1>3. ErasExact
  BY <1>1 DEF EraExact, ErasExact, IsEraComplete
<1>4. RewardsPerRestart
  <2>1. SUFFICES ASSUME NEW q \in BuildQuestEraMap
                 PROVE  Rewarded(db, q) + DoneCount(toMeta, q) <= 1 + restarts
    BY DEF RewardsPerRestart, Rewarded, DoneCount, DoneAt
  <2>2. Rewarded(db, q) \in Nat /\ DoneCount(toMeta, q) \in Nat /\ restarts \in Nat
    BY <1>1, DbsFact, DoneCounted DEF TypeInv, BuildQuestEraMap
  <2>3. QED
    BY <1>1, <2>2 DEF OncePerRestart
<1>5. QED
  BY <1>1, <1>2, <1>3, <1>4 DEF RewardsAreKept

LEMMA IInvStarts == Init => IInv
<1> SUFFICES ASSUME Init PROVE IInv
  OBVIOUS
<1>1. /\ prog = << >> /\ eras = {} /\ inv = EmptySlots /\ toMeta = << >> /\ toSim = << >>
      /\ db = EmptyDb /\ now = 0 /\ restarts = 0 /\ crashes = 0 /\ sqlErrors = 0 /\ writeErrors = 0
  BY DEF Init
<1>2. << >> \in Progress /\ Completed(<< >>) = {}
  <2>1. << >> \in [{} -> Stati]
    OBVIOUS
  <2>2. QED
    BY <2>1 DEF Progress, Completed
<1>3. EmptySlots \in [Slots -> Stacks]
  BY SlotAssumption DEF EmptySlots, Stacks, NoItem
<1>4. << >> \in Rows
  <2>1. << >> \in [{} -> Stacks]
    OBVIOUS
  <2>2. QED
    BY <2>1 DEF Rows
<1>5. EmptyDb \in Dbs /\ EmptyDb.done = {} /\ \A q \in Quests : Rewarded(EmptyDb, q) = 0
  BY <1>4 DEF EmptyDb, Dbs, Rewarded
<1>6. TypeInv
  BY <1>1, <1>2, <1>3, <1>5 DEF TypeInv
<1>7. EraExact({}, << >>)
  <2>1. SUFFICES ASSUME NEW q \in BuildQuestEraMap PROVE ~IsEraComplete(EraOf[q], << >>)
    BY DEF EraExact
  <2>2. QED
    BY <1>2, EraIs
<1>8. \A q \in Quests : DoneCount(<< >>, q) = 0
  <2>1. \A q : DoneAt(<< >>, q) = {}
    BY DEF DoneAt
  <2>2. QED
    BY <2>1, FS_EmptySet DEF DoneCount
<1>9. OncePerRestart
  BY <1>1, <1>2, <1>5, <1>8 DEF OncePerRestart, BuildQuestEraMap
<1>10. QED
  BY <1>1, <1>5, <1>6, <1>7, <1>9 DEF IInv, SavedStays, RewardBeforeDone
-----------------------------------------------------------------------------
(***************************************************************************)
(* The steps: each keeps the invariant, and is a step of the quest book.   *)
(***************************************************************************)
Completing ==
    /\ EverDone \subseteq EverDone' /\ EverDone' \subseteq Quests
    /\ \A q \in EverDone' \ EverDone : Prereqs[q] \subseteq EverDone'
    /\ Faults' = Faults
Forgetting == EverDone' \subseteq EverDone /\ Faults' = Faults + 1

LEMMA EverDoneIs ==
    /\ EverDone = Completed(prog) \cup db.done \cup DoneIn(toMeta)
    /\ EverDone' = Completed(prog') \cup db'.done \cup DoneIn(toMeta')
BY DEF EverDone, Reported, DoneIn

LEMMA TypesOf ==
    ASSUME IInv
    PROVE  /\ TypeInv /\ Completed(prog) \in SUBSET Quests /\ DoneIn(toMeta) \in SUBSET Quests
           /\ db.done \in SUBSET Quests
           /\ \A q \in Quests : Rewarded(db, q) \in Nat /\ DoneCount(toMeta, q) \in Nat
<1>1. TypeInv
  BY DEF IInv
<1>2. Completed(prog) \in SUBSET Quests
  BY <1>1, CompletedKnown DEF TypeInv
<1>3. DoneIn(toMeta) \in SUBSET Quests
  <2>1. \A i \in 1 .. Len(toMeta) : toMeta[i] \in MetaMsgs
    BY <1>1 DEF TypeInv
  <2>2. QED
    BY <2>1, DoneIs DEF DoneIn
<1>4. QED
  BY <1>1, <1>2, <1>3, DbsFact, DoneCounted DEF TypeInv

\* What SimulationCore publishes reaches the queue, or nothing does.
LEMMA PublishedIs ==
    ASSUME IInv, NEW out \in Seq(MetaMsgs), ToMeta(out),
           \A i, j \in 1 .. Len(out) :
               out[i].t = "done" /\ out[j].t = "done" /\ out[i].q = out[j].q => i = j
    PROVE  /\ toMeta' \in Seq(MetaMsgs)
           /\ DoneIn(toMeta) \subseteq DoneIn(toMeta')
           /\ DoneIn(toMeta') \subseteq DoneIn(toMeta) \cup DoneIn(out)
           /\ \A q \in Quests : DoneCount(toMeta', q)
                     <= DoneCount(toMeta, q) + (IF q \in DoneIn(out) THEN 1 ELSE 0)
<1>1. toMeta \in Seq(MetaMsgs)
  BY DEF IInv, TypeInv
<1>2. CASE toMeta' = toMeta \o out
  <2>1. /\ toMeta \o out \in Seq(MetaMsgs)
        /\ DoneIn(toMeta \o out) = DoneIn(toMeta) \cup DoneIn(out)
        /\ \A q : DoneCount(toMeta \o out, q)
                  <= DoneCount(toMeta, q) + (IF q \in DoneIn(out) THEN 1 ELSE 0)
    BY <1>1, Sent
  <2>2. QED
    BY <1>2, <2>1
<1>3. CASE toMeta' = toMeta
  <2>1. \A q \in Quests : DoneCount(toMeta, q) \in Nat
    BY TypesOf
  <2>2. QED
    BY <1>1, <1>3, <2>1
<1>4. QED
  BY <1>2, <1>3 DEF ToMeta

\* A call of QuestManager.
LEMMA CallSteps ==
    ASSUME IInv, NEW m, Grew(prog, eras, m), Becomes(m),
           UNCHANGED <<inv, toSim, db, now, restarts, crashes, sqlErrors, writeErrors>>
    PROVE  IInv' /\ Completing
<1>1. /\ m \in Calls /\ m.prog \in Progress /\ m.eras \in SUBSET Eras /\ m.out \in Seq(DoneMsgs)
      /\ prog' = m.prog /\ eras' = m.eras /\ ToMeta(m.out)
  BY DEF Grew, Calls, Becomes
<1>2. /\ TypeInv /\ SavedStays /\ EraExact(eras, prog) /\ RewardBeforeDone /\ OncePerRestart
  BY DEF IInv
<1> DEFINE out == m.out
<1>3. /\ out \in Seq(MetaMsgs)
      /\ \A i \in 1 .. Len(out) : out[i].t = "done"
      /\ \A i \in 1 .. Len(out) : out[i].q \in Completed(m.prog) \ Completed(prog)
  <2>1. /\ Len(out) \in Nat /\ \A i \in 1 .. Len(out) : out[i] \in DoneMsgs
    BY <1>1
  <2>2. out \in Seq(MetaMsgs)
    BY <1>1, <2>1 DEF MetaMsgs
  <2>3. QED
    BY <2>1, <2>2 DEF Grew, DoneMsgs
<1>4. DoneIn(out) \subseteq Completed(prog') \ Completed(prog)
  BY <1>1, <1>3 DEF DoneIn
<1>5. /\ toMeta' \in Seq(MetaMsgs)
      /\ DoneIn(toMeta) \subseteq DoneIn(toMeta')
      /\ DoneIn(toMeta') \subseteq DoneIn(toMeta) \cup DoneIn(out)
      /\ \A q \in Quests : DoneCount(toMeta', q)
                <= DoneCount(toMeta, q) + (IF q \in DoneIn(out) THEN 1 ELSE 0)
  <2>1. \A i, j \in 1 .. Len(out) : out[i].q = out[j].q => i = j
    BY DEF Grew
  <2> HIDE DEF out
  <2>2. ToMeta(out)
    BY <1>1 DEF out
  <2>3. QED
    BY <1>3, <2>1, <2>2, PublishedIs
<1>6. Completed(prog) \subseteq Completed(prog') /\ Completed(prog') \subseteq Quests
  BY <1>1, CompletedKnown DEF Grew
<1>7. TypeInv'
  BY <1>1, <1>2, <1>5 DEF TypeInv
<1>8. OncePerRestart'
  <2>1. SUFFICES ASSUME NEW q \in BuildQuestEraMap
                 PROVE  Rewarded(db, q) + DoneCount(toMeta', q)
                            <= restarts + (IF q \in Completed(prog') THEN 1 ELSE 0)
    BY DEF OncePerRestart
  <2>2. /\ Rewarded(db, q) \in Nat /\ DoneCount(toMeta, q) \in Nat /\ restarts \in Nat
        /\ DoneCount(toMeta', q) \in Nat /\ q \in Quests
    BY <1>2, <1>5, TypesOf, DoneCounted DEF TypeInv, BuildQuestEraMap
  <2>3. Rewarded(db, q) + DoneCount(toMeta, q) <= restarts + (IF q \in Completed(prog) THEN 1 ELSE 0)
    BY <1>2 DEF OncePerRestart
  <2>4. DoneCount(toMeta', q) <= DoneCount(toMeta, q) + (IF q \in DoneIn(out) THEN 1 ELSE 0)
    BY <1>5, <2>2
  <2>5. QED
    BY <1>4, <1>6, <2>2, <2>3, <2>4
<1>9. EraExact(eras', prog')
  BY <1>1, <1>2 DEF Grew
<1>10. IInv'
  BY <1>2, <1>7, <1>8, <1>9 DEF IInv, SavedStays, RewardBeforeDone
<1>11. Completing
  <2>1. EverDone \subseteq EverDone' /\ EverDone' \subseteq Quests
    BY <1>4, <1>5, <1>6, TypesOf, EverDoneIs
  <2>2. ASSUME NEW q \in EverDone' \ EverDone PROVE Prereqs[q] \subseteq EverDone'
    <3>1. q \in Completed(m.prog) \ Completed(prog)
      BY <1>1, <1>4, <1>5, EverDoneIs
    <3>2. Prereqs[q] \subseteq Completed(m.prog)
      BY <3>1 DEF Grew
    <3>3. QED
      BY <1>1, <3>2, EverDoneIs
  <2>3. QED
    BY <2>1, <2>2 DEF Completing, Faults
<1>12. QED
  BY <1>10, <1>11

\* A step of SimulationCore that completes nothing.
LEMMA PublishSteps ==
    ASSUME IInv, NEW out \in Seq(MetaMsgs), \A i \in 1 .. Len(out) : out[i].t # "done", ToMeta(out),
           prog' \in Progress, Completed(prog') = Completed(prog), eras' = eras,
           inv' \in [Slots -> Stacks],
           UNCHANGED <<toSim, db, now, restarts, crashes, sqlErrors, writeErrors>>
    PROVE  IInv' /\ Completing
<1>1. /\ TypeInv /\ SavedStays /\ EraExact(eras, prog) /\ RewardBeforeDone /\ OncePerRestart
  BY DEF IInv
<1>2. DoneIn(out) = {}
  BY DEF DoneIn
<1>3. /\ toMeta' \in Seq(MetaMsgs) /\ DoneIn(toMeta') = DoneIn(toMeta)
      /\ \A q \in Quests : DoneCount(toMeta', q) <= DoneCount(toMeta, q) + 0
  BY <1>2, PublishedIs
<1>4. TypeInv'
  BY <1>1, <1>3 DEF TypeInv
<1>5. OncePerRestart'
  <2>1. SUFFICES ASSUME NEW q \in BuildQuestEraMap
                 PROVE  Rewarded(db, q) + DoneCount(toMeta', q)
                            <= restarts + (IF q \in Completed(prog) THEN 1 ELSE 0)
    BY DEF OncePerRestart
  <2>2. /\ Rewarded(db, q) \in Nat /\ DoneCount(toMeta, q) \in Nat /\ restarts \in Nat
        /\ DoneCount(toMeta', q) \in Nat /\ q \in Quests
    BY <1>1, <1>3, TypesOf, DoneCounted DEF TypeInv, BuildQuestEraMap
  <2>3. /\ Rewarded(db, q) + DoneCount(toMeta, q) <= restarts + (IF q \in Completed(prog) THEN 1 ELSE 0)
        /\ DoneCount(toMeta', q) <= DoneCount(toMeta, q) + 0
    BY <1>1, <1>3, <2>2 DEF OncePerRestart
  <2>4. QED
    BY <2>2, <2>3
<1>6. EraExact(eras', prog')
  BY <1>1, EraIs DEF EraExact
<1>7. IInv'
  BY <1>1, <1>4, <1>5, <1>6 DEF IInv, SavedStays, RewardBeforeDone
<1>8. EverDone' = EverDone /\ EverDone \subseteq Quests
  BY <1>3, TypesOf, EverDoneIs
<1>9. QED
  BY <1>7, <1>8 DEF Completing, Faults

LEMMA GrewNothing ==
    ASSUME NEW pr \in Progress, NEW er \in SUBSET Eras
    PROVE  Grew(pr, er, [prog |-> pr, eras |-> er, out |-> << >>])
<1> DEFINE m == [prog |-> pr, eras |-> er, out |-> << >>]
<1>1. m \in Calls
  BY DEF Calls
<1>2. QED
  BY <1>1 DEF Grew

LEMMA DetectionSteps ==
    ASSUME IInv, NEW met \in SUBSET Quests, Becomes(Detected(QM, met)),
           UNCHANGED <<inv, toSim, db, now, restarts, crashes, sqlErrors, writeErrors>>
    PROVE  IInv' /\ Completing
<1>1. prog \in Progress /\ eras \in SUBSET Eras
  BY DEF IInv, TypeInv
<1>2. Grew(prog, eras, Detected(QM, met))
  BY <1>1, DetectedGrows DEF QM
<1>3. QED
  BY <1>2, CallSteps

LEMMA CraftSteps ==
    ASSUME IInv, NEW i \in Items, checkCraftCompletion(i)
    PROVE  IInv' /\ Completing
BY DetectionSteps DEF checkCraftCompletion, metaVars, faultVars

LEMMA InventorySteps ==
    ASSUME IInv, checkInventory
    PROVE  IInv' /\ Completing
BY DetectionSteps DEF checkInventory, metaVars, faultVars

LEMMA RequestSteps ==
    ASSUME IInv, NEW q \in Quests, completeQuest(q)
    PROVE  IInv' /\ Completing
<1>1. prog \in Progress /\ eras \in SUBSET Eras
  BY DEF IInv, TypeInv
<1>2. Grew(prog, eras, QM) /\ QM.prog = prog
  BY <1>1, GrewNothing DEF QM
<1>3. CanComplete(q, QM.prog)
  BY <1>2 DEF completeQuest
<1>4. Grew(prog, eras, completeQuestInternal(QM, q))
  BY <1>2, <1>3, Completes
<1>5. QED
  BY <1>4, CallSteps DEF completeQuest, metaVars, faultVars

LEMMA JoinedSteps ==
    ASSUME IInv, onPlayerJoined
    PROVE  IInv' /\ Completing
<1> DEFINE seeded == [q \in Quests |-> IF q \in DOMAIN prog THEN prog[q]
                                       ELSE IF Prereqs[q] = {} THEN "AVAILABLE" ELSE "LOCKED"]
           out == <<[t |-> "get"]>>
<1>1. prog \in Progress
  BY DEF IInv, TypeInv
<1>2. seeded \in [Quests -> Stati]
  BY <1>1, ProgressFact DEF Stati
<1>3. seeded \in Progress
  BY <1>2 DEF Progress
<1>4. Completed(seeded) = Completed(prog)
  BY <1>1, ProgressFact DEF Completed
<1>5. /\ ToMeta(out) /\ prog' = unlockNewlyAvailable(seeded)
      /\ UNCHANGED <<eras, inv, toSim, db, now, restarts, crashes, sqlErrors, writeErrors>>
  BY DEF onPlayerJoined, metaVars, faultVars
<1> HIDE DEF seeded
<1>6. prog' \in Progress /\ Completed(prog') = Completed(prog)
  BY <1>3, <1>4, <1>5, CompletedUnlocked
<1>7. out \in Seq(MetaMsgs) /\ \A i \in 1 .. Len(out) : out[i].t # "done"
  BY DEF MetaMsgs
<1>8. inv' \in [Slots -> Stacks]
  BY <1>5 DEF IInv, TypeInv
<1>9. QED
  <2> HIDE DEF out
  <2> QED
    BY <1>5, <1>6, <1>7, <1>8, PublishSteps

\* Every slot is published as it is.
LEMMA SlotsPublished ==
    ASSUME NEW slots \in [Slots -> Stacks]
    PROVE  /\ Published(slots) \in Seq(MetaMsgs)
           /\ \A i \in 1 .. Len(Published(slots)) : Published(slots)[i].t # "done"
<1>1. \A s \in 1 .. SlotCount : s - 1 \in Slots /\ slots[s - 1] \in Stacks
  BY SlotAssumption DEF Slots
<1>2. \A s \in 1 .. SlotCount : [t |-> "set", s |-> s - 1, v |-> slots[s - 1]] \in SetMsgs
  BY <1>1 DEF SetMsgs
<1>3. /\ Published(slots) \in Seq(SetMsgs) /\ Len(Published(slots)) = SlotCount
      /\ \A s \in 1 .. SlotCount : Published(slots)[s].t = "set"
  BY <1>2, SlotAssumption DEF Published
<1>4. Published(slots) \in Seq(MetaMsgs)
  BY <1>3 DEF MetaMsgs
<1>5. QED
  BY <1>3, <1>4

LEMMA GiveSteps ==
    ASSUME IInv, NEW i \in Items, giveItem(i)
    PROVE  IInv' /\ Completing
<1> DEFINE v == [id |-> i, n |-> 1]
           g == grantItemToInventory(inv, v)
<1>1. /\ ToMeta(Published(inv')) /\ inv' = g.rows
      /\ UNCHANGED <<prog, eras, toSim, db, now, restarts, crashes, sqlErrors, writeErrors>>
  BY DEF giveItem, metaVars, faultVars
<1>2. v \in Goods
  BY ItemAssumption DEF Goods
<1>3. inv \in Rows /\ DOMAIN inv = Slots
  BY DEF IInv, TypeInv, Rows
<1>4. g.rows \in Rows /\ DOMAIN inv \subseteq DOMAIN g.rows
  <2> HIDE DEF v
  <2> QED
    BY <1>2, <1>3, GrantType
<1>5. inv' \in [Slots -> Stacks]
  <2> HIDE DEF g
  <2> QED
    BY <1>1, <1>3, <1>4, RowsFact
<1>6. prog' \in Progress
  BY <1>1 DEF IInv, TypeInv
<1>7. QED
  BY <1>1, <1>5, <1>6, SlotsPublished, PublishSteps

LEMMA UseSteps ==
    ASSUME IInv, NEW s \in Slots, setSlots(s)
    PROVE  IInv' /\ Completing
<1>1. /\ ToMeta(Published(inv')) /\ inv' = [inv EXCEPT ![s] = NoItem]
      /\ UNCHANGED <<prog, eras, toSim, db, now, restarts, crashes, sqlErrors, writeErrors>>
  BY DEF setSlots, metaVars, faultVars
<1>2. NoItem \in Stacks
  BY SlotAssumption DEF NoItem, Stacks
<1>3. inv' \in [Slots -> Stacks] /\ prog' \in Progress
  BY <1>1, <1>2 DEF IInv, TypeInv
<1>4. QED
  BY <1>1, <1>3, SlotsPublished, PublishSteps

\* The messages to SimulationCore.
LEMMA SimTaken ==
    ASSUME NEW queue \in Seq(SimMsgs), NEW t, Waits(queue, t)
    PROVE  /\ Without(queue, t) \in Seq(SimMsgs)
           /\ \A i \in 1 .. Len(Without(queue, t)) : \E j \in 1 .. Len(queue) : Without(queue, t)[i] = queue[j]
           /\ Msg(queue, t) \in SimMsgs /\ Msg(queue, t).t = t
           /\ \E j \in 1 .. Len(queue) : Msg(queue, t) = queue[j]
<1> DEFINE n == First(queue, t)
           w == RemoveAt(queue, n)
<1>1. Len(queue) \in Nat /\ \A i \in 1 .. Len(queue) : queue[i] \in SimMsgs
  OBVIOUS
<1>2. n \in 1 .. Len(queue) /\ Msg(queue, t) = queue[n] /\ Msg(queue, t).t = t /\ Without(queue, t) = w
  BY <1>1, FirstIs
<1> HIDE DEF n
<1>3. /\ w \in Seq(SimMsgs) /\ Len(w) = Len(queue) - 1
      /\ \A i \in 1 .. Len(queue) - 1 : w[i] = IF i < n THEN queue[i] ELSE queue[i + 1]
  BY <1>2, RemoveIs
<1> HIDE DEF w
<1>4. \A i \in 1 .. Len(w) : \E j \in 1 .. Len(queue) : w[i] = queue[j]
  BY <1>1, <1>3
<1>5. QED
  BY <1>1, <1>2, <1>3, <1>4

\* A step of SimulationCore that takes a message.
LEMMA LoadSteps ==
    ASSUME IInv, loadProgress
    PROVE  IInv' /\ Completing
<1> DEFINE m == Msg(toSim, "progress")
           saved == m.done
           loaded == Loaded(saved)
<1>1. /\ TypeInv /\ SavedStays /\ EraExact(eras, prog) /\ RewardBeforeDone /\ OncePerRestart
  BY DEF IInv
<1>2. /\ Waits(toSim, "progress") /\ toSim' = Without(toSim, "progress")
      /\ prog' = IF saved = {} THEN loaded ELSE unlockNewlyAvailable(loaded)
      /\ eras' = {e \in Eras : IsEraComplete(e, prog')}
      /\ UNCHANGED <<inv, toMeta, db, now, restarts, crashes, sqlErrors, writeErrors>>
  BY DEF loadProgress, metaVars, faultVars
<1>3. /\ toSim' \in Seq(SimMsgs)
      /\ \A i \in 1 .. Len(toSim') : \E j \in 1 .. Len(toSim) : toSim'[i] = toSim[j]
      /\ m \in SimMsgs /\ m.t = "progress" /\ \E j \in 1 .. Len(toSim) : m = toSim[j]
  BY <1>1, <1>2, SimTaken DEF TypeInv
<1> HIDE DEF m
<1>4. saved \in SUBSET Quests /\ saved \subseteq db.done
  BY <1>1, <1>3 DEF SimMsgs, SavedStays
<1>5. loaded \in Progress /\ Completed(loaded) = Completed(prog) \cup saved
  <2>1. prog \in Progress
    BY <1>1 DEF TypeInv
  <2>2. loaded \in [DOMAIN prog \cup saved -> Stati] /\ DOMAIN prog \cup saved \subseteq Quests
    BY <1>4, <2>1, ProgressFact DEF Loaded, Stati
  <2>3. Completed(loaded) = Completed(prog) \cup saved
    BY <2>2 DEF Completed, Loaded
  <2>4. QED
    BY <2>2, <2>3 DEF Progress
<1> HIDE DEF loaded
<1>6. prog' \in Progress /\ Completed(prog') = Completed(prog) \cup saved
  BY <1>2, <1>5, CompletedUnlocked
<1>7. TypeInv'
  BY <1>1, <1>2, <1>3, <1>6 DEF TypeInv
<1>8. SavedStays'
  BY <1>1, <1>2, <1>3 DEF SavedStays
<1>9. EraExact(eras', prog')
  BY <1>2 DEF EraExact, Eras, BuildQuestEraMap
<1>10. OncePerRestart'
  <2>1. SUFFICES ASSUME NEW q \in BuildQuestEraMap
                 PROVE  Rewarded(db, q) + DoneCount(toMeta, q)
                            <= restarts + (IF q \in Completed(prog') THEN 1 ELSE 0)
    BY <1>2 DEF OncePerRestart
  <2>2. /\ Rewarded(db, q) \in Nat /\ DoneCount(toMeta, q) \in Nat /\ restarts \in Nat
    BY <1>1, TypesOf DEF TypeInv, BuildQuestEraMap
  <2>3. Rewarded(db, q) + DoneCount(toMeta, q) <= restarts + (IF q \in Completed(prog) THEN 1 ELSE 0)
    BY <1>1 DEF OncePerRestart
  <2>4. QED
    BY <1>6, <2>2, <2>3
<1>11. IInv'
  BY <1>1, <1>2, <1>7, <1>8, <1>9, <1>10 DEF IInv, RewardBeforeDone
<1>12. EverDone' = EverDone /\ EverDone \subseteq Quests
  BY <1>2, <1>4, <1>6, TypesOf, EverDoneIs
<1>13. QED
  BY <1>2, <1>11, <1>12 DEF Completing, Faults

LEMMA UpdateSteps ==
    ASSUME IInv, applyUpdate
    PROVE  IInv' /\ Completing
<1> DEFINE m == Msg(toSim, "load")
<1>1. /\ TypeInv /\ SavedStays /\ EraExact(eras, prog) /\ RewardBeforeDone /\ OncePerRestart
  BY DEF IInv
<1>2. /\ Waits(toSim, "load") /\ toSim' = Without(toSim, "load") /\ inv' = m.slots
      /\ UNCHANGED <<prog, eras, toMeta, db, now, restarts, crashes, sqlErrors, writeErrors>>
  BY DEF applyUpdate, metaVars, faultVars
<1>3. /\ toSim' \in Seq(SimMsgs)
      /\ \A i \in 1 .. Len(toSim') : \E j \in 1 .. Len(toSim) : toSim'[i] = toSim[j]
      /\ m \in SimMsgs /\ m.t = "load"
  BY <1>1, <1>2, SimTaken DEF TypeInv
<1> HIDE DEF m
<1>4. inv' \in [Slots -> Stacks]
  BY <1>2, <1>3 DEF SimMsgs
<1>5. TypeInv'
  BY <1>1, <1>2, <1>3, <1>4 DEF TypeInv
<1>6. SavedStays'
  BY <1>1, <1>2, <1>3 DEF SavedStays
<1>7. IInv'
  BY <1>1, <1>2, <1>5, <1>6 DEF IInv, RewardBeforeDone, OncePerRestart
<1>8. EverDone' = EverDone /\ EverDone \subseteq Quests
  BY <1>2, TypesOf, EverDoneIs
<1>9. QED
  BY <1>2, <1>7, <1>8 DEF Completing, Faults

\* MetaDB takes a message.
LEMMA MetaTaken ==
    ASSUME IInv, NEW t, Waits(toMeta, t), toMeta' = Without(toMeta, t)
    PROVE  /\ Msg(toMeta, t) \in MetaMsgs /\ Msg(toMeta, t).t = t
           /\ toMeta' \in Seq(MetaMsgs)
           /\ DoneIn(toMeta) = DoneIn(toMeta') \cup (IF t = "done" THEN {Msg(toMeta, t).q} ELSE {})
           /\ \A q : DoneCount(toMeta', q)
                     <= DoneCount(toMeta, q) - (IF Msg(toMeta, t) = [t |-> "done", q |-> q] THEN 1 ELSE 0)
<1> DEFINE n == First(toMeta, t)
<1>1. toMeta \in Seq(MetaMsgs) /\ Len(toMeta) \in Nat
  BY DEF IInv, TypeInv
<1>2. /\ n \in 1 .. Len(toMeta) /\ Msg(toMeta, t) = toMeta[n] /\ toMeta[n].t = t
      /\ toMeta' = RemoveAt(toMeta, n)
  BY <1>1, FirstIs
<1> HIDE DEF n
<1>3. toMeta[n] \in MetaMsgs
  BY <1>1, <1>2
<1>4. toMeta' \in Seq(MetaMsgs)
  BY <1>1, <1>2, RemoveIs
<1>5. QED
  BY <1>1, <1>2, <1>3, <1>4, Removed

LEMMA GetSteps ==
    ASSUME IInv, HandleQuestGet
    PROVE  IInv' /\ Completing
<1> DEFINE m == [t |-> "progress", done |-> db.done]
<1>1. /\ TypeInv /\ SavedStays /\ EraExact(eras, prog) /\ RewardBeforeDone /\ OncePerRestart
  BY DEF IInv
<1>2. /\ Waits(toMeta, "get") /\ toMeta' = Without(toMeta, "get") /\ toSim' = Append(toSim, m)
      /\ UNCHANGED <<prog, eras, inv, db, now, restarts, crashes, sqlErrors, writeErrors>>
  BY DEF HandleQuestGet, Take, simVars, metaVars, faultVars
<1>3. /\ toMeta' \in Seq(MetaMsgs) /\ DoneIn(toMeta) = DoneIn(toMeta')
      /\ \A q : DoneCount(toMeta', q) <= DoneCount(toMeta, q) - 0
  <2>1. Msg(toMeta, "get").t = "get"
    BY <1>2, MetaTaken
  <2>2. \A q : Msg(toMeta, "get") # [t |-> "done", q |-> q]
    BY <2>1
  <2>3. QED
    BY <1>2, <2>2, MetaTaken
<1>4. m \in SimMsgs /\ toSim \in Seq(SimMsgs)
  BY <1>1, TypesOf DEF SimMsgs, TypeInv
<1>5. /\ toSim' \in Seq(SimMsgs) /\ Len(toSim') = Len(toSim) + 1 /\ Len(toSim) \in Nat
      /\ toSim'[Len(toSim) + 1] = m /\ \A i \in 1 .. Len(toSim) : toSim'[i] = toSim[i]
  <2> HIDE DEF m
  <2> QED
    BY <1>2, <1>4
<1>6. TypeInv'
  BY <1>1, <1>2, <1>3, <1>5 DEF TypeInv
<1>7. SavedStays'
  <2>1. ASSUME NEW i \in 1 .. Len(toSim'), toSim'[i].t = "progress"
        PROVE  toSim'[i].done \subseteq db.done
    <3>1. CASE i \in 1 .. Len(toSim)
      BY <1>1, <1>5, <2>1, <3>1 DEF SavedStays
    <3>2. CASE i = Len(toSim) + 1
      BY <1>5, <3>2
    <3>3. QED
      BY <1>5, <3>1, <3>2
  <2>2. QED
    BY <1>2, <2>1 DEF SavedStays
<1>8. OncePerRestart'
  <2>1. SUFFICES ASSUME NEW q \in BuildQuestEraMap
                 PROVE  Rewarded(db, q) + DoneCount(toMeta', q)
                            <= restarts + (IF q \in Completed(prog) THEN 1 ELSE 0)
    BY <1>2 DEF OncePerRestart
  <2>2. /\ Rewarded(db, q) \in Nat /\ DoneCount(toMeta, q) \in Nat /\ restarts \in Nat
        /\ DoneCount(toMeta', q) \in Nat
    BY <1>1, <1>3, TypesOf, DoneCounted DEF TypeInv, BuildQuestEraMap
  <2>3. /\ Rewarded(db, q) + DoneCount(toMeta, q) <= restarts + (IF q \in Completed(prog) THEN 1 ELSE 0)
        /\ DoneCount(toMeta', q) <= DoneCount(toMeta, q) - 0
    BY <1>1, <1>3 DEF OncePerRestart
  <2>4. QED
    BY <2>2, <2>3
<1>9. IInv'
  BY <1>1, <1>2, <1>6, <1>7, <1>8 DEF IInv, RewardBeforeDone
<1>10. EverDone' = EverDone /\ EverDone \subseteq Quests
  BY <1>2, <1>3, TypesOf, EverDoneIs
<1>11. QED
  BY <1>2, <1>9, <1>10 DEF Completing, Faults

LEMMA SetSteps ==
    ASSUME IInv, handleSetInventorySlotReq
    PROVE  IInv' /\ Completing
<1> DEFINE m == Msg(toMeta, "set")
           u == UpdateInventorySlot(db.rows, m.s, m.v)
<1>1. /\ TypeInv /\ SavedStays /\ EraExact(eras, prog) /\ RewardBeforeDone /\ OncePerRestart
  BY DEF IInv
<1>2. /\ Waits(toMeta, "set") /\ toMeta' = Without(toMeta, "set") /\ db' = [db EXCEPT !.rows = u]
      /\ UNCHANGED <<prog, eras, inv, toSim, now, restarts, crashes, sqlErrors, writeErrors>>
  BY DEF handleSetInventorySlotReq, Take, simVars, faultVars
<1>3. /\ toMeta' \in Seq(MetaMsgs) /\ DoneIn(toMeta) = DoneIn(toMeta')
      /\ \A q : DoneCount(toMeta', q) <= DoneCount(toMeta, q) - 0
      /\ m \in MetaMsgs /\ m.t = "set"
  <2>1. m \in MetaMsgs /\ m.t = "set"
    BY <1>2, MetaTaken
  <2>2. \A q : m # [t |-> "done", q |-> q]
    BY <2>1
  <2>3. QED
    BY <1>2, <2>1, <2>2, MetaTaken
<1> HIDE DEF m
<1>4. m.s \in Slots /\ m.v \in Stacks
  BY <1>3 DEF MetaMsgs, DoneMsgs, SetMsgs
<1>5. u \in Rows /\ db \in Dbs
  BY <1>1, <1>4, DbsFact, RowWritten DEF TypeInv
<1> HIDE DEF u
<1>6. /\ db' \in Dbs /\ db'.done = db.done /\ db'.pending = db.pending /\ db'.redeemed = db.redeemed
  BY <1>2, <1>5 DEF Dbs
<1>7. TypeInv'
  BY <1>1, <1>2, <1>3, <1>6 DEF TypeInv
<1>8. OncePerRestart'
  <2>1. SUFFICES ASSUME NEW q \in BuildQuestEraMap
                 PROVE  Rewarded(db', q) + DoneCount(toMeta', q)
                            <= restarts + (IF q \in Completed(prog) THEN 1 ELSE 0)
    BY <1>2 DEF OncePerRestart
  <2>2. /\ Rewarded(db, q) \in Nat /\ DoneCount(toMeta, q) \in Nat /\ restarts \in Nat
        /\ DoneCount(toMeta', q) \in Nat
    BY <1>1, <1>3, TypesOf, DoneCounted DEF TypeInv, BuildQuestEraMap
  <2>3. /\ Rewarded(db, q) + DoneCount(toMeta, q) <= restarts + (IF q \in Completed(prog) THEN 1 ELSE 0)
        /\ DoneCount(toMeta', q) <= DoneCount(toMeta, q) - 0
    BY <1>1, <1>3 DEF OncePerRestart
  <2>4. Rewarded(db', q) = Rewarded(db, q)
    BY <1>6 DEF Rewarded
  <2>5. QED
    BY <2>2, <2>3, <2>4
<1>9. IInv'
  BY <1>1, <1>2, <1>6, <1>7, <1>8 DEF IInv, SavedStays, RewardBeforeDone
<1>10. EverDone' = EverDone /\ EverDone \subseteq Quests
  BY <1>2, <1>3, <1>6, TypesOf, EverDoneIs
<1>11. QED
  BY <1>2, <1>9, <1>10 DEF Completing, Faults

\* A reward is stored before the quest is saved as done, and only for the
\* message that is taken.
LEMMA CompletedSteps ==
    ASSUME IInv, NEW fails \in SUBSET Statements, QuestCompleted(fails)
    PROVE  IInv' /\ (Completing \/ Forgetting)
<1> DEFINE m == Msg(toMeta, "done")
           d1 == HandleQuestCompleted(db, m.q, 3, fails)
<1>1. /\ TypeInv /\ SavedStays /\ EraExact(eras, prog) /\ RewardBeforeDone /\ OncePerRestart
  BY DEF IInv
<1>2. /\ Waits(toMeta, "done") /\ toMeta' = Without(toMeta, "done") /\ db' = d1
      /\ sqlErrors' = IF "store" \in fails THEN sqlErrors + 1 ELSE sqlErrors
      /\ writeErrors' = IF fails # {} /\ "store" \notin fails THEN writeErrors + 1 ELSE writeErrors
      /\ UNCHANGED <<prog, eras, inv, toSim, now, restarts, crashes>>
  BY DEF QuestCompleted, Take, simVars
<1>3. /\ toMeta' \in Seq(MetaMsgs) /\ DoneIn(toMeta) = DoneIn(toMeta') \cup {m.q}
      /\ \A q : DoneCount(toMeta', q)
                <= DoneCount(toMeta, q) - (IF m = [t |-> "done", q |-> q] THEN 1 ELSE 0)
      /\ m \in MetaMsgs /\ m.t = "done"
  BY <1>2, MetaTaken
<1> HIDE DEF m
<1>4. m.q \in Quests /\ m = [t |-> "done", q |-> m.q]
  BY <1>3, DoneIs
<1>5. /\ db' \in Dbs /\ db'.done = IF "progress" \notin fails THEN db.done \cup {m.q} ELSE db.done
      /\ \A p \in Quests : Rewarded(db', p) = Rewarded(db, p) + (IF p = m.q /\ "store" \notin fails THEN 1 ELSE 0)
  <2>1. Handled(d1, db, m.q, 3, fails)
    <3>1. 3 \in 0 .. 3 /\ db \in Dbs
      BY <1>1 DEF TypeInv
    <3>2. QED
      BY <1>4, <3>1, CompletedIs
  <2> HIDE DEF d1
  <2>2. QED
    BY <1>2, <2>1 DEF Handled
<1>6. sqlErrors \in Nat /\ sqlErrors' \in Nat /\ writeErrors \in Nat /\ writeErrors' \in Nat /\ restarts \in Nat /\ crashes \in Nat
  BY <1>1, <1>2 DEF TypeInv
<1>7. TypeInv'
  BY <1>1, <1>2, <1>3, <1>5, <1>6 DEF TypeInv
<1>8. OncePerRestart'
  <2>1. SUFFICES ASSUME NEW q \in BuildQuestEraMap
                 PROVE  Rewarded(db', q) + DoneCount(toMeta', q)
                            <= restarts + (IF q \in Completed(prog) THEN 1 ELSE 0)
    BY <1>2 DEF OncePerRestart
  <2>2. /\ Rewarded(db, q) \in Nat /\ DoneCount(toMeta, q) \in Nat /\ restarts \in Nat
        /\ DoneCount(toMeta', q) \in Nat /\ q \in Quests
    BY <1>1, <1>3, TypesOf, DoneCounted DEF TypeInv, BuildQuestEraMap
  <2>3. Rewarded(db, q) + DoneCount(toMeta, q) <= restarts + (IF q \in Completed(prog) THEN 1 ELSE 0)
    BY <1>1 DEF OncePerRestart
  <2>4. /\ DoneCount(toMeta', q) <= DoneCount(toMeta, q) - (IF q = m.q THEN 1 ELSE 0)
        /\ Rewarded(db', q) = Rewarded(db, q) + (IF q = m.q /\ "store" \notin fails THEN 1 ELSE 0)
    BY <1>3, <1>4, <1>5, <2>2
  <2>5. QED
    BY <2>2, <2>3, <2>4
<1>9. RewardBeforeDone'
  <2>1. SUFFICES ASSUME NEW q \in db'.done PROVE Rewarded(db', q) + sqlErrors' > 0
    BY DEF RewardBeforeDone, Rewarded
  <2>2. q \in Quests /\ Rewarded(db, q) \in Nat
    BY <1>4, <1>5, TypesOf
  <2>3. Rewarded(db', q) = Rewarded(db, q) + (IF q = m.q /\ "store" \notin fails THEN 1 ELSE 0)
    BY <1>5, <2>2
  <2>4. CASE q = m.q
    BY <1>2, <1>6, <2>2, <2>3, <2>4
  <2>5. CASE q # m.q
    <3>1. Rewarded(db, q) + sqlErrors > 0
      BY <1>1, <1>5, <2>5 DEF RewardBeforeDone, Rewarded
    <3>2. QED
      BY <1>2, <1>6, <2>2, <2>3, <3>1
  <2>6. QED
    BY <2>4, <2>5
<1>10. IInv'
  BY <1>1, <1>2, <1>5, <1>7, <1>8, <1>9 DEF IInv, SavedStays
<1>11. CASE fails = {}
  <2>1. EverDone' = EverDone /\ EverDone \subseteq Quests
    BY <1>2, <1>3, <1>4, <1>5, <1>11, TypesOf, EverDoneIs
  <2>2. Faults' = Faults
    BY <1>2, <1>11 DEF Faults
  <2> QED
    BY <1>10, <2>1, <2>2 DEF Completing
<1>12. CASE fails # {}
  <2>1. EverDone' \subseteq EverDone
    BY <1>2, <1>3, <1>5, EverDoneIs
  <2>2. Faults' = Faults + 1
    BY <1>2, <1>6, <1>12 DEF Faults
  <2> QED
    BY <1>10, <2>1, <2>2 DEF Forgetting
<1>13. QED
  BY <1>11, <1>12

LEMMA MetaJoinedSteps ==
    ASSUME IInv, handlePlayerJoined
    PROVE  IInv' /\ Completing
<1> DEFINE m == [t |-> "load", slots |-> [s \in Slots |-> Held(db.rows, s)]]
<1>1. /\ TypeInv /\ SavedStays /\ EraExact(eras, prog) /\ RewardBeforeDone /\ OncePerRestart
  BY DEF IInv
<1>2. /\ toSim' \in {toSim, Append(toSim, m)}
      /\ UNCHANGED <<prog, eras, inv, toMeta, db, now, restarts, crashes, sqlErrors, writeErrors>>
  BY DEF handlePlayerJoined, simVars, metaVars, faultVars
<1>3. m \in SimMsgs /\ toSim \in Seq(SimMsgs) /\ Len(toSim) \in Nat /\ m.t # "progress"
  <2>1. \A s \in Slots : Held(db.rows, s) \in Stacks
    BY <1>1, DbsFact, HeldType DEF TypeInv
  <2>2. [s \in Slots |-> Held(db.rows, s)] \in [Slots -> Stacks]
    BY <2>1
  <2>3. QED
    BY <1>1, <2>2 DEF SimMsgs, TypeInv
<1> HIDE DEF m
<1>4. /\ toSim' \in Seq(SimMsgs)
      /\ \A i \in 1 .. Len(toSim') : toSim'[i] = m \/ (i \in 1 .. Len(toSim) /\ toSim'[i] = toSim[i])
  BY <1>2, <1>3
<1>5. TypeInv'
  BY <1>1, <1>2, <1>4 DEF TypeInv
<1>6. SavedStays'
  BY <1>1, <1>2, <1>3, <1>4 DEF SavedStays
<1>7. IInv'
  BY <1>1, <1>2, <1>5, <1>6 DEF IInv, RewardBeforeDone, OncePerRestart
<1>8. EverDone' = EverDone /\ EverDone \subseteq Quests
  BY <1>2, TypesOf, EverDoneIs
<1>9. QED
  BY <1>2, <1>7, <1>8 DEF Completing, Faults

LEMMA ExchangeSteps ==
    ASSUME IInv, NEW q \in Quests, Exchange(q)
    PROVE  IInv' /\ Completing
<1>1. /\ TypeInv /\ SavedStays /\ EraExact(eras, prog) /\ RewardBeforeDone /\ OncePerRestart
  BY DEF IInv
<1>2. /\ DetectType[q] = "exchange" /\ db' = HandleQuestExchangeRequest(db, q, now)
      /\ UNCHANGED <<prog, eras, inv, toMeta, toSim, now, restarts, crashes, sqlErrors, writeErrors>>
  BY DEF Exchange, simVars, faultVars
<1>3. /\ db' \in Dbs /\ db'.done = db.done
      /\ \A p \in Quests : Rewarded(db', p) \in {Rewarded(db, p), Rewarded(db, p) + (IF p = q THEN 1 ELSE 0)}
  BY <1>1, <1>2, ExchangeIs DEF TypeInv
<1>4. TypeInv'
  BY <1>1, <1>2, <1>3 DEF TypeInv
<1>5. OncePerRestart'
  <2>1. SUFFICES ASSUME NEW p \in BuildQuestEraMap
                 PROVE  Rewarded(db', p) + DoneCount(toMeta, p)
                            <= restarts + (IF p \in Completed(prog) THEN 1 ELSE 0)
    BY <1>2 DEF OncePerRestart
  <2>2. p \in Quests /\ p # q /\ Rewarded(db, p) \in Nat
    BY <1>2, TypesOf DEF BuildQuestEraMap
  <2>3. Rewarded(db', p) = Rewarded(db, p)
    BY <1>3, <2>2
  <2>4. QED
    BY <1>1, <2>3 DEF OncePerRestart
<1>6. RewardBeforeDone'
  <2>1. SUFFICES ASSUME NEW p \in db.done PROVE Rewarded(db', p) + sqlErrors > 0
    BY <1>2, <1>3 DEF RewardBeforeDone, Rewarded
  <2>2. p \in Quests /\ Rewarded(db, p) \in Nat /\ sqlErrors \in Nat
    BY <1>1, TypesOf DEF TypeInv
  <2>3. Rewarded(db, p) + sqlErrors > 0
    BY <1>1 DEF RewardBeforeDone, Rewarded
  <2>4. Rewarded(db', p) \in {Rewarded(db, p), Rewarded(db, p) + 1}
    BY <1>3, <2>2
  <2>5. QED
    BY <2>2, <2>3, <2>4
<1>7. IInv'
  BY <1>1, <1>2, <1>3, <1>4, <1>5, <1>6 DEF IInv, SavedStays
<1>8. EverDone' = EverDone /\ EverDone \subseteq Quests
  BY <1>2, <1>3, TypesOf, EverDoneIs
<1>9. QED
  BY <1>2, <1>7, <1>8 DEF Completing, Faults

\* Steps that touch nothing the invariant speaks of but the clock.
LEMMA OtherSteps ==
    ASSUME IInv, now' \in Nat,
           UNCHANGED <<prog, eras, inv, toMeta, toSim, db, restarts, crashes, sqlErrors, writeErrors>>
    PROVE  IInv' /\ Completing
<1>1. IInv'
  BY DEF IInv, TypeInv, SavedStays, RewardBeforeDone, OncePerRestart
<1>2. EverDone' = EverDone /\ EverDone \subseteq Quests
  BY TypesOf, EverDoneIs
<1>3. QED
  BY <1>1, <1>2 DEF Completing, Faults

LEMMA RestartSteps ==
    ASSUME IInv, SimRestart
    PROVE  IInv' /\ Forgetting
<1>1. /\ TypeInv /\ SavedStays /\ RewardBeforeDone /\ OncePerRestart
  BY DEF IInv
<1>2. /\ prog' = << >> /\ eras' = {} /\ inv' = EmptySlots /\ toSim' = << >>
      /\ restarts' = restarts + 1
      /\ UNCHANGED <<toMeta, db, now, crashes, sqlErrors, writeErrors>>
  BY DEF SimRestart, metaVars
<1>3. << >> \in Progress /\ Completed(<< >>) = {}
  <2>1. << >> \in [{} -> Stati]
    OBVIOUS
  <2>2. QED
    BY <2>1 DEF Progress, Completed
<1>4. EmptySlots \in [Slots -> Stacks]
  BY SlotAssumption DEF EmptySlots, Stacks, NoItem
<1>5. restarts \in Nat /\ crashes \in Nat /\ sqlErrors \in Nat /\ writeErrors \in Nat
  BY <1>1 DEF TypeInv
<1>6. TypeInv'
  BY <1>1, <1>2, <1>3, <1>4, <1>5 DEF TypeInv
<1>7. EraExact({}, << >>)
  <2>1. SUFFICES ASSUME NEW q \in BuildQuestEraMap PROVE ~IsEraComplete(EraOf[q], << >>)
    BY DEF EraExact
  <2>2. QED
    BY <1>3, EraIs
<1>8. OncePerRestart'
  <2>1. SUFFICES ASSUME NEW q \in BuildQuestEraMap
                 PROVE  Rewarded(db, q) + DoneCount(toMeta, q) <= restarts + 1 + 0
    BY <1>2, <1>3, <1>5 DEF OncePerRestart
  <2>2. Rewarded(db, q) \in Nat /\ DoneCount(toMeta, q) \in Nat
    BY TypesOf DEF BuildQuestEraMap
  <2>3. Rewarded(db, q) + DoneCount(toMeta, q) <= restarts + (IF q \in Completed(prog) THEN 1 ELSE 0)
    BY <1>1 DEF OncePerRestart
  <2>4. QED
    BY <1>5, <2>2, <2>3
<1>9. IInv'
  BY <1>1, <1>2, <1>6, <1>7, <1>8 DEF IInv, SavedStays, RewardBeforeDone
<1>10. EverDone' \subseteq EverDone
  BY <1>2, <1>3, EverDoneIs
<1>11. Faults' = Faults + 1
  BY <1>2, <1>5 DEF Faults
<1>12. QED
  BY <1>9, <1>10, <1>11 DEF Forgetting

LEMMA CrashSteps ==
    ASSUME IInv, NEW k \in 0 .. 2, Crash(k)
    PROVE  IInv' /\ Forgetting
<1> DEFINE m == Msg(toMeta, "done")
<1>1. /\ TypeInv /\ SavedStays /\ EraExact(eras, prog) /\ RewardBeforeDone /\ OncePerRestart
  BY DEF IInv
<1>2. /\ k > 0 => Waits(toMeta, "done")
      /\ db' = IF k = 0 THEN db ELSE HandleQuestCompleted(db, m.q, k, {})
      /\ toMeta' = << >> /\ crashes' = crashes + 1
      /\ UNCHANGED <<prog, eras, inv, toSim, now, restarts, sqlErrors, writeErrors>>
  BY DEF Crash, simVars
<1>3. restarts \in Nat /\ crashes \in Nat /\ sqlErrors \in Nat /\ writeErrors \in Nat /\ toMeta \in Seq(MetaMsgs)
  BY <1>1 DEF TypeInv
<1>4. /\ db' \in Dbs /\ db'.done = db.done
      /\ \A p \in Quests : \/ Rewarded(db', p) = Rewarded(db, p)
                           \/ Rewarded(db', p) = Rewarded(db, p) + 1 /\ DoneCount(toMeta, p) >= 1
  <2>1. CASE k = 0
    BY <1>1, <1>2, <2>1 DEF TypeInv
  <2>2. CASE k > 0
    <3> DEFINE n == First(toMeta, "done")
    <3>1. n \in 1 .. Len(toMeta) /\ m = toMeta[n] /\ m.t = "done"
      BY <1>2, <1>3, <2>2, FirstIs
    <3> HIDE DEF m, n
    <3>2. m.q \in Quests /\ m = [t |-> "done", q |-> m.q]
      BY <1>3, <3>1, DoneIs
    <3>3. DoneCount(toMeta, m.q) >= 1
      <4>1. n \in DoneAt(toMeta, m.q)
        BY <3>1, <3>2 DEF DoneAt
      <4>2. DoneCount(toMeta, m.q) # 0 /\ DoneCount(toMeta, m.q) \in Nat
        BY <1>3, <4>1, DoneCounted, FS_EmptySet DEF DoneCount
      <4>3. QED
        BY <4>2
    <3> DEFINE d1 == HandleQuestCompleted(db, m.q, k, {})
    <3>4. /\ d1 \in Dbs /\ d1.done = db.done
          /\ \A p \in Quests : Rewarded(d1, p) = Rewarded(db, p) + (IF p = m.q THEN 1 ELSE 0)
      <4>1. k \in 0 .. 3 /\ k # 3 /\ k >= 1 /\ db \in Dbs
        BY <1>1, <2>2 DEF TypeInv
      <4>2. ASSUME NEW fails \in SUBSET Statements, fails = {}, NEW d, d = HandleQuestCompleted(db, m.q, k, fails)
            PROVE  /\ d \in Dbs /\ d.done = db.done
                   /\ \A p \in Quests : Rewarded(d, p) = Rewarded(db, p) + (IF p = m.q THEN 1 ELSE 0)
        <5> DEFINE h == HandleQuestCompleted(db, m.q, k, fails)
        <5>1. Handled(h, db, m.q, k, fails)
          BY <3>2, <4>1, CompletedIs
        <5>2. d = h
          BY <4>2
        <5> HIDE DEF h
        <5>3. QED
          BY <4>1, <4>2, <5>1, <5>2 DEF Handled
      <4> HIDE DEF d1
      <4>3. d1 = HandleQuestCompleted(db, m.q, k, {})
        BY Zenon DEF d1
      <4>4. QED
        BY <4>2, <4>3, Zenon
    <3>5. db' = d1
      <4>1. k # 0
        BY <2>2
      <4>2. QED
        BY <1>2, <4>1, Zenon
    <3> HIDE DEF d1
    <3>6. \A p \in Quests : Rewarded(db, p) \in Nat
      BY TypesOf
    <3>7. QED
      BY <3>3, <3>4, <3>5, <3>6
  <2>3. QED
    BY <2>1, <2>2
<1>5. DoneIn(<< >>) = {} /\ \A q : DoneCount(<< >>, q) = 0
  <2>1. \A q : DoneAt(<< >>, q) = {}
    BY DEF DoneAt
  <2>2. QED
    BY <2>1, FS_EmptySet DEF DoneCount, DoneIn
<1>6. TypeInv'
  <2>1. /\ toMeta' = << >> /\ crashes' = crashes + 1
        /\ UNCHANGED <<prog, eras, inv, toSim, now, restarts, sqlErrors, writeErrors>>
    BY <1>2, Zenon
  <2>2. db' \in Dbs
    BY <1>4
  <2>3. QED
    BY <1>1, <1>3, <2>1, <2>2 DEF TypeInv
<1>7. OncePerRestart'
  <2>1. SUFFICES ASSUME NEW q \in BuildQuestEraMap
                 PROVE  Rewarded(db', q) + 0 <= restarts + (IF q \in Completed(prog) THEN 1 ELSE 0)
    BY <1>2, <1>5 DEF OncePerRestart
  <2>2. q \in Quests /\ Rewarded(db, q) \in Nat /\ DoneCount(toMeta, q) \in Nat
    BY TypesOf DEF BuildQuestEraMap
  <2>3. Rewarded(db, q) + DoneCount(toMeta, q) <= restarts + (IF q \in Completed(prog) THEN 1 ELSE 0)
    BY <1>1 DEF OncePerRestart
  <2>4. \/ Rewarded(db', q) = Rewarded(db, q)
        \/ Rewarded(db', q) = Rewarded(db, q) + 1 /\ DoneCount(toMeta, q) >= 1
    BY <1>4, <2>2
  <2>5. QED
    BY <1>3, <2>2, <2>3, <2>4
<1>8. RewardBeforeDone'
  <2>1. SUFFICES ASSUME NEW p \in db.done PROVE Rewarded(db', p) + sqlErrors > 0
    BY <1>2, <1>4 DEF RewardBeforeDone, Rewarded
  <2>2. p \in Quests /\ Rewarded(db, p) \in Nat
    BY TypesOf
  <2>3. Rewarded(db, p) + sqlErrors > 0
    BY <1>1 DEF RewardBeforeDone, Rewarded
  <2>4. Rewarded(db', p) \in {Rewarded(db, p), Rewarded(db, p) + 1}
    BY <1>4, <2>2
  <2>5. QED
    BY <1>3, <2>2, <2>3, <2>4
<1>9. IInv'
  BY <1>1, <1>2, <1>4, <1>6, <1>7, <1>8 DEF IInv, SavedStays
<1>10. EverDone' \subseteq EverDone
  BY <1>2, <1>4, <1>5, EverDoneIs
<1>11. Faults' = Faults + 1
  BY <1>2, <1>3 DEF Faults
<1>12. QED
  BY <1>9, <1>10, <1>11 DEF Forgetting
-----------------------------------------------------------------------------
(***************************************************************************)
(* The theorems.                                                           *)
(***************************************************************************)
LEMMA EveryStep ==
    ASSUME IInv, Next
    PROVE  IInv' /\ (Completing \/ Forgetting)
<1>1. ASSUME NEW i \in Items, checkCraftCompletion(i) PROVE IInv' /\ Completing
  BY <1>1, CraftSteps
<1>2. ASSUME NEW i \in Items, giveItem(i) PROVE IInv' /\ Completing
  BY <1>2, GiveSteps
<1>3. ASSUME NEW s \in Slots, setSlots(s) PROVE IInv' /\ Completing
  BY <1>3, UseSteps
<1>4. ASSUME NEW q \in Quests, completeQuest(q) PROVE IInv' /\ Completing
  BY <1>4, RequestSteps
<1>5. ASSUME NEW q \in Quests, Exchange(q) PROVE IInv' /\ Completing
  BY <1>5, ExchangeSteps
<1>6. CASE checkInventory
  BY <1>6, InventorySteps
<1>7. CASE Second
  <2>1. now \in Nat
    BY DEF IInv, TypeInv
  <2>2. now' \in Nat
    BY <1>7, <2>1 DEF Second
  <2>3. QED
    BY <1>7, <2>2, OtherSteps DEF Second, simVars, faultVars
<1>8. CASE Join
  <2>1. now' \in Nat
    BY <1>8 DEF Join, IInv, TypeInv, metaVars
  <2>2. QED
    BY <1>8, <2>1, OtherSteps DEF Join, simVars, metaVars, faultVars
<1>9. CASE SimNext
  BY <1>9, JoinedSteps, LoadSteps, UpdateSteps DEF SimNext
<1>10. CASE MetaNext
  <2>1. CASE HandleQuestGet
    BY <2>1, GetSteps
  <2>2. CASE handleSetInventorySlotReq
    BY <2>2, SetSteps
  <2>3. CASE QuestCompleted({})
    BY <2>3, CompletedSteps, Zenon
  <2>4. CASE handlePlayerJoined
    BY <2>4, MetaJoinedSteps
  <2>5. QED
    BY <1>10, <2>1, <2>2, <2>3, <2>4 DEF MetaNext
<1>11. ASSUME NEW fails \in Failures, QuestCompleted(fails)
       PROVE  IInv' /\ (Completing \/ Forgetting)
  <2>1. fails \in SUBSET Statements
    BY <1>11 DEF Failures
  <2>2. QED
    BY <1>11, <2>1, CompletedSteps, Zenon
<1>12. CASE SimRestart
  BY <1>12, RestartSteps
<1>13. CASE connectAndServe
  <2>1. now' \in Nat
    BY <1>13 DEF connectAndServe, IInv, TypeInv
  <2>2. QED
    BY <1>13, <2>1, OtherSteps DEF connectAndServe, simVars, faultVars
<1>14. ASSUME NEW k \in 0 .. 2, Crash(k) PROVE IInv' /\ Forgetting
  BY <1>14, CrashSteps
<1>15. QED
  BY <1>1, <1>2, <1>3, <1>4, <1>5, <1>6, <1>7, <1>8, <1>9, <1>10, <1>11, <1>12, <1>13, <1>14
  DEF Next

LEMMA NoStep ==
    ASSUME IInv, UNCHANGED vars
    PROVE  IInv' /\ EverDone' = EverDone /\ Faults' = Faults
<1>1. /\ UNCHANGED <<prog, eras, inv, toMeta, toSim, db, now, restarts, crashes, sqlErrors, writeErrors>>
  BY DEF vars
<1>2. QED
  BY <1>1, EverDoneIs DEF IInv, TypeInv, SavedStays, RewardBeforeDone, OncePerRestart, Faults

LEMMA IInvHolds == Spec => []IInv
<1>1. IInv /\ [Next]_vars => IInv'
  BY EveryStep, NoStep
<1>2. QED
  BY <1>1, IInvStarts, PTL DEF Spec

\* The maps of QuestManager and the tables of MetaDB hold what they may: known
\* quests in one of their states, and no stack over its limit.
THEOREM QuestsTypeCorrect == Spec => []TypeOK
BY IInvHolds, IInvImplies, PTL

\* completedEras_ names exactly the eras whose quests are all COMPLETED, for
\* every set of quests and every order of detections, joins, saved progress and
\* restarts: QuestManager::maybePublishEraTransition() looks only when a quest
\* is completed, and loadProgress() recomputes, and between them no completion
\* escapes.
THEOREM ErasAreExact == Spec => []ErasExact
BY IInvHolds, IInvImplies, PTL

\* A quest saved as done has a reward row wherever MetaDB died
\* (HandleQuestCompleted() stores the reward first), and no quest is rewarded
\* more than once per start of SimulationCore.
THEOREM RewardsKept == Spec => []RewardsAreKept
BY IInvHolds, IInvImplies, PTL

\* The two processes, their queues, crashes and restarts included, implement
\* the quest book: quests are done after their prerequisites
\* (QuestGraph::CanComplete()), and forgotten only at a fault.
THEOREM QuestsImplementBook == Spec => BookSpec
<1>1. Init => Book!Init
  <2>1. SUFFICES ASSUME Init PROVE EverDone = {} /\ Faults = 0
    BY DEF Book!Init
  <2>2. prog = << >> /\ toMeta = << >> /\ db.done = {} /\ restarts = 0 /\ crashes = 0 /\ sqlErrors = 0 /\ writeErrors = 0
    BY <2>1 DEF Init, EmptyDb
  <2>3. Completed(prog) = {} /\ DoneIn(toMeta) = {}
    BY <2>2 DEF Completed, DoneIn
  <2>4. QED
    BY <2>2, <2>3, EverDoneIs DEF Faults
<1>2. IInv /\ [Next]_vars => [Book!Next]_(Book!bookVars)
  <2>1. SUFFICES ASSUME IInv, [Next]_vars PROVE [Book!Next]_(Book!bookVars)
    OBVIOUS
  <2>2. CASE Next
    <3>1. CASE Completing
      BY <3>1 DEF Completing, Book!Next, Book!Complete
    <3>2. CASE Forgetting
      BY <3>2 DEF Forgetting, Book!Next, Book!Fault
    <3>3. QED
      BY <2>1, <2>2, <3>1, <3>2, EveryStep
  <2>3. CASE UNCHANGED vars
    BY <2>1, <2>3, NoStep DEF Book!bookVars
  <2>4. QED
    BY <2>1, <2>2, <2>3
<1>3. QED
  BY <1>1, <1>2, IInvHolds, PTL DEF Spec, BookSpec, Book!Spec

\* Until a first fault every quest that is done has all its prerequisites done,
\* whatever QuestGraph the quests form.
THEOREM NoQuestSkipped == Spec => []Book!ClosedIfFaultless
<1>1. Init => Book!ClosedIfFaultless
  BY DEF Init, EmptyDb, EverDone, Completed, Reported, Faults, Book!ClosedIfFaultless, Book!Closed
<1>2. IInv /\ Book!ClosedIfFaultless /\ [Next]_vars => Book!ClosedIfFaultless'
  <2>1. SUFFICES ASSUME IInv, Book!ClosedIfFaultless, [Next]_vars, Faults' = 0,
                        NEW q \in EverDone'
                 PROVE  Prereqs[q] \subseteq EverDone'
    BY DEF Book!ClosedIfFaultless, Book!Closed
  <2>2. Faults \in Nat
    BY <2>1 DEF IInv, TypeInv, Faults
  <2>3. CASE Next
    <3>1. Completing
      BY <2>1, <2>2, <2>3, EveryStep DEF Forgetting
    <3>2. CASE q \in EverDone
      BY <2>1, <3>1, <3>2 DEF Completing, Book!ClosedIfFaultless, Book!Closed
    <3>3. CASE q \notin EverDone
      BY <3>1, <3>3 DEF Completing
    <3>4. QED
      BY <3>2, <3>3
  <2>4. CASE UNCHANGED vars
    BY <2>1, <2>4, NoStep DEF Book!ClosedIfFaultless, Book!Closed
  <2>5. QED
    BY <2>1, <2>3, <2>4
<1>3. QED
  BY <1>1, <1>2, IInvHolds, PTL DEF Spec

\* HandleQuestExchangeRequest() moves the whole cost and the whole reward or
\* nothing, however the stacks lie in the slots.
THEOREM ExchangesAreWhole == Spec => ExchangesWhole
<1> DEFINE Whole == \A q \in Quests :
          db' # db /\ Exchange(q) =>
              \A i \in Items \cup {Reward[r].id : r \in Quests} :
                  Count(db'.rows, i) = Count(db.rows, i) + (IF Reward[q].id = i THEN Reward[q].n ELSE 0)
                                                         - (IF Cost[q].id = i THEN Cost[q].n ELSE 0)
<1>1. IInv /\ [Next]_vars => [Whole]_vars
  <2>1. SUFFICES ASSUME IInv, NEW q \in Quests, Exchange(q), db' # db,
                        NEW i \in Items \cup {Reward[r].id : r \in Quests}
                 PROVE  Count(db'.rows, i) = Count(db.rows, i)
                                   + (IF Reward[q].id = i THEN Reward[q].n ELSE 0)
                                   - (IF Cost[q].id = i THEN Cost[q].n ELSE 0)
    OBVIOUS
  <2>2. i \in Nat
    BY <2>1, ItemAssumption DEF Goods
  <2>3. db \in Dbs /\ now \in Nat /\ db' = HandleQuestExchangeRequest(db, q, now)
    BY <2>1 DEF IInv, TypeInv, Exchange
  <2>4. QED
    BY <2>1, <2>2, <2>3, ExchangeIs
<1>2. QED
  BY <1>1, IInvHolds, PTL DEF Spec, ExchangesWhole
=============================================================================
