--------------------------- MODULE FluidDrainProofs ---------------------------
(***************************************************************************)
(* A fluid consume settles once and is credited no more than was drained,  *)
(* for any boilers, amounts, queue bounds, retry limits and losses.        *)
(***************************************************************************)
EXTENDS FluidDrain, SequenceTheorems, FiniteSetTheorems, TLAPS

------------------------------------------------------------------------------
(* The inductive invariant.                                                 *)

\* Pending, without what 2 ^ n is.
Pendings == [node : Owner, typed : BOOLEAN, epoch : Epoch, shortfall : 1 .. MaxWant,
             ttl : 1 .. Ttl, retries : 0 .. MaxRetries, retry_in : Int, cancelled : BOOLEAN]
Ports == [owner : Owner, epoch : Epoch]
Debits == [amount : Nat, times : Nat, from : SUBSET Owner]

\* The part of TypeOK that the argument uses.
Types ==
    /\ steam \in [Owner -> 0 .. MaxSteam]
    /\ epochs \in [Owner -> 1 .. MaxEpoch]
    /\ ports_ \in Ports \cup {None}
    /\ replay_ \in [Id -> Entry \cup {None}]
    /\ registered \in [Owner -> Epoch]
    /\ pending_ \in [Id -> Pendings \cup {None}]
    /\ issued \in 0 .. MaxReq
    /\ toPipe \in Seq(Message) /\ toSim \in Seq(Message)
    /\ answers \in [Id -> Nat]
    /\ credit \in [Id -> Nat]
    /\ debit \in [Id -> Debits]

\* Only issued ids are pending.
Planned == \A id \in Id : pending_[id] # None => id <= issued

\* A consume is credited when it stops being live, not before.
Uncredited == \A id \in Id : id > issued \/ Live(id) => credit[id] = 0

Tracked == AnsweredOnce /\ Planned /\ Uncredited

\* Messages of a queue.
Mail(q) == {q[n] : n \in 1 .. Len(q)}

\* What a response under way or cached says was taken was taken.
Backed ==
    /\ \A m \in Mail(toPipe) : m.type = "response" => m.accepted <= debit[m.id].amount
    /\ \A id \in Id : replay_[id] # None => replay_[id].accepted <= debit[id].amount

IInv == Types /\ Tracked /\ Backed /\ CreditIsBacked

------------------------------------------------------------------------------
(* Queues.                                                                  *)

LEMMA Bounds ==
    /\ MaxReq \in Nat /\ MaxWant \in Nat /\ MaxSteam \in Nat /\ Rate \in Nat
    /\ MaxEpoch \in Nat /\ MaxEpoch >= 1 /\ MaxRetries \in Nat
    /\ Ttl \in Nat /\ Ttl >= 1 /\ QueueCap \in Nat /\ QueueCap >= 1
    /\ RetryBase \in Nat /\ RetryMax \in Nat
  BY TickAssumption

LEMMA MailOfTail ==
    ASSUME NEW q \in Seq(Message), q # <<>>
    PROVE  /\ Head(q) \in Message /\ Head(q) \in Mail(q)
           /\ Tail(q) \in Seq(Message) /\ Mail(Tail(q)) \subseteq Mail(q)
<1>1. Len(q) \in Nat /\ Len(q) > 0 /\ Tail(q) \in Seq(Message) /\ Len(Tail(q)) = Len(q) - 1
  OBVIOUS
<1>2. Head(q) = q[1] /\ q[1] \in Message
  BY <1>1
<1>3. \A n \in 1 .. Len(Tail(q)) : Tail(q)[n] = q[n + 1] /\ n + 1 \in 1 .. Len(q)
  BY <1>1
<1>4. Head(q) \in Mail(q)
  BY <1>1, <1>2 DEF Mail
<1>5. Mail(Tail(q)) \subseteq Mail(q)
  BY <1>3 DEF Mail
<1>6. QED
  BY <1>1, <1>2, <1>4, <1>5

\* A full queue drops old messages and makes up none.
LEMMA MailOfSendAll ==
    ASSUME NEW q \in Seq(Message), NEW ms \in Seq(Message)
    PROVE  SendAll(q, ms) \in Seq(Message) /\ Mail(SendAll(q, ms)) \subseteq Mail(q) \cup Mail(ms)
<1> DEFINE all == q \o ms
           L == Len(all)
           low == L - QueueCap + 1
<1>1. /\ all \in Seq(Message) /\ L = Len(q) + Len(ms) /\ Len(q) \in Nat /\ Len(ms) \in Nat
      /\ \A i \in 1 .. L : all[i] = IF i <= Len(q) THEN q[i] ELSE ms[i - Len(q)]
  BY ConcatProperties
<1>2. Mail(all) \subseteq Mail(q) \cup Mail(ms)
  <2> SUFFICES ASSUME NEW i \in 1 .. L PROVE all[i] \in Mail(q) \cup Mail(ms)
    BY DEF Mail
  <2>1. i \in 1 .. Len(q) \/ i - Len(q) \in 1 .. Len(ms)
    BY <1>1
  <2>2. QED
    BY <1>1, <2>1 DEF Mail
<1>3. CASE L <= QueueCap
  BY <1>1, <1>2, <1>3 DEF SendAll
<1>4. CASE ~(L <= QueueCap)
  <2>1. QueueCap \in Nat /\ L \in Nat /\ low \in 1 .. L
    BY <1>1, <1>4, Bounds
  <2>2. \A i \in low .. L : all[i] \in Message
    BY <1>1, <2>1
  <2> HIDE DEF all, L, low
  <2>3. /\ SubSeq(all, low, L) \in Seq(Message)
        /\ Len(SubSeq(all, low, L)) = IF low <= L THEN L - low + 1 ELSE 0
        /\ \A i \in 1 .. L - low + 1 : SubSeq(all, low, L)[i] = all[low + i - 1]
    BY <1>1, <2>1, <2>2, SubSeqProperties, low \in Int, L \in Int
  <2>4. \A i \in 1 .. Len(SubSeq(all, low, L)) : SubSeq(all, low, L)[i] = all[low + i - 1] /\ low + i - 1 \in 1 .. L
    BY <2>1, <2>3
  <2>5. Mail(SubSeq(all, low, L)) \subseteq Mail(all)
    BY <2>4 DEF Mail, L
  <2>6. SendAll(q, ms) = SubSeq(all, low, L)
    BY <1>4 DEF SendAll, all, L, low
  <2>7. QED
    BY <1>2, <2>3, <2>5, <2>6
<1>5. QED
  BY <1>3, <1>4

LEMMA MailOfSend ==
    ASSUME NEW q \in Seq(Message), NEW m \in Message
    PROVE  Send(q, m) \in Seq(Message) /\ Mail(Send(q, m)) \subseteq Mail(q) \cup {m}
<1>1. <<m>> \in Seq(Message) /\ Mail(<<m>>) = {m}
  BY DEF Mail
<1>2. QED
  BY <1>1, MailOfSendAll DEF Send

------------------------------------------------------------------------------
(* What an answer and what SimulationCore may change.                       *)

\* Consumes that stop being live are answered, and only those are credited.
LEMMA Settles ==
    ASSUME IInv, NEW S \in SUBSET Id, \A id \in S : Live(id), Answer(S), issued' = issued,
           \A id \in Id : pending_'[id] # None => pending_[id] # None,
           \A id \in Id : Live(id)' <=> Live(id) /\ id \notin S,
           \A id \in Id \ S : credit'[id] = credit[id]
    PROVE  Tracked'
<1> USE DEF IInv, Tracked
<1>1. Planned'
  BY DEF Planned
<1>2. Uncredited'
  <2> SUFFICES ASSUME NEW id \in Id, id > issued \/ Live(id)' PROVE credit'[id] = 0
    BY DEF Uncredited
  <2>1. id \notin S
    <3>1. issued \in Nat /\ id \in Nat
      BY DEF Types, Id
    <3>2. id \in S => id <= issued
      BY DEF Planned, Live
    <3>3. QED
      BY <3>1, <3>2
  <2>2. QED
    BY <2>1 DEF Uncredited
<1>3. AnsweredOnce'
  <2> SUFFICES ASSUME NEW id \in Id
               PROVE  answers'[id] = IF id <= issued /\ ~Live(id)' THEN 1 ELSE 0
    BY DEF AnsweredOnce
  <2>1. answers'[id] = IF id \in S THEN answers[id] + 1 ELSE answers[id]
    BY DEF Answer
  <2>2. answers[id] = IF id <= issued /\ ~Live(id) THEN 1 ELSE 0
    BY DEF AnsweredOnce
  <2>3. CASE id \in S
    <3>1. Live(id) /\ id <= issued /\ ~Live(id)'
      BY <2>3 DEF Planned, Live
    <3>2. QED
      BY <2>1, <2>2, <2>3, <3>1
  <2>4. CASE id \notin S
    BY <2>1, <2>2, <2>4
  <2>5. QED
    BY <2>3, <2>4
<1>4. QED
  BY <1>1, <1>2, <1>3

LEMMA TrackerRests ==
    ASSUME IInv, UNCHANGED <<issued, pending_, answers, credit>> PROVE Tracked'
  BY DEF IInv, Tracked, AnsweredOnce, Planned, Uncredited, Live

\* Steam may be taken; responses come from the cache or were paid for.
LEMMA BackedStays ==
    ASSUME IInv, Types',
           \A id \in Id : debit[id].amount <= debit'[id].amount,
           \A m \in Mail(toPipe') : m.type = "response" =>
               m \in Mail(toPipe) \/ m.accepted <= debit'[m.id].amount,
           \A id \in Id : \/ replay_'[id] \in {None, replay_[id]}
                          \/ replay_'[id].accepted <= debit'[id].amount
    PROVE  Backed'
<1> USE DEF IInv
<1>1. \A m \in Mail(toPipe) \cup Mail(toPipe') : m \in Message
  BY DEF Types, Mail
<1>2. \A m \in Message : m.type = "response" => m.id \in Id /\ m.accepted \in Nat
  BY Bounds DEF Message
<1>3. \A id \in Id : debit[id].amount \in Nat /\ debit'[id].amount \in Nat
  BY DEF Types, Debits
<1>4. ASSUME NEW m \in Mail(toPipe'), m.type = "response" PROVE m.accepted <= debit'[m.id].amount
  BY <1>1, <1>2, <1>3, <1>4 DEF Backed
<1>5. ASSUME NEW id \in Id, replay_'[id] # None PROVE replay_'[id].accepted <= debit'[id].amount
  <2>1. CASE replay_'[id] = replay_[id]
    <3>1. replay_[id] # None /\ replay_[id].accepted \in Nat
      BY <1>5, <2>1, Bounds DEF Types, Entry
    <3>2. QED
      BY <1>3, <2>1, <3>1 DEF Backed
  <2>2. CASE replay_'[id] # replay_[id]
    BY <1>5, <2>2
  <2>3. QED
    BY <2>1, <2>2
<1>6. QED
  BY <1>4, <1>5 DEF Backed

\* No more is credited than before.
LEMMA CreditStays ==
    ASSUME IInv, Types', credit' = credit, \A id \in Id : debit[id].amount <= debit'[id].amount
    PROVE  CreditIsBacked'
  BY DEF IInv, Types, Debits, CreditIsBacked

------------------------------------------------------------------------------
(* SimulationCore's steps.                                                  *)

LEMMA PlaceBoilerKeeps == ASSUME IInv, NEW o \in Owner, PlaceBoiler(o) PROVE IInv'
<1> USE DEF PlaceBoiler, pipeVars, trackerVars
<1>1. Types'
  <2>1. steam' \in [Owner -> 0 .. MaxSteam]
    BY Bounds DEF IInv, Types
  <2>2. QED
    BY <2>1 DEF IInv, Types
<1>2. Tracked'
  BY TrackerRests
<1>3. Backed' /\ CreditIsBacked'
  BY DEF IInv, Backed, CreditIsBacked
<1>4. QED
  BY <1>1, <1>2, <1>3 DEF IInv

LEMMA BoilerTickKeeps == ASSUME IInv, NEW o \in Owner, BoilerTick(o) PROVE IInv'
<1> USE DEF pipeVars, trackerVars
<1> DEFINE m == [type |-> "register", owner |-> o, epoch |-> epochs[o]]
<1>1. m \in Message /\ m.type # "response"
  BY Bounds DEF IInv, Types, Message, Epoch
<1>2. toPipe' = Send(toPipe, m) /\ toSim' = Send(toSim, m)
  BY DEF BoilerTick
<1> HIDE DEF m
<1>3. /\ toPipe' \in Seq(Message) /\ Mail(toPipe') \subseteq Mail(toPipe) \cup {m}
      /\ toSim' \in Seq(Message)
  BY <1>1, <1>2, MailOfSend DEF IInv, Types
<1>4. steam' \in [Owner -> 0 .. MaxSteam]
  <2>1. PICK made \in 0 .. MaxSteam - steam[o] : steam' = [steam EXCEPT ![o] = @ + made]
    BY DEF BoilerTick
  <2>2. steam[o] \in 0 .. MaxSteam
    BY DEF IInv, Types
  <2>3. steam[o] + made \in 0 .. MaxSteam
    BY <2>2, Bounds
  <2>4. QED
    BY <2>1, <2>3 DEF IInv, Types
<1>5. Types'
  BY <1>3, <1>4 DEF BoilerTick, IInv, Types
<1>6. Tracked'
  BY TrackerRests DEF BoilerTick
<1>7. Backed' /\ CreditIsBacked'
  BY <1>1, <1>3 DEF BoilerTick, IInv, Backed, CreditIsBacked
<1>8. QED
  BY <1>5, <1>6, <1>7 DEF IInv

LEMMA ReplacePortKeeps == ASSUME IInv, NEW o \in Owner, ReplacePort(o) PROVE IInv'
<1> USE DEF ReplacePort, pipeVars, trackerVars
<1>1. Types'
  <2>1. epochs[o] + 1 \in 1 .. MaxEpoch
    BY Bounds DEF IInv, Types
  <2>2. epochs' \in [Owner -> 1 .. MaxEpoch]
    BY <2>1 DEF IInv, Types
  <2>3. QED
    BY <2>2 DEF IInv, Types
<1>2. Tracked'
  BY TrackerRests
<1>3. Backed' /\ CreditIsBacked'
  BY DEF IInv, Backed, CreditIsBacked
<1>4. QED
  BY <1>1, <1>2, <1>3 DEF IInv

\* Forgetting cached responses leaves the others.
LEMMA Forgotten ==
    ASSUME IInv, NEW S, Forget(S)
    PROVE  replay_' \in [Id -> Entry \cup {None}] /\ \A id \in Id : replay_'[id] \in {None, replay_[id]}
  BY DEF IInv, Types, Forget

LEMMA RemoveBoilerKeeps == ASSUME IInv, NEW o \in Owner, RemoveBoiler(o) PROVE IInv'
<1> USE DEF pipeVars, trackerVars
<1>1. CASE ports_ # None /\ ports_.owner = o
  <2> DEFINE m == [type |-> "remove", owner |-> o, epoch |-> ports_.epoch]
  <2>1. m \in Message /\ m.type # "response"
    BY <1>1 DEF IInv, Types, Message, Ports
  <2>2. /\ toPipe' = Send(toPipe, m) /\ toSim' = Send(toSim, m) /\ ports_' = None
        /\ Forget({id \in Id : replay_[id] # None /\ replay_[id].owner = o})
    BY <1>1 DEF RemoveBoiler
  <2> HIDE DEF m
  <2>3. /\ toPipe' \in Seq(Message) /\ Mail(toPipe') \subseteq Mail(toPipe) \cup {m}
        /\ toSim' \in Seq(Message)
    BY <2>1, <2>2, MailOfSend DEF IInv, Types
  <2>4. replay_' \in [Id -> Entry \cup {None}] /\ \A id \in Id : replay_'[id] \in {None, replay_[id]}
    BY <2>2, Forgotten
  <2>5. UNCHANGED <<steam, epochs, replay_order_, debit, pipeVars>>
    BY DEF RemoveBoiler
  <2>6. Types'
    BY <2>2, <2>3, <2>4, <2>5 DEF IInv, Types
  <2>7. Tracked'
    BY <2>5, TrackerRests
  <2>8. Backed' /\ CreditIsBacked'
    BY <2>1, <2>3, <2>4, <2>5 DEF IInv, Backed, CreditIsBacked
  <2>9. QED
    BY <2>6, <2>7, <2>8 DEF IInv
<1>2. CASE ~(ports_ # None /\ ports_.owner = o)
  <2>1. UNCHANGED <<steam, epochs, toPipe, toSim, ports_, replay_, debit, pipeVars>>
    BY <1>2 DEF RemoveBoiler
  <2>2. Types' /\ Backed' /\ CreditIsBacked'
    BY <2>1 DEF IInv, Types, Backed, CreditIsBacked
  <2>3. Tracked'
    BY <2>1, TrackerRests
  <2>4. QED
    BY <2>2, <2>3 DEF IInv
<1>3. QED
  BY <1>1, <1>2

LEMMA handlePortRegisterKeeps == ASSUME IInv, handlePortRegister PROVE IInv'
<1> USE DEF pipeVars, trackerVars
<1>1. /\ Head(toSim) \in Message /\ Head(toSim).type = "register" /\ toSim' \in Seq(Message)
      /\ UNCHANGED <<steam, epochs, replay_, debit, pipeVars, toPipe>>
  BY MailOfTail DEF handlePortRegister, SimReceives, IInv, Types
<1>2. Head(toSim).owner \in Owner /\ Head(toSim).epoch \in Epoch
  BY <1>1 DEF Message
<1>3. ports_' \in Ports \cup {None}
  BY <1>2 DEF handlePortRegister, IInv, Types, Ports
<1>4. Types'
  BY <1>1, <1>3 DEF IInv, Types
<1>5. Tracked'
  BY <1>1, TrackerRests
<1>6. Backed' /\ CreditIsBacked'
  BY <1>1 DEF IInv, Backed, CreditIsBacked
<1>7. QED
  BY <1>4, <1>5, <1>6 DEF IInv

LEMMA handlePortRemoveKeeps == ASSUME IInv, handlePortRemove PROVE IInv'
<1> USE DEF pipeVars, trackerVars
<1>1. /\ toSim' \in Seq(Message)
      /\ UNCHANGED <<steam, epochs, debit, pipeVars, toPipe>>
  BY MailOfTail DEF handlePortRemove, SimReceives, IInv, Types
<1>2. /\ ports_' \in {None, ports_} /\ replay_' \in [Id -> Entry \cup {None}]
      /\ \A id \in Id : replay_'[id] \in {None, replay_[id]}
  BY Forgotten DEF handlePortRemove, IInv, Types
<1>3. Types'
  BY <1>1, <1>2 DEF IInv, Types
<1>4. Tracked'
  BY <1>1, TrackerRests
<1>5. Backed' /\ CreditIsBacked'
  BY <1>1, <1>2 DEF IInv, Backed, CreditIsBacked
<1>6. QED
  BY <1>3, <1>4, <1>5 DEF IInv

\* Caching keeps the other entries or evicts one of them.
LEMMA Cached ==
    ASSUME IInv, NEW i \in Id, NEW entry \in Entry, CacheResponse(i, entry)
    PROVE  /\ replay_' \in [Id -> Entry \cup {None}]
           /\ \A id \in Id \ {i} : replay_'[id] \in {None, replay_[id]}
           /\ replay_'[i] \in {None, entry}
<1> DEFINE cached == [replay_ EXCEPT ![i] = entry]
<1>1. /\ cached \in [Id -> Entry \cup {None}] /\ cached[i] = entry
      /\ \A id \in Id \ {i} : cached[id] = replay_[id]
  BY DEF IInv, Types
<1>2. replay_' = cached \/ \E x : replay_' = [cached EXCEPT ![x] = None]
  BY DEF CacheResponse
<1> HIDE DEF cached
<1>3. QED
  BY <1>1, <1>2

LEMMA handleDrainRequestKeeps == ASSUME IInv, handleDrainRequest PROVE IInv'
<1> USE DEF pipeVars, trackerVars
<1> DEFINE m == Head(toSim)
           owner == ports_.owner
           accepted == IF ~m.typed \/ ports_ = None THEN 0
                       ELSE MinOf(m.amount, MinOf(Rate, steam[owner]))
           entry == [accepted |-> accepted, typed |-> m.typed,
                     owner |-> IF m.typed /\ ports_ # None THEN owner ELSE None]
<1>1. /\ m \in Message /\ m.type = "drain" /\ toSim' \in Seq(Message)
      /\ UNCHANGED <<epochs, ports_, pipeVars>>
  BY MailOfTail DEF handleDrainRequest, SimReceives, IInv, Types
<1>2. m.id \in Id /\ m.typed \in BOOLEAN /\ m.amount \in 1 .. MaxWant
  BY <1>1 DEF Message
<1>3. \/ replay_[m.id] # None
         /\ toPipe' = Send(toPipe, Response(m.id, replay_[m.id].accepted))
         /\ UNCHANGED <<steam, replay_, debit>>
      \/ /\ toPipe' = Send(toPipe, Response(m.id, accepted)) /\ CacheResponse(m.id, entry)
         /\ \/ /\ accepted > 0 /\ steam' = [steam EXCEPT ![owner] = @ - accepted]
               /\ debit' = [debit EXCEPT ![m.id] = Taken(@, owner, accepted)]
            \/ ~(accepted > 0) /\ UNCHANGED <<steam, debit>>
  BY DEF handleDrainRequest
<1>4. /\ accepted \in 0 .. MaxWant
      /\ accepted > 0 => owner \in Owner /\ accepted <= steam[owner] /\ steam[owner] \in 0 .. MaxSteam
  <2>1. CASE ~m.typed \/ ports_ = None
    BY <2>1, Bounds
  <2>2. CASE ~(~m.typed \/ ports_ = None)
    <3>1. owner \in Owner /\ steam[owner] \in 0 .. MaxSteam
      BY <2>2 DEF IInv, Types, Ports
    <3>2. QED
      BY <1>2, <2>2, <3>1, Bounds DEF MinOf
  <2>3. QED
    BY <2>1, <2>2
<1>5. entry \in Entry
  BY <1>2, <1>4 DEF Entry, IInv, Types, Ports
<1> HIDE DEF accepted, entry, m, owner
<1>6. CASE /\ replay_[m.id] # None
           /\ toPipe' = Send(toPipe, Response(m.id, replay_[m.id].accepted))
           /\ UNCHANGED <<steam, replay_, debit>>
  <2> DEFINE r == Response(m.id, replay_[m.id].accepted)
  <2>1. replay_[m.id] \in Entry
    BY <1>2, <1>6 DEF IInv, Types
  <2>2. r \in Message /\ r.accepted = replay_[m.id].accepted /\ r.id = m.id
    BY <1>2, <2>1 DEF Message, Response, Entry
  <2> HIDE DEF r
  <2>3. toPipe' \in Seq(Message) /\ Mail(toPipe') \subseteq Mail(toPipe) \cup {r}
    BY <1>6, <2>2, MailOfSend DEF IInv, Types, r
  <2>4. Types'
    BY <1>1, <1>6, <2>3 DEF IInv, Types
  <2>5. Backed' /\ CreditIsBacked'
    BY <1>1, <1>2, <1>6, <2>2, <2>3 DEF IInv, Backed, CreditIsBacked
  <2>6. QED
    BY <1>1, <2>4, <2>5, TrackerRests DEF IInv
<1>7. CASE /\ toPipe' = Send(toPipe, Response(m.id, accepted)) /\ CacheResponse(m.id, entry)
           /\ \/ /\ accepted > 0 /\ steam' = [steam EXCEPT ![owner] = @ - accepted]
                 /\ debit' = [debit EXCEPT ![m.id] = Taken(@, owner, accepted)]
              \/ ~(accepted > 0) /\ UNCHANGED <<steam, debit>>
  <2> DEFINE r == Response(m.id, accepted)
  <2>1. r \in Message /\ r.accepted = accepted /\ r.id = m.id
    BY <1>2, <1>4 DEF Message, Response
  <2> HIDE DEF r
  <2>2. toPipe' \in Seq(Message) /\ Mail(toPipe') \subseteq Mail(toPipe) \cup {r}
    BY <1>7, <2>1, MailOfSend DEF IInv, Types, r
  <2>3. /\ replay_' \in [Id -> Entry \cup {None}]
        /\ \A id \in Id \ {m.id} : replay_'[id] \in {None, replay_[id]}
        /\ replay_'[m.id] \in {None, entry}
    BY <1>2, <1>5, <1>7, Cached
  <2>4. entry.accepted = accepted
    BY DEF entry
  <2>5. /\ steam' \in [Owner -> 0 .. MaxSteam] /\ debit' \in [Id -> Debits]
        /\ \A id \in Id : debit[id].amount <= debit'[id].amount
        /\ accepted <= debit'[m.id].amount
    <3>1. debit[m.id] \in Debits /\ \A id \in Id : debit[id].amount \in Nat
      BY <1>2 DEF IInv, Types, Debits
    <3>2. CASE /\ accepted > 0 /\ steam' = [steam EXCEPT ![owner] = @ - accepted]
               /\ debit' = [debit EXCEPT ![m.id] = Taken(@, owner, accepted)]
      <4>1. steam[owner] - accepted \in 0 .. MaxSteam
        BY <1>4, <3>2, Bounds
      <4>2. /\ Taken(debit[m.id], owner, accepted) \in Debits
            /\ Taken(debit[m.id], owner, accepted).amount = debit[m.id].amount + accepted
        BY <1>4, <3>1, <3>2, Bounds DEF Taken, Debits
      <4>3. /\ debit' \in [Id -> Debits] /\ debit'[m.id] = Taken(debit[m.id], owner, accepted)
            /\ \A id \in Id \ {m.id} : debit'[id] = debit[id]
        BY <1>2, <3>2, <4>2 DEF IInv, Types
      <4>4. steam' \in [Owner -> 0 .. MaxSteam]
        BY <3>2, <4>1 DEF IInv, Types
      <4>5. debit'[m.id].amount = debit[m.id].amount + accepted
        BY <4>2, <4>3
      <4>6. QED
        BY <1>2, <1>4, <3>1, <4>3, <4>4, <4>5, Bounds
    <3>3. CASE ~(accepted > 0) /\ UNCHANGED <<steam, debit>>
      <4>1. accepted = 0
        BY <1>4, <3>3, Bounds
      <4>2. debit'[m.id].amount \in Nat
        BY <1>2, <3>1, <3>3
      <4>3. \A id \in Id : debit[id].amount <= debit'[id].amount
        BY <3>1, <3>3
      <4>4. steam' \in [Owner -> 0 .. MaxSteam] /\ debit' \in [Id -> Debits]
        BY <3>3 DEF IInv, Types
      <4>5. QED
        BY <4>1, <4>2, <4>3, <4>4
    <3>4. QED
      BY <1>7, <3>2, <3>3
  <2>6. Types'
    BY <1>1, <2>2, <2>3, <2>5 DEF IInv, Types
  <2>7. Backed'
    <3>1. \A x \in Mail(toPipe') : x.type = "response" =>
             x \in Mail(toPipe) \/ x.accepted <= debit'[x.id].amount
      BY <2>1, <2>2, <2>5
    <3>2. \A id \in Id : replay_'[id] \in {None, replay_[id]} \/ replay_'[id].accepted <= debit'[id].amount
      BY <2>3, <2>4, <2>5
    <3>3. QED
      BY <2>5, <2>6, <3>1, <3>2, BackedStays
  <2>8. CreditIsBacked'
    BY <1>1, <2>5, <2>6, CreditStays
  <2>9. QED
    BY <1>1, <2>6, <2>7, <2>8, TrackerRests DEF IInv
<1>8. QED
  BY <1>3, <1>6, <1>7

------------------------------------------------------------------------------
(* PipeNetwork's steps: what they share.                                    *)

\* The reservation side does not change what SimulationCore took.
LEMMA PipeSide ==
    ASSUME IInv, UNCHANGED simVars,
           toPipe' \in Seq(Message), Mail(toPipe') \subseteq Mail(toPipe)
    PROVE  Backed'
  BY DEF IInv, simVars, Backed

LEMMA PipeCredit ==
    ASSUME IInv, UNCHANGED simVars, credit' = credit PROVE CreditIsBacked'
  BY DEF IInv, simVars, CreditIsBacked

LEMMA SimTypes ==
    ASSUME IInv, UNCHANGED simVars,
           registered' \in [Owner -> Epoch], pending_' \in [Id -> Pendings \cup {None}],
           issued' \in 0 .. MaxReq, toPipe' \in Seq(Message), toSim' \in Seq(Message),
           answers' \in [Id -> Nat], credit' \in [Id -> Nat]
    PROVE  Types'
  BY DEF IInv, simVars, Types

LEMMA AnswerType == ASSUME IInv, NEW S, Answer(S) PROVE answers' \in [Id -> Nat]
  BY DEF IInv, Types, Answer

\* Marking pendings cancelled ends them and no others.
LEMMA CancelledEnds ==
    ASSUME IInv, NEW S \in SUBSET Id, \A id \in S : Live(id), pending_' = Cancelled(S)
    PROVE  /\ pending_' \in [Id -> Pendings \cup {None}]
           /\ \A id \in Id : pending_'[id] # None => pending_[id] # None
           /\ \A id \in Id : Live(id)' <=> Live(id) /\ id \notin S
<1>1. ASSUME NEW id \in S
      PROVE  /\ pending_'[id] \in Pendings /\ pending_'[id].cancelled /\ pending_[id] # None
             /\ ~Live(id)'
  <2>1. pending_[id] # None /\ pending_[id] \in Pendings
    BY DEF IInv, Types, Live
  <2>2. pending_'[id] = [pending_[id] EXCEPT !.cancelled = TRUE]
    BY DEF Cancelled
  <2>3. pending_'[id] \in Pendings /\ pending_'[id].cancelled
    BY <2>1, <2>2 DEF Pendings
  <2>4. QED
    BY <2>1, <2>3 DEF Live
<1>2. \A id \in Id \ S : pending_'[id] = pending_[id]
  BY DEF Cancelled
<1>3. pending_' \in [Id -> Pendings \cup {None}]
  <2>1. pending_' = [id \in Id |-> pending_'[id]]
    BY DEF Cancelled
  <2>2. \A id \in Id : pending_'[id] \in Pendings \cup {None}
    BY <1>1, <1>2 DEF IInv, Types
  <2>3. QED
    BY <2>1, <2>2
<1>4. \A id \in Id \ S : Live(id)' <=> Live(id)
  BY <1>2 DEF Live
<1>5. QED
  BY <1>1, <1>2, <1>3, <1>4

\* So does a step that does nothing else to the tracker.
LEMMA CancelKeeps ==
    ASSUME IInv, NEW S \in SUBSET Id, \A id \in S : Live(id), pending_' = Cancelled(S),
           Answer(S), UNCHANGED <<issued, credit, simVars>>,
           registered' \in [Owner -> Epoch], toSim' \in Seq(Message),
           toPipe' \in Seq(Message), Mail(toPipe') \subseteq Mail(toPipe)
    PROVE  IInv'
<1>1. Tracked'
  BY CancelledEnds, Settles
<1>2. answers' \in [Id -> Nat] /\ credit' \in [Id -> Nat] /\ issued' \in 0 .. MaxReq
  BY AnswerType DEF IInv, Types
<1>3. Types'
  BY <1>2, CancelledEnds, SimTypes
<1>4. QED
  BY <1>1, <1>3, PipeSide, PipeCredit DEF IInv

LEMMA LiveIsPending == ASSUME IInv, NEW id \in Id, Live(id) PROVE pending_[id] \in Pendings
  BY DEF IInv, Types, Live

------------------------------------------------------------------------------
(* PipeNetwork's steps.                                                     *)

LEMMA handleFluidConsumeRequestKeeps ==
    ASSUME IInv, NEW o \in Owner, NEW want \in 1 .. MaxWant, handleFluidConsumeRequest(o, want)
    PROVE  IInv'
<1>0. issued < MaxReq /\ issued \in Nat /\ issued + 1 \in Id
  BY Bounds DEF handleFluidConsumeRequest, Id, IInv, Types
<1>i. PICK i \in Id : i = issued + 1
  BY <1>0
<1> DEFINE p == [node |-> o, typed |-> registered[o] # 0, epoch |-> registered[o], shortfall |-> want,
                 ttl |-> Ttl, retries |-> 0, retry_in |-> RetryBase, cancelled |-> FALSE]
           m == [type |-> "drain", id |-> i, typed |-> registered[o] # 0, amount |-> want]
<1>1. /\ issued' = i /\ pending_' = [pending_ EXCEPT ![i] = p]
      /\ toSim' = Send(toSim, m)
      /\ UNCHANGED <<registered, answers, credit, simVars, toPipe>>
  BY <1>i DEF handleFluidConsumeRequest, planShortfall
<1>2. i \in Id /\ i \in 0 .. MaxReq /\ issued \in Nat /\ i = issued + 1
  BY <1>0, <1>i, Bounds DEF Id
<1>3. p \in Pendings /\ p # None /\ ~p.cancelled
  <2>1. registered[o] \in Epoch
    BY DEF IInv, Types
  <2>2. p \in Pendings
    BY <2>1, Bounds DEF Pendings
  <2>3. QED
    BY <2>2, EntryAssumption DEF Pendings
<1>4. m \in Message
  BY <1>2 DEF Message
<1> HIDE DEF p, m
<1>5. /\ pending_' \in [Id -> Pendings \cup {None}] /\ pending_'[i] = p
      /\ \A id \in Id \ {i} : pending_'[id] = pending_[id]
  BY <1>1, <1>2, <1>3 DEF IInv, Types
<1>6. toSim' \in Seq(Message)
  BY <1>1, <1>4, MailOfSend DEF IInv, Types
<1>7. Types'
  <2>1. /\ registered' \in [Owner -> Epoch] /\ issued' \in 0 .. MaxReq /\ toPipe' \in Seq(Message)
        /\ answers' \in [Id -> Nat] /\ credit' \in [Id -> Nat]
    BY <1>1, <1>2 DEF IInv, Types
  <2>2. QED
    BY <1>1, <1>5, <1>6, <2>1, SimTypes
<1>8. Tracked'
  <2>1. \A id \in Id : id # i => (id <= i <=> id <= issued)
    BY <1>2 DEF Id
  <2>2. Live(i)' /\ ~(i <= issued) /\ i <= i /\ i > issued
    <3>1. Live(i)'
      BY <1>3, <1>5 DEF Live
    <3>2. QED
      BY <1>2, <3>1
  <2>3. \A id \in Id \ {i} : Live(id)' <=> Live(id)
    BY <1>5 DEF Live
  <2>4. AnsweredOnce'
    <3> SUFFICES ASSUME NEW id \in Id
                 PROVE  answers[id] = IF id <= i /\ ~Live(id)' THEN 1 ELSE 0
      BY <1>1 DEF AnsweredOnce
    <3>1. answers[id] = IF id <= issued /\ ~Live(id) THEN 1 ELSE 0
      BY DEF IInv, Tracked, AnsweredOnce
    <3>2. QED
      BY <1>2, <2>1, <2>2, <2>3, <3>1
  <2>5. Planned'
    BY <1>1, <1>5, <2>1, <2>2 DEF IInv, Tracked, Planned
  <2>6. Uncredited'
    <3>1. \A id \in Id : id > i => id > issued
      BY <1>2 DEF Id
    <3>2. QED
      BY <1>1, <1>2, <2>2, <2>3, <3>1 DEF IInv, Tracked, Uncredited
  <2>7. QED
    BY <2>4, <2>5, <2>6 DEF Tracked
<1>9. QED
  BY <1>1, <1>7, <1>8, PipeSide, PipeCredit DEF IInv, Types

LEMMA BackoffIsInt == \A n \in Nat : drainRetryBackoffTicks(n + 1) \in Int
<1> SUFFICES ASSUME NEW n \in Nat PROVE drainRetryBackoffTicks(n + 1) \in Int
  OBVIOUS
<1>1. 2 ^ n \in Int /\ n + 1 - 1 = n
  OBVIOUS
<1>2. \A x \in Int : MinOf(RetryBase * x, RetryMax) \in Int
  BY Bounds DEF MinOf
<1>3. drainRetryBackoffTicks(n + 1) = MinOf(RetryBase * 2 ^ n, RetryMax)
  BY <1>1 DEF drainRetryBackoffTicks, Doubled
<1>4. QED
  BY <1>1, <1>2, <1>3

LEMMA TickKeeps == ASSUME IInv, Tick PROVE IInv'
<1> DEFINE again == {id \in Due : PortLive(pending_[id])}
           S == Expired \cup (Due \ again)
<1>1. /\ pending_' = [id \in Id |-> Ticked(id)] /\ Answer(S)
      /\ UNCHANGED <<registered, issued, credit, simVars, toPipe>>
      /\ \E order \in SetToSeqs(again) :
             toSim' = SendAll(toSim, [n \in 1 .. Len(order) |-> DrainAgain(order[n])])
  BY DEF Tick
<1>2. Due \subseteq Id /\ Expired \subseteq Id /\ \A id \in Due \cup Expired : Live(id)
  BY DEF Due, Expired
<1>3. ASSUME NEW id \in Id
      PROVE  /\ Ticked(id) \in Pendings \cup {None}
             /\ Ticked(id) # None => pending_[id] # None
             /\ Ticked(id) # None /\ ~Ticked(id).cancelled <=> Live(id) /\ id \notin S
  <2> DEFINE p == pending_[id]
             aged == [p EXCEPT !.ttl = Less(@), !.retry_in = Less(@)]
             due == [aged EXCEPT !.retries = @ + 1,
                                 !.retry_in = drainRetryBackoffTicks(p.retries + 1),
                                 !.cancelled = ~PortLive(p)]
  <2>1. Ticked(id) = IF p = None \/ p.ttl <= 1 THEN None ELSE IF id \in Due THEN due ELSE aged
    BY DEF Ticked
  <2>2. CASE p = None
    BY <2>1, <2>2 DEF Live
  <2>3. CASE p # None /\ p.ttl <= 1
    BY <2>1, <2>3 DEF Expired
  <2>4. CASE p # None /\ ~(p.ttl <= 1)
    <3>1. p \in Pendings /\ p.ttl \in 1 .. Ttl /\ p.ttl > 1 /\ id \notin Expired
      BY <2>4, Bounds DEF IInv, Types, Pendings, Expired
    <3>2. Less(p.ttl) \in 1 .. Ttl /\ Less(p.retry_in) \in Int
      BY <3>1, Bounds DEF Pendings, Less
    <3>3. aged \in Pendings /\ aged.cancelled = p.cancelled /\ aged.retries = p.retries
      BY <3>1, <3>2 DEF Pendings
    <3> HIDE DEF aged
    <3>4. CASE id \in Due
      <4>1. p.retries \in 0 .. MaxRetries /\ p.retries < MaxRetries /\ Live(id)
        BY <3>1, <3>4 DEF Due, Pendings
      <4>2. drainRetryBackoffTicks(p.retries + 1) \in Int
        BY <4>1, BackoffIsInt
      <4>3. PortLive(p) \in BOOLEAN
        BY DEF PortLive
      <4>4. due \in Pendings /\ due.cancelled = ~PortLive(p)
        <5> DEFINE b == ~PortLive(p)
                   n == aged.retries + 1
                   d == drainRetryBackoffTicks(p.retries + 1)
        <5>1. b \in BOOLEAN /\ n \in 0 .. MaxRetries /\ d \in Int
          BY <3>3, <4>1, <4>2, <4>3, Bounds
        <5>2. due = [aged EXCEPT !.retries = n, !.retry_in = d, !.cancelled = b]
          OBVIOUS
        <5> HIDE DEF b, n, d, due
        <5>3. due \in Pendings /\ due.cancelled = b
          BY <3>3, <5>1, <5>2 DEF Pendings
        <5>4. QED
          BY <5>3 DEF b
      <4> HIDE DEF due
      <4>5. due # None /\ Ticked(id) = due
        BY <2>1, <2>4, <3>4, <4>4, EntryAssumption DEF Pendings
      <4>6. id \in S <=> ~PortLive(p)
        BY <3>1, <3>4
      <4>7. QED
        BY <2>4, <4>1, <4>4, <4>5, <4>6
    <3>5. CASE id \notin Due
      <4>1. aged # None /\ Ticked(id) = aged
        BY <2>1, <2>4, <3>3, <3>5, EntryAssumption DEF Pendings
      <4>2. QED
        BY <2>4, <3>1, <3>3, <3>5, <4>1 DEF Live
    <3>6. QED
      BY <3>4, <3>5
  <2>5. QED
    BY <2>2, <2>3, <2>4
<1>4. toSim' \in Seq(Message)
  <2>1. PICK order \in SetToSeqs(again) :
            toSim' = SendAll(toSim, [n \in 1 .. Len(order) |-> DrainAgain(order[n])])
    BY <1>1
  <2>2. Cardinality(again) \in Nat
    <3>1. IsFiniteSet(Id)
      BY Bounds, FS_Interval, 1 \in Int, MaxReq \in Int DEF Id
    <3>2. again \subseteq Id
      BY <1>2
    <3>3. QED
      BY <3>1, <3>2, FS_Subset, FS_CardinalityType
  <2>3. order \in [1 .. Cardinality(again) -> again]
    BY DEF SetToSeqs
  <2>4. order \in Seq(again)
    BY <2>2, <2>3, SeqDef
  <2>5. Len(order) \in Nat /\ \A n \in 1 .. Len(order) : order[n] \in again
    BY <2>4
  <2>6. \A id \in again : DrainAgain(id) \in Message
    <3> SUFFICES ASSUME NEW id \in again PROVE DrainAgain(id) \in Message
      OBVIOUS
    <3>1. id \in Id /\ pending_[id] \in Pendings
      BY <1>2, LiveIsPending
    <3>2. QED
      BY <3>1 DEF DrainAgain, Message, Pendings
  <2>7. [n \in 1 .. Len(order) |-> DrainAgain(order[n])] \in Seq(Message)
    BY <2>5, <2>6, IsASeq
  <2>8. QED
    BY <2>1, <2>7, MailOfSendAll DEF IInv, Types
<1> HIDE DEF again, S
<1>5. /\ pending_' \in [Id -> Pendings \cup {None}]
      /\ \A id \in Id : pending_'[id] # None => pending_[id] # None
      /\ \A id \in Id : Live(id)' <=> Live(id) /\ id \notin S
  <2>1. \A id \in Id : pending_'[id] = Ticked(id)
    BY <1>1
  <2>2. QED
    BY <1>1, <1>3, <2>1 DEF Live
<1>6. S \in SUBSET Id /\ \A id \in S : Live(id)
  BY <1>2 DEF S, again
<1>7. Tracked'
  BY <1>1, <1>5, <1>6, Settles
<1>8. Types'
  <2>1. /\ answers' \in [Id -> Nat] /\ credit' \in [Id -> Nat] /\ issued' \in 0 .. MaxReq
        /\ registered' \in [Owner -> Epoch] /\ toPipe' \in Seq(Message)
    BY <1>1, AnswerType DEF IInv, Types
  <2>2. QED
    BY <1>1, <1>4, <1>5, <2>1, SimTypes
<1>9. QED
  BY <1>1, <1>7, <1>8, PipeSide, PipeCredit DEF IInv, Types

LEMMA PipeReceived ==
    ASSUME IInv, toPipe # <<>>, toPipe' = Tail(toPipe)
    PROVE  /\ Head(toPipe) \in Message /\ Head(toPipe) \in Mail(toPipe)
           /\ toPipe' \in Seq(Message) /\ Mail(toPipe') \subseteq Mail(toPipe)
  BY MailOfTail DEF IInv, Types

\* A tracker left alone by a step of PipeNetwork or of the network.
LEMMA RestKeeps ==
    ASSUME IInv, UNCHANGED <<issued, pending_, answers, credit, simVars>>,
           registered' \in [Owner -> Epoch], toSim' \in Seq(Message),
           toPipe' \in Seq(Message), Mail(toPipe') \subseteq Mail(toPipe)
    PROVE  IInv'
<1>1. Types'
  BY SimTypes DEF IInv, Types
<1>2. QED
  BY <1>1, TrackerRests, PipeSide, PipeCredit DEF IInv

LEMMA handleResourcePortRegisterKeeps == ASSUME IInv, handleResourcePortRegister PROVE IInv'
<1> DEFINE m == Head(toPipe)
           old == registered[m.owner]
           stale == StaleEpoch(m.owner, m.epoch)
<1>1. /\ m \in Message /\ m.type = "register"
      /\ toPipe' \in Seq(Message) /\ Mail(toPipe') \subseteq Mail(toPipe)
      /\ UNCHANGED <<issued, credit, simVars, toSim>>
      /\ registered' = [registered EXCEPT ![m.owner] = IF m.epoch < old THEN old ELSE m.epoch]
      /\ \/ pending_' = Cancelled(stale) /\ Answer(stale)
         \/ UNCHANGED <<pending_, answers>>
  BY PipeReceived DEF handleResourcePortRegister, PipeReceives
<1>2. m.owner \in Owner /\ m.epoch \in Epoch
  BY <1>1 DEF Message
<1>3. registered' \in [Owner -> Epoch] /\ toSim' \in Seq(Message)
  BY <1>1, <1>2 DEF IInv, Types
<1>4. stale \in SUBSET Id /\ \A id \in stale : Live(id)
  BY DEF StaleEpoch
<1> HIDE DEF m, old, stale
<1>5. QED
  BY <1>1, <1>3, <1>4, CancelKeeps, RestKeeps

LEMMA handleResourcePortRemoveKeeps == ASSUME IInv, handleResourcePortRemove PROVE IInv'
<1> DEFINE m == Head(toPipe)
           cleared == ForPort(m.owner)
<1>1. /\ m \in Message /\ m.type = "remove"
      /\ toPipe' \in Seq(Message) /\ Mail(toPipe') \subseteq Mail(toPipe)
      /\ UNCHANGED <<issued, credit, simVars, toSim>>
      /\ \/ /\ registered' = [registered EXCEPT ![m.owner] = 0]
            /\ pending_' = [id \in Id |-> IF id \in cleared THEN None ELSE pending_[id]]
            /\ Answer(cleared)
         \/ UNCHANGED <<registered, pending_, answers>>
  BY PipeReceived DEF handleResourcePortRemove, PipeReceives
<1>2. toSim' \in Seq(Message)
  BY <1>1 DEF IInv, Types
<1>3. cleared \in SUBSET Id /\ \A id \in cleared : Live(id)
  BY DEF ForPort
<1> HIDE DEF m, cleared
<1>4. CASE /\ registered' = [registered EXCEPT ![m.owner] = 0]
           /\ pending_' = [id \in Id |-> IF id \in cleared THEN None ELSE pending_[id]]
           /\ Answer(cleared)
  <2>1. registered' \in [Owner -> Epoch]
    <3>1. 0 \in Epoch
      BY Bounds DEF Epoch
    <3>2. QED
      BY <1>4, <3>1 DEF IInv, Types
  <2>2. /\ pending_' \in [Id -> Pendings \cup {None}]
        /\ \A id \in Id : pending_'[id] # None => pending_[id] # None
        /\ \A id \in Id : Live(id)' <=> Live(id) /\ id \notin cleared
    BY <1>4 DEF IInv, Types, Live
  <2>3. Tracked'
    BY <1>1, <1>3, <1>4, <2>2, Settles
  <2>4. answers' \in [Id -> Nat] /\ credit' \in [Id -> Nat] /\ issued' \in 0 .. MaxReq
    BY <1>1, <1>4, AnswerType DEF IInv, Types
  <2>5. Types'
    BY <1>1, <1>2, <2>1, <2>2, <2>4, SimTypes
  <2>6. QED
    BY <1>1, <2>3, <2>5, PipeSide, PipeCredit DEF IInv
<1>5. CASE UNCHANGED <<registered, pending_, answers>>
  BY <1>1, <1>2, <1>5, RestKeeps DEF IInv, Types
<1>6. QED
  BY <1>1, <1>4, <1>5

LEMMA handleResourceDrainResponseKeeps == ASSUME IInv, handleResourceDrainResponse PROVE IInv'
<1> DEFINE m == Head(toPipe)
           i == m.id
<1>1. /\ m \in Message /\ m \in Mail(toPipe) /\ m.type = "response"
      /\ toPipe' \in Seq(Message) /\ Mail(toPipe') \subseteq Mail(toPipe)
      /\ UNCHANGED <<registered, issued, simVars, toSim>>
      /\ \/ Live(i) /\ Apply(i, m.accepted)
         \/ Live(i) /\ pending_' = Cancelled({i}) /\ Answer({i}) /\ credit' = credit
         \/ UNCHANGED <<pending_, answers, credit>>
  BY PipeReceived DEF handleResourceDrainResponse, PipeReceives, trackerVars
<1>2. i \in Id /\ m.accepted \in 0 .. MaxWant
  BY <1>1 DEF Message
<1>3. toSim' \in Seq(Message) /\ registered' \in [Owner -> Epoch]
  BY <1>1 DEF IInv, Types
<1>4. m.accepted <= debit[i].amount
  BY <1>1 DEF IInv, Backed
<1> HIDE DEF m, i
<1>5. CASE Live(i) /\ Apply(i, m.accepted)
  <2> DEFINE c == MinOf(m.accepted, pending_[i].shortfall)
  <2>1. /\ pending_' = [pending_ EXCEPT ![i] = None] /\ Answer({i})
        /\ credit' = [credit EXCEPT ![i] = @ + c]
    BY <1>5 DEF Apply
  <2>2. c \in Nat /\ c <= m.accepted
    <3>1. pending_[i].shortfall \in 1 .. MaxWant
      BY <1>2, <1>5, LiveIsPending DEF Pendings
    <3>2. QED
      BY <1>2, <3>1, Bounds DEF MinOf
  <2>3. credit[i] = 0
    BY <1>2, <1>5 DEF IInv, Tracked, Uncredited
  <2> HIDE DEF c
  <2>4. /\ credit' \in [Id -> Nat] /\ credit'[i] = c
        /\ \A id \in Id \ {i} : credit'[id] = credit[id]
    BY <1>2, <2>1, <2>2, <2>3 DEF IInv, Types
  <2>5. /\ pending_' \in [Id -> Pendings \cup {None}]
        /\ \A id \in Id : pending_'[id] # None => pending_[id] # None
        /\ \A id \in Id : Live(id)' <=> Live(id) /\ id \notin {i}
    BY <1>2, <2>1 DEF IInv, Types, Live
  <2>6. Tracked'
    BY <1>1, <1>2, <1>5, <2>1, <2>4, <2>5, Settles
  <2>7. answers' \in [Id -> Nat] /\ issued' \in 0 .. MaxReq
    BY <1>1, <2>1, AnswerType DEF IInv, Types
  <2>8. Types'
    BY <1>1, <1>3, <2>4, <2>5, <2>7, SimTypes
  <2>9. CreditIsBacked'
    <3>1. debit' = debit /\ debit[i].amount \in Nat
      BY <1>1, <1>2 DEF simVars, IInv, Types, Debits
    <3>2. c <= debit[i].amount
      BY <1>2, <1>4, <2>2, <3>1, Bounds
    <3>3. QED
      BY <2>4, <3>1, <3>2 DEF IInv, CreditIsBacked
  <2>10. QED
    BY <1>1, <2>6, <2>8, <2>9, PipeSide DEF IInv
<1>6. CASE Live(i) /\ pending_' = Cancelled({i}) /\ Answer({i}) /\ credit' = credit
  BY <1>1, <1>2, <1>3, <1>6, CancelKeeps
<1>7. CASE UNCHANGED <<pending_, answers, credit>>
  BY <1>1, <1>3, <1>7, RestKeeps
<1>8. QED
  BY <1>1, <1>5, <1>6, <1>7

LEMMA BoilerNodeGoneKeeps == ASSUME IInv, NEW o \in Owner, BoilerNodeGone(o) PROVE IInv'
<1> DEFINE tied == ForNode(o)
<1>1. /\ pending_' = Cancelled(tied) /\ Answer(tied)
      /\ UNCHANGED <<registered, issued, credit, simVars, toPipe, toSim>>
  BY DEF BoilerNodeGone
<1>2. tied \in SUBSET Id /\ \A id \in tied : Live(id)
  BY DEF ForNode
<1> HIDE DEF tied
<1>3. QED
  BY <1>1, <1>2, CancelKeeps DEF IInv, Types

LEMMA SinkNodeGoneKeeps == ASSUME IInv, SinkNodeGone PROVE IInv'
<1> DEFINE tied == {id \in Id : Live(id)}
<1>1. /\ pending_' = Cancelled(tied) /\ Answer(tied)
      /\ UNCHANGED <<registered, issued, credit, simVars, toPipe, toSim>>
  BY DEF SinkNodeGone
<1>2. tied \in SUBSET Id /\ \A id \in tied : Live(id)
  OBVIOUS
<1> HIDE DEF tied
<1>3. QED
  BY <1>1, <1>2, CancelKeeps DEF IInv, Types

LEMMA LoseToPipeKeeps == ASSUME IInv, LoseToPipe PROVE IInv'
<1>1. UNCHANGED <<issued, pending_, answers, credit, simVars, registered, toSim>>
  BY DEF LoseToPipe, pipeVars, trackerVars
<1>2. toPipe' \in Seq(Message) /\ Mail(toPipe') \subseteq Mail(toPipe)
  BY PipeReceived DEF LoseToPipe
<1>3. QED
  BY <1>1, <1>2, RestKeeps DEF IInv, Types

LEMMA LoseToSimKeeps == ASSUME IInv, LoseToSim PROVE IInv'
<1>1. UNCHANGED <<issued, pending_, answers, credit, simVars, registered, toPipe>>
  BY DEF LoseToSim, pipeVars, trackerVars
<1>2. toSim' \in Seq(Message)
  BY MailOfTail DEF LoseToSim, IInv, Types
<1>3. QED
  BY <1>1, <1>2, RestKeeps DEF IInv, Types

------------------------------------------------------------------------------
(* The theorem.                                                             *)

LEMMA InitHolds == Init => IInv
<1> SUFFICES ASSUME Init PROVE IInv
  OBVIOUS
<1>1. Types
  <2>1. <<>> \in Seq(Message) /\ 0 \in 0 .. MaxSteam /\ 0 \in 0 .. MaxReq /\ 0 \in Epoch
    BY Bounds DEF Epoch
  <2>2. [amount |-> 0, times |-> 0, from |-> {}] \in Debits
    BY DEF Debits
  <2>3. epochs \in [Owner -> 1 .. MaxEpoch]
    <3>1. 1 \in 1 .. MaxEpoch
      BY Bounds
    <3>2. QED
      BY <3>1 DEF Init
  <2>4. QED
    BY <2>1, <2>2, <2>3 DEF Init, Types
<1>2. Tracked
  <2>1. \A id \in Id : ~(id <= 0)
    BY DEF Id
  <2>2. QED
    BY <2>1 DEF Init, Tracked, AnsweredOnce, Planned, Uncredited, Live
<1>3. Backed /\ CreditIsBacked
  BY DEF Init, Backed, Mail, CreditIsBacked
<1>4. QED
  BY <1>1, <1>2, <1>3 DEF IInv

LEMMA NextKeeps == IInv /\ [Next]_vars => IInv'
<1> SUFFICES ASSUME IInv, [Next]_vars PROVE IInv'
  OBVIOUS
<1>1. ASSUME NEW o \in Owner,
             \/ PlaceBoiler(o) \/ BoilerTick(o) \/ ReplacePort(o)
             \/ RemoveBoiler(o) \/ BoilerNodeGone(o)
      PROVE  IInv'
  BY <1>1, PlaceBoilerKeeps, BoilerTickKeeps, ReplacePortKeeps, RemoveBoilerKeeps, BoilerNodeGoneKeeps
<1>2. ASSUME NEW o \in Owner, NEW want \in 1 .. MaxWant, handleFluidConsumeRequest(o, want)
      PROVE  IInv'
  BY <1>2, handleFluidConsumeRequestKeeps
<1>3. CASE handlePortRegister \/ handlePortRemove \/ handleDrainRequest
  BY <1>3, handlePortRegisterKeeps, handlePortRemoveKeeps, handleDrainRequestKeeps
<1>4. CASE \/ handleResourcePortRegister \/ handleResourcePortRemove
           \/ handleResourceDrainResponse
  BY <1>4, handleResourcePortRegisterKeeps, handleResourcePortRemoveKeeps,
     handleResourceDrainResponseKeeps
<1>5. CASE Tick \/ SinkNodeGone \/ LoseToPipe \/ LoseToSim
  BY <1>5, TickKeeps, SinkNodeGoneKeeps, LoseToPipeKeeps, LoseToSimKeeps
<1>6. CASE UNCHANGED vars
  <2>1. UNCHANGED <<issued, pending_, answers, credit, simVars, registered, toPipe, toSim>>
    BY <1>6 DEF vars, pipeVars, trackerVars
  <2>2. QED
    BY <2>1, RestKeeps DEF IInv, Types
<1>7. QED
  BY <1>1, <1>2, <1>3, <1>4, <1>5, <1>6 DEF Next

\* Whatever is lost, retried, replayed, evicted or cancelled, a consume is
\* answered once, when it stops being live, and with no more steam than
\* SimulationCore took for its id.
THEOREM ConsumesSettleHolds == Spec => []ConsumesSettle
<1>1. IInv => ConsumesSettle
  BY DEF IInv, Tracked, ConsumesSettle
<1>2. QED
  BY <1>1, InitHolds, NextKeeps, PTL DEF Spec

------------------------------------------------------------------------------
(* The replay cache.                                                        *)

\* An id that was drained is cached or was forgotten.
Remembered == \A id \in Id : debit[id].times > 0 => replay_[id] # None \/ id \in forgotten

Memory == Remembered /\ TwiceOnlyIfForgotten

LEMMA MemoryRests == ASSUME Memory, UNCHANGED <<replay_, debit, forgotten>> PROVE Memory'
  BY DEF Memory, Remembered, TwiceOnlyIfForgotten

LEMMA MemoryForgets == ASSUME IInv, Memory, NEW S, Forget(S), debit' = debit PROVE Memory'
  BY DEF IInv, Types, Memory, Remembered, TwiceOnlyIfForgotten, Forget

\* A new entry is cached, and the entry it evicts is forgotten.
LEMMA CachedOrForgotten ==
    ASSUME IInv, NEW i \in Id, NEW entry \in Entry, CacheResponse(i, entry)
    PROVE  /\ forgotten \subseteq forgotten'
           /\ \A id \in Id : id = i \/ replay_[id] # None => replay_'[id] # None \/ id \in forgotten'
<1> DEFINE cached == [replay_ EXCEPT ![i] = entry]
<1>1. cached[i] # None /\ \A id \in Id \ {i} : cached[id] = replay_[id]
  BY EntryAssumption DEF IInv, Types
<1>2. cached \in [Id -> Entry \cup {None}]
  BY DEF IInv, Types
<1>3. \/ replay_' = cached /\ forgotten' = forgotten
      \/ \E x : replay_' = [cached EXCEPT ![x] = None] /\ forgotten' = forgotten \cup {x}
  BY DEF CacheResponse
<1> HIDE DEF cached
<1>4. QED
  BY <1>1, <1>2, <1>3

LEMMA DrainRemembers == ASSUME IInv, Memory, handleDrainRequest PROVE Memory'
<1> DEFINE m == Head(toSim)
           owner == ports_.owner
           accepted == IF ~m.typed \/ ports_ = None THEN 0
                       ELSE MinOf(m.amount, MinOf(Rate, steam[owner]))
           entry == [accepted |-> accepted, typed |-> m.typed,
                     owner |-> IF m.typed /\ ports_ # None THEN owner ELSE None]
<1>1. m \in Message /\ m.type = "drain"
  BY MailOfTail DEF handleDrainRequest, SimReceives, IInv, Types
<1>2. m.id \in Id /\ m.typed \in BOOLEAN /\ m.amount \in 1 .. MaxWant
  BY <1>1 DEF Message
<1>3. entry \in Entry
  <2>1. accepted \in 0 .. MaxWant
    <3>1. CASE ~m.typed \/ ports_ = None
      BY <3>1, Bounds
    <3>2. CASE ~(~m.typed \/ ports_ = None)
      <4>1. steam[owner] \in 0 .. MaxSteam
        BY <3>2 DEF IInv, Types, Ports
      <4>2. QED
        BY <1>2, <3>2, <4>1, Bounds DEF MinOf
    <3>3. QED
      BY <3>1, <3>2
  <2>2. QED
    BY <1>2, <2>1 DEF Entry, IInv, Types, Ports
<1>4. \/ UNCHANGED <<replay_, debit, forgotten>>
      \/ /\ replay_[m.id] = None /\ CacheResponse(m.id, entry)
         /\ \/ debit' = debit
            \/ debit' = [debit EXCEPT ![m.id] = Taken(@, owner, accepted)]
  BY DEF handleDrainRequest
<1> HIDE DEF m, owner, accepted, entry
<1>5. CASE UNCHANGED <<replay_, debit, forgotten>>
  BY <1>5, MemoryRests
<1>6. CASE replay_[m.id] = None /\ CacheResponse(m.id, entry) /\ debit' = debit
  BY <1>2, <1>3, <1>6, CachedOrForgotten DEF Memory, Remembered, TwiceOnlyIfForgotten
<1>7. CASE /\ replay_[m.id] = None /\ CacheResponse(m.id, entry)
           /\ debit' = [debit EXCEPT ![m.id] = Taken(@, owner, accepted)]
  <2>1. /\ debit'[m.id].times = debit[m.id].times + 1 /\ debit[m.id].times \in Nat
        /\ \A id \in Id \ {m.id} : debit'[id] = debit[id]
    BY <1>2, <1>7 DEF IInv, Types, Debits, Taken
  <2>2. debit[m.id].times > 0 => m.id \in forgotten
    BY <1>2, <1>7 DEF Memory, Remembered
  <2>3. /\ forgotten \subseteq forgotten'
        /\ \A id \in Id : id = m.id \/ replay_[id] # None => replay_'[id] # None \/ id \in forgotten'
    BY <1>2, <1>3, <1>7, CachedOrForgotten
  <2>4. Remembered'
    BY <2>1, <2>3 DEF Memory, Remembered
  <2>5. TwiceOnlyIfForgotten'
    BY <2>1, <2>2, <2>3 DEF Memory, TwiceOnlyIfForgotten
  <2>6. QED
    BY <2>4, <2>5 DEF Memory
<1>8. QED
  BY <1>4, <1>5, <1>6, <1>7

LEMMA NextRemembers == IInv /\ Memory /\ [Next]_vars => Memory'
<1> SUFFICES ASSUME IInv, Memory, [Next]_vars PROVE Memory'
  OBVIOUS
<1>1. ASSUME NEW o \in Owner, PlaceBoiler(o) \/ BoilerTick(o) \/ ReplacePort(o) \/ BoilerNodeGone(o)
      PROVE  Memory'
  BY <1>1, MemoryRests DEF PlaceBoiler, BoilerTick, ReplacePort, BoilerNodeGone, simVars
<1>2. ASSUME NEW o \in Owner, RemoveBoiler(o) PROVE Memory'
  BY <1>2, MemoryRests, MemoryForgets DEF RemoveBoiler
<1>3. ASSUME NEW o \in Owner, NEW want \in 1 .. MaxWant, handleFluidConsumeRequest(o, want)
      PROVE  Memory'
  BY <1>3, MemoryRests DEF handleFluidConsumeRequest, simVars
<1>4. CASE handlePortRemove
  BY <1>4, MemoryRests, MemoryForgets DEF handlePortRemove
<1>5. CASE handleDrainRequest
  BY <1>5, DrainRemembers
<1>6. CASE \/ handlePortRegister \/ Tick \/ SinkNodeGone \/ handleResourcePortRegister
           \/ handleResourcePortRemove \/ handleResourceDrainResponse \/ LoseToPipe \/ LoseToSim
  <2>1. UNCHANGED <<replay_, debit, forgotten>>
    BY <1>6 DEF handlePortRegister, Tick, SinkNodeGone, handleResourcePortRegister, LoseToSim,
       handleResourcePortRemove, handleResourceDrainResponse, LoseToPipe, simVars
  <2>2. QED
    BY <2>1, MemoryRests
<1>7. CASE UNCHANGED vars
  BY <1>7, MemoryRests DEF vars, simVars
<1>8. QED
  BY <1>1, <1>2, <1>3, <1>4, <1>5, <1>6, <1>7 DEF Next

\* Steam is taken twice for one request id only when the replay cache dropped
\* its answer in between, by eviction or with its port.
THEOREM TwiceOnlyIfForgottenHolds == Spec => []TwiceOnlyIfForgotten
<1>1. Init => Memory
  BY DEF Init, Memory, Remembered, TwiceOnlyIfForgotten
<1>2. Memory => TwiceOnlyIfForgotten
  BY DEF Memory
<1>3. QED
  BY <1>1, <1>2, InitHolds, NextKeeps, NextRemembers, PTL DEF Spec
==============================================================================
