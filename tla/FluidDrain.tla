------------------------------ MODULE FluidDrain ------------------------------
(***************************************************************************)
(* The shortfall drain: PipeNetwork serves a fluid consume from pipe       *)
(* buffers first and asks SimulationCore, which owns the boilers' steam,   *)
(* to drain the rest.                                                      *)
(*                                                                         *)
(* PipeNetwork side: PipeConsumeTracker                                    *)
(* (src/src/apps/pipe_network/PipeConsumeTransactions.h) and the handlers  *)
(* of PipeNetworkService.cpp that drive it.  SimulationCore side:          *)
(* ResourceDrainHandler (src/src/apps/simcore/Network) with its port       *)
(* registry and replay cache, and the boilers that register ports          *)
(* (src/src/game/machines).                                                *)
(*                                                                         *)
(* All messages pass through MessageRouter, which keeps one queue per      *)
(* subscriber for these topics: toPipe and toSim are FIFO, they lose       *)
(* messages, and SimulationCore's own publications come back to it in      *)
(* toSim.  Deadlines are kept as ticks left instead of absolute ticks.     *)
(* The part of a consume the pipes serve is already decided when a         *)
(* transaction starts; only the shortfall is modelled.                     *)
(***************************************************************************)
EXTENDS Integers, Sequences, FiniteSets, SequencesExt

CONSTANTS
    Owner,          \* boiler positions: EnTT entities, which survive their block
    None,           \* no port, no entry
    MaxReq,         \* bound on drain request ids
    MaxWant,        \* bound on a shortfall
    MaxSteam,       \* steam capacity of a boiler
    Rate,           \* drain rate of a port
    MaxEpoch,       \* bound on port epochs
    Ttl,            \* kPendingConsumeTtlTicks
    RetryBase,      \* kDrainRetryBaseBackoffTicks
    RetryMax,       \* kDrainRetryMaxBackoffTicks
    MaxRetries,     \* kMaxDrainRetries
    RejectBase,     \* kSourceRejectBaseBackoffTicks
    RejectMax,      \* kSourceRejectMaxBackoffTicks
    ReplayCap,      \* kReplayCacheMaxEntries
    QueueCap,       \* sendChSize of the router
    Lossy           \* whether connections lose messages

ASSUME NoneAssumption == None \notin Owner
ASSUME TickAssumption ==
    /\ {Ttl, RetryBase, RetryMax, RejectBase, RejectMax, QueueCap, MaxEpoch} \subseteq Nat \ {0}
    /\ {MaxReq, MaxWant, MaxSteam, Rate, MaxRetries, ReplayCap} \subseteq Nat
    /\ RetryBase <= RetryMax
ASSUME LossyAssumption == Lossy \in BOOLEAN

VARIABLES
    machine,        \* boilers whose block stands (MachineComponent present)
    steam,          \* SteamOutputComponent.steam_stored
    epochs,         \* PortEpochBook
    ports_,         \* ResourceDrainHandler: the entry of the steam port id
    replay_,        \* replay cache: id -> cached response
    replay_order_,  \* insertion order of the replay cache
    registered,     \* PipeNetworkManager: owner -> epoch, 0 when not registered
    pending_,       \* PipeConsumeTracker: id -> pending consume
    reject_backoff_,\* (node, typed) -> cooldown
    issued,         \* drain request ids minted (next_txn_id_)
    toPipe, toSim,  \* the two router queues
    air,            \* boilers whose block change PipeNetwork has not handled
    answers,        \* history: responses published for each consume
    credit,         \* history: source amount credited to each consume
    debit,          \* history: steam taken for each id, how often, from whom
    forgotten       \* history: ids whose cached response was dropped

simVars == <<machine, steam, epochs, ports_, replay_, replay_order_, debit, forgotten>>
trackerVars == <<pending_, reject_backoff_, answers, credit>>
pipeVars == <<registered, trackerVars, issued>>
vars == <<simVars, pipeVars, toPipe, toSim, air>>

Id == 1 .. MaxReq
Source == Owner \X BOOLEAN
NoCooldown == [left |-> 0, consecutive |-> 0]

\* Mutant: a full queue grows.
SendAllUnbounded(q, ms) == q \o ms

\* Router.Publish on a low-priority topic: a full queue drops its oldest frame
\* for the new one, so after several of them the last QueueCap remain.
SendAll(q, ms) ==
    LET all == q \o ms
    IN IF Len(all) <= QueueCap THEN all
       ELSE SubSeq(all, Len(all) - QueueCap + 1, Len(all))

Send(q, m) == SendAll(q, <<m>>)

MinOf(a, b) == IF a < b THEN a ELSE b

Init ==
    /\ machine = {}
    /\ steam = [o \in Owner |-> 0]
    /\ epochs = [o \in Owner |-> 1]
    /\ ports_ = None
    /\ replay_ = [id \in Id |-> None]
    /\ replay_order_ = <<>>
    /\ registered = [o \in Owner |-> 0]
    /\ pending_ = [id \in Id |-> None]
    /\ reject_backoff_ = [s \in Source |-> NoCooldown]
    /\ issued = 0
    /\ toPipe = <<>> /\ toSim = <<>> /\ air = {}
    /\ answers = [id \in Id |-> 0]
    /\ credit = [id \in Id |-> 0]
    /\ debit = [id \in Id |-> [amount |-> 0, times |-> 0, from |-> {}]]
    /\ forgotten = {}

------------------------------------------------------------------------------
(* SimulationCore: boilers.                                                 *)

\* A boiler block is placed: its steam component starts afresh.
PlaceBoiler(o) ==
    /\ o \notin machine
    /\ machine' = machine \cup {o}
    /\ steam' = [steam EXCEPT ![o] = 0]
    /\ UNCHANGED <<epochs, ports_, replay_, replay_order_, debit, forgotten,
                   pipeVars, toPipe, toSim, air>>

\* BoilerSystem's tick: steam may be made, the port is registered again.
BoilerTick(o) ==
    /\ o \in machine
    /\ \E made \in 0 .. MaxSteam - steam[o] :
          steam' = [steam EXCEPT ![o] = @ + made]
    /\ LET m == [type |-> "register", owner |-> o, epoch |-> epochs[o]]
       IN toPipe' = Send(toPipe, m) /\ toSim' = Send(toSim, m)
    /\ UNCHANGED <<machine, epochs, ports_, replay_, replay_order_, debit,
                   forgotten, pipeVars, air>>

\* BoilerSystem::replacePort().
ReplacePort(o) ==
    /\ epochs[o] < MaxEpoch
    /\ epochs' = [epochs EXCEPT ![o] = @ + 1]
    /\ UNCHANGED <<machine, steam, ports_, replay_, replay_order_, debit,
                   forgotten, pipeVars, toPipe, toSim, air>>

\* Drop the cached responses of a set of ids.
Forget(S) ==
    /\ replay_' = [id \in Id |-> IF id \in S THEN None ELSE replay_[id]]
    /\ forgotten' = forgotten \cup S

\* The boiler block goes: SimulationEngine::onBlockChanged() drops the machine
\* components (not the steam) and removeOwnerPorts() withdraws the ports that
\* ports_ holds for this owner; if there are none it returns at once.
RemoveBoiler(o) ==
    /\ o \in machine
    /\ machine' = machine \ {o}
    /\ air' = air \cup {o}
    /\ IF ports_ # None /\ ports_.owner = o
       THEN /\ LET m == [type |-> "remove", owner |-> o, epoch |-> ports_.epoch]
               IN toPipe' = Send(toPipe, m) /\ toSim' = Send(toSim, m)
            /\ ports_' = None
            /\ Forget({id \in Id : replay_[id] # None /\ replay_[id].owner = o})
       ELSE UNCHANGED <<toPipe, toSim, ports_, replay_, forgotten>>
    /\ UNCHANGED <<steam, epochs, replay_order_, debit, pipeVars>>

------------------------------------------------------------------------------
(* SimulationCore: ResourceDrainHandler.                                    *)

SimReceives(type) == toSim # <<>> /\ Head(toSim).type = type

\* handlePortRegister(): ports_ is keyed by the port id alone, and every boiler
\* uses the same id (kBoilerSteamSourcePortId).
handlePortRegister ==
    /\ SimReceives("register")
    /\ toSim' = Tail(toSim)
    /\ LET m == Head(toSim)
       IN ports_' = IF ports_ # None /\ m.epoch < ports_.epoch
                    THEN ports_
                    ELSE [owner |-> m.owner, epoch |-> m.epoch]
    /\ UNCHANGED <<machine, steam, epochs, replay_, replay_order_, debit,
                   forgotten, pipeVars, toPipe, air>>

\* handlePortRemove(): exact match only; the port's cached responses go too.
handlePortRemove ==
    /\ SimReceives("remove")
    /\ toSim' = Tail(toSim)
    /\ LET m == Head(toSim)
       IN IF ports_ = [owner |-> m.owner, epoch |-> m.epoch]
          THEN /\ ports_' = None
               /\ Forget({id \in Id : replay_[id] # None /\ replay_[id].typed})
          ELSE UNCHANGED <<ports_, replay_, forgotten>>
    /\ UNCHANGED <<machine, steam, epochs, replay_order_, debit, pipeVars, toPipe, air>>

\* cacheResponse(): the entry, and the id evicted when the cache is over its
\* capacity (the oldest id of replay_order_ that is still cached).
CacheResponse(id, entry) ==
    LET cached == [replay_ EXCEPT ![id] = entry]
        order == Append(replay_order_, id)
        live == {n \in 1 .. Len(order) : cached[order[n]] # None}
        oldest == CHOOSE n \in live : \A n2 \in live : n <= n2
    IN IF Cardinality({d \in Id : cached[d] # None}) <= ReplayCap
       THEN /\ replay_' = cached
            /\ replay_order_' = order
            /\ UNCHANGED forgotten
       ELSE /\ replay_' = [cached EXCEPT ![order[oldest]] = None]
            /\ replay_order_' = SubSeq(order, oldest + 1, Len(order))
            /\ forgotten' = forgotten \cup {order[oldest]}

Response(id, accepted) == [type |-> "response", id |-> id, accepted |-> accepted]

Taken(d, owner, accepted) ==
    [amount |-> d.amount + accepted, times |-> d.times + 1, from |-> d.from \cup {owner}]

\* Mutant: a repeated id is drained again.
handleDrainRequestNoReplay ==
    /\ SimReceives("drain")
    /\ toSim' = Tail(toSim)
    /\ LET m == Head(toSim)
           owner == ports_.owner
           accepted == IF ~m.typed \/ ports_ = None THEN 0
                       ELSE MinOf(m.amount, MinOf(Rate, steam[owner]))
       IN /\ toPipe' = Send(toPipe, Response(m.id, accepted))
          /\ CacheResponse(m.id, [accepted |-> accepted, typed |-> m.typed,
                                  owner |-> IF m.typed /\ ports_ # None THEN owner ELSE None])
          /\ IF accepted > 0
             THEN /\ steam' = [steam EXCEPT ![owner] = @ - accepted]
                  /\ debit' = [debit EXCEPT ![m.id] = Taken(@, owner, accepted)]
             ELSE UNCHANGED <<steam, debit>>
    /\ UNCHANGED <<machine, epochs, ports_, pipeVars, air>>

\* handleDrainRequest(): a cached id is answered from the cache; otherwise the
\* boiler that ports_ names is drained (it may have lost its block: its entity
\* and its steam are still there) and the answer is cached.
handleDrainRequest ==
    /\ SimReceives("drain")
    /\ toSim' = Tail(toSim)
    /\ LET m == Head(toSim)
           owner == ports_.owner
           accepted == IF ~m.typed \/ ports_ = None THEN 0
                       ELSE MinOf(m.amount, MinOf(Rate, steam[owner]))
       IN IF replay_[m.id] # None
          THEN /\ toPipe' = Send(toPipe, Response(m.id, replay_[m.id].accepted))
               /\ UNCHANGED <<steam, replay_, replay_order_, debit, forgotten>>
          ELSE /\ toPipe' = Send(toPipe, Response(m.id, accepted))
               /\ CacheResponse(m.id, [accepted |-> accepted, typed |-> m.typed,
                                       owner |-> IF m.typed /\ ports_ # None THEN owner ELSE None])
               /\ IF accepted > 0
                  THEN /\ steam' = [steam EXCEPT ![owner] = @ - accepted]
                       /\ debit' = [debit EXCEPT ![m.id] = Taken(@, owner, accepted)]
                  ELSE UNCHANGED <<steam, debit>>
    /\ UNCHANGED <<machine, epochs, ports_, pipeVars, air>>

------------------------------------------------------------------------------
(* PipeNetwork: PipeConsumeTracker and the handlers that drive it.          *)

Live(id) == pending_[id] # None /\ ~pending_[id].cancelled
Doubled(base, cap, n) == MinOf(base * 2 ^ n, cap)
drainRetryBackoffTicks(n) == Doubled(RetryBase, RetryMax, n - 1)
sourceRejectBackoffTicks(n) == Doubled(RejectBase, RejectMax, n - 1)

\* drainResponsePortLive(): untyped requests bypass the registry.
PortLive(p) == p.typed => registered[p.node] = p.epoch

\* Publish the (short-fill) answer of a set of consumes.
Answer(S) == answers' = [id \in Id |-> IF id \in S THEN answers[id] + 1 ELSE answers[id]]

\* Mark a set of pendings cancelled: they stay until their TTL.
Cancelled(S) ==
    [id \in Id |-> IF id \in S THEN [pending_[id] EXCEPT !.cancelled = TRUE]
                               ELSE pending_[id]]

\* planShortfall(): the pending recorded for a shortfall that a source is asked for.
planShortfall(o, want) ==
    [node |-> o, typed |-> registered[o] # 0, epoch |-> registered[o], shortfall |-> want,
     ttl |-> Ttl, retries |-> 0, retry_in |-> RetryBase, cancelled |-> FALSE]

\* The live pendings that a new epoch of a port leaves stale (cancelStaleEpoch()),
\* those a withdrawn port was asked for (clearForPort()), and those of a node that
\* goes (cancelForNode()).
StaleEpoch(o, epoch) == {id \in Id : Live(id) /\ pending_[id].typed /\ pending_[id].node = o
                                     /\ pending_[id].epoch # epoch}
ForPort(o) == {id \in Id : Live(id) /\ pending_[id].typed /\ pending_[id].node = o}
ForNode(o) == {id \in Id : Live(id) /\ pending_[id].node = o}

\* handleFluidConsumeRequest() that leaves a shortfall and finds a source to
\* ask: the node of a boiler, with its typed port when that is registered, and
\* not in its cooldown.  (Without one the consume is answered at once.)
handleFluidConsumeRequest(o, want) ==
    LET typed == registered[o] # 0
        id == issued + 1
    IN /\ issued < MaxReq
       /\ reject_backoff_[<<o, typed>>].left = 0
       /\ issued' = id
       /\ pending_' = [pending_ EXCEPT ![id] = planShortfall(o, want)]
       /\ toSim' = Send(toSim, [type |-> "drain", id |-> id, typed |-> typed, amount |-> want])
       /\ UNCHANGED <<registered, reject_backoff_, answers, credit, simVars, toPipe, air>>

Less(n) == IF n = 0 THEN 0 ELSE n - 1

\* Mutant: a cancelled pending is completed again when it expires.
ExpiredAgain == {id \in Id : pending_[id] # None /\ pending_[id].ttl <= 1}

\* Mutant: only pendings that were never retried are completed when they expire.
ExpiredUnretried == {id \in Id : Live(id) /\ pending_[id].ttl <= 1 /\ pending_[id].retries = 0}

\* expire(): live pendings past their deadline.
Expired == {id \in Id : Live(id) /\ pending_[id].ttl <= 1}

\* collectRetries(): pendings due for another publication this tick.
Due == {id \in Id : /\ Live(id)
                    /\ pending_[id].retries < MaxRetries
                    /\ pending_[id].retry_in <= 1
                    /\ pending_[id].ttl > 1}

\* One pending after a tick: scheduled again, cancelled or erased.
Ticked(id) ==
    LET p == pending_[id]
        aged == [p EXCEPT !.ttl = Less(@), !.retry_in = Less(@)]
        due == [aged EXCEPT !.retries = @ + 1,
                            !.retry_in = drainRetryBackoffTicks(p.retries + 1),
                            !.cancelled = ~PortLive(p)]
    IN IF p = None \/ p.ttl <= 1 THEN None
       ELSE IF id \in Due THEN due ELSE aged

DrainAgain(id) == [type |-> "drain", id |-> id, typed |-> pending_[id].typed,
                   amount |-> pending_[id].shortfall]

\* tick(): retries go out (in any order of the hash map) or are cancelled when
\* their port is gone, then the expired are completed with the pipe part.
\* Cooldowns run down.
Tick ==
    LET again == {id \in Due : PortLive(pending_[id])}
    IN /\ \E order \in SetToSeqs(again) :
             toSim' = SendAll(toSim, [n \in 1 .. Len(order) |-> DrainAgain(order[n])])
       /\ pending_' = [id \in Id |-> Ticked(id)]
       /\ Answer(Expired \cup (Due \ again))
       /\ reject_backoff_' = [s \in Source |->
             [reject_backoff_[s] EXCEPT !.left = Less(@)]]
       /\ UNCHANGED <<registered, issued, credit, simVars, toPipe, air>>

PipeReceives(type) == toPipe # <<>> /\ Head(toPipe).type = type

\* handleResourcePortRegister(): epochs never go back; a new epoch cancels the
\* pendings bound to the old one and ends the port's cooldown.
handleResourcePortRegister ==
    /\ PipeReceives("register")
    /\ toPipe' = Tail(toPipe)
    /\ LET m == Head(toPipe)
           old == registered[m.owner]
           stale == StaleEpoch(m.owner, m.epoch)
       IN /\ registered' = [registered EXCEPT ![m.owner] = IF m.epoch < old THEN old ELSE m.epoch]
          /\ IF old # 0 /\ old < m.epoch
             THEN /\ pending_' = Cancelled(stale)
                  /\ Answer(stale)
                  /\ reject_backoff_' = [reject_backoff_ EXCEPT ![<<m.owner, TRUE>>] = NoCooldown]
             ELSE UNCHANGED <<pending_, answers, reject_backoff_>>
    /\ UNCHANGED <<issued, credit, simVars, toSim, air>>

\* handleResourcePortRemove(): exact epoch only; clearForPort() completes and
\* erases the live pendings of the port.
handleResourcePortRemove ==
    /\ PipeReceives("remove")
    /\ toPipe' = Tail(toPipe)
    /\ LET m == Head(toPipe)
           cleared == ForPort(m.owner)
       IN IF registered[m.owner] = m.epoch
          THEN /\ registered' = [registered EXCEPT ![m.owner] = 0]
               /\ pending_' = [id \in Id |-> IF id \in cleared THEN None ELSE pending_[id]]
               /\ Answer(cleared)
               /\ reject_backoff_' = [reject_backoff_ EXCEPT ![<<m.owner, TRUE>>] = NoCooldown]
          ELSE UNCHANGED <<registered, pending_, answers, reject_backoff_>>
    /\ UNCHANGED <<issued, credit, simVars, toSim, air>>

\* noteSourceRejection() or clearSourceRejection() after an applied answer.
NoteAnswer(source, accepted) ==
    LET n == MinOf(reject_backoff_[source].consecutive + 1, 32)
    IN reject_backoff_' = [reject_backoff_ EXCEPT ![source] =
          IF accepted = 0
          THEN [left |-> sourceRejectBackoffTicks(n), consecutive |-> n]
          ELSE NoCooldown]

\* Mutant: a zero answer is completed as if the shortfall had been drained.
ApplyShortfall(id, accepted) ==
    /\ pending_' = [pending_ EXCEPT ![id] = None]
    /\ Answer({id})
    /\ credit' = [credit EXCEPT ![id] = @ + pending_[id].shortfall]
    /\ NoteAnswer(<<pending_[id].node, pending_[id].typed>>, accepted)

\* applyDrainResponse() of a live pending: erase it, credit the clamped amount.
Apply(id, accepted) ==
    /\ pending_' = [pending_ EXCEPT ![id] = None]
    /\ Answer({id})
    /\ credit' = [credit EXCEPT ![id] = @ + MinOf(accepted, pending_[id].shortfall)]
    /\ NoteAnswer(<<pending_[id].node, pending_[id].typed>>, MinOf(accepted, pending_[id].shortfall))

\* handleResourceDrainResponse(): a response whose port is gone or redefined
\* cancels the pending; one for an unknown or cancelled id is dropped.
handleResourceDrainResponse ==
    /\ PipeReceives("response")
    /\ toPipe' = Tail(toPipe)
    /\ LET id == Head(toPipe).id
       IN \/ /\ Live(id) /\ PortLive(pending_[id])
             /\ Apply(id, Head(toPipe).accepted)
          \/ /\ Live(id) /\ ~PortLive(pending_[id])
             /\ pending_' = Cancelled({id})
             /\ Answer({id})
             /\ UNCHANGED <<reject_backoff_, credit>>
          \/ /\ ~Live(id)
             /\ UNCHANGED trackerVars
    /\ UNCHANGED <<registered, issued, simVars, toSim, air>>

\* handleBlockChanged() to air at a boiler's node: cancelForNode().
BoilerNodeGone(o) ==
    /\ o \in air
    /\ air' = air \ {o}
    /\ pending_' = Cancelled(ForNode(o)) /\ Answer(ForNode(o))
    /\ reject_backoff_' = [s \in Source |-> IF s[1] = o THEN NoCooldown ELSE reject_backoff_[s]]
    /\ UNCHANGED <<registered, issued, credit, simVars, toPipe, toSim>>

\* The same at the consumer's node, the sink of every pending.
SinkNodeGone ==
    /\ LET tied == {id \in Id : Live(id)}
       IN pending_' = Cancelled(tied) /\ Answer(tied)
    /\ UNCHANGED <<registered, reject_backoff_, issued, credit, simVars, toPipe, toSim, air>>

------------------------------------------------------------------------------
(* The network.                                                             *)

LoseToPipe ==
    /\ Lossy /\ toPipe # <<>>
    /\ toPipe' = Tail(toPipe)
    /\ UNCHANGED <<simVars, pipeVars, toSim, air>>

LoseToSim ==
    /\ Lossy /\ toSim # <<>>
    /\ toSim' = Tail(toSim)
    /\ UNCHANGED <<simVars, pipeVars, toPipe, air>>

Next ==
    \/ \E o \in Owner : \/ PlaceBoiler(o) \/ BoilerTick(o) \/ ReplacePort(o)
                        \/ RemoveBoiler(o) \/ BoilerNodeGone(o)
                        \/ \E want \in 1 .. MaxWant : handleFluidConsumeRequest(o, want)
    \/ handlePortRegister \/ handlePortRemove \/ handleDrainRequest
    \/ Tick \/ SinkNodeGone
    \/ handleResourcePortRegister \/ handleResourcePortRemove
    \/ handleResourceDrainResponse
    \/ LoseToPipe \/ LoseToSim

Spec == Init /\ [][Next]_vars

\* scheduleTick() arms the service timer again after every tick; nothing else
\* is assumed, not even that messages are delivered.
FairSpec == Spec /\ WF_vars(Tick)

------------------------------------------------------------------------------
(* Properties.                                                              *)

Epoch == 0 .. MaxEpoch
Pending == [node : Owner, typed : BOOLEAN, epoch : Epoch, shortfall : 1 .. MaxWant,
            ttl : 1 .. Ttl, retries : 0 .. MaxRetries, retry_in : Nat, cancelled : BOOLEAN]
Message ==
    [type : {"register", "remove"}, owner : Owner, epoch : Epoch] \cup
    [type : {"drain"}, id : Id, typed : BOOLEAN, amount : 1 .. MaxWant] \cup
    [type : {"response"}, id : Id, accepted : 0 .. MaxWant]
Entry == [accepted : 0 .. MaxWant, typed : BOOLEAN, owner : Owner \cup {None}]

\* Absence is told from every entry that may be there.
ASSUME EntryAssumption ==
    None \notin Entry \cup [owner : Owner, epoch : Epoch]
                \cup [node : Owner, typed : BOOLEAN, epoch : Epoch, shortfall : 1 .. MaxWant,
                      ttl : 1 .. Ttl, retries : 0 .. MaxRetries, retry_in : Int,
                      cancelled : BOOLEAN]

\* Type invariant.
TypeOK ==
    /\ machine \in SUBSET Owner
    /\ steam \in [Owner -> 0 .. MaxSteam]
    /\ epochs \in [Owner -> 1 .. MaxEpoch]
    /\ ports_ \in [owner : Owner, epoch : Epoch] \cup {None}
    /\ replay_ \in [Id -> Entry \cup {None}]
    /\ replay_order_ \in Seq(Id)
    /\ registered \in [Owner -> Epoch]
    /\ pending_ \in [Id -> Pending \cup {None}]
    /\ reject_backoff_ \in [Source -> [left : Nat, consecutive : 0 .. 32]]
    /\ issued \in 0 .. MaxReq
    /\ toPipe \in Seq(Message) /\ Len(toPipe) <= QueueCap
    /\ toSim \in Seq(Message) /\ Len(toSim) <= QueueCap
    /\ answers \in [Id -> Nat]
    /\ credit \in [Id -> Nat]
    /\ debit \in [Id -> [amount : Nat, times : Nat, from : SUBSET Owner]]
    /\ forgotten \in SUBSET Id
    /\ air \in SUBSET Owner

\* The tracker's promise that a consume is "never completed twice": whichever
\* of response, retry, expiry, cancellation and port removal come, and in any
\* order, one answer at most is published for it, and exactly one once it is
\* no longer live.
AnsweredOnce ==
    \A id \in Id : answers[id] = IF id <= issued /\ ~Live(id) THEN 1 ELSE 0

\* A consume is credited no more steam than was taken from boilers for it,
\* whatever is lost, retried, replayed or evicted.
CreditIsBacked == \A id \in Id : credit[id] <= debit[id].amount

\* A consume settles: one answer, and no more steam in it than was drained.
ConsumesSettle == AnsweredOnce /\ CreditIsBacked

\* The replay cache makes retries safe as long as it remembers: an id is
\* debited twice only if its cached response was purged or evicted in between.
TwiceOnlyIfForgotten == \A id \in Id : debit[id].times > 1 => id \in forgotten

\* "a retry re-uses the SAME request id, which the owner's replay cache answers
\* exactly once, so a retry can never double debit".
NeverDoubleDebit == \A id \in Id : debit[id].times <= 1

\* The steam credited to a consume comes from the boiler whose port the request
\* was planned against ("owner_id disambiguates instances of the same family").
DebitsTheOwner ==
    \A id \in Id : pending_[id] # None => debit[id].from \subseteq {pending_[id].node}

\* "Publishes ResourcePortRemove for every port of owner_id": once a boiler is
\* gone and every message has been handled, PipeNetwork has no port of it.
RemovedIsUnregistered ==
    toPipe = <<>> /\ toSim = <<>> =>
        \A o \in Owner : o \notin machine => registered[o] = 0

\* A consumer never hangs: every planned consume is answered, with no more
\* than the service's timer to rely on.
ConsumeAnswered == \A id \in Id : issued >= id ~> answers[id] >= 1
==============================================================================
